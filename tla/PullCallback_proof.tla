------------------------- MODULE PullCallback_proof -------------------------
(***************************************************************************)
(* Proofs about PullCallback: every state satisfies Boundaries and         *)
(* ClientReleased, for every number of batches and of frames.              *)
(*                                                                         *)
(* The argument follows one token.  A "next" request is in exactly one     *)
(* place: with the session, in the generator, on the wire as its answer,   *)
(* in response_queue or in the consumer's hands.  A frame of a batch is on *)
(* the wire before the answer that closes the batch, so it is in cb_queue  *)
(* when the answer is taken, and join() waits for it.                      *)
(***************************************************************************)
EXTENDS PullCallback, TLAPS, SequenceTheorems

-----------------------------------------------------------------------------
(* The inductive invariant. *)

Pcs == {"start", "init", "loop", "parked", "join", "yielded", "clean", "cancel", "done"}
Answers == {"value", "done", "error"}
Texts == Answers \cup {"noresp", "closed"}
Msg == [type : Answers \cup {"frame"}, batch : Nat]
Requests == {"next", "cancel"}
Outcomes == {"none", "unsubscribed", "failed", "abandoned", "closed", "value", "done", "error", "noresp", "left"}

CallType ==
    [pc : Pcs, ended : BOOLEAN, queue : Seq(Texts), got : Nat, outcome : Outcomes]
SessionType ==
    [open : BOOLEAN, rq : Seq(Requests), hpc : {"idle", "anext"}, active : BOOLEAN,
     tracked : BOOLEAN, unsub : BOOLEAN, made : 0..MaxBatches, fired : 0..MaxFrames]

(* The types of all variables; no batch is counted before it was made. *)
TypeInv ==
    /\ cl \in CallType /\ ss \in SessionType
    /\ holds \subseteq {"settle", "status", "cbsub", "rsub", "task"}
    /\ cbq \in Seq(Msg) /\ busy \in Seq(Msg) /\ wire \in Seq(Msg)
    /\ init \in {"none", "sent", "answered", "refused", "dropped"}
    /\ silent \subseteq {"late", "killed", "stopped"}
    /\ cl.got <= ss.made

(* The consumer is in its loop, or before it; it has nothing outstanding. *)
Live == cl.pc \in {"start", "init", "loop", "parked", "join", "yielded"}
Idle == cl.pc \in {"start", "init", "loop", "yielded"}

(* No request waits at the session; no answer is in w, or in the queue q; no
   message in w belongs to a batch. *)
NoNext(rq) == \A i \in 1..Len(rq) : rq[i] # "next"
OnlyFrames(w) == \A i \in 1..Len(w) : w[i].type = "frame"
NoAnswer(q) == \A i \in 1..Len(q) : q[i] \notin Answers
NoBatch(w) == \A i \in 1..Len(w) : w[i].batch = 0

(* What the answer of a kind says about the session. *)
Counted(type) ==
    /\ type = "value" => ss.made = cl.got + 1
    /\ type # "value" => ss.made = cl.got /\ ~ss.active

(* The session has no request in its hands. *)
Quiet == NoNext(ss.rq) /\ ss.hpc = "idle"

(* At most one request is on its way, asked for when all batches so far were
   processed; a cancel comes from a call that is over. *)
RequestInv ==
    /\ \A i, j \in 1..Len(ss.rq) : ss.rq[i] = "next" /\ ss.rq[j] = "next" => i = j
    /\ \A i \in 1..Len(ss.rq) : ss.rq[i] = "next" => ss.made = cl.got
    /\ \A i \in 1..Len(ss.rq) : ss.rq[i] = "cancel" => cl.pc = "done"
    /\ ss.hpc = "anext" => NoNext(ss.rq) /\ ss.made = cl.got /\ ss.active

(* A frame belongs to the batch that the consumer waits for, or to none. *)
InStep(w, n) == \A i \in 1..Len(w) : w[i].batch \in {0, n + 1}
FrameInv == InStep(wire, cl.got) /\ InStep(cbq, cl.got) /\ InStep(busy, cl.got)

IdleInv ==
    Idle => /\ Quiet /\ ss.made = cl.got
            /\ OnlyFrames(wire) /\ NoAnswer(cl.queue)
            /\ NoBatch(wire) /\ NoBatch(cbq) /\ NoBatch(busy)

(* The answer of a live call on the wire is the only one, and no frame of a
   batch comes after it. *)
WireInv ==
    Live => \A i \in 1..Len(wire) : wire[i].type # "frame" =>
        /\ Quiet /\ cl.pc = "parked" /\ NoAnswer(cl.queue) /\ Counted(wire[i].type)
        /\ \A j \in 1..Len(wire) : /\ j # i => wire[j].type = "frame"
                                   /\ j > i => wire[j].batch = 0

QueueInv ==
    Live => \A i \in 1..Len(cl.queue) : cl.queue[i] \in Answers =>
        /\ Quiet /\ cl.pc = "parked" /\ OnlyFrames(wire) /\ NoBatch(wire) /\ Counted(cl.queue[i])
        /\ \A j \in 1..Len(cl.queue) : cl.queue[j] \in Answers => j = i

JoinInv ==
    cl.pc = "join" =>
        /\ Quiet /\ OnlyFrames(wire) /\ NoBatch(wire) /\ NoAnswer(cl.queue)
        /\ cl.outcome \in {"value", "done"} /\ Counted(cl.outcome)

(* A loop that ended normally: nothing of a batch is left anywhere. *)
EndInv ==
    cl.pc \in {"clean", "cancel", "done"} /\ cl.outcome = "done" =>
        /\ ss.hpc = "idle" /\ Counted("done")
        /\ NoBatch(wire) /\ NoBatch(cbq) /\ NoBatch(busy)

(* A loop runs only after the answer of the init call, which opens one session. *)
InitInv ==
    cl.pc \in {"loop", "parked", "join", "yielded", "clean", "cancel"} \/ (cl.pc = "done" /\ cl.outcome = "done")
        => init = "answered"

HoldsInv ==
    /\ cl.pc = "cancel" => holds \subseteq {"rsub"}
    /\ ClientReleased

Inv ==
    /\ TypeInv /\ RequestInv /\ FrameInv /\ IdleInv /\ WireInv
    /\ QueueInv /\ JoinInv /\ EndInv /\ InitInv /\ HoldsInv


-----------------------------------------------------------------------------
(* Sequences. *)

(* What Append does, index by index. *)
LEMMA AppendFacts ==
  ASSUME NEW S, NEW s \in Seq(S), NEW e \in S
  PROVE  /\ Append(s, e) \in Seq(S) /\ Len(s) \in Nat /\ Len(Append(s, e)) = Len(s) + 1
         /\ Append(s, e)[Len(s) + 1] = e
         /\ \A i \in 1..Len(s) : Append(s, e)[i] = s[i]
  OBVIOUS

(* What Tail does, index by index. *)
LEMMA TailFacts ==
  ASSUME NEW S, NEW s \in Seq(S), s # <<>>
  PROVE  /\ Tail(s) \in Seq(S) /\ Head(s) \in S /\ Head(s) = s[1]
         /\ Len(s) \in Nat /\ Len(s) > 0 /\ Len(Tail(s)) = Len(s) - 1
         /\ \A i \in 1..Len(Tail(s)) : Tail(s)[i] = s[i + 1] /\ i + 1 \in 1..Len(s)
  OBVIOUS

(* The predicates on messages hold of a longer sequence when they hold of the
   new message. *)
LEMMA AppendMsg ==
  ASSUME NEW w \in Seq(Msg), NEW m \in Msg
  PROVE  /\ Append(w, m) \in Seq(Msg)
         /\ NoBatch(w) /\ m.batch = 0 => NoBatch(Append(w, m))
         /\ OnlyFrames(w) /\ m.type = "frame" => OnlyFrames(Append(w, m))
         /\ \A n \in Nat : InStep(w, n) /\ m.batch \in {0, n + 1} => InStep(Append(w, m), n)
  BY AppendFacts DEF NoBatch, OnlyFrames, InStep

(* They hold of the rest, and of the first message. *)
LEMMA TailMsg ==
  ASSUME NEW w \in Seq(Msg), w # <<>>
  PROVE  /\ Tail(w) \in Seq(Msg) /\ Head(w) \in Msg
         /\ NoBatch(w) => NoBatch(Tail(w)) /\ Head(w).batch = 0
         /\ OnlyFrames(w) => OnlyFrames(Tail(w)) /\ Head(w).type = "frame"
         /\ \A n \in Nat : InStep(w, n) => InStep(Tail(w), n) /\ Head(w).batch \in {0, n + 1}
  BY TailFacts DEF NoBatch, OnlyFrames, InStep

(* The same for requests and for queued answers. *)
LEMMA AppendText ==
  ASSUME NEW S, NEW q \in Seq(S), NEW t \in S
  PROVE  /\ Append(q, t) \in Seq(S)
         /\ NoNext(q) /\ t # "next" => NoNext(Append(q, t))
         /\ NoAnswer(q) /\ t \notin Answers => NoAnswer(Append(q, t))
  BY AppendFacts DEF NoNext, NoAnswer

(* Their rests. *)
LEMMA TailText ==
  ASSUME NEW S, NEW q \in Seq(S), q # <<>>
  PROVE  /\ Tail(q) \in Seq(S) /\ Head(q) \in S
         /\ NoNext(q) => NoNext(Tail(q)) /\ Head(q) # "next"
         /\ NoAnswer(q) => NoAnswer(Tail(q)) /\ Head(q) \notin Answers
  BY TailFacts DEF NoNext, NoAnswer

(* They hold of no message, and of one. *)
LEMMA ShortMsg ==
  /\ <<>> \in Seq(Msg) /\ NoBatch(<<>>) /\ NoNext(<<>>) /\ (\A n \in Nat : InStep(<<>>, n))
  /\ \A m \in Msg : /\ <<m>> \in Seq(Msg)
                    /\ m.batch = 0 => NoBatch(<<m>>)
                    /\ \A n \in Nat : m.batch \in {0, n + 1} => InStep(<<m>>, n)
  BY DEF NoBatch, NoNext, InStep

(* What the generator sends. *)
LEMMA SentMsg ==
  /\ \A t \in {"value", "done", "error"} : Response(t) \in Msg /\ Response(t).type = t /\ Response(t).batch = 0
  /\ \A n \in Nat : Frame(n) \in Msg /\ Frame(n).type = "frame" /\ Frame(n).batch = n
  BY DEF Response, Frame, Msg, Answers

-----------------------------------------------------------------------------
(* Steps. *)

(* The fields that the invariant is about. *)
Fields ==
    /\ cl.got \in Nat /\ ss.made \in Nat /\ ss.active \in BOOLEAN
    /\ cl.queue \in Seq(Texts) /\ ss.rq \in Seq(Requests)
    /\ wire \in Seq(Msg) /\ cbq \in Seq(Msg) /\ busy \in Seq(Msg)

(* The type invariant gives their types. *)
LEMMA FieldTypes == ASSUME TypeInv PROVE Fields
  BY DEF TypeInv, Fields, CallType, SessionType


(* Start preserves the invariant. *)
LEMMA StartStep == ASSUME Inv, Start PROVE Inv'
<1>1. TypeInv /\ Fields
  BY FieldTypes DEF Inv
<1>2. CASE conn = "down"
  <2>1. /\ cl.pc = "start" /\ cl'.pc = "done" /\ cl'.ended = cl.ended /\ cl'.queue = cl.queue /\ cl'.got = cl.got
        /\ cl'.outcome = "unsubscribed" /\ ss' = ss /\ holds' = {"task"} /\ cbq' = cbq /\ busy' = busy
        /\ wire' = wire /\ init' = init /\ silent' = silent
    BY <1>1, <1>2 DEF Start, Done, consumer, session, TypeInv, CallType, SessionType
  <2>2. cl' \in CallType
    BY <1>1, <1>2 DEF Start, Done, consumer, session, TypeInv, CallType, Pcs, Outcomes
  <2>3. TypeInv'
    BY <1>1, <2>1, <2>2 DEF TypeInv, Fields
  <2>4. WireInv' /\ QueueInv'
    BY <1>1, <2>1, <2>2 DEF Inv, Fields, WireInv, Live, Quiet, Counted, QueueInv
  <2>5. RequestInv' /\ FrameInv' /\ IdleInv' /\ JoinInv' /\ EndInv' /\ InitInv' /\ HoldsInv'
    BY <1>1, <2>1, <2>2 DEF Inv, TypeInv, Fields, RequestInv, FrameInv, IdleInv, Idle, Quiet, JoinInv,
       Counted, EndInv, InitInv, HoldsInv, ClientReleased
  <2>. QED  BY <2>3, <2>4, <2>5 DEF Inv
<1>3. CASE conn # "down"
  <2>1. /\ cl.pc = "start" /\ init' \in {"sent", "dropped"} /\ silent' \subseteq silent \cup {"late"}
        /\ cl'.pc = "init" /\ cl'.ended = cl.ended /\ cl'.queue = cl.queue /\ cl'.got = cl.got
        /\ cl'.outcome = cl.outcome /\ ss' = ss /\ holds' = {"task", "cbsub", "settle"} /\ cbq' = cbq
        /\ busy' = busy /\ wire' = wire
    BY <1>1, <1>3 DEF Start, Done, consumer, session, TypeInv, CallType, SessionType
  <2>2. cl' \in CallType
    BY <1>1, <1>3 DEF Start, Done, consumer, session, TypeInv, CallType, Pcs, Outcomes
  <2>3. TypeInv'
    BY <1>1, <2>1, <2>2 DEF TypeInv, Fields
  <2>4. WireInv' /\ QueueInv'
    BY <1>1, <2>1, <2>2 DEF Inv, Fields, WireInv, Live, Quiet, Counted, QueueInv
  <2>5. RequestInv' /\ FrameInv' /\ IdleInv' /\ JoinInv' /\ EndInv' /\ InitInv' /\ HoldsInv'
    BY <1>1, <2>1, <2>2 DEF Inv, TypeInv, Fields, RequestInv, FrameInv, IdleInv, Idle, Quiet, JoinInv,
       Counted, EndInv, InitInv, HoldsInv, ClientReleased
  <2>. QED  BY <2>3, <2>4, <2>5 DEF Inv
<1>. QED  BY <1>2, <1>3

(* InitRaised preserves the invariant. *)
LEMMA InitRaisedStep == ASSUME Inv, InitRaised PROVE Inv'
<1>1. TypeInv /\ Fields
  BY FieldTypes DEF Inv
<1>2. /\ cl.pc = "init" /\ cl'.pc = "done" /\ cl'.ended = cl.ended /\ cl'.queue = cl.queue /\ cl'.got = cl.got
      /\ cl'.outcome = "failed" /\ ss' = ss /\ holds' = {} /\ cbq' = <<>> /\ busy' = <<>> /\ wire' = wire
      /\ init' = init /\ silent' = silent
  BY <1>1 DEF InitRaised, Done, consumer, session, TypeInv, CallType, SessionType
<1>3. cl' \in CallType
  BY <1>1 DEF InitRaised, Done, consumer, session, TypeInv, CallType, Pcs, Outcomes
<1>4. TypeInv'
  BY <1>1, <1>2, <1>3, ShortMsg DEF TypeInv, Fields
<1>5. FrameInv'
  BY <1>1, <1>2, <1>3, ShortMsg DEF Inv, Fields, FrameInv
<1>6. IdleInv'
  BY <1>1, <1>2, <1>3, ShortMsg DEF Inv, Fields, IdleInv, Idle, Quiet
<1>7. EndInv'
  BY <1>1, <1>2, <1>3, ShortMsg DEF Inv, Fields, EndInv, Counted
<1>8. InitInv'
  BY <1>1, <1>2, <1>3 DEF Inv, TypeInv, InitInv
<1>9. HoldsInv'
  BY <1>1, <1>2, <1>3 DEF Inv, TypeInv, HoldsInv, ClientReleased
<1>10. WireInv' /\ QueueInv'
  BY <1>1, <1>2, <1>3 DEF Inv, Fields, WireInv, Live, Quiet, Counted, QueueInv
<1>11. RequestInv' /\ JoinInv'
  BY <1>1, <1>2, <1>3 DEF Inv, Fields, RequestInv, JoinInv, Quiet, Counted
<1>. QED  BY <1>4, <1>5, <1>6, <1>7, <1>8, <1>9, <1>10, <1>11 DEF Inv

(* AbandonInit preserves the invariant. *)
LEMMA AbandonInitStep == ASSUME Inv, AbandonInit PROVE Inv'
<1>1. TypeInv /\ Fields
  BY FieldTypes DEF Inv
<1>2. /\ cl.pc = "init" /\ cl'.pc = "done" /\ cl'.ended = cl.ended /\ cl'.queue = cl.queue /\ cl'.got = cl.got
      /\ cl'.outcome = "abandoned" /\ ss' = ss /\ holds' = holds /\ cbq' = cbq /\ busy' = busy /\ wire' = wire
      /\ init' = init /\ silent' = silent
  BY <1>1 DEF AbandonInit, Done, consumer, session, TypeInv, CallType, SessionType
<1>3. cl' \in CallType
  BY <1>1 DEF AbandonInit, Done, consumer, session, TypeInv, CallType, Pcs, Outcomes
<1>4. TypeInv'
  BY <1>1, <1>2, <1>3 DEF TypeInv, Fields
<1>5. WireInv' /\ QueueInv'
  BY <1>1, <1>2, <1>3 DEF Inv, Fields, WireInv, Live, Quiet, Counted, QueueInv
<1>6. RequestInv' /\ FrameInv' /\ IdleInv' /\ JoinInv' /\ EndInv' /\ InitInv' /\ HoldsInv'
  BY <1>1, <1>2, <1>3 DEF Inv, TypeInv, Fields, RequestInv, FrameInv, IdleInv, Idle, Quiet, JoinInv,
     Counted, EndInv, InitInv, HoldsInv, ClientReleased
<1>. QED  BY <1>4, <1>5, <1>6 DEF Inv

(* InitAnswered preserves the invariant. *)
LEMMA InitAnsweredStep == ASSUME Inv, InitAnswered PROVE Inv'
<1>1. TypeInv /\ Fields
  BY FieldTypes DEF Inv
<1>2. CASE conn = "down"
  <2>1. /\ cl.pc = "init" /\ init = "answered" /\ cl'.pc = "done" /\ cl'.ended = cl.ended /\ cl'.queue = cl.queue
        /\ cl'.got = cl.got /\ cl'.outcome = "unsubscribed" /\ ss' = ss /\ holds' = holds /\ cbq' = cbq
        /\ busy' = busy /\ wire' = wire /\ init' = init /\ silent' = silent
    BY <1>1, <1>2 DEF InitAnswered, Done, consumer, session, TypeInv, CallType, SessionType
  <2>2. cl' \in CallType
    BY <1>1, <1>2 DEF InitAnswered, Done, consumer, session, TypeInv, CallType, Pcs, Outcomes
  <2>3. TypeInv'
    BY <1>1, <2>1, <2>2 DEF TypeInv, Fields
  <2>4. WireInv' /\ QueueInv'
    BY <1>1, <2>1, <2>2 DEF Inv, Fields, WireInv, Live, Quiet, Counted, QueueInv
  <2>5. RequestInv' /\ FrameInv' /\ IdleInv' /\ JoinInv' /\ EndInv' /\ InitInv' /\ HoldsInv'
    BY <1>1, <2>1, <2>2 DEF Inv, TypeInv, Fields, RequestInv, FrameInv, IdleInv, Idle, Quiet, JoinInv,
       Counted, EndInv, InitInv, HoldsInv, ClientReleased
  <2>. QED  BY <2>3, <2>4, <2>5 DEF Inv
<1>3. CASE conn # "down"
  <2>1. /\ cl.pc = "init" /\ init = "answered" /\ cl'.pc = "loop" /\ cl'.ended = cl.ended /\ cl'.queue = cl.queue
        /\ cl'.got = cl.got /\ cl'.outcome = cl.outcome /\ ss' = ss /\ holds' = holds \cup {"rsub", "status"}
        /\ cbq' = cbq /\ busy' = busy /\ wire' = wire /\ init' = init /\ silent' = silent
    BY <1>1, <1>3 DEF InitAnswered, Done, consumer, session, TypeInv, CallType, SessionType
  <2>2. cl' \in CallType
    BY <1>1, <1>3 DEF InitAnswered, Done, consumer, session, TypeInv, CallType, Pcs, Outcomes
  <2>3. TypeInv'
    BY <1>1, <2>1, <2>2 DEF TypeInv, Fields
  <2>4. WireInv' /\ QueueInv'
    BY <1>1, <2>1, <2>2 DEF Inv, Fields, WireInv, Live, Quiet, Counted, QueueInv
  <2>5. RequestInv' /\ FrameInv' /\ IdleInv' /\ JoinInv' /\ EndInv' /\ InitInv' /\ HoldsInv'
    BY <1>1, <2>1, <2>2 DEF Inv, TypeInv, Fields, RequestInv, FrameInv, IdleInv, Idle, Quiet, JoinInv,
       Counted, EndInv, InitInv, HoldsInv, ClientReleased
  <2>. QED  BY <2>3, <2>4, <2>5 DEF Inv
<1>. QED  BY <1>2, <1>3

(* PublishNext preserves the invariant. *)
LEMMA PublishNextStep == ASSUME Inv, PublishNext PROVE Inv'
<1>1. TypeInv /\ Fields
  BY FieldTypes DEF Inv
<1>2. CASE conn = "down"
  <2>1. /\ cl.pc = "loop" /\ cl'.pc = "clean" /\ cl'.ended = cl.ended /\ cl'.queue = cl.queue /\ cl'.got = cl.got
        /\ cl'.outcome = "closed" /\ ss' = ss /\ holds' = holds /\ cbq' = cbq /\ busy' = busy /\ wire' = wire
        /\ init' = init /\ silent' = silent
    BY <1>1, <1>2 DEF PublishNext, consumer, session, TypeInv, CallType, SessionType
  <2>2. cl' \in CallType
    BY <1>1, <1>2 DEF PublishNext, consumer, session, TypeInv, CallType, Pcs, Outcomes
  <2>3. TypeInv'
    BY <1>1, <2>1, <2>2 DEF TypeInv, Fields
  <2>4. RequestInv'
    BY <1>1, <2>1, <2>2 DEF Inv, Fields, RequestInv, IdleInv, Idle, Quiet, Requests
  <2>5. WireInv'
    BY <1>1, <2>1, <2>2 DEF Inv, Fields, WireInv, Live, Quiet, Counted, IdleInv, Idle, OnlyFrames, NoNext, NoAnswer
  <2>6. QueueInv'
    BY <1>1, <2>1, <2>2 DEF Inv, Fields, QueueInv, Live, Quiet, Counted, IdleInv, Idle, OnlyFrames, NoNext,
       NoAnswer, NoBatch
  <2>7. FrameInv' /\ IdleInv' /\ JoinInv' /\ EndInv' /\ InitInv' /\ HoldsInv'
    BY <1>1, <2>1, <2>2 DEF Inv, TypeInv, Fields, FrameInv, IdleInv, Idle, Quiet, JoinInv, Counted, EndInv,
       InitInv, HoldsInv, ClientReleased
  <2>. QED  BY <2>3, <2>4, <2>5, <2>6, <2>7 DEF Inv
<1>3. CASE conn # "down" /\ ss.open
  <2>1. /\ cl.pc = "loop" /\ cl'.pc = "parked" /\ cl'.ended = cl.ended /\ cl'.queue = cl.queue /\ cl'.got = cl.got
        /\ cl'.outcome = cl.outcome /\ ss'.open = ss.open /\ ss'.rq = Append(ss.rq, "next") /\ ss'.hpc = ss.hpc
        /\ ss'.active = ss.active /\ ss'.tracked = ss.tracked /\ ss'.unsub = ss.unsub /\ ss'.made = ss.made
        /\ ss'.fired = ss.fired /\ holds' = holds /\ cbq' = cbq /\ busy' = busy /\ wire' = wire /\ init' = init
        /\ silent' = silent
    BY <1>1, <1>3 DEF PublishNext, consumer, session, TypeInv, CallType, SessionType
  <2>2. cl' \in CallType
    BY <1>1, <1>3 DEF PublishNext, consumer, session, TypeInv, CallType, Pcs, Outcomes
  <2>3. Append(ss.rq, "next") \in Seq(Requests)
    BY <1>1, <2>1, AppendText DEF TypeInv, Fields, CallType, SessionType, Answers, Texts, Requests, Outcomes
  <2>4. ss' \in SessionType
    BY <1>1, <1>3, <2>3 DEF PublishNext, consumer, session, TypeInv, SessionType
  <2>5. TypeInv'
    BY <1>1, <2>1, <2>2, <2>3, <2>4, AppendText DEF TypeInv, Fields
  <2>6. RequestInv'
    BY <1>1, <2>1, <2>2, <2>3, <2>4, AppendText, AppendFacts DEF Inv, Fields, RequestInv, IdleInv, Idle,
       Quiet, NoNext, Requests
  <2>7. IdleInv'
    BY <1>1, <2>1, <2>2, <2>3, <2>4, AppendText DEF Inv, Fields, IdleInv, Idle, Quiet
  <2>8. WireInv'
    BY <1>1, <2>1, <2>2, <2>3, <2>4, AppendText DEF Inv, Fields, WireInv, Live, Quiet, Counted, IdleInv,
       Idle, OnlyFrames, NoNext, NoAnswer
  <2>9. QueueInv'
    BY <1>1, <2>1, <2>2, <2>3, <2>4, AppendText DEF Inv, Fields, QueueInv, Live, Quiet, Counted, IdleInv,
       Idle, OnlyFrames, NoNext, NoAnswer, NoBatch
  <2>10. JoinInv'
    BY <1>1, <2>1, <2>2, <2>3, <2>4, AppendText DEF Inv, Fields, JoinInv, Quiet, Counted
  <2>11. InitInv'
    BY <1>1, <2>1, <2>2, <2>3, <2>4 DEF Inv, TypeInv, InitInv
  <2>12. HoldsInv'
    BY <1>1, <2>1, <2>2, <2>3, <2>4 DEF Inv, TypeInv, HoldsInv, ClientReleased
  <2>13. FrameInv' /\ EndInv'
    BY <1>1, <2>1, <2>2, <2>3, <2>4 DEF Inv, Fields, FrameInv, EndInv, Counted
  <2>. QED  BY <2>5, <2>6, <2>7, <2>8, <2>9, <2>10, <2>11, <2>12, <2>13 DEF Inv
<1>4. CASE conn # "down" /\ ~ss.open
  <2>1. /\ cl.pc = "loop" /\ cl'.pc = "parked" /\ cl'.ended = cl.ended /\ cl'.queue = cl.queue /\ cl'.got = cl.got
        /\ cl'.outcome = cl.outcome /\ ss' = ss /\ holds' = holds /\ cbq' = cbq /\ busy' = busy /\ wire' = wire
        /\ init' = init /\ silent' = silent
    BY <1>1, <1>4 DEF PublishNext, consumer, session, TypeInv, CallType, SessionType
  <2>2. cl' \in CallType
    BY <1>1, <1>4 DEF PublishNext, consumer, session, TypeInv, CallType, Pcs, Outcomes
  <2>3. TypeInv'
    BY <1>1, <2>1, <2>2 DEF TypeInv, Fields
  <2>4. RequestInv'
    BY <1>1, <2>1, <2>2 DEF Inv, Fields, RequestInv, IdleInv, Idle, Quiet, Requests
  <2>5. WireInv'
    BY <1>1, <2>1, <2>2 DEF Inv, Fields, WireInv, Live, Quiet, Counted, IdleInv, Idle, OnlyFrames, NoNext, NoAnswer
  <2>6. QueueInv'
    BY <1>1, <2>1, <2>2 DEF Inv, Fields, QueueInv, Live, Quiet, Counted, IdleInv, Idle, OnlyFrames, NoNext,
       NoAnswer, NoBatch
  <2>7. FrameInv' /\ IdleInv' /\ JoinInv' /\ EndInv' /\ InitInv' /\ HoldsInv'
    BY <1>1, <2>1, <2>2 DEF Inv, TypeInv, Fields, FrameInv, IdleInv, Idle, Quiet, JoinInv, Counted, EndInv,
       InitInv, HoldsInv, ClientReleased
  <2>. QED  BY <2>3, <2>4, <2>5, <2>6, <2>7 DEF Inv
<1>. QED  BY <1>2, <1>3, <1>4

(* Get preserves the invariant. *)
LEMMA GetStep == ASSUME Inv, Get PROVE Inv'
<1>1. TypeInv /\ Fields
  BY FieldTypes DEF Inv
<1>2. CASE Head(cl.queue) \in {"value", "done"}
  <2>1. /\ cl.pc = "parked" /\ cl.queue # <<>> /\ Head(cl.queue) \in {"value", "done"} /\ cl'.pc = "join"
        /\ cl'.ended = cl.ended /\ cl'.queue = Tail(cl.queue) /\ cl'.got = cl.got /\ cl'.outcome = Head(cl.queue)
        /\ ss' = ss /\ holds' = holds /\ cbq' = cbq /\ busy' = busy /\ wire' = wire /\ init' = init
        /\ silent' = silent
    BY <1>1, <1>2 DEF Get, consumer, session, TypeInv, CallType, SessionType
  <2>2. Tail(cl.queue) \in Seq(Texts) /\ Head(cl.queue) \in Outcomes
    BY <1>1, <2>1, TailText DEF TypeInv, Fields, CallType, SessionType, Answers, Texts, Requests, Outcomes
  <2>3. cl' \in CallType
    BY <1>1, <1>2, <2>2 DEF Get, consumer, session, TypeInv, CallType, Pcs, Outcomes
  <2>4. TypeInv'
    BY <1>1, <2>1, <2>2, <2>3, TailText DEF TypeInv, Fields
  <2>5. IdleInv'
    BY <1>1, <2>1, <2>2, <2>3, TailText DEF Inv, Fields, IdleInv, Idle, Quiet
  <2>6. WireInv'
    BY <1>1, <2>1, <2>2, <2>3, TailText, TailFacts DEF Inv, Fields, WireInv, Live, Quiet, Counted, NoAnswer,
       Answers
  <2>7. QueueInv'
    <3>1. /\ Len(cl.queue) \in Nat /\ 1 \in 1..Len(cl.queue) /\ cl.queue[1] \in Answers
          /\ \A j \in 1..Len(cl'.queue) : j + 1 \in 1..Len(cl.queue) /\ cl'.queue[j] = cl.queue[j + 1] /\ j + 1 # 1
      BY <1>1, <2>1, TailFacts DEF Fields, Answers
    <3>2. \A j \in 1..Len(cl.queue) : cl.queue[j] \in Answers => j = 1
      BY <3>1, <2>1 DEF Inv, QueueInv, Live
    <3>. QED  BY <3>1, <3>2 DEF QueueInv
  <2>8. JoinInv'
    BY <1>1, <2>1, <2>2, <2>3, TailText DEF Inv, Fields, JoinInv, Quiet, Counted, QueueInv, Live, NoAnswer, Answers
  <2>9. InitInv'
    BY <1>1, <2>1, <2>2, <2>3 DEF Inv, TypeInv, InitInv
  <2>10. HoldsInv'
    BY <1>1, <2>1, <2>2, <2>3 DEF Inv, TypeInv, HoldsInv, ClientReleased
  <2>11. RequestInv' /\ FrameInv' /\ EndInv'
    BY <1>1, <2>1, <2>2, <2>3 DEF Inv, Fields, RequestInv, FrameInv, EndInv, Counted
  <2>. QED  BY <2>4, <2>5, <2>6, <2>7, <2>8, <2>9, <2>10, <2>11 DEF Inv
<1>3. CASE Head(cl.queue) \notin {"value", "done"}
  <2>1. /\ cl.pc = "parked" /\ cl.queue # <<>> /\ Head(cl.queue) \notin {"value", "done"} /\ cl'.pc = "clean"
        /\ cl'.ended = cl.ended /\ cl'.queue = Tail(cl.queue) /\ cl'.got = cl.got /\ cl'.outcome = Head(cl.queue)
        /\ ss' = ss /\ holds' = holds /\ cbq' = cbq /\ busy' = busy /\ wire' = wire /\ init' = init
        /\ silent' = silent
    BY <1>1, <1>3 DEF Get, consumer, session, TypeInv, CallType, SessionType
  <2>2. Tail(cl.queue) \in Seq(Texts) /\ Head(cl.queue) \in Outcomes
    BY <1>1, <2>1, TailText DEF TypeInv, Fields, CallType, SessionType, Answers, Texts, Requests, Outcomes
  <2>3. cl' \in CallType
    BY <1>1, <1>3, <2>2 DEF Get, consumer, session, TypeInv, CallType, Pcs, Outcomes
  <2>4. TypeInv'
    BY <1>1, <2>1, <2>2, <2>3, TailText DEF TypeInv, Fields
  <2>5. IdleInv'
    BY <1>1, <2>1, <2>2, <2>3, TailText DEF Inv, Fields, IdleInv, Idle, Quiet
  <2>6. WireInv'
    BY <1>1, <2>1, <2>2, <2>3, TailText, TailFacts DEF Inv, Fields, WireInv, Live, Quiet, Counted, NoAnswer,
       Answers
  <2>7. QueueInv'
    BY <1>1, <2>1, <2>2, <2>3, TailText, TailFacts DEF Inv, Fields, QueueInv, Live, Quiet, Counted, Answers
  <2>8. JoinInv'
    BY <1>1, <2>1, <2>2, <2>3, TailText DEF Inv, Fields, JoinInv, Quiet, Counted, QueueInv, Live, NoAnswer, Answers
  <2>9. InitInv'
    BY <1>1, <2>1, <2>2, <2>3 DEF Inv, TypeInv, InitInv
  <2>10. HoldsInv'
    BY <1>1, <2>1, <2>2, <2>3 DEF Inv, TypeInv, HoldsInv, ClientReleased
  <2>11. RequestInv' /\ FrameInv' /\ EndInv'
    BY <1>1, <2>1, <2>2, <2>3 DEF Inv, Fields, RequestInv, FrameInv, EndInv, Counted
  <2>. QED  BY <2>4, <2>5, <2>6, <2>7, <2>8, <2>9, <2>10, <2>11 DEF Inv
<1>. QED  BY <1>2, <1>3

(* Join preserves the invariant. *)
LEMMA JoinStep == ASSUME Inv, Join PROVE Inv'
<1>1. TypeInv /\ Fields
  BY FieldTypes DEF Inv
<1>2. CASE cl.outcome = "value"
  <2>1. /\ cl.pc = "join" /\ cbq = <<>> /\ busy = <<>> /\ cl.outcome = "value" /\ cl'.pc = "yielded"
        /\ cl'.ended = cl.ended /\ cl'.queue = cl.queue /\ cl'.got = cl.got + 1 /\ cl'.outcome = "none"
        /\ ss' = ss /\ holds' = holds /\ cbq' = cbq /\ busy' = busy /\ wire' = wire /\ init' = init
        /\ silent' = silent
    BY <1>1, <1>2 DEF Join, consumer, session, TypeInv, CallType, SessionType
  <2>2. cl.got + 1 \in Nat
    BY <1>1, <2>1 DEF TypeInv, Fields, CallType, SessionType, Answers, Texts, Requests, Outcomes
  <2>3. cl' \in CallType
    BY <1>1, <1>2, <2>2 DEF Join, consumer, session, TypeInv, CallType, Pcs, Outcomes
  <2>4. TypeInv'
    BY <1>1, <2>1, <2>2, <2>3 DEF Inv, TypeInv, Fields, JoinInv, Counted
  <2>5. RequestInv'
    BY <1>1, <2>1, <2>2, <2>3 DEF Inv, Fields, RequestInv, JoinInv, Quiet, Counted
  <2>6. FrameInv'
    BY <1>1, <2>1, <2>2, <2>3 DEF Inv, Fields, FrameInv, JoinInv, Quiet, Counted, NoBatch, InStep
  <2>7. IdleInv'
    BY <1>1, <2>1, <2>2, <2>3, ShortMsg DEF Inv, Fields, IdleInv, Idle, Quiet, JoinInv, Counted
  <2>8. WireInv'
    BY <1>1, <2>1, <2>2, <2>3 DEF Inv, Fields, WireInv, Live, Quiet, Counted, JoinInv, OnlyFrames, NoNext, NoAnswer
  <2>9. QueueInv'
    BY <1>1, <2>1, <2>2, <2>3 DEF Inv, Fields, QueueInv, Live, Quiet, Counted, JoinInv, OnlyFrames, NoNext,
       NoAnswer, NoBatch
  <2>10. EndInv'
    BY <1>1, <2>1, <2>2, <2>3, ShortMsg DEF Inv, Fields, EndInv, Counted, JoinInv, Quiet
  <2>11. JoinInv' /\ InitInv' /\ HoldsInv'
    BY <1>1, <2>1, <2>2, <2>3 DEF Inv, TypeInv, Fields, JoinInv, Quiet, Counted, InitInv, HoldsInv, ClientReleased
  <2>. QED  BY <2>4, <2>5, <2>6, <2>7, <2>8, <2>9, <2>10, <2>11 DEF Inv
<1>3. CASE cl.outcome # "value"
  <2>1. /\ cl.pc = "join" /\ cbq = <<>> /\ busy = <<>> /\ cl.outcome # "value" /\ cl'.pc = "clean"
        /\ cl'.ended = cl.ended /\ cl'.queue = cl.queue /\ cl'.got = cl.got /\ cl'.outcome = cl.outcome
        /\ ss' = ss /\ holds' = holds /\ cbq' = cbq /\ busy' = busy /\ wire' = wire /\ init' = init
        /\ silent' = silent
    BY <1>1, <1>3 DEF Join, consumer, session, TypeInv, CallType, SessionType
  <2>2. cl' \in CallType
    BY <1>1, <1>3 DEF Join, consumer, session, TypeInv, CallType, Pcs, Outcomes
  <2>3. TypeInv'
    BY <1>1, <2>1, <2>2 DEF Inv, TypeInv, Fields, JoinInv, Counted
  <2>4. RequestInv'
    BY <1>1, <2>1, <2>2 DEF Inv, Fields, RequestInv, JoinInv, Quiet, Counted
  <2>5. FrameInv'
    BY <1>1, <2>1, <2>2 DEF Inv, Fields, FrameInv, JoinInv, Quiet, Counted, NoBatch, InStep
  <2>6. IdleInv'
    BY <1>1, <2>1, <2>2, ShortMsg DEF Inv, Fields, IdleInv, Idle, Quiet, JoinInv, Counted
  <2>7. WireInv'
    BY <1>1, <2>1, <2>2 DEF Inv, Fields, WireInv, Live, Quiet, Counted, JoinInv, OnlyFrames, NoNext, NoAnswer
  <2>8. QueueInv'
    BY <1>1, <2>1, <2>2 DEF Inv, Fields, QueueInv, Live, Quiet, Counted, JoinInv, OnlyFrames, NoNext,
       NoAnswer, NoBatch
  <2>9. EndInv'
    BY <1>1, <2>1, <2>2, ShortMsg DEF Inv, Fields, EndInv, Counted, JoinInv, Quiet
  <2>10. JoinInv' /\ InitInv' /\ HoldsInv'
    BY <1>1, <2>1, <2>2 DEF Inv, TypeInv, Fields, JoinInv, Quiet, Counted, InitInv, HoldsInv, ClientReleased
  <2>. QED  BY <2>3, <2>4, <2>5, <2>6, <2>7, <2>8, <2>9, <2>10 DEF Inv
<1>. QED  BY <1>2, <1>3

(* Resume preserves the invariant. *)
LEMMA ResumeStep == ASSUME Inv, Resume PROVE Inv'
<1>1. TypeInv /\ Fields
  BY FieldTypes DEF Inv
<1>2. /\ cl.pc = "yielded" /\ cl'.pc = "loop" /\ cl'.ended = cl.ended /\ cl'.queue = cl.queue
      /\ cl'.got = cl.got /\ cl'.outcome = cl.outcome /\ ss' = ss /\ holds' = holds /\ cbq' = cbq
      /\ busy' = busy /\ wire' = wire /\ init' = init /\ silent' = silent
  BY <1>1 DEF Resume, consumer, session, TypeInv, CallType, SessionType
<1>3. cl' \in CallType
  BY <1>1 DEF Resume, consumer, session, TypeInv, CallType, Pcs, Outcomes
<1>4. TypeInv'
  BY <1>1, <1>2, <1>3 DEF TypeInv, Fields
<1>5. WireInv' /\ QueueInv'
  BY <1>1, <1>2, <1>3 DEF Inv, Fields, WireInv, Live, Quiet, Counted, QueueInv
<1>6. RequestInv' /\ FrameInv' /\ IdleInv' /\ JoinInv' /\ EndInv' /\ InitInv' /\ HoldsInv'
  BY <1>1, <1>2, <1>3 DEF Inv, TypeInv, Fields, RequestInv, FrameInv, IdleInv, Idle, Quiet, JoinInv,
     Counted, EndInv, InitInv, HoldsInv, ClientReleased
<1>. QED  BY <1>4, <1>5, <1>6 DEF Inv

(* Leave preserves the invariant. *)
LEMMA LeaveStep == ASSUME Inv, Leave PROVE Inv'
<1>1. TypeInv /\ Fields
  BY FieldTypes DEF Inv
<1>2. /\ cl.pc \in {"parked", "join", "yielded"} /\ cl'.pc = "clean" /\ cl'.ended = cl.ended
      /\ cl'.queue = cl.queue /\ cl'.got = cl.got /\ cl'.outcome = "left" /\ ss' = ss /\ holds' = holds
      /\ cbq' = cbq /\ busy' = busy /\ wire' = wire /\ init' = init /\ silent' = silent
  BY <1>1 DEF Leave, consumer, session, TypeInv, CallType, SessionType
<1>3. cl' \in CallType
  BY <1>1 DEF Leave, consumer, session, TypeInv, CallType, Pcs, Outcomes
<1>4. TypeInv'
  BY <1>1, <1>2, <1>3 DEF TypeInv, Fields
<1>5. WireInv' /\ QueueInv'
  BY <1>1, <1>2, <1>3 DEF Inv, Fields, WireInv, Live, Quiet, Counted, QueueInv
<1>6. RequestInv' /\ FrameInv' /\ IdleInv' /\ JoinInv' /\ EndInv' /\ InitInv' /\ HoldsInv'
  BY <1>1, <1>2, <1>3 DEF Inv, TypeInv, Fields, RequestInv, FrameInv, IdleInv, Idle, Quiet, JoinInv,
     Counted, EndInv, InitInv, HoldsInv, ClientReleased
<1>. QED  BY <1>4, <1>5, <1>6 DEF Inv

(* Cleanup preserves the invariant. *)
LEMMA CleanupStep == ASSUME Inv, Cleanup PROVE Inv'
<1>1. TypeInv /\ Fields
  BY FieldTypes DEF Inv
<1>2. /\ cl.pc = "clean" /\ cl'.pc = "cancel" /\ cl'.ended = cl.ended /\ cl'.queue = cl.queue
      /\ cl'.got = cl.got /\ cl'.outcome = cl.outcome /\ ss' = ss
      /\ holds' = holds \ {"settle", "status", "cbsub", "task"} /\ cbq' = <<>> /\ busy' = <<>> /\ wire' = wire
      /\ init' = init /\ silent' = silent
  BY <1>1 DEF Cleanup, consumer, session, TypeInv, CallType, SessionType
<1>3. cl' \in CallType
  BY <1>1 DEF Cleanup, consumer, session, TypeInv, CallType, Pcs, Outcomes
<1>4. TypeInv'
  BY <1>1, <1>2, <1>3, ShortMsg DEF TypeInv, Fields
<1>5. FrameInv'
  BY <1>1, <1>2, <1>3, ShortMsg DEF Inv, Fields, FrameInv
<1>6. IdleInv'
  BY <1>1, <1>2, <1>3, ShortMsg DEF Inv, Fields, IdleInv, Idle, Quiet
<1>7. EndInv'
  BY <1>1, <1>2, <1>3, ShortMsg DEF Inv, Fields, EndInv, Counted
<1>8. InitInv'
  BY <1>1, <1>2, <1>3 DEF Inv, TypeInv, InitInv
<1>9. HoldsInv'
  BY <1>1, <1>2, <1>3 DEF Inv, TypeInv, HoldsInv, ClientReleased
<1>10. WireInv' /\ QueueInv'
  BY <1>1, <1>2, <1>3 DEF Inv, Fields, WireInv, Live, Quiet, Counted, QueueInv
<1>11. RequestInv' /\ JoinInv'
  BY <1>1, <1>2, <1>3 DEF Inv, Fields, RequestInv, JoinInv, Quiet, Counted
<1>. QED  BY <1>4, <1>5, <1>6, <1>7, <1>8, <1>9, <1>10, <1>11 DEF Inv

(* SendCancel preserves the invariant. *)
LEMMA SendCancelStep == ASSUME Inv, SendCancel PROVE Inv'
<1>1. TypeInv /\ Fields
  BY FieldTypes DEF Inv
<1>2. CASE ~cl.ended /\ conn # "down" /\ ss.open
  <2>1. /\ cl.pc = "cancel" /\ cl'.pc = "done" /\ cl'.ended = cl.ended /\ cl'.queue = cl.queue /\ cl'.got = cl.got
        /\ cl'.outcome = cl.outcome /\ ss'.open = ss.open /\ ss'.rq = Append(ss.rq, "cancel") /\ ss'.hpc = ss.hpc
        /\ ss'.active = ss.active /\ ss'.tracked = ss.tracked /\ ss'.unsub = ss.unsub /\ ss'.made = ss.made
        /\ ss'.fired = ss.fired /\ holds' = holds \ {"rsub"} /\ cbq' = cbq /\ busy' = busy /\ wire' = wire
        /\ init' = init /\ silent' = silent
    BY <1>1, <1>2 DEF SendCancel, Done, consumer, session, TypeInv, CallType, SessionType
  <2>2. cl' \in CallType
    BY <1>1, <1>2 DEF SendCancel, Done, consumer, session, TypeInv, CallType, Pcs, Outcomes
  <2>3. Append(ss.rq, "cancel") \in Seq(Requests)
    BY <1>1, <2>1, AppendText DEF TypeInv, Fields, CallType, SessionType, Answers, Texts, Requests, Outcomes
  <2>4. ss' \in SessionType
    BY <1>1, <1>2, <2>3 DEF SendCancel, Done, consumer, session, TypeInv, SessionType
  <2>5. TypeInv'
    BY <1>1, <2>1, <2>2, <2>3, <2>4, AppendText DEF TypeInv, Fields
  <2>6. RequestInv'
    <3>1. "cancel" \in Requests
      BY DEF Requests
    <3>2. /\ Len(ss.rq) \in Nat /\ Len(ss'.rq) = Len(ss.rq) + 1 /\ ss'.rq[Len(ss.rq) + 1] = "cancel"
          /\ \A j \in 1..Len(ss.rq) : ss'.rq[j] = ss.rq[j]
      BY <1>1, <3>1, <2>1, AppendFacts DEF Fields
    <3>3. \A j \in 1..Len(ss'.rq) : ss'.rq[j] = "next" => j \in 1..Len(ss.rq) /\ ss.rq[j] = "next"
      BY <3>2
    <3>. QED  BY <3>3, <2>1 DEF Inv, RequestInv, NoNext
  <2>7. IdleInv'
    BY <1>1, <2>1, <2>2, <2>3, <2>4, AppendText DEF Inv, Fields, IdleInv, Idle, Quiet
  <2>8. WireInv'
    BY <1>1, <2>1, <2>2, <2>3, <2>4, AppendText DEF Inv, Fields, WireInv, Live, Quiet, Counted
  <2>9. QueueInv'
    BY <1>1, <2>1, <2>2, <2>3, <2>4, AppendText DEF Inv, Fields, QueueInv, Live, Quiet, Counted
  <2>10. JoinInv'
    BY <1>1, <2>1, <2>2, <2>3, <2>4, AppendText DEF Inv, Fields, JoinInv, Quiet, Counted
  <2>11. InitInv'
    BY <1>1, <2>1, <2>2, <2>3, <2>4 DEF Inv, TypeInv, InitInv
  <2>12. HoldsInv'
    BY <1>1, <2>1, <2>2, <2>3, <2>4 DEF Inv, TypeInv, HoldsInv, ClientReleased
  <2>13. FrameInv' /\ EndInv'
    BY <1>1, <2>1, <2>2, <2>3, <2>4 DEF Inv, Fields, FrameInv, EndInv, Counted
  <2>. QED  BY <2>5, <2>6, <2>7, <2>8, <2>9, <2>10, <2>11, <2>12, <2>13 DEF Inv
<1>3. CASE ~(~cl.ended /\ conn # "down" /\ ss.open)
  <2>1. /\ cl.pc = "cancel" /\ cl'.pc = "done" /\ cl'.ended = cl.ended /\ cl'.queue = cl.queue /\ cl'.got = cl.got
        /\ cl'.outcome = cl.outcome /\ ss' = ss /\ holds' = holds \ {"rsub"} /\ cbq' = cbq /\ busy' = busy
        /\ wire' = wire /\ init' = init /\ silent' = silent
    BY <1>1, <1>3 DEF SendCancel, Done, consumer, session, TypeInv, CallType, SessionType
  <2>2. cl' \in CallType
    BY <1>1, <1>3 DEF SendCancel, Done, consumer, session, TypeInv, CallType, Pcs, Outcomes
  <2>3. TypeInv'
    BY <1>1, <2>1, <2>2 DEF TypeInv, Fields
  <2>4. RequestInv'
    BY <1>1, <2>1, <2>2 DEF Inv, Fields, RequestInv, Requests
  <2>5. WireInv' /\ QueueInv'
    BY <1>1, <2>1, <2>2 DEF Inv, Fields, WireInv, Live, Quiet, Counted, QueueInv
  <2>6. FrameInv' /\ IdleInv' /\ JoinInv' /\ EndInv' /\ InitInv' /\ HoldsInv'
    BY <1>1, <2>1, <2>2 DEF Inv, TypeInv, Fields, FrameInv, IdleInv, Idle, Quiet, JoinInv, Counted, EndInv,
       InitInv, HoldsInv, ClientReleased
  <2>. QED  BY <2>3, <2>4, <2>5, <2>6 DEF Inv
<1>. QED  BY <1>2, <1>3

(* TakeFrame preserves the invariant. *)
LEMMA TakeFrameStep == ASSUME Inv, TakeFrame PROVE Inv'
<1>1. TypeInv /\ Fields
  BY FieldTypes DEF Inv
<1>2. /\ busy = <<>> /\ cbq # <<>> /\ cl' = cl /\ ss' = ss /\ holds' = holds /\ cbq' = Tail(cbq)
      /\ busy' = <<Head(cbq)>> /\ wire' = wire /\ init' = init /\ silent' = silent
  BY <1>1 DEF TakeFrame, consumer, session, TypeInv, CallType, SessionType
<1>3. TypeInv'
  BY <1>1, <1>2, ShortMsg, TailMsg DEF TypeInv, Fields
<1>4. FrameInv'
  BY <1>1, <1>2, ShortMsg, TailMsg DEF Inv, Fields, FrameInv
<1>5. IdleInv'
  BY <1>1, <1>2, ShortMsg, TailMsg DEF Inv, Fields, IdleInv, Idle, Quiet
<1>6. EndInv'
  BY <1>1, <1>2, ShortMsg, TailMsg DEF Inv, Fields, EndInv, Counted
<1>7. InitInv'
  BY <1>1, <1>2 DEF Inv, TypeInv, InitInv
<1>8. HoldsInv'
  BY <1>1, <1>2 DEF Inv, TypeInv, HoldsInv, ClientReleased
<1>9. WireInv' /\ QueueInv'
  BY <1>1, <1>2 DEF Inv, Fields, WireInv, Live, Quiet, Counted, QueueInv
<1>10. RequestInv' /\ JoinInv'
  BY <1>1, <1>2 DEF Inv, Fields, RequestInv, JoinInv, Quiet, Counted
<1>. QED  BY <1>3, <1>4, <1>5, <1>6, <1>7, <1>8, <1>9, <1>10 DEF Inv

(* FrameDone preserves the invariant. *)
LEMMA FrameDoneStep == ASSUME Inv, FrameDone PROVE Inv'
<1>1. TypeInv /\ Fields
  BY FieldTypes DEF Inv
<1>2. /\ holds' \subseteq holds /\ silent' \subseteq silent \cup {"killed"} /\ cl' = cl /\ ss' = ss
      /\ cbq' = cbq /\ busy' = <<>> /\ wire' = wire /\ init' = init
  BY <1>1 DEF FrameDone, consumer, session, TypeInv, CallType, SessionType
<1>3. TypeInv'
  BY <1>1, <1>2, ShortMsg DEF TypeInv, Fields
<1>4. FrameInv'
  BY <1>1, <1>2, ShortMsg DEF Inv, Fields, FrameInv
<1>5. IdleInv'
  BY <1>1, <1>2, ShortMsg DEF Inv, Fields, IdleInv, Idle, Quiet
<1>6. EndInv'
  BY <1>1, <1>2, ShortMsg DEF Inv, Fields, EndInv, Counted
<1>7. InitInv'
  BY <1>1, <1>2 DEF Inv, TypeInv, InitInv
<1>8. HoldsInv'
  BY <1>1, <1>2 DEF Inv, TypeInv, HoldsInv, ClientReleased
<1>9. WireInv' /\ QueueInv'
  BY <1>1, <1>2 DEF Inv, Fields, WireInv, Live, Quiet, Counted, QueueInv
<1>10. RequestInv' /\ JoinInv'
  BY <1>1, <1>2 DEF Inv, Fields, RequestInv, JoinInv, Quiet, Counted
<1>. QED  BY <1>3, <1>4, <1>5, <1>6, <1>7, <1>8, <1>9, <1>10 DEF Inv

(* Receive preserves the invariant. *)
LEMMA ReceiveStep == ASSUME Inv, Receive PROVE Inv'
<1>1. TypeInv /\ Fields
  BY FieldTypes DEF Inv
<1>2. CASE Head(wire).type = "frame" /\ "cbsub" \in holds /\ conn # "down"
  <2>1. /\ wire # <<>> /\ Head(wire).type = "frame" /\ cl' = cl /\ ss' = ss /\ holds' = holds
        /\ cbq' = Append(cbq, Head(wire)) /\ busy' = busy /\ wire' = Tail(wire) /\ init' = init
        /\ silent' = silent
    BY <1>1, <1>2 DEF Receive, consumer, session, TypeInv, CallType, SessionType
  <2>2. TypeInv'
    BY <1>1, <2>1, TailMsg, AppendMsg DEF TypeInv, Fields
  <2>3. FrameInv'
    BY <1>1, <2>1, TailMsg, AppendMsg DEF Inv, Fields, FrameInv
  <2>4. IdleInv'
    BY <1>1, <2>1, TailMsg, AppendMsg DEF Inv, Fields, IdleInv, Idle, Quiet
  <2>5. WireInv'
    <3>1. SUFFICES ASSUME Live', NEW i \in 1..Len(wire'), NEW t, t = wire'[i].type, t # "frame"
                   PROVE  /\ Quiet' /\ cl'.pc = "parked" /\ NoAnswer(cl'.queue) /\ Counted(t)'
                          /\ \A j \in 1..Len(wire') : /\ j # i => wire'[j].type = "frame"
                                                      /\ j > i => wire'[j].batch = 0
      BY DEF WireInv, Counted
    <3>2. /\ Len(wire) \in Nat /\ i + 1 \in 1..Len(wire) /\ wire'[i] = wire[i + 1]
          /\ \A j \in 1..Len(wire') : j + 1 \in 1..Len(wire) /\ wire'[j] = wire[j + 1]
      BY <1>1, <3>1, <2>1, TailFacts DEF Fields
    <3>3. /\ Quiet /\ cl.pc = "parked" /\ NoAnswer(cl.queue) /\ Counted(t)
          /\ \A j \in 1..Len(wire) : /\ j # i + 1 => wire[j].type = "frame"
                                     /\ j > i + 1 => wire[j].batch = 0
      BY <3>1, <3>2, <2>1 DEF Inv, WireInv, Live
    <3>. QED  BY <3>1, <3>2, <3>3, <2>1 DEF Quiet, Counted
  <2>6. QueueInv'
    BY <1>1, <2>1, TailMsg DEF Inv, Fields, QueueInv, Live, Quiet, Counted
  <2>7. JoinInv'
    BY <1>1, <2>1, TailMsg DEF Inv, Fields, JoinInv, Quiet, Counted
  <2>8. EndInv'
    BY <1>1, <2>1, TailMsg, AppendMsg DEF Inv, Fields, EndInv, Counted
  <2>9. InitInv'
    BY <1>1, <2>1 DEF Inv, TypeInv, InitInv
  <2>10. HoldsInv'
    BY <1>1, <2>1 DEF Inv, TypeInv, HoldsInv, ClientReleased
  <2>11. RequestInv'
    BY <1>1, <2>1 DEF Inv, Fields, RequestInv
  <2>. QED  BY <2>2, <2>3, <2>4, <2>5, <2>6, <2>7, <2>8, <2>9, <2>10, <2>11 DEF Inv
<1>3. CASE Head(wire).type # "frame" /\ "rsub" \in holds /\ conn # "down"
  <2>1. /\ wire # <<>> /\ Head(wire).type # "frame" /\ cl'.ended \in BOOLEAN /\ cl'.pc = cl.pc
        /\ cl'.queue = Append(cl.queue, Head(wire).type) /\ cl'.got = cl.got /\ cl'.outcome = cl.outcome
        /\ ss' = ss /\ holds' = holds /\ cbq' = cbq /\ busy' = busy /\ wire' = Tail(wire) /\ init' = init
        /\ silent' = silent
    BY <1>1, <1>3 DEF Receive, consumer, session, TypeInv, CallType, SessionType
  <2>2. Append(cl.queue, Head(wire).type) \in Seq(Texts)
    BY <1>1, <2>1, AppendText, TailMsg DEF TypeInv, Fields, CallType, SessionType, Answers, Texts, Requests,
       Outcomes, Msg
  <2>3. cl' \in CallType
    BY <1>1, <1>3, <2>2 DEF Receive, consumer, session, TypeInv, CallType, Pcs, Outcomes
  <2>4. TypeInv'
    BY <1>1, <2>1, <2>2, <2>3, TailMsg, AppendText DEF TypeInv, Fields
  <2>5. FrameInv'
    BY <1>1, <2>1, <2>2, <2>3, TailMsg DEF Inv, Fields, FrameInv
  <2>6. IdleInv'
    BY <1>1, <2>1, <2>2, <2>3, TailMsg, AppendText DEF Inv, Fields, IdleInv, Idle, Quiet
  <2>7. WireInv'
    <3>1. SUFFICES ASSUME Live', NEW i \in 1..Len(wire'), wire'[i].type # "frame" PROVE FALSE
      BY DEF WireInv
    <3>2. /\ Len(wire) \in Nat /\ i + 1 \in 1..Len(wire) /\ wire'[i] = wire[i + 1] /\ 1 \in 1..Len(wire)
          /\ i + 1 # 1 /\ wire[1].type # "frame"
      BY <1>1, <3>1, <2>1, TailFacts DEF Fields
    <3>3. Live
      BY <3>1, <2>1 DEF Live
    <3>. QED  BY <3>1, <3>2, <3>3 DEF Inv, WireInv
  <2>8. QueueInv'
    <3>1. SUFFICES ASSUME Live PROVE QueueInv'
      BY <2>1 DEF QueueInv, Live
    <3>0. PICK t : t = Head(wire).type
      OBVIOUS
    <3>2. /\ Len(wire) \in Nat /\ 1 \in 1..Len(wire) /\ t # "frame" /\ t = wire[1].type
          /\ \A j \in 1..Len(wire') : j + 1 \in 1..Len(wire) /\ wire'[j] = wire[j + 1] /\ j + 1 > 1 /\ j + 1 # 1
      BY <1>1, <3>0, <2>1, TailFacts DEF Fields
    <3>3. /\ Quiet /\ cl.pc = "parked" /\ NoAnswer(cl.queue) /\ Counted(t)
          /\ \A j \in 1..Len(wire) : /\ j # 1 => wire[j].type = "frame"
                                     /\ j > 1 => wire[j].batch = 0
      BY <3>1, <3>2 DEF Inv, WireInv
    <3>4. OnlyFrames(wire') /\ NoBatch(wire')
      BY <3>2, <3>3 DEF OnlyFrames, NoBatch
    <3>5. /\ Len(cl.queue) \in Nat /\ Len(cl'.queue) = Len(cl.queue) + 1
          /\ cl'.queue[Len(cl.queue) + 1] = t
          /\ \A j \in 1..Len(cl.queue) : cl'.queue[j] = cl.queue[j]
      BY <1>1, <3>0, <3>2, <2>1, TailMsg, AppendFacts DEF Fields, Msg, Texts
    <3>6. \A j \in 1..Len(cl'.queue) : cl'.queue[j] \in Answers => j = Len(cl.queue) + 1
      BY <3>3, <3>5 DEF NoAnswer
    <3>7. Quiet' /\ cl'.pc = "parked" /\ Counted(t)'
      BY <3>3, <2>1 DEF Quiet, Counted
    <3>. QED  BY <3>4, <3>5, <3>6, <3>7 DEF QueueInv
  <2>9. JoinInv'
    BY <1>1, <2>1, <2>2, <2>3, TailMsg, AppendText DEF Inv, Fields, JoinInv, Quiet, Counted
  <2>10. EndInv'
    BY <1>1, <2>1, <2>2, <2>3, TailMsg DEF Inv, Fields, EndInv, Counted
  <2>11. InitInv'
    BY <1>1, <2>1, <2>2, <2>3 DEF Inv, TypeInv, InitInv
  <2>12. HoldsInv'
    BY <1>1, <2>1, <2>2, <2>3 DEF Inv, TypeInv, HoldsInv, ClientReleased
  <2>13. RequestInv'
    BY <1>1, <2>1, <2>2, <2>3 DEF Inv, Fields, RequestInv
  <2>. QED  BY <2>4, <2>5, <2>6, <2>7, <2>8, <2>9, <2>10, <2>11, <2>12, <2>13 DEF Inv
<1>4. CASE /\ ~(Head(wire).type = "frame" /\ "cbsub" \in holds /\ conn # "down")
           /\ ~(Head(wire).type # "frame" /\ "rsub" \in holds /\ conn # "down")
  <2>1. /\ wire # <<>> /\ cl' = cl /\ ss' = ss /\ holds' = holds /\ cbq' = cbq /\ busy' = busy
        /\ wire' = Tail(wire) /\ init' = init /\ silent' = silent
    BY <1>1, <1>4 DEF Receive, consumer, session, TypeInv, CallType, SessionType
  <2>2. TypeInv'
    BY <1>1, <2>1, TailMsg DEF TypeInv, Fields
  <2>3. FrameInv'
    BY <1>1, <2>1, TailMsg DEF Inv, Fields, FrameInv
  <2>4. IdleInv'
    BY <1>1, <2>1, TailMsg DEF Inv, Fields, IdleInv, Idle, Quiet
  <2>5. WireInv'
    <3>1. SUFFICES ASSUME Live', NEW i \in 1..Len(wire'), NEW t, t = wire'[i].type, t # "frame"
                   PROVE  /\ Quiet' /\ cl'.pc = "parked" /\ NoAnswer(cl'.queue) /\ Counted(t)'
                          /\ \A j \in 1..Len(wire') : /\ j # i => wire'[j].type = "frame"
                                                      /\ j > i => wire'[j].batch = 0
      BY DEF WireInv, Counted
    <3>2. /\ Len(wire) \in Nat /\ i + 1 \in 1..Len(wire) /\ wire'[i] = wire[i + 1]
          /\ \A j \in 1..Len(wire') : j + 1 \in 1..Len(wire) /\ wire'[j] = wire[j + 1]
      BY <1>1, <3>1, <2>1, TailFacts DEF Fields
    <3>3. /\ Quiet /\ cl.pc = "parked" /\ NoAnswer(cl.queue) /\ Counted(t)
          /\ \A j \in 1..Len(wire) : /\ j # i + 1 => wire[j].type = "frame"
                                     /\ j > i + 1 => wire[j].batch = 0
      BY <3>1, <3>2, <2>1 DEF Inv, WireInv, Live
    <3>. QED  BY <3>1, <3>2, <3>3, <2>1 DEF Quiet, Counted
  <2>6. QueueInv'
    BY <1>1, <2>1, TailMsg DEF Inv, Fields, QueueInv, Live, Quiet, Counted
  <2>7. JoinInv'
    BY <1>1, <2>1, TailMsg DEF Inv, Fields, JoinInv, Quiet, Counted
  <2>8. EndInv'
    BY <1>1, <2>1, TailMsg DEF Inv, Fields, EndInv, Counted
  <2>9. InitInv'
    BY <1>1, <2>1 DEF Inv, TypeInv, InitInv
  <2>10. HoldsInv'
    BY <1>1, <2>1 DEF Inv, TypeInv, HoldsInv, ClientReleased
  <2>11. RequestInv'
    BY <1>1, <2>1 DEF Inv, Fields, RequestInv
  <2>. QED  BY <2>2, <2>3, <2>4, <2>5, <2>6, <2>7, <2>8, <2>9, <2>10, <2>11 DEF Inv
<1>. QED  BY <1>2, <1>3, <1>4

(* NoResponders preserves the invariant. *)
LEMMA NoRespondersStep == ASSUME Inv, NoResponders PROVE Inv'
<1>1. TypeInv /\ Fields
  BY FieldTypes DEF Inv
<1>2. CASE "status" \in holds /\ conn # "down"
  <2>1. /\ holds' \subseteq holds /\ cl'.pc = cl.pc /\ cl'.ended = TRUE /\ cl'.queue = Append(cl.queue, "noresp")
        /\ cl'.got = cl.got /\ cl'.outcome = cl.outcome /\ ss' = ss /\ cbq' = cbq /\ busy' = busy /\ wire' = wire
        /\ init' = init /\ silent' = silent
    BY <1>1, <1>2 DEF NoResponders, consumer, session, TypeInv, CallType, SessionType
  <2>2. Append(cl.queue, "noresp") \in Seq(Texts)
    BY <1>1, <2>1, AppendText DEF TypeInv, Fields, CallType, SessionType, Answers, Texts, Requests, Outcomes
  <2>3. cl' \in CallType
    BY <1>1, <1>2, <2>2 DEF NoResponders, consumer, session, TypeInv, CallType, Pcs, Outcomes
  <2>4. TypeInv'
    BY <1>1, <2>1, <2>2, <2>3, AppendText DEF TypeInv, Fields
  <2>5. IdleInv'
    <3>1. "noresp" \in Texts /\ "noresp" \notin Answers
      BY DEF Texts, Answers
    <3>. QED  BY <1>1, <3>1, <2>1, AppendText DEF Inv, Fields, IdleInv, Idle, Quiet
  <2>6. WireInv'
    <3>1. "noresp" \in Texts /\ "noresp" \notin Answers
      BY DEF Texts, Answers
    <3>2. NoAnswer(cl.queue) => NoAnswer(cl'.queue)
      BY <1>1, <3>1, <2>1, AppendText DEF Fields
    <3>. QED  BY <3>2, <2>1 DEF Inv, WireInv, Live, Quiet, Counted
  <2>7. QueueInv'
    <3>1. "noresp" \in Texts /\ "noresp" \notin Answers
      BY DEF Texts, Answers
    <3>2. /\ Len(cl.queue) \in Nat /\ Len(cl'.queue) = Len(cl.queue) + 1
          /\ cl'.queue[Len(cl.queue) + 1] \notin Answers
          /\ \A j \in 1..Len(cl.queue) : cl'.queue[j] = cl.queue[j]
      BY <1>1, <3>1, <2>1, AppendFacts DEF Fields
    <3>3. \A j \in 1..Len(cl'.queue) : cl'.queue[j] \in Answers =>
              j \in 1..Len(cl.queue) /\ cl'.queue[j] = cl.queue[j]
      BY <3>2
    <3>. QED  BY <3>3, <2>1 DEF Inv, QueueInv, Live, Quiet, Counted
  <2>8. JoinInv'
    <3>1. "noresp" \in Texts /\ "noresp" \notin Answers
      BY DEF Texts, Answers
    <3>. QED  BY <1>1, <3>1, <2>1, AppendText DEF Inv, Fields, JoinInv, Quiet, Counted
  <2>9. InitInv'
    BY <1>1, <2>1, <2>2, <2>3 DEF Inv, TypeInv, InitInv
  <2>10. HoldsInv'
    BY <1>1, <2>1, <2>2, <2>3 DEF Inv, TypeInv, HoldsInv, ClientReleased
  <2>11. RequestInv' /\ FrameInv' /\ EndInv'
    BY <1>1, <2>1, <2>2, <2>3 DEF Inv, Fields, RequestInv, FrameInv, EndInv, Counted
  <2>. QED  BY <2>4, <2>5, <2>6, <2>7, <2>8, <2>9, <2>10, <2>11 DEF Inv
<1>3. CASE ~("status" \in holds /\ conn # "down")
  <2>1. /\ holds' \subseteq holds /\ cl' = cl /\ ss' = ss /\ cbq' = cbq /\ busy' = busy /\ wire' = wire
        /\ init' = init /\ silent' = silent
    BY <1>1, <1>3 DEF NoResponders, consumer, session, TypeInv, CallType, SessionType
  <2>2. TypeInv'
    BY <1>1, <2>1 DEF TypeInv, Fields
  <2>3. WireInv' /\ QueueInv'
    BY <1>1, <2>1 DEF Inv, Fields, WireInv, Live, Quiet, Counted, QueueInv
  <2>4. RequestInv' /\ FrameInv' /\ IdleInv' /\ JoinInv' /\ EndInv' /\ InitInv' /\ HoldsInv'
    BY <1>1, <2>1 DEF Inv, TypeInv, Fields, RequestInv, FrameInv, IdleInv, Idle, Quiet, JoinInv, Counted,
       EndInv, InitInv, HoldsInv, ClientReleased
  <2>. QED  BY <2>2, <2>3, <2>4 DEF Inv
<1>. QED  BY <1>2, <1>3

(* Sweep preserves the invariant. *)
LEMMA SweepStep == ASSUME Inv, Sweep PROVE Inv'
<1>1. TypeInv /\ Fields
  BY FieldTypes DEF Inv
<1>2. CASE "settle" \in holds
  <2>1. /\ holds' \subseteq holds /\ cl'.pc = cl.pc /\ cl'.ended = TRUE /\ cl'.queue = Append(cl.queue, "closed")
        /\ cl'.got = cl.got /\ cl'.outcome = cl.outcome /\ ss' = ss /\ cbq' = cbq /\ busy' = busy /\ wire' = wire
        /\ init' = init /\ silent' = silent
    BY <1>1, <1>2 DEF Sweep, consumer, session, TypeInv, CallType, SessionType
  <2>2. Append(cl.queue, "closed") \in Seq(Texts)
    BY <1>1, <2>1, AppendText DEF TypeInv, Fields, CallType, SessionType, Answers, Texts, Requests, Outcomes
  <2>3. cl' \in CallType
    BY <1>1, <1>2, <2>2 DEF Sweep, consumer, session, TypeInv, CallType, Pcs, Outcomes
  <2>4. TypeInv'
    BY <1>1, <2>1, <2>2, <2>3, AppendText DEF TypeInv, Fields
  <2>5. IdleInv'
    <3>1. "closed" \in Texts /\ "closed" \notin Answers
      BY DEF Texts, Answers
    <3>. QED  BY <1>1, <3>1, <2>1, AppendText DEF Inv, Fields, IdleInv, Idle, Quiet
  <2>6. WireInv'
    <3>1. "closed" \in Texts /\ "closed" \notin Answers
      BY DEF Texts, Answers
    <3>2. NoAnswer(cl.queue) => NoAnswer(cl'.queue)
      BY <1>1, <3>1, <2>1, AppendText DEF Fields
    <3>. QED  BY <3>2, <2>1 DEF Inv, WireInv, Live, Quiet, Counted
  <2>7. QueueInv'
    <3>1. "closed" \in Texts /\ "closed" \notin Answers
      BY DEF Texts, Answers
    <3>2. /\ Len(cl.queue) \in Nat /\ Len(cl'.queue) = Len(cl.queue) + 1
          /\ cl'.queue[Len(cl.queue) + 1] \notin Answers
          /\ \A j \in 1..Len(cl.queue) : cl'.queue[j] = cl.queue[j]
      BY <1>1, <3>1, <2>1, AppendFacts DEF Fields
    <3>3. \A j \in 1..Len(cl'.queue) : cl'.queue[j] \in Answers =>
              j \in 1..Len(cl.queue) /\ cl'.queue[j] = cl.queue[j]
      BY <3>2
    <3>. QED  BY <3>3, <2>1 DEF Inv, QueueInv, Live, Quiet, Counted
  <2>8. JoinInv'
    <3>1. "closed" \in Texts /\ "closed" \notin Answers
      BY DEF Texts, Answers
    <3>. QED  BY <1>1, <3>1, <2>1, AppendText DEF Inv, Fields, JoinInv, Quiet, Counted
  <2>9. InitInv'
    BY <1>1, <2>1, <2>2, <2>3 DEF Inv, TypeInv, InitInv
  <2>10. HoldsInv'
    BY <1>1, <2>1, <2>2, <2>3 DEF Inv, TypeInv, HoldsInv, ClientReleased
  <2>11. RequestInv' /\ FrameInv' /\ EndInv'
    BY <1>1, <2>1, <2>2, <2>3 DEF Inv, Fields, RequestInv, FrameInv, EndInv, Counted
  <2>. QED  BY <2>4, <2>5, <2>6, <2>7, <2>8, <2>9, <2>10, <2>11 DEF Inv
<1>3. CASE "settle" \notin holds
  <2>1. /\ holds' \subseteq holds /\ cl' = cl /\ ss' = ss /\ cbq' = cbq /\ busy' = busy /\ wire' = wire
        /\ init' = init /\ silent' = silent
    BY <1>1, <1>3 DEF Sweep, consumer, session, TypeInv, CallType, SessionType
  <2>2. TypeInv'
    BY <1>1, <2>1 DEF TypeInv, Fields
  <2>3. WireInv' /\ QueueInv'
    BY <1>1, <2>1 DEF Inv, Fields, WireInv, Live, Quiet, Counted, QueueInv
  <2>4. RequestInv' /\ FrameInv' /\ IdleInv' /\ JoinInv' /\ EndInv' /\ InitInv' /\ HoldsInv'
    BY <1>1, <2>1 DEF Inv, TypeInv, Fields, RequestInv, FrameInv, IdleInv, Idle, Quiet, JoinInv, Counted,
       EndInv, InitInv, HoldsInv, ClientReleased
  <2>. QED  BY <2>2, <2>3, <2>4 DEF Inv
<1>. QED  BY <1>2, <1>3

(* CloseConnection preserves the invariant. *)
LEMMA CloseConnectionStep == ASSUME Inv, CloseConnection PROVE Inv'
<1>1. TypeInv /\ Fields
  BY FieldTypes DEF Inv
<1>2. /\ holds' \subseteq holds /\ cl' = cl /\ ss' = ss /\ cbq' = cbq /\ busy' = busy /\ wire' = wire
      /\ init' = init /\ silent' = silent
  BY <1>1 DEF CloseConnection, consumer, session, TypeInv, CallType, SessionType
<1>3. TypeInv'
  BY <1>1, <1>2 DEF TypeInv, Fields
<1>4. WireInv' /\ QueueInv'
  BY <1>1, <1>2 DEF Inv, Fields, WireInv, Live, Quiet, Counted, QueueInv
<1>5. RequestInv' /\ FrameInv' /\ IdleInv' /\ JoinInv' /\ EndInv' /\ InitInv' /\ HoldsInv'
  BY <1>1, <1>2 DEF Inv, TypeInv, Fields, RequestInv, FrameInv, IdleInv, Idle, Quiet, JoinInv, Counted,
     EndInv, InitInv, HoldsInv, ClientReleased
<1>. QED  BY <1>3, <1>4, <1>5 DEF Inv

(* OpenSession preserves the invariant. *)
LEMMA OpenSessionStep == ASSUME Inv, OpenSession PROVE Inv'
<1>1. TypeInv /\ Fields
  BY FieldTypes DEF Inv
<1>2. CASE init' = "answered"
  <2>1. /\ init = "sent" /\ cl' = cl /\ ss'.open = TRUE /\ ss'.rq = ss.rq /\ ss'.hpc = ss.hpc /\ ss'.active = TRUE
        /\ ss'.tracked = TRUE /\ ss'.unsub = ss.unsub /\ ss'.made = ss.made /\ ss'.fired = ss.fired
        /\ holds' = holds /\ cbq' = cbq /\ busy' = busy /\ wire' = wire /\ init' = "answered" /\ silent' = silent
    BY <1>1, <1>2 DEF OpenSession, consumer, session, TypeInv, CallType, SessionType
  <2>2. ss' \in SessionType
    BY <1>1, <1>2 DEF OpenSession, consumer, session, TypeInv, SessionType
  <2>3. TypeInv'
    BY <1>1, <2>1, <2>2 DEF TypeInv, Fields
  <2>4. WireInv'
    BY <1>1, <2>1, <2>2 DEF Inv, Fields, WireInv, Live, Quiet, Counted, InitInv, OnlyFrames, NoNext, NoAnswer
  <2>5. QueueInv'
    BY <1>1, <2>1, <2>2 DEF Inv, Fields, QueueInv, Live, Quiet, Counted, InitInv, OnlyFrames, NoNext,
       NoAnswer, NoBatch
  <2>6. JoinInv'
    BY <1>1, <2>1, <2>2 DEF Inv, Fields, JoinInv, Quiet, Counted, InitInv, NoAnswer, Answers
  <2>7. EndInv'
    BY <1>1, <2>1, <2>2 DEF Inv, Fields, EndInv, Counted, InitInv
  <2>8. RequestInv' /\ FrameInv' /\ IdleInv' /\ InitInv' /\ HoldsInv'
    BY <1>1, <2>1, <2>2 DEF Inv, TypeInv, Fields, RequestInv, FrameInv, IdleInv, Idle, Quiet, InitInv,
       HoldsInv, ClientReleased
  <2>. QED  BY <2>3, <2>4, <2>5, <2>6, <2>7, <2>8 DEF Inv
<1>3. CASE init' # "answered"
  <2>1. /\ init = "sent" /\ cl' = cl /\ ss' = ss /\ holds' = holds /\ cbq' = cbq /\ busy' = busy /\ wire' = wire
        /\ init' = "refused" /\ silent' = silent
    BY <1>1, <1>3 DEF OpenSession, consumer, session, TypeInv, CallType, SessionType
  <2>2. TypeInv'
    BY <1>1, <2>1 DEF TypeInv, Fields
  <2>3. WireInv'
    BY <1>1, <2>1 DEF Inv, Fields, WireInv, Live, Quiet, Counted, InitInv, OnlyFrames, NoNext, NoAnswer
  <2>4. QueueInv'
    BY <1>1, <2>1 DEF Inv, Fields, QueueInv, Live, Quiet, Counted, InitInv, OnlyFrames, NoNext, NoAnswer, NoBatch
  <2>5. JoinInv'
    BY <1>1, <2>1 DEF Inv, Fields, JoinInv, Quiet, Counted, InitInv, NoAnswer, Answers
  <2>6. EndInv'
    BY <1>1, <2>1 DEF Inv, Fields, EndInv, Counted, InitInv
  <2>7. RequestInv' /\ FrameInv' /\ IdleInv' /\ InitInv' /\ HoldsInv'
    BY <1>1, <2>1 DEF Inv, TypeInv, Fields, RequestInv, FrameInv, IdleInv, Idle, Quiet, InitInv, HoldsInv,
       ClientReleased
  <2>. QED  BY <2>2, <2>3, <2>4, <2>5, <2>6, <2>7 DEF Inv
<1>. QED  BY <1>2, <1>3

(* Invoke preserves the invariant. *)
LEMMA InvokeStep == ASSUME Inv, Invoke PROVE Inv'
<1>1. TypeInv /\ Fields
  BY FieldTypes DEF Inv
<1>2. CASE ss.hpc = "anext"
  <2>1. /\ ss.active /\ ss.hpc = "anext" /\ ss.fired < MaxFrames /\ cl' = cl /\ ss'.open = ss.open
        /\ ss'.rq = ss.rq /\ ss'.hpc = ss.hpc /\ ss'.active = ss.active /\ ss'.tracked = ss.tracked
        /\ ss'.unsub = ss.unsub /\ ss'.made = ss.made /\ ss'.fired = ss.fired + 1 /\ holds' = holds /\ cbq' = cbq
        /\ busy' = busy /\ wire' = Append(wire, Frame(ss.made + 1)) /\ init' = init /\ silent' = silent
    BY <1>1, <1>2 DEF Invoke, consumer, session, TypeInv, CallType, SessionType
  <2>2. ss.fired + 1 \in 0..MaxFrames
    BY <1>1, <2>1, PullCallbackAssumption DEF TypeInv, Fields, CallType, SessionType, Answers, Texts,
       Requests, Outcomes
  <2>3. ss' \in SessionType
    BY <1>1, <1>2, <2>2 DEF Invoke, consumer, session, TypeInv, SessionType
  <2>4. TypeInv'
    BY <1>1, <2>1, <2>2, <2>3, AppendMsg, SentMsg DEF TypeInv, Fields
  <2>5. FrameInv'
    <3>1. Frame(ss.made + 1) \in Msg /\ Frame(ss.made + 1).batch = cl.got + 1
      BY <1>1, <2>1, SentMsg DEF Inv, Fields, RequestInv
    <3>. QED  BY <1>1, <3>1, <2>1, AppendMsg DEF Inv, Fields, FrameInv
  <2>6. IdleInv'
    BY <1>1, <2>1, <2>2, <2>3, AppendMsg, SentMsg DEF Inv, Fields, IdleInv, Idle, Quiet
  <2>7. WireInv'
    BY <1>1, <2>1, <2>2, <2>3, AppendMsg, AppendFacts, SentMsg DEF Inv, Fields, WireInv, Live, Quiet, Counted
  <2>8. QueueInv'
    BY <1>1, <2>1, <2>2, <2>3, AppendMsg, SentMsg DEF Inv, Fields, QueueInv, Live, Quiet, Counted
  <2>9. JoinInv'
    BY <1>1, <2>1, <2>2, <2>3, AppendMsg, SentMsg DEF Inv, Fields, JoinInv, Quiet, Counted
  <2>10. EndInv'
    BY <1>1, <2>1, <2>2, <2>3, AppendMsg, SentMsg DEF Inv, Fields, EndInv, Counted
  <2>11. InitInv'
    BY <1>1, <2>1, <2>2, <2>3 DEF Inv, TypeInv, InitInv
  <2>12. HoldsInv'
    BY <1>1, <2>1, <2>2, <2>3 DEF Inv, TypeInv, HoldsInv, ClientReleased
  <2>13. RequestInv'
    BY <1>1, <2>1, <2>2, <2>3 DEF Inv, Fields, RequestInv
  <2>. QED  BY <2>4, <2>5, <2>6, <2>7, <2>8, <2>9, <2>10, <2>11, <2>12, <2>13 DEF Inv
<1>3. CASE ss.hpc # "anext"
  <2>1. /\ ss.active /\ ss.hpc # "anext" /\ ss.fired < MaxFrames /\ cl' = cl /\ ss'.open = ss.open
        /\ ss'.rq = ss.rq /\ ss'.hpc = ss.hpc /\ ss'.active = ss.active /\ ss'.tracked = ss.tracked
        /\ ss'.unsub = ss.unsub /\ ss'.made = ss.made /\ ss'.fired = ss.fired + 1 /\ holds' = holds /\ cbq' = cbq
        /\ busy' = busy /\ wire' = Append(wire, Frame(0)) /\ init' = init /\ silent' = silent
    BY <1>1, <1>3 DEF Invoke, consumer, session, TypeInv, CallType, SessionType
  <2>2. ss.fired + 1 \in 0..MaxFrames
    BY <1>1, <2>1, PullCallbackAssumption DEF TypeInv, Fields, CallType, SessionType, Answers, Texts,
       Requests, Outcomes
  <2>3. ss' \in SessionType
    BY <1>1, <1>3, <2>2 DEF Invoke, consumer, session, TypeInv, SessionType
  <2>4. TypeInv'
    BY <1>1, <2>1, <2>2, <2>3, AppendMsg, SentMsg DEF TypeInv, Fields
  <2>5. FrameInv'
    <3>0. Frame(0) \in Msg /\ Frame(0).type = "frame" /\ Frame(0).batch = 0
      BY SentMsg
    <3>. QED  BY <1>1, <3>0, <2>1, AppendMsg DEF Inv, Fields, FrameInv
  <2>6. IdleInv'
    <3>0. Frame(0) \in Msg /\ Frame(0).type = "frame" /\ Frame(0).batch = 0
      BY SentMsg
    <3>. QED  BY <1>1, <3>0, <2>1, AppendMsg DEF Inv, Fields, IdleInv, Idle, Quiet
  <2>7. WireInv'
    <3>0. Frame(0) \in Msg /\ Frame(0).type = "frame" /\ Frame(0).batch = 0
      BY SentMsg
    <3>1. /\ Len(wire) \in Nat /\ Len(wire') = Len(wire) + 1
          /\ wire'[Len(wire) + 1].type = "frame" /\ wire'[Len(wire) + 1].batch = 0
          /\ \A j \in 1..Len(wire) : wire'[j] = wire[j]
      BY <1>1, <3>0, <2>1, AppendFacts DEF Fields
    <3>2. \A j \in 1..Len(wire') :
              (j \in 1..Len(wire) /\ wire'[j] = wire[j]) \/ (wire'[j].type = "frame" /\ wire'[j].batch = 0)
      BY <3>1
    <3>. QED  BY <3>2, <2>1 DEF Inv, WireInv, Live, Quiet, Counted
  <2>8. QueueInv'
    <3>0. Frame(0) \in Msg /\ Frame(0).type = "frame" /\ Frame(0).batch = 0
      BY SentMsg
    <3>. QED  BY <1>1, <3>0, <2>1, AppendMsg DEF Inv, Fields, QueueInv, Live, Quiet, Counted
  <2>9. JoinInv'
    <3>0. Frame(0) \in Msg /\ Frame(0).type = "frame" /\ Frame(0).batch = 0
      BY SentMsg
    <3>. QED  BY <1>1, <3>0, <2>1, AppendMsg DEF Inv, Fields, JoinInv, Quiet, Counted
  <2>10. EndInv'
    <3>0. Frame(0) \in Msg /\ Frame(0).type = "frame" /\ Frame(0).batch = 0
      BY SentMsg
    <3>. QED  BY <1>1, <3>0, <2>1, AppendMsg DEF Inv, Fields, EndInv, Counted
  <2>11. InitInv'
    BY <1>1, <2>1, <2>2, <2>3 DEF Inv, TypeInv, InitInv
  <2>12. HoldsInv'
    BY <1>1, <2>1, <2>2, <2>3 DEF Inv, TypeInv, HoldsInv, ClientReleased
  <2>13. RequestInv'
    BY <1>1, <2>1, <2>2, <2>3 DEF Inv, Fields, RequestInv
  <2>. QED  BY <2>4, <2>5, <2>6, <2>7, <2>8, <2>9, <2>10, <2>11, <2>12, <2>13 DEF Inv
<1>. QED  BY <1>2, <1>3

(* TakeRequest preserves the invariant. *)
LEMMA TakeRequestStep == ASSUME Inv, TakeRequest PROVE Inv'
<1>1. TypeInv /\ Fields
  BY FieldTypes DEF Inv
<1>2. CASE ~ss.active
  <2>1. /\ ss.hpc = "idle" /\ ss.rq # <<>> /\ ~ss.active /\ cl' = cl /\ ss'.open = ss.open /\ ss'.rq = Tail(ss.rq)
        /\ ss'.hpc = ss.hpc /\ ss'.active = ss.active /\ ss'.tracked = ss.tracked /\ ss'.unsub = ss.unsub
        /\ ss'.made = ss.made /\ ss'.fired = ss.fired /\ holds' = holds /\ cbq' = cbq /\ busy' = busy
        /\ wire' = wire /\ init' = init /\ silent' = silent
    BY <1>1, <1>2 DEF TakeRequest, Finish, consumer, session, TypeInv, CallType, SessionType
  <2>2. Tail(ss.rq) \in Seq(Requests)
    BY <1>1, <2>1, TailText DEF TypeInv, Fields, CallType, SessionType, Answers, Texts, Requests, Outcomes
  <2>3. ss' \in SessionType
    BY <1>1, <1>2, <2>2 DEF TakeRequest, Finish, consumer, session, TypeInv, SessionType
  <2>4. TypeInv'
    BY <1>1, <2>1, <2>2, <2>3, TailText DEF TypeInv, Fields
  <2>5. RequestInv'
    <3>1. /\ Len(ss.rq) \in Nat /\ 1 \in 1..Len(ss.rq) /\ ss.rq[1] = Head(ss.rq)
          /\ \A i \in 1..Len(ss'.rq) : ss'.rq[i] = ss.rq[i + 1] /\ i + 1 \in 1..Len(ss.rq) /\ i + 1 # 1
          /\ \A i, j \in 1..Len(ss'.rq) : i + 1 = j + 1 => i = j
      BY <1>1, <2>1, TailFacts DEF Fields
    <3>. QED  BY <3>1, <2>1 DEF Inv, RequestInv, NoNext
  <2>6. IdleInv'
    BY <1>1, <2>1, <2>2, <2>3, TailText, TailFacts DEF Inv, Fields, IdleInv, Idle, Quiet, RequestInv, NoNext
  <2>7. WireInv'
    BY <1>1, <2>1, <2>2, <2>3, TailText, TailFacts DEF Inv, Fields, WireInv, Live, Quiet, Counted,
       RequestInv, OnlyFrames, NoNext, NoAnswer
  <2>8. QueueInv'
    BY <1>1, <2>1, <2>2, <2>3, TailText, TailFacts DEF Inv, Fields, QueueInv, Live, Quiet, Counted,
       RequestInv, OnlyFrames, NoNext, NoAnswer, NoBatch
  <2>9. JoinInv'
    BY <1>1, <2>1, <2>2, <2>3, TailText, TailFacts DEF Inv, Fields, JoinInv, Quiet, Counted, RequestInv,
       NoAnswer, Answers, NoNext
  <2>10. InitInv'
    BY <1>1, <2>1, <2>2, <2>3 DEF Inv, TypeInv, InitInv
  <2>11. HoldsInv'
    BY <1>1, <2>1, <2>2, <2>3 DEF Inv, TypeInv, HoldsInv, ClientReleased
  <2>12. FrameInv' /\ EndInv'
    BY <1>1, <2>1, <2>2, <2>3 DEF Inv, Fields, FrameInv, EndInv, Counted
  <2>. QED  BY <2>4, <2>5, <2>6, <2>7, <2>8, <2>9, <2>10, <2>11, <2>12 DEF Inv
<1>3. CASE ss.active /\ Head(ss.rq) = "cancel"
  <2>1. Finish([ss EXCEPT !.rq = Tail(ss.rq)], "done") /\ ss.rq # <<>> /\ ss.hpc = "idle"
    BY <1>3 DEF TakeRequest
  <2>2. /\ ss.hpc = "idle" /\ ss.rq # <<>> /\ ss.active /\ Head(ss.rq) = "cancel" /\ cl' = cl
        /\ ss'.open = ss.open /\ ss'.rq = Tail(ss.rq) /\ ss'.hpc = "idle" /\ ss'.active = FALSE
        /\ ss'.tracked = FALSE /\ ss'.unsub = TRUE /\ ss'.made = ss.made /\ ss'.fired = ss.fired /\ holds' = holds
        /\ cbq' = cbq /\ busy' = busy /\ wire' = Append(wire, Response("done")) /\ init' = init
        /\ silent' = silent
    BY <1>1, <1>3, <2>1 DEF TakeRequest, Finish, consumer, session, TypeInv, CallType, SessionType
  <2>3. Tail(ss.rq) \in Seq(Requests)
    BY <1>1, <2>2, TailText DEF TypeInv, Fields, CallType, SessionType, Answers, Texts, Requests, Outcomes
  <2>4. ss' \in SessionType
    BY <1>1, <1>3, <2>1, <2>3 DEF TakeRequest, Finish, consumer, session, TypeInv, SessionType
  <2>5. TypeInv'
    BY <1>1, <2>2, <2>3, <2>4, TailText, AppendMsg, SentMsg DEF TypeInv, Fields
  <2>6. RequestInv'
    <3>1. /\ Len(ss.rq) \in Nat /\ 1 \in 1..Len(ss.rq) /\ ss.rq[1] = Head(ss.rq)
          /\ \A i \in 1..Len(ss'.rq) : ss'.rq[i] = ss.rq[i + 1] /\ i + 1 \in 1..Len(ss.rq) /\ i + 1 # 1
          /\ \A i, j \in 1..Len(ss'.rq) : i + 1 = j + 1 => i = j
      BY <1>1, <2>2, TailFacts DEF Fields
    <3>. QED  BY <3>1, <2>2 DEF Inv, RequestInv, NoNext
  <2>7. FrameInv'
    BY <1>1, <2>2, <2>3, <2>4, AppendMsg, SentMsg DEF Inv, Fields, FrameInv
  <2>8. IdleInv'
    <3>1. cl.pc = "done"
      BY <1>1, <2>2, TailFacts DEF Inv, Fields, RequestInv
    <3>. QED  BY <3>1, <2>2 DEF IdleInv, Idle
  <2>9. WireInv'
    <3>1. cl.pc = "done"
      BY <1>1, <2>2, TailFacts DEF Inv, Fields, RequestInv
    <3>. QED  BY <3>1, <2>2 DEF WireInv, Live
  <2>10. QueueInv'
    <3>1. cl.pc = "done"
      BY <1>1, <2>2, TailFacts DEF Inv, Fields, RequestInv
    <3>. QED  BY <3>1, <2>2 DEF QueueInv, Live
  <2>11. JoinInv'
    <3>1. cl.pc = "done"
      BY <1>1, <2>2, TailFacts DEF Inv, Fields, RequestInv
    <3>. QED  BY <3>1, <2>2 DEF JoinInv
  <2>12. EndInv'
    BY <1>1, <2>2, <2>3, <2>4, AppendMsg, SentMsg DEF Inv, Fields, EndInv, Counted
  <2>13. InitInv'
    BY <1>1, <2>2, <2>3, <2>4 DEF Inv, TypeInv, InitInv
  <2>14. HoldsInv'
    BY <1>1, <2>2, <2>3, <2>4 DEF Inv, TypeInv, HoldsInv, ClientReleased
  <2>. QED  BY <2>5, <2>6, <2>7, <2>8, <2>9, <2>10, <2>11, <2>12, <2>13, <2>14 DEF Inv
<1>4. CASE ss.active /\ Head(ss.rq) # "cancel"
  <2>1. /\ ss.hpc = "idle" /\ ss.rq # <<>> /\ ss.active /\ Head(ss.rq) = "next" /\ cl' = cl /\ ss'.open = ss.open
        /\ ss'.rq = Tail(ss.rq) /\ ss'.hpc = "anext" /\ ss'.active = ss.active /\ ss'.tracked = ss.tracked
        /\ ss'.unsub = ss.unsub /\ ss'.made = ss.made /\ ss'.fired = ss.fired /\ holds' = holds /\ cbq' = cbq
        /\ busy' = busy /\ wire' = wire /\ init' = init /\ silent' = silent
    BY <1>1, <1>4 DEF TakeRequest, Finish, consumer, session, TypeInv, CallType, SessionType
  <2>2. Tail(ss.rq) \in Seq(Requests)
    BY <1>1, <2>1, TailText DEF TypeInv, Fields, CallType, SessionType, Answers, Texts, Requests, Outcomes
  <2>3. ss' \in SessionType
    BY <1>1, <1>4, <2>2 DEF TakeRequest, Finish, consumer, session, TypeInv, SessionType
  <2>4. TypeInv'
    BY <1>1, <2>1, <2>2, <2>3, TailText DEF TypeInv, Fields
  <2>5. RequestInv'
    <3>1. /\ Len(ss.rq) \in Nat /\ 1 \in 1..Len(ss.rq) /\ ss.rq[1] = Head(ss.rq)
          /\ \A i \in 1..Len(ss'.rq) : ss'.rq[i] = ss.rq[i + 1] /\ i + 1 \in 1..Len(ss.rq) /\ i + 1 # 1
          /\ \A i, j \in 1..Len(ss'.rq) : i + 1 = j + 1 => i = j
      BY <1>1, <2>1, TailFacts DEF Fields
    <3>. QED  BY <3>1, <2>1 DEF Inv, RequestInv, NoNext
  <2>6. IdleInv'
    BY <1>1, <2>1, <2>2, <2>3, TailText, TailFacts DEF Inv, Fields, IdleInv, Idle, Quiet, RequestInv, NoNext
  <2>7. WireInv'
    BY <1>1, <2>1, <2>2, <2>3, TailText, TailFacts DEF Inv, Fields, WireInv, Live, Quiet, Counted,
       RequestInv, OnlyFrames, NoNext, NoAnswer
  <2>8. QueueInv'
    BY <1>1, <2>1, <2>2, <2>3, TailText, TailFacts DEF Inv, Fields, QueueInv, Live, Quiet, Counted,
       RequestInv, OnlyFrames, NoNext, NoAnswer, NoBatch
  <2>9. JoinInv'
    BY <1>1, <2>1, <2>2, <2>3, TailText, TailFacts DEF Inv, Fields, JoinInv, Quiet, Counted, RequestInv,
       NoAnswer, Answers, NoNext
  <2>10. InitInv'
    BY <1>1, <2>1, <2>2, <2>3 DEF Inv, TypeInv, InitInv
  <2>11. HoldsInv'
    BY <1>1, <2>1, <2>2, <2>3 DEF Inv, TypeInv, HoldsInv, ClientReleased
  <2>12. FrameInv' /\ EndInv'
    BY <1>1, <2>1, <2>2, <2>3 DEF Inv, Fields, FrameInv, EndInv, Counted
  <2>. QED  BY <2>4, <2>5, <2>6, <2>7, <2>8, <2>9, <2>10, <2>11, <2>12 DEF Inv
<1>. QED  BY <1>2, <1>3, <1>4

(* YieldBatch preserves the invariant. *)
LEMMA YieldBatchStep == ASSUME Inv, YieldBatch PROVE Inv'
<1>1. TypeInv /\ Fields
  BY FieldTypes DEF Inv
<1>2. /\ ss.hpc = "anext" /\ ss.made < MaxBatches /\ cl' = cl /\ ss'.open = ss.open /\ ss'.rq = ss.rq
      /\ ss'.hpc = "idle" /\ ss'.active = ss.active /\ ss'.tracked = ss.tracked /\ ss'.unsub = ss.unsub
      /\ ss'.made = ss.made + 1 /\ ss'.fired = ss.fired /\ holds' = holds /\ cbq' = cbq /\ busy' = busy
      /\ wire' = Append(wire, Response("value")) /\ init' = init /\ silent' = silent
  BY <1>1 DEF YieldBatch, consumer, session, TypeInv, CallType, SessionType
<1>3. ss.made + 1 \in 0..MaxBatches
  BY <1>1, <1>2, PullCallbackAssumption DEF TypeInv, Fields, CallType, SessionType, Answers, Texts,
     Requests, Outcomes
<1>4. ss' \in SessionType
  BY <1>1, <1>3 DEF YieldBatch, consumer, session, TypeInv, SessionType
<1>5. TypeInv'
  BY <1>1, <1>2, <1>3, <1>4, AppendMsg, SentMsg DEF TypeInv, Fields
<1>6. RequestInv'
  BY <1>1, <1>2, <1>3, <1>4 DEF Inv, Fields, RequestInv, NoNext
<1>7. FrameInv'
  BY <1>1, <1>2, <1>3, <1>4, AppendMsg, SentMsg DEF Inv, Fields, FrameInv
<1>8. IdleInv'
  BY <1>1, <1>2, <1>3, <1>4, AppendMsg, SentMsg DEF Inv, Fields, IdleInv, Idle, Quiet
<1>9. WireInv'
  <2>1. OnlyFrames(wire) \/ ~Live
    BY <1>2 DEF Inv, WireInv, OnlyFrames, Quiet
  <2>2. Live => cl.pc = "parked" /\ NoAnswer(cl.queue)
    BY <1>2 DEF Inv, Live, Idle, IdleInv, JoinInv, QueueInv, NoAnswer, Quiet
  <2>3. Quiet' /\ Counted("value")'
    BY <1>1, <1>2 DEF Inv, Fields, RequestInv, Quiet, Counted
  <2>4. /\ Len(wire) \in Nat /\ Len(wire') = Len(wire) + 1 /\ wire'[Len(wire) + 1].type = "value"
        /\ \A j \in 1..Len(wire) : wire'[j] = wire[j]
    BY <1>1, <1>2, AppendFacts, SentMsg DEF Fields
  <2>. QED  BY <2>1, <2>2, <2>3, <2>4, <1>2 DEF WireInv, Live, OnlyFrames
<1>10. QueueInv'
  BY <1>1, <1>2, <1>3, <1>4, AppendMsg, SentMsg DEF Inv, Fields, QueueInv, Live, Quiet, Counted
<1>11. JoinInv'
  BY <1>1, <1>2, <1>3, <1>4, AppendMsg, SentMsg DEF Inv, Fields, JoinInv, Quiet, Counted
<1>12. EndInv'
  BY <1>1, <1>2, <1>3, <1>4, AppendMsg, SentMsg DEF Inv, Fields, EndInv, Counted
<1>13. InitInv'
  BY <1>1, <1>2, <1>3, <1>4 DEF Inv, TypeInv, InitInv
<1>14. HoldsInv'
  BY <1>1, <1>2, <1>3, <1>4 DEF Inv, TypeInv, HoldsInv, ClientReleased
<1>. QED  BY <1>5, <1>6, <1>7, <1>8, <1>9, <1>10, <1>11, <1>12, <1>13, <1>14 DEF Inv

(* EndSession preserves the invariant. *)
LEMMA EndSessionStep == ASSUME Inv, EndSession PROVE Inv'
<1>1. TypeInv /\ Fields
  BY FieldTypes DEF Inv
<1>2. CASE Finish(ss, "done")
  <2>1. /\ ss.hpc = "anext" /\ cl' = cl /\ ss'.open = ss.open /\ ss'.rq = ss.rq /\ ss'.hpc = "idle"
        /\ ss'.active = FALSE /\ ss'.tracked = FALSE /\ ss'.unsub = TRUE /\ ss'.made = ss.made
        /\ ss'.fired = ss.fired /\ holds' = holds /\ cbq' = cbq /\ busy' = busy
        /\ wire' = Append(wire, Response("done")) /\ init' = init /\ silent' = silent
    BY <1>1, <1>2 DEF EndSession, Finish, consumer, session, TypeInv, CallType, SessionType
  <2>2. ss' \in SessionType
    BY <1>1, <1>2 DEF EndSession, Finish, consumer, session, TypeInv, SessionType
  <2>3. TypeInv'
    BY <1>1, <2>1, <2>2, AppendMsg, SentMsg DEF TypeInv, Fields
  <2>4. FrameInv'
    BY <1>1, <2>1, <2>2, AppendMsg, SentMsg DEF Inv, Fields, FrameInv
  <2>5. IdleInv'
    BY <1>1, <2>1, <2>2, AppendMsg, SentMsg DEF Inv, Fields, IdleInv, Idle, Quiet
  <2>6. WireInv'
    <3>1. OnlyFrames(wire) \/ ~Live
      BY <2>1 DEF Inv, WireInv, OnlyFrames, Quiet
    <3>2. Live => cl.pc = "parked" /\ NoAnswer(cl.queue)
      BY <2>1 DEF Inv, Live, Idle, IdleInv, JoinInv, QueueInv, NoAnswer, Quiet
    <3>3. Quiet' /\ Counted("done")'
      BY <1>1, <2>1 DEF Inv, Fields, RequestInv, Quiet, Counted
    <3>4. /\ Len(wire) \in Nat /\ Len(wire') = Len(wire) + 1 /\ wire'[Len(wire) + 1].type = "done"
          /\ \A j \in 1..Len(wire) : wire'[j] = wire[j]
      BY <1>1, <2>1, AppendFacts, SentMsg DEF Fields
    <3>. QED  BY <3>1, <3>2, <3>3, <3>4, <2>1 DEF WireInv, Live, OnlyFrames
  <2>7. QueueInv'
    BY <1>1, <2>1, <2>2, AppendMsg, SentMsg DEF Inv, Fields, QueueInv, Live, Quiet, Counted
  <2>8. JoinInv'
    BY <1>1, <2>1, <2>2, AppendMsg, SentMsg DEF Inv, Fields, JoinInv, Quiet, Counted
  <2>9. EndInv'
    BY <1>1, <2>1, <2>2, AppendMsg, SentMsg DEF Inv, Fields, EndInv, Counted
  <2>10. InitInv'
    BY <1>1, <2>1, <2>2 DEF Inv, TypeInv, InitInv
  <2>11. HoldsInv'
    BY <1>1, <2>1, <2>2 DEF Inv, TypeInv, HoldsInv, ClientReleased
  <2>12. RequestInv'
    BY <1>1, <2>1, <2>2 DEF Inv, Fields, RequestInv
  <2>. QED  BY <2>3, <2>4, <2>5, <2>6, <2>7, <2>8, <2>9, <2>10, <2>11, <2>12 DEF Inv
<1>3. CASE Finish(ss, "error")
  <2>1. /\ ss.hpc = "anext" /\ cl' = cl /\ ss'.open = ss.open /\ ss'.rq = ss.rq /\ ss'.hpc = "idle"
        /\ ss'.active = FALSE /\ ss'.tracked = FALSE /\ ss'.unsub = TRUE /\ ss'.made = ss.made
        /\ ss'.fired = ss.fired /\ holds' = holds /\ cbq' = cbq /\ busy' = busy
        /\ wire' = Append(wire, Response("error")) /\ init' = init /\ silent' = silent
    BY <1>1, <1>3 DEF EndSession, Finish, consumer, session, TypeInv, CallType, SessionType
  <2>2. ss' \in SessionType
    BY <1>1, <1>3 DEF EndSession, Finish, consumer, session, TypeInv, SessionType
  <2>3. TypeInv'
    BY <1>1, <2>1, <2>2, AppendMsg, SentMsg DEF TypeInv, Fields
  <2>4. FrameInv'
    BY <1>1, <2>1, <2>2, AppendMsg, SentMsg DEF Inv, Fields, FrameInv
  <2>5. IdleInv'
    BY <1>1, <2>1, <2>2, AppendMsg, SentMsg DEF Inv, Fields, IdleInv, Idle, Quiet
  <2>6. WireInv'
    <3>1. OnlyFrames(wire) \/ ~Live
      BY <2>1 DEF Inv, WireInv, OnlyFrames, Quiet
    <3>2. Live => cl.pc = "parked" /\ NoAnswer(cl.queue)
      BY <2>1 DEF Inv, Live, Idle, IdleInv, JoinInv, QueueInv, NoAnswer, Quiet
    <3>3. Quiet' /\ Counted("error")'
      BY <1>1, <2>1 DEF Inv, Fields, RequestInv, Quiet, Counted
    <3>4. /\ Len(wire) \in Nat /\ Len(wire') = Len(wire) + 1 /\ wire'[Len(wire) + 1].type = "error"
          /\ \A j \in 1..Len(wire) : wire'[j] = wire[j]
      BY <1>1, <2>1, AppendFacts, SentMsg DEF Fields
    <3>. QED  BY <3>1, <3>2, <3>3, <3>4, <2>1 DEF WireInv, Live, OnlyFrames
  <2>7. QueueInv'
    BY <1>1, <2>1, <2>2, AppendMsg, SentMsg DEF Inv, Fields, QueueInv, Live, Quiet, Counted
  <2>8. JoinInv'
    BY <1>1, <2>1, <2>2, AppendMsg, SentMsg DEF Inv, Fields, JoinInv, Quiet, Counted
  <2>9. EndInv'
    BY <1>1, <2>1, <2>2, AppendMsg, SentMsg DEF Inv, Fields, EndInv, Counted
  <2>10. InitInv'
    BY <1>1, <2>1, <2>2 DEF Inv, TypeInv, InitInv
  <2>11. HoldsInv'
    BY <1>1, <2>1, <2>2 DEF Inv, TypeInv, HoldsInv, ClientReleased
  <2>12. RequestInv'
    BY <1>1, <2>1, <2>2 DEF Inv, Fields, RequestInv
  <2>. QED  BY <2>3, <2>4, <2>5, <2>6, <2>7, <2>8, <2>9, <2>10, <2>11, <2>12 DEF Inv
<1>. QED  BY <1>2, <1>3 DEF EndSession

(* Unsubscribe preserves the invariant. *)
LEMMA UnsubscribeStep == ASSUME Inv, Unsubscribe PROVE Inv'
<1>1. TypeInv /\ Fields
  BY FieldTypes DEF Inv
<1>2. /\ cl' = cl /\ ss'.open = FALSE /\ ss'.rq = <<>> /\ ss'.hpc = ss.hpc /\ ss'.active = ss.active
      /\ ss'.tracked = ss.tracked /\ ss'.unsub = FALSE /\ ss'.made = ss.made /\ ss'.fired = ss.fired
      /\ holds' = holds /\ cbq' = cbq /\ busy' = busy /\ wire' = wire /\ init' = init /\ silent' = silent
  BY <1>1 DEF Unsubscribe, consumer, session, TypeInv, CallType, SessionType
<1>3. <<>> \in Seq(Requests)
  BY <1>1, <1>2 DEF TypeInv, Fields, CallType, SessionType, Answers, Texts, Requests, Outcomes
<1>4. ss' \in SessionType
  BY <1>1, <1>3 DEF Unsubscribe, consumer, session, TypeInv, SessionType
<1>5. TypeInv'
  BY <1>1, <1>2, <1>3, <1>4, ShortMsg DEF TypeInv, Fields
<1>6. RequestInv'
  BY <1>1, <1>2, <1>3, <1>4, ShortMsg DEF Inv, Fields, RequestInv, NoNext
<1>7. IdleInv'
  BY <1>1, <1>2, <1>3, <1>4, ShortMsg DEF Inv, Fields, IdleInv, Idle, Quiet
<1>8. WireInv'
  BY <1>1, <1>2, <1>3, <1>4, ShortMsg DEF Inv, Fields, WireInv, Live, Quiet, Counted
<1>9. QueueInv'
  BY <1>1, <1>2, <1>3, <1>4, ShortMsg DEF Inv, Fields, QueueInv, Live, Quiet, Counted
<1>10. JoinInv'
  BY <1>1, <1>2, <1>3, <1>4, ShortMsg DEF Inv, Fields, JoinInv, Quiet, Counted
<1>11. InitInv'
  BY <1>1, <1>2, <1>3, <1>4 DEF Inv, TypeInv, InitInv
<1>12. HoldsInv'
  BY <1>1, <1>2, <1>3, <1>4 DEF Inv, TypeInv, HoldsInv, ClientReleased
<1>13. FrameInv' /\ EndInv'
  BY <1>1, <1>2, <1>3, <1>4 DEF Inv, Fields, FrameInv, EndInv, Counted
<1>. QED  BY <1>5, <1>6, <1>7, <1>8, <1>9, <1>10, <1>11, <1>12, <1>13 DEF Inv

(* RemoveHandlers preserves the invariant. *)
LEMMA RemoveHandlersStep == ASSUME Inv, RemoveHandlers PROVE Inv'
<1>1. TypeInv /\ Fields
  BY FieldTypes DEF Inv
<1>2. CASE ss.tracked
  <2>1. /\ ss' = [ss EXCEPT !.open = FALSE, !.rq = <<>>, !.hpc = "idle", !.active = FALSE, !.tracked = FALSE]
        /\ silent' \subseteq silent \cup {"stopped"}
    BY <1>2 DEF RemoveHandlers
  <2>2. /\ (init = "answered" => init' = init) /\ init' \in {init, "dropped"}
        /\ silent' \subseteq silent \cup {"stopped"} /\ cl' = cl /\ ss'.open = FALSE /\ ss'.rq = <<>>
        /\ ss'.hpc = "idle" /\ ss'.active = FALSE /\ ss'.tracked = FALSE /\ ss'.unsub = ss.unsub
        /\ ss'.made = ss.made /\ ss'.fired = ss.fired /\ holds' = holds /\ cbq' = cbq /\ busy' = busy
        /\ wire' = wire
    BY <1>1, <1>2, <2>1 DEF RemoveHandlers, consumer, session, TypeInv, CallType, SessionType
  <2>3. <<>> \in Seq(Requests)
    BY <1>1, <2>2 DEF TypeInv, Fields, CallType, SessionType, Answers, Texts, Requests, Outcomes
  <2>4. ss' \in SessionType
    BY <1>1, <1>2, <2>1, <2>3 DEF RemoveHandlers, consumer, session, TypeInv, SessionType
  <2>5. TypeInv'
    BY <1>1, <2>2, <2>3, <2>4, ShortMsg DEF TypeInv, Fields
  <2>6. RequestInv'
    BY <1>1, <2>2, <2>3, <2>4, ShortMsg DEF Inv, Fields, RequestInv, NoNext
  <2>7. IdleInv'
    BY <1>1, <2>2, <2>3, <2>4, ShortMsg DEF Inv, Fields, IdleInv, Idle, Quiet
  <2>8. WireInv'
    BY <1>1, <2>2, <2>3, <2>4, ShortMsg DEF Inv, Fields, WireInv, Live, Quiet, Counted
  <2>9. QueueInv'
    BY <1>1, <2>2, <2>3, <2>4, ShortMsg DEF Inv, Fields, QueueInv, Live, Quiet, Counted
  <2>10. JoinInv'
    BY <1>1, <2>2, <2>3, <2>4, ShortMsg DEF Inv, Fields, JoinInv, Quiet, Counted
  <2>11. InitInv'
    BY <1>1, <2>2, <2>3, <2>4 DEF Inv, TypeInv, InitInv
  <2>12. HoldsInv'
    BY <1>1, <2>2, <2>3, <2>4 DEF Inv, TypeInv, HoldsInv, ClientReleased
  <2>13. FrameInv' /\ EndInv'
    BY <1>1, <2>2, <2>3, <2>4 DEF Inv, Fields, FrameInv, EndInv, Counted
  <2>. QED  BY <2>5, <2>6, <2>7, <2>8, <2>9, <2>10, <2>11, <2>12, <2>13 DEF Inv
<1>3. CASE ~ss.tracked
  <2>1. /\ (init = "answered" => init' = init) /\ init' \in {init, "dropped"} /\ cl' = cl /\ ss' = ss
        /\ holds' = holds /\ cbq' = cbq /\ busy' = busy /\ wire' = wire /\ silent' = silent
    BY <1>1, <1>3 DEF RemoveHandlers, consumer, session, TypeInv, CallType, SessionType
  <2>2. TypeInv'
    BY <1>1, <2>1 DEF TypeInv, Fields
  <2>3. WireInv' /\ QueueInv'
    BY <1>1, <2>1 DEF Inv, Fields, WireInv, Live, Quiet, Counted, QueueInv
  <2>4. RequestInv' /\ FrameInv' /\ IdleInv' /\ JoinInv' /\ EndInv' /\ InitInv' /\ HoldsInv'
    BY <1>1, <2>1 DEF Inv, TypeInv, Fields, RequestInv, FrameInv, IdleInv, Idle, Quiet, JoinInv, Counted,
       EndInv, InitInv, HoldsInv, ClientReleased
  <2>. QED  BY <2>2, <2>3, <2>4 DEF Inv
<1>. QED  BY <1>2, <1>3

(* The initial state satisfies the invariant. *)
LEMMA InitStep == ASSUME Init PROVE Inv
<1>1. TypeInv
  BY PullCallbackAssumption DEF Init, TypeInv, CallType, SessionType, Pcs, Outcomes
<1>2. RequestInv /\ FrameInv /\ IdleInv /\ WireInv /\ QueueInv
  BY DEF Init, RequestInv, FrameInv, InStep, IdleInv, Quiet, NoNext, OnlyFrames, NoAnswer, NoBatch,
         WireInv, QueueInv
<1>3. JoinInv /\ EndInv /\ InitInv /\ HoldsInv
  BY DEF Init, JoinInv, EndInv, InitInv, HoldsInv, ClientReleased
<1>. QED  BY <1>1, <1>2, <1>3 DEF Inv

(* The invariant is inductive. *)
LEMMA InvStep == ASSUME Inv, [Next]_vars PROVE Inv'
<1>1. CASE Client
  BY <1>1, StartStep, InitAnsweredStep, InitRaisedStep, PublishNextStep, GetStep, JoinStep, ResumeStep,
     CleanupStep,
     SendCancelStep DEF Client
<1>2. CASE Task
  BY <1>2, TakeFrameStep, FrameDoneStep DEF Task
<1>3. CASE Deliver
  BY <1>3, ReceiveStep, NoRespondersStep DEF Deliver
<1>4. CASE Responder
  BY <1>4, OpenSessionStep, TakeRequestStep, YieldBatchStep, EndSessionStep, UnsubscribeStep DEF Responder
<1>5. CASE AbandonInit \/ Leave \/ Sweep \/ CloseConnection \/ Invoke \/ RemoveHandlers
  BY <1>5, AbandonInitStep, LeaveStep, SweepStep, CloseConnectionStep, InvokeStep, RemoveHandlersStep
<1>6. CASE UNCHANGED vars
  <2>1. UNCHANGED <<cl, ss, holds, cbq, busy, wire, init, silent>>
    BY <1>6 DEF vars, consumer, session
  <2>2. TypeInv' /\ RequestInv' /\ FrameInv' /\ IdleInv'
    BY <2>1 DEF Inv, TypeInv, RequestInv, FrameInv, IdleInv, Idle, Quiet
  <2>3. WireInv' /\ QueueInv'
    BY <2>1 DEF Inv, WireInv, QueueInv, Live, Quiet, Counted
  <2>4. JoinInv' /\ EndInv' /\ InitInv' /\ HoldsInv'
    BY <2>1 DEF Inv, JoinInv, EndInv, InitInv, HoldsInv, ClientReleased, Quiet, Counted
  <2>. QED  BY <2>2, <2>3, <2>4 DEF Inv
<1>. QED  BY <1>1, <1>2, <1>3, <1>4, <1>5, <1>6 DEF Next

(* Hence every state satisfies it. *)
LEMMA Invariance == Spec => []Inv
<1>1. Init => Inv
  BY InitStep
<1>2. Inv /\ [Next]_vars => Inv'
  BY InvStep
<1>. QED  BY <1>1, <1>2, PTL DEF Spec

-----------------------------------------------------------------------------
(* What it says. *)

(* No frame of the batches so far is left when none is in step or later. *)
LEMMA NothingUnseen ==
  ASSUME Inv, NEW n \in Nat, n <= cl.got
  PROVE  Unseen(n) = {}
<1>1. Fields
  BY FieldTypes DEF Inv
<1>2. \A m \in Range(wire) \cup Range(cbq) \cup Range(busy) : m.batch \in {0, cl.got + 1}
  BY <1>1 DEF Inv, Fields, FrameInv, InStep, Range
<1>3. 0 \notin 1..n /\ cl.got + 1 \notin 1..n
  BY <1>1 DEF Fields
<1>. QED  BY <1>2, <1>3 DEF Unseen

(* Nor when a loop ended normally. *)
LEMMA NothingLeft ==
  ASSUME Inv, NoBatch(wire), NoBatch(cbq), NoBatch(busy), NEW n \in Nat
  PROVE  Unseen(n) = {}
<1>1. Fields
  BY FieldTypes DEF Inv
<1>2. \A m \in Range(wire) \cup Range(cbq) \cup Range(busy) : m.batch = 0
  BY <1>1 DEF Fields, NoBatch, Range
<1>. QED  BY <1>2 DEF Unseen

(* The invariant implies the type invariant of the module. *)
LEMMA InvTypes == ASSUME Inv PROVE TypeOK
<1>1. TypeInv /\ Fields
  BY FieldTypes DEF Inv
<1>2. cl.pc \in Pcs /\ cl.got \in 0..MaxBatches /\ ss.made \in 0..MaxBatches /\ ss.fired \in 0..MaxFrames
  BY <1>1, PullCallbackAssumption DEF TypeInv, Fields, CallType, SessionType
<1>3. Range(cl.queue) \subseteq {"value", "done", "error", "noresp", "closed"}
  BY <1>1 DEF Fields, Texts, Answers, Range
<1>4. \A m \in Range(wire) \cup Range(cbq) : m.batch \in {0, cl.got + 1}
  BY <1>1 DEF Inv, Fields, FrameInv, InStep, Range
<1>5. \A m \in Range(wire) \cup Range(cbq) : m.batch \in 0..MaxBatches + 1
  BY <1>2, <1>4, PullCallbackAssumption
<1>. QED  BY <1>1, <1>2, <1>3, <1>5 DEF TypeOK, TypeInv, Pcs

(* The frames of a batch come before its boundary (BatchBoundary), and the
   generator of handle_pull_callback_request() works on a batch only when the
   consumer's callbacks are through with all earlier ones (Backpressure), for
   every number of batches and of frames. *)
THEOREM BoundariesAlways == Spec => []Boundaries
<1>1. Inv => Boundaries
  <2>1. SUFFICES ASSUME Inv PROVE Boundaries
    OBVIOUS
  <2>2. Fields /\ cl.got <= ss.made
    BY <2>1, FieldTypes DEF Inv, TypeInv
  <2>3. BatchBoundary
    <3>1. cl.pc = "yielded" => Unseen(cl.got) = {}
      BY <2>1, <2>2, NothingUnseen DEF Fields
    <3>2. ASSUME cl.pc = "done", cl.outcome = "done" PROVE Unseen(ss.made + 1) = {} /\ cl.got = ss.made
      <4>1. ss.made + 1 \in Nat
        BY <2>2 DEF Fields
      <4>2. NoBatch(wire) /\ NoBatch(cbq) /\ NoBatch(busy) /\ cl.got = ss.made
        BY <2>1, <3>2 DEF Inv, EndInv, Counted
      <4>. QED  BY <2>1, <4>1, <4>2, NothingLeft
    <3>. QED  BY <3>1, <3>2 DEF BatchBoundary
  <2>4. Backpressure
    <3>1. ASSUME ss.hpc = "anext" PROVE Unseen(ss.made) = {} /\ cl.got = ss.made
      <4>1. cl.got = ss.made
        BY <2>1, <3>1 DEF Inv, RequestInv
      <4>. QED  BY <2>1, <2>2, <4>1, NothingUnseen DEF Fields
    <3>. QED  BY <3>1 DEF Backpressure
  <2>. QED  BY <2>1, <2>3, <2>4, InvTypes DEF Boundaries
<1>. QED  BY <1>1, Invariance, PTL

(* A call of call_pull_iterator_with_callback() that is over keeps neither a
   task nor a subscription nor an entry of the client, on every way out but
   the three that ClientReleased names: the safety half of Released. *)
THEOREM ClientReleasedAlways == Spec => []ClientReleased
<1>1. Inv => ClientReleased
  BY DEF Inv, HoldsInv
<1>. QED  BY <1>1, Invariance, PTL

=============================================================================
