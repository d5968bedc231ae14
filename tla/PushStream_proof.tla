-------------------------- MODULE PushStream_proof --------------------------
(***************************************************************************)
(* Proofs about PushStream, for every number of retries and every length   *)
(* of the stream: the consumer's loop sees the values of one session in    *)
(* order and all of them when it ends normally, a retry never asks a       *)
(* generator that has run, and a stream that is over holds nothing.        *)
(*                                                                         *)
(* The argument has three parts.  Only the current attempt holds anything, *)
(* so callbacks of earlier attempts change nothing.  While its handler is  *)
(* there, got, queue and the data on the wire add up to what the session   *)
(* sent; once it is not, what is queued is still a prefix.  And the error  *)
(* that leads to a retry tells what became of the session: it was never    *)
(* asked, or its generator raised what looks like a 503.                   *)
(***************************************************************************)
EXTENDS PushStream, TLAPS

Pcs == {"start", "sub", "publish", "get", "yielded", "backoff", "done"}
Errors == {"none", "noresp", "error", "err503"}

Calls ==
    [pc : Pcs, att : 0..MaxRetries + 1, queue : Seq(0..Marker), ended : BOOLEAN, error : Errors,
     got : Seq(1..MaxVals), before : Nat, outcome : {"none", "end", "raised", "left"}]

Sessions ==
    [pc : {"none", "asked", "refused", "dropped", "running", "done"}, out : Seq(0..MaxVals),
     cancelled : BOOLEAN, result : {"none", "stopped"} \cup Results]

Messages == [type : {"data"} \cup Results, value : 0..MaxVals]

ShapeInv ==
    /\ cl \in Calls
    /\ held \in [Attempts -> SUBSET {"handler", "status", "sub"}]
    /\ conn \in {"up", "swept", "down"}
    /\ ssn \in [Attempts -> Sessions]
    /\ wire \in [Attempts -> Seq(Messages)]
    /\ silent \subseteq {"late", "refused", "vanished", "dropped"}
    /\ r503 \subseteq Attempts /\ cancels \subseteq Attempts

(* There is an attempt to make or under way, and only a call that is over has an
   outcome. *)
PcInv ==
    /\ cl.pc \in {"start", "backoff"} => cl.att <= MaxRetries
    /\ cl.pc \notin {"start", "done"} => cl.att > 0
    /\ cl.pc = "done" <=> cl.outcome # "none"
    /\ cl.outcome \in {"end", "left"} => cl.att > 0

(* Attempts whose request was not published yet. *)
Unasked(a) == a > cl.att \/ (a = cl.att /\ cl.pc \in {"sub", "publish"})

AskedInv ==
    \A a \in Attempts :
        /\ Unasked(a) => ssn[a].pc = "none" /\ a \notin r503
        /\ a \in r503 => ssn[a].pc = "none"

(* A session has a result when it is over, and has sent nothing before it was
   asked. *)
SessionInv ==
    \A a \in Attempts :
        /\ ssn[a].result # "none" => ssn[a].pc = "done"
        /\ ssn[a].pc = "none" => ssn[a].out = <<>> /\ wire[a] = <<>>

(* Only the current attempt holds anything, and nothing between two attempts. *)
HeldInv ==
    \A a \in Attempts :
        /\ a # cl.att \/ cl.pc \in {"start", "backoff"} \/ cl.outcome = "end" => held[a] = {}
        /\ "handler" \in held[a] /\ conn # "up" => "late" \in silent
        /\ cl.pc = "sub" => held[a] \subseteq {"handler"}
        /\ "handler" \in held[a] /\ cl.pc # "sub" /\ conn # "down" => "sub" \in held[a]
        /\ "handler" \in held[a] /\ cl.ended => cl.error = "noresp"

(* The error tells what became of the session. *)
ErrorInv ==
    /\ cl.error # "none" => cl.ended /\ cl.att > 0 /\ cl.pc \notin {"sub", "publish"}
    /\ cl.error = "noresp" => ssn[cl.att].pc = "none"
    /\ cl.error \in Results => ssn[cl.att].result = cl.error
    /\ cl.pc \in {"start", "backoff"} /\ cl.att > 0 =>
        ssn[cl.att].pc = "none" \/ ssn[cl.att].result = "err503"

(* Data messages of a session on the wire: all but a closing one, which is last. *)
Pending(w) == IF w # <<>> /\ w[Len(w)].type # "data" THEN Len(w) - 1 ELSE Len(w)

(* They are the last values that the session sent, in order. *)
WireOK(w, out, result) ==
    /\ Pending(w) <= Len(out)
    /\ \A i \in 1..Len(w) :
        \/ /\ w[i].type = "data" /\ i <= Pending(w)
           /\ w[i].value = out[Len(out) - Pending(w) + i]
        \/ w[i].type \in Results /\ i = Len(w) /\ result = w[i].type

WireInv == \A a \in Attempts : WireOK(wire[a], ssn[a].out, ssn[a].result)

(* What the consumer has and what is queued for it is a prefix of out. *)
PrefixOK(got, queue, out) ==
    /\ Len(got) <= Len(out) /\ \A i \in 1..Len(got) : got[i] = out[i]
    /\ \A j \in 1..Len(queue) :
        queue[j] # Marker => Len(got) + j <= Len(out) /\ queue[j] = out[Len(got) + j]

NoMarker(queue, n) == \A j \in 1..n : queue[j] # Marker

(* The last message was the end of the stream, behind all of its values. *)
AllQueued(got, queue, out) ==
    Len(queue) > 0 /\ Len(got) + Len(queue) - 1 = Len(out) /\ NoMarker(queue, Len(queue) - 1)

(* While the current attempt listens, nothing is missing between what is queued
   and what is on the wire; a stream that ended without an error is complete or
   was cut short by a teardown. *)
FlowInv ==
    cl.att > 0 =>
        /\ PrefixOK(cl.got, cl.queue, ssn[cl.att].out)
        /\ ~cl.ended => NoMarker(cl.queue, Len(cl.queue))
        /\ "handler" \in held[cl.att] /\ ~cl.ended /\ conn # "down" =>
              Len(cl.got) + Len(cl.queue) + Pending(wire[cl.att]) = Len(ssn[cl.att].out)
        /\ cl.ended /\ cl.error = "none" =>
              torn \/ (ssn[cl.att].result = "end" /\ AllQueued(cl.got, cl.queue, ssn[cl.att].out))

PushInv ==
    /\ ShapeInv /\ PcInv /\ AskedInv /\ SessionInv /\ HeldInv /\ ErrorInv /\ WireInv /\ FlowInv
    /\ EndMeansAll /\ OneStream /\ Released

-----------------------------------------------------------------------------
(* What the steps do to the fields of the records, one effect per definition. *)

Kept ==
    /\ cl'.att = cl.att /\ cl'.queue = cl.queue /\ cl'.ended = cl.ended
    /\ cl'.error = cl.error /\ cl'.got = cl.got

ClAt(pc) == cl' \in Calls /\ cl'.pc = pc /\ cl'.outcome = cl.outcome /\ Kept
ClDone(outcome) == cl' \in Calls /\ cl'.pc = "done" /\ cl'.outcome = outcome /\ Kept

ClBegins ==
    /\ cl' \in Calls /\ cl'.pc = "sub" /\ cl'.outcome = cl.outcome /\ cl'.att = cl.att + 1
    /\ cl'.queue = <<>> /\ cl'.ended = FALSE /\ cl'.error = "none" /\ cl'.got = <<>>

ClTakes(v) ==
    /\ cl' \in Calls /\ cl'.pc = "yielded" /\ cl'.outcome = cl.outcome /\ cl'.att = cl.att
    /\ cl'.queue = Tail(cl.queue) /\ cl'.got = Append(cl.got, v)
    /\ cl'.ended = cl.ended /\ cl'.error = cl.error

ClQueues(v) ==
    /\ cl' \in Calls /\ cl'.pc = cl.pc /\ cl'.outcome = cl.outcome /\ cl'.att = cl.att
    /\ cl'.queue = Append(cl.queue, v) /\ cl'.got = cl.got
    /\ cl'.ended = cl.ended /\ cl'.error = cl.error

ClCloses(error) ==
    /\ cl' \in Calls /\ cl'.pc = cl.pc /\ cl'.outcome = cl.outcome /\ cl'.att = cl.att
    /\ cl'.queue = Append(cl.queue, Marker) /\ cl'.got = cl.got
    /\ cl'.ended = TRUE /\ cl'.error = error

(* An exception ends the call or leads to the next attempt. *)
ClFails(e) ==
    \/ ClDone("raised")
    \/ ClAt("backoff") /\ e \in {"noresp", "err503"} /\ cl.att <= MaxRetries

Clears == held' = [held EXCEPT ![cl.att] = {}] /\ cancels' \subseteq Attempts

Loops ==
    \/ ClAt("get") /\ cl.error = "none" /\ UNCHANGED <<held, cancels>>
    \/ cl.error # "none" /\ Clears /\ ClFails(cl.error)

SsnOnly(a) ==
    /\ ssn' \in [Attempts -> Sessions]
    /\ \A b \in Attempts : b # a => ssn'[b] = ssn[b]

SsnAt(a, pc) ==
    SsnOnly(a) /\ ssn'[a].pc = pc /\ ssn'[a].out = ssn[a].out /\ ssn'[a].result = ssn[a].result

SsnOver(a, result) ==
    SsnOnly(a) /\ ssn'[a].pc = "done" /\ ssn'[a].out = ssn[a].out /\ ssn'[a].result = result

SsnSends(a, v) ==
    SsnOnly(a) /\ ssn'[a].pc = ssn[a].pc /\ ssn'[a].out = Append(ssn[a].out, v)
               /\ ssn'[a].result = ssn[a].result

WireOnly(a) ==
    /\ wire' \in [Attempts -> Seq(Messages)]
    /\ \A b \in Attempts : b # a => wire'[b] = wire[b]

Starts ==
    /\ UNCHANGED <<torn, r503, responder, cancels>>
    /\ cl.pc = "start"
    /\ \/ ClDone("raised") /\ UNCHANGED <<held, conn, silent>>
       \/ /\ ClBegins /\ cl.att + 1 \in Attempts
          /\ conn' = IF conn = "down" THEN "up" ELSE conn
          /\ silent' = IF conn = "swept" THEN silent \cup {"late"} ELSE silent
          /\ held' = [held EXCEPT ![cl.att + 1] = {"handler"}]

Subscribes ==
    /\ UNCHANGED <<conn, torn, r503, responder, cancels, silent>>
    /\ cl.pc = "sub"
    /\ \/ ClDone("raised") /\ conn = "down" /\ UNCHANGED held
       \/ /\ ClAt("publish") /\ conn # "down"
          /\ held' = [held EXCEPT ![cl.att] = @ \cup {"sub", "status"}]

Publishes ==
    /\ UNCHANGED <<conn, torn, wire, silent>>
    /\ cl.pc = "publish" /\ cl.att \in Attempts
    /\ \/ Clears /\ ClDone("raised") /\ UNCHANGED <<ssn, r503>>
       \/ Loops /\ SsnAt(cl.att, "asked") /\ UNCHANGED r503
       \/ Loops /\ r503' = r503 \cup {cl.att} /\ UNCHANGED ssn

Gets ==
    /\ UNCHANGED <<conn, torn, r503, responder, silent>>
    /\ cl.pc = "get" /\ cl.att \in Attempts /\ cl.queue # <<>>
    /\ \/ Head(cl.queue) \in 1..MaxVals /\ ClTakes(Head(cl.queue)) /\ UNCHANGED <<held, cancels>>
       \/ /\ Head(cl.queue) \in {Marker, NoneValue} /\ Clears
          /\ \/ cl.error = "none" /\ ClDone("end")
             \/ cl.error # "none" /\ ClFails(cl.error)

Resumes ==
    UNCHANGED <<conn, torn, r503, responder, silent>> /\ cl.pc = "yielded" /\ cl.att \in Attempts /\ Loops

Leaves ==
    UNCHANGED <<held, conn, torn, r503, responder, cancels, silent>> /\ cl.pc \in {"get", "yielded"} /\ ClDone("left")

Wakes ==
    UNCHANGED <<held, conn, torn, r503, responder, cancels, silent>> /\ cl.pc = "backoff" /\ ClAt("start")

Delivers(a) ==
    /\ UNCHANGED <<conn, torn, r503, ssn, cancels, silent>>
    /\ wire[a] # <<>> /\ WireOnly(a) /\ wire'[a] = Tail(wire[a])
    /\ \/ /\ cl' = cl /\ held' = held
          /\ a = cl.att => "handler" \notin held[a] \/ conn = "down" \/ cl.ended
       \/ /\ a = cl.att /\ "handler" \in held[a] /\ conn # "down"
          /\ \/ /\ Head(wire[a]).type = "data" /\ ~cl.ended /\ held' = held
                /\ ClQueues(Head(wire[a]).value)
             \/ /\ Head(wire[a]).type = "end" /\ ClCloses(cl.error)
                /\ held' = [held EXCEPT ![a] = {}]
             \/ /\ Head(wire[a]).type \in {"error", "err503"} /\ ClCloses(Head(wire[a]).type)
                /\ held' = [held EXCEPT ![a] = {}]

Refuses(a) ==
    /\ UNCHANGED <<conn, torn, responder, cancels, silent>>
    /\ a \in r503 /\ r503' = r503 \ {a}
    /\ held' = [held EXCEPT ![a] = @ \ {"status"}]
    /\ \/ cl' = cl
       \/ a = cl.att /\ "handler" \in held[a] /\ ClCloses("noresp")

Sweeps ==
    /\ UNCHANGED <<r503, responder, cancels, silent>>
    /\ conn = "up" /\ conn' = "swept" /\ torn' = TRUE
    /\ held' = [a \in Attempts |-> held[a] \cap {"sub"}]
    /\ \/ cl' = cl /\ (cl.att > 0 => "handler" \notin held[cl.att])
       \/ cl.att > 0 /\ "handler" \in held[cl.att] /\ ClCloses(cl.error)

Closes ==
    /\ UNCHANGED <<cl, torn, r503, responder, cancels, silent>>
    /\ conn = "swept" /\ conn' = "down"
    /\ held' \in {held, [a \in Attempts |-> held[a] \ {"sub"}]}

Opens(a) ==
    /\ UNCHANGED <<consumer, r503, wire, cancels>>
    /\ ssn[a].pc = "asked" /\ \E pc \in {"running", "refused"} : SsnAt(a, pc)
    /\ silent \subseteq silent' /\ silent' \subseteq silent \cup {"refused"}

Yields(a) ==
    /\ UNCHANGED <<consumer, r503, cancels, silent>>
    /\ ssn[a].pc = "running" /\ Len(ssn[a].out) < MaxVals
    /\ \/ SsnOver(a, "stopped") /\ wire' = wire
       \/ \E v \in 0..MaxVals :
             SsnSends(a, v) /\ WireOnly(a) /\ wire'[a] = Append(wire[a], Data(v))

Finishes(a) ==
    /\ UNCHANGED <<consumer, r503, cancels, silent>>
    /\ ssn[a].pc = "running"
    /\ \E result \in Results :
          /\ SsnOver(a, result)
          /\ \/ wire' = wire
             \/ WireOnly(a) /\ wire'[a] = Append(wire[a], Closing(result))

Cancels(a) ==
    /\ UNCHANGED <<consumer, r503, wire, silent>> /\ cancels' \subseteq cancels
    /\ ssn' = ssn \/ SsnAt(a, ssn[a].pc)

(* The responder's client: requests may be dropped, and why the consumer may
   wait changes. *)
Stands ==
    /\ UNCHANGED <<consumer, r503, wire, cancels>>
    /\ ssn' \in [Attempts -> Sessions]
    /\ \A a \in Attempts :
        /\ ssn'[a].out = ssn[a].out /\ ssn'[a].result = ssn[a].result
        /\ ssn'[a].pc = ssn[a].pc \/ (ssn[a].pc = "asked" /\ ssn'[a].pc = "dropped")
    /\ silent \subseteq silent' /\ silent' \subseteq silent \cup {"vanished", "dropped"}

Step ==
    \/ Starts \/ Subscribes \/ Publishes \/ Gets \/ Resumes \/ Leaves \/ Wakes
    \/ Sweeps \/ Closes \/ Stands
    \/ \E a \in Attempts :
        Delivers(a) \/ Refuses(a) \/ Opens(a) \/ Yields(a) \/ Finishes(a) \/ Cancels(a)

-----------------------------------------------------------------------------
LEMMA HeadTail ==
    ASSUME NEW S, NEW s \in Seq(S), s # <<>>
    PROVE  Head(s) \in S /\ Tail(s) \in Seq(S)
OBVIOUS

(* cl is a record, so an assignment to some of its fields keeps the others. *)
LEMMA DoneEffect ==
    ASSUME cl \in Calls, NEW outcome \in {"end", "raised", "left"}, cl' = Done(outcome)
    PROVE  ClDone(outcome)
BY DEF Calls, Pcs, Done, ClDone, Kept

LEMMA AtEffect ==
    ASSUME cl \in Calls, NEW pc \in Pcs, cl' = [cl EXCEPT !.pc = pc]
    PROVE  ClAt(pc)
BY DEF Calls, Pcs, ClAt, Kept

LEMMA RaisedEffect ==
    ASSUME cl \in Calls, NEW e, cl' = Raised(e)
    PROVE  ClFails(e)
<1>1. CASE Retries(e)
  <2>1. cl' = [cl EXCEPT !.pc = "backoff"]
    BY <1>1 DEF Raised
  <2>2. ClAt("backoff")
    BY <2>1, AtEffect DEF Pcs
  <2>3. QED  BY <1>1, <2>2 DEF Retries, ClFails
<1>2. CASE ~Retries(e)
  BY <1>2, DoneEffect DEF Raised, ClFails
<1>3. QED  BY <1>1, <1>2

LEMMA BeginsEffect ==
    ASSUME cl \in Calls, cl.att <= MaxRetries,
           cl' = [cl EXCEPT !.pc = "sub", !.att = @ + 1, !.queue = <<>>, !.ended = FALSE,
                            !.error = "none", !.before = @ + Len(cl.got), !.got = <<>>]
    PROVE  ClBegins
<1>1. cl.before + Len(cl.got) \in Nat /\ cl.att + 1 \in 0..MaxRetries + 1
  BY StreamAssumption DEF Calls
<1>2. <<>> \in Seq(0..Marker) /\ <<>> \in Seq(1..MaxVals)
  OBVIOUS
<1>3. QED
  BY <1>1, <1>2 DEF Calls, Pcs, Errors, ClBegins

LEMMA TakesEffect ==
    ASSUME cl \in Calls, cl.queue # <<>>, NEW v \in 1..MaxVals,
           cl' = [cl EXCEPT !.pc = "yielded", !.queue = Tail(@), !.got = Append(@, v)]
    PROVE  ClTakes(v)
<1>1. cl.queue \in Seq(0..Marker) /\ cl.got \in Seq(1..MaxVals)
  BY DEF Calls
<1>2. Tail(cl.queue) \in Seq(0..Marker)
  BY <1>1, HeadTail
<1>3. Append(cl.got, v) \in Seq(1..MaxVals)
  BY <1>1
<1>4. QED
  BY <1>2, <1>3 DEF Calls, Pcs, ClTakes

LEMMA QueuesEffect ==
    ASSUME cl \in Calls, NEW v \in 0..Marker, cl' = [cl EXCEPT !.queue = Append(@, v)]
    PROVE  ClQueues(v)
<1>1. cl.queue \in Seq(0..Marker)
  BY DEF Calls
<1>2. Append(cl.queue, v) \in Seq(0..Marker)
  BY <1>1
<1>3. QED
  BY <1>2 DEF Calls, ClQueues

LEMMA ClosesEffect ==
    ASSUME cl \in Calls, NEW e \in Errors, cl' = Failed(e) \/ (cl' = Ended /\ e = cl.error)
    PROVE  ClCloses(e)
<1>1. cl.queue \in Seq(0..Marker) /\ Marker \in 0..Marker
  BY StreamAssumption DEF Calls, Marker
<1>2. Append(cl.queue, Marker) \in Seq(0..Marker)
  BY <1>1
<1>3. QED
  BY <1>2 DEF Calls, Errors, Ended, Failed, ClCloses

LEMMA SsnEffect ==
    ASSUME ssn \in [Attempts -> Sessions], NEW a \in Attempts, NEW s \in Sessions,
           ssn' = [ssn EXCEPT ![a] = s]
    PROVE  SsnOnly(a) /\ ssn'[a] = s
BY DEF SsnOnly

LEMMA WireEffect ==
    ASSUME wire \in [Attempts -> Seq(Messages)], NEW a \in Attempts, NEW w \in Seq(Messages),
           wire' = [wire EXCEPT ![a] = w]
    PROVE  WireOnly(a) /\ wire'[a] = w
BY DEF WireOnly

-----------------------------------------------------------------------------
(* The actions in terms of these effects. *)

LEMMA StartDoes ==
    ASSUME ShapeInv, PcInv, Start
    PROVE  Starts
<1> USE DEF Starts
<1>1. cl \in Calls /\ cl.att \in 0..MaxRetries + 1 /\ cl.pc = "start"
  BY DEF ShapeInv, Calls, Start
<1>2. cl.att <= MaxRetries /\ cl.att + 1 \in Attempts
  BY <1>1, StreamAssumption DEF PcInv, Attempts
<1>3. CASE cl' = Done("raised") /\ UNCHANGED <<held, conn, silent>>
  BY <1>1, <1>3, DoneEffect DEF Start
<1>4. CASE cl' # Done("raised") \/ ~UNCHANGED <<held, conn, silent>>
  <2>1. /\ conn' = IF conn = "down" THEN "up" ELSE conn
        /\ silent' = IF conn = "swept" THEN silent \cup {"late"} ELSE silent
        /\ cl' = [cl EXCEPT !.pc = "sub", !.att = @ + 1, !.queue = <<>>, !.ended = FALSE,
                              !.error = "none", !.before = @ + Len(cl.got), !.got = <<>>]
        /\ held' = [held EXCEPT ![cl.att + 1] = {"handler"}]
    BY <1>4, Zenon DEF Start
  <2>2. ClBegins
    BY <1>1, <1>2, <2>1, BeginsEffect
  <2>3. QED  BY <1>2, <2>1, <2>2 DEF Start
<1>5. QED  BY <1>3, <1>4

LEMMA SubscribeDoes ==
    ASSUME ShapeInv, Subscribe
    PROVE  Subscribes
BY DoneEffect, AtEffect DEF Subscribes, ShapeInv, Subscribe, Pcs

LEMMA ClearsEffect ==
    ASSUME ShapeInv, cl.att > 0, UnsubscribeAll
    PROVE  Clears
<1>1. cl.att \in Attempts
  BY StreamAssumption DEF ShapeInv, Calls, Attempts
<1>2. cancels' \in {cancels, cancels \cup {cl.att}}
  BY Zenon DEF UnsubscribeAll
<1>3. QED
  BY <1>1, <1>2 DEF ShapeInv, UnsubscribeAll, Clears

LEMMA TopDoes ==
    ASSUME ShapeInv, cl.att > 0, Top
    PROVE  Loops
<1>1. cl \in Calls  BY DEF ShapeInv
<1>2. CASE cl.error = "none"
  BY <1>1, <1>2, AtEffect DEF Top, Loops, Pcs
<1>3. CASE cl.error # "none"
  BY <1>1, <1>3, ClearsEffect, RaisedEffect DEF Top, Loops
<1>4. QED  BY <1>2, <1>3

LEMMA PublishDoes ==
    ASSUME ShapeInv, PcInv, Publish
    PROVE  Publishes
<1> USE DEF Publishes
<1>1. cl \in Calls /\ cl.att > 0 /\ cl.att \in Attempts /\ cl.pc = "publish"
  BY StreamAssumption DEF ShapeInv, Calls, PcInv, Publish, Attempts
<1>2. CASE conn = "down"
  <2>1. Clears /\ ClFails("notconn") /\ UNCHANGED <<ssn, r503>>
    BY <1>1, <1>2, ClearsEffect, RaisedEffect DEF Publish
  <2>2. ClDone("raised")
    BY <2>1 DEF ClFails
  <2>3. QED  BY <1>1, <2>1, <2>2 DEF Publish
<1>3. CASE conn # "down"
  <2>1. Loops
    BY <1>1, <1>3, TopDoes DEF Publish
  <2>2. CASE resp = "up"
    <3> DEFINE s == [ssn[cl.att] EXCEPT !.pc = "asked"]
    <3>1. ssn' = [ssn EXCEPT ![cl.att] = s] /\ UNCHANGED r503
      BY <1>3, <2>2 DEF Publish
    <3>2. s \in Sessions /\ s.pc = "asked" /\ s.out = ssn[cl.att].out /\ s.result = ssn[cl.att].result
      <4>1. ssn[cl.att] \in Sessions
        BY <1>1 DEF ShapeInv
      <4>2. QED  BY <4>1 DEF Sessions
    <3> HIDE DEF s
    <3>3. SsnOnly(cl.att) /\ ssn'[cl.att] = s
      BY <1>1, <3>1, <3>2, SsnEffect DEF ShapeInv
    <3>4. QED  BY <1>1, <2>1, <3>1, <3>2, <3>3 DEF SsnAt, Publish
  <2>3. CASE resp # "up"
    BY <1>1, <1>3, <2>1, <2>3 DEF Publish
  <2>4. QED  BY <2>2, <2>3
<1>4. QED  BY <1>2, <1>3

LEMMA GetDoes ==
    ASSUME ShapeInv, PcInv, Get
    PROVE  Gets
<1> USE DEF Gets
<1>1. cl \in Calls /\ cl.att > 0 /\ cl.att \in Attempts /\ cl.pc = "get" /\ cl.queue # <<>>
  BY StreamAssumption DEF ShapeInv, Calls, PcInv, Get, Attempts
<1>2. cl.queue \in Seq(0..Marker)
  BY <1>1 DEF Calls
<1>3. Head(cl.queue) \in 0..Marker
  BY <1>1, <1>2, HeadTail
<1>4. CASE Head(cl.queue) \in {Marker, NoneValue}
  <2>1. UnsubscribeAll /\ cl' = IF cl.error # "none" THEN Raised(cl.error) ELSE Done("end")
    BY <1>4 DEF Get
  <2>2. Clears
    BY <1>1, <2>1, ClearsEffect
  <2>3. CASE cl.error = "none"
    BY <1>1, <1>4, <2>1, <2>2, <2>3, DoneEffect DEF Get
  <2>4. CASE cl.error # "none"
    BY <1>1, <1>4, <2>1, <2>2, <2>4, RaisedEffect DEF Get
  <2>5. QED  BY <2>3, <2>4
<1>5. CASE Head(cl.queue) \notin {Marker, NoneValue}
  <2>1. Head(cl.queue) \in 1..MaxVals
    BY <1>3, <1>5, StreamAssumption DEF Marker, NoneValue
  <2>2. /\ cl' = [cl EXCEPT !.pc = "yielded", !.queue = Tail(@), !.got = Append(@, Head(cl.queue))]
        /\ UNCHANGED <<held, cancels>>
    BY <1>5 DEF Get
  <2>3. ClTakes(Head(cl.queue))
    BY <1>1, <2>1, <2>2, TakesEffect
  <2>4. QED  BY <1>1, <2>1, <2>2, <2>3 DEF Get
<1>6. QED  BY <1>4, <1>5

LEMMA ResumeDoes ==
    ASSUME ShapeInv, PcInv, Resume
    PROVE  Resumes
<1> USE DEF Resumes
<1>1. cl \in Calls /\ cl.att > 0 /\ cl.att \in Attempts /\ cl.pc = "yielded"
  BY StreamAssumption DEF ShapeInv, Calls, PcInv, Resume, Attempts
<1>2. QED
  BY <1>1, TopDoes DEF Resume

LEMMA LeaveDoes ==
    ASSUME ShapeInv, Leave
    PROVE  Leaves
BY DoneEffect DEF Leaves, ShapeInv, Leave

LEMMA WakeDoes ==
    ASSUME ShapeInv, Wake
    PROVE  Wakes
BY AtEffect DEF Wakes, ShapeInv, Wake, Pcs

(* A message of an attempt that does not listen changes nothing; one of an
   attempt that does is queued or closes the stream. *)
LEMMA MessageDoes ==
    ASSUME ShapeInv, AskedInv, SessionInv, HeldInv, NEW a \in Attempts, HandleStreamMessage(a)
    PROVE  Delivers(a)
<1> USE DEF Delivers
<1> DEFINE m == Head(wire[a])
<1>1. cl \in Calls /\ wire[a] \in Seq(Messages) /\ wire[a] # <<>>
  BY DEF ShapeInv, HandleStreamMessage
<1>2. m \in Messages /\ Tail(wire[a]) \in Seq(Messages)
  BY <1>1, HeadTail
<1>3. wire' = [wire EXCEPT ![a] = Tail(wire[a])]
  BY DEF HandleStreamMessage
<1>4. WireOnly(a) /\ wire'[a] = Tail(wire[a])
  BY <1>2, <1>3, WireEffect DEF ShapeInv
<1>5. Handle(a, m) /\ UNCHANGED <<conn, torn, r503, ssn, cancels, silent>>
  BY DEF HandleStreamMessage
<1>6. m.type \in {"data", "end", "error", "err503"} /\ m.value \in 0..Marker
  BY <1>2, StreamAssumption DEF Messages, Results, Marker
<1> HIDE DEF m
<1>7. CASE ~("sub" \in held[a] /\ "handler" \in held[a] /\ conn # "down")
  <2>1. cl' = cl /\ held' = held
    BY <1>5, <1>7 DEF Handle
  <2>2. a = cl.att => "handler" \notin held[a] \/ conn = "down"
    <3> SUFFICES ASSUME a = cl.att, "handler" \in held[a], conn # "down"  PROVE FALSE
      OBVIOUS
    <3>1. cl.pc = "sub"
      BY <1>7 DEF HeldInv
    <3>2. ssn[a].pc = "none"
      BY <3>1 DEF AskedInv, Unasked
    <3>3. QED
      BY <1>1, <3>2 DEF SessionInv
  <2>3. QED
    BY <1>1, <1>4, <1>5, <2>1, <2>2
<1>8. CASE "sub" \in held[a] /\ "handler" \in held[a] /\ conn # "down"
  <2>1. a = cl.att
    BY <1>8 DEF HeldInv
  <2>2. CASE m.type = "data" /\ cl.ended
    <3>1. cl' = cl /\ held' = held
      BY <1>5, <1>8, <2>2, Zenon DEF Handle
    <3>2. QED
      BY <1>1, <1>4, <1>5, <2>2, <3>1
  <2>3. CASE m.type = "data" /\ ~cl.ended
    <3>1. cl' = [cl EXCEPT !.queue = Append(@, m.value)] /\ held' = held
      BY <1>5, <1>8, <2>3, Zenon DEF Handle
    <3>2. ClQueues(m.value)
      BY <1>1, <1>6, <3>1, QueuesEffect
    <3>3. QED
      BY <1>1, <1>4, <1>5, <1>8, <2>1, <2>3, <3>1, <3>2 DEF m
  <2>4. CASE m.type = "end"
    <3>1. cl' = Ended /\ held' = [held EXCEPT ![a] = {}]
      BY <1>5, <1>8, <2>4 DEF Handle
    <3>2. ClCloses(cl.error)
      BY <1>1, <3>1, ClosesEffect DEF Calls
    <3>3. QED
      BY <1>1, <1>4, <1>5, <1>8, <2>1, <2>4, <3>1, <3>2 DEF m
  <2>5. CASE m.type \in {"error", "err503"}
    <3>1. cl' = Failed(m.type) /\ held' = [held EXCEPT ![a] = {}]
      BY <1>5, <1>8, <2>5 DEF Handle
    <3>2. ClCloses(m.type)
      BY <1>1, <2>5, <3>1, ClosesEffect DEF Errors
    <3>3. QED
      BY <1>1, <1>4, <1>5, <1>8, <2>1, <2>5, <3>1, <3>2 DEF m
  <2>6. QED  BY <1>6, <2>2, <2>3, <2>4, <2>5
<1>9. QED  BY <1>7, <1>8

(* A 503 for an attempt that waits for it closes the stream. *)
LEMMA NoRespondersDoes ==
    ASSUME ShapeInv, HeldInv, NEW a \in Attempts, NoResponders(a)
    PROVE  Refuses(a)
<1> USE DEF Refuses
<1>1. CASE {"status", "handler"} \subseteq held[a] /\ conn # "down"
  <2>1. cl \in Calls /\ cl' = Failed("noresp")
    BY <1>1 DEF ShapeInv, NoResponders
  <2>2. ClCloses("noresp")
    BY <2>1, ClosesEffect DEF Errors
  <2>3. a = cl.att /\ "handler" \in held[a]
    BY <1>1 DEF HeldInv
  <2>4. QED  BY <2>2, <2>3 DEF NoResponders
<1>2. CASE ~({"status", "handler"} \subseteq held[a] /\ conn # "down")
  BY <1>2 DEF NoResponders
<1>3. QED  BY <1>1, <1>2

LEMMA SweepDoes ==
    ASSUME ShapeInv, NEW kind \in {"disconnect", "suspend"}, Sweep(kind)
    PROVE  Sweeps
<1> USE DEF Sweeps
<1>1. CASE cl.att > 0 /\ "handler" \in held[cl.att]
  <2>1. cl \in Calls /\ cl' = Ended
    BY <1>1 DEF ShapeInv, Sweep
  <2>2. ClCloses(cl.error)
    BY <2>1, ClosesEffect DEF Calls
  <2>3. QED  BY <1>1, <2>2 DEF Sweep
<1>2. CASE ~(cl.att > 0 /\ "handler" \in held[cl.att])
  BY <1>2 DEF Sweep
<1>3. QED  BY <1>1, <1>2

LEMMA CloseDoes ==
    ASSUME CloseConnection
    PROVE  Closes
BY Zenon DEF Closes, CloseConnection

LEMMA OpenDoes ==
    ASSUME ShapeInv, NEW a \in Attempts, Open(a)
    PROVE  Opens(a)
<1> USE DEF Opens
<1>1. PICK pc \in {"running", "refused"} : ssn' = [ssn EXCEPT ![a].pc = pc]
  BY DEF Open
<1> DEFINE s == [ssn[a] EXCEPT !.pc = pc]
<1>2. ssn' = [ssn EXCEPT ![a] = s]
  BY <1>1
<1>3. s \in Sessions /\ s.pc = pc /\ s.out = ssn[a].out /\ s.result = ssn[a].result
  BY DEF ShapeInv, Sessions
<1> HIDE DEF s
<1>4. SsnOnly(a) /\ ssn'[a] = s
  BY <1>2, <1>3, SsnEffect DEF ShapeInv
<1>5. SsnAt(a, pc)
  BY <1>3, <1>4 DEF SsnAt
<1>6. QED
  BY <1>5 DEF Open

LEMMA OverEffect ==
    ASSUME ShapeInv, NEW a \in Attempts, NEW result \in {"stopped"} \cup Results, Over(a, result)
    PROVE  SsnOver(a, result)
<1> DEFINE s == [ssn[a] EXCEPT !.pc = "done", !.result = result]
<1>1. ssn' = [ssn EXCEPT ![a] = s]
  BY DEF Over, ShapeInv
<1>2. s \in Sessions /\ s.pc = "done" /\ s.out = ssn[a].out /\ s.result = result
  BY DEF ShapeInv, Sessions
<1> HIDE DEF s
<1>3. SsnOnly(a) /\ ssn'[a] = s
  BY <1>1, <1>2, SsnEffect DEF ShapeInv
<1>4. QED
  BY <1>2, <1>3 DEF SsnOver

LEMMA YieldDoes ==
    ASSUME ShapeInv, NEW a \in Attempts, YieldValue(a)
    PROVE  Yields(a)
<1> USE DEF Yields
<1>1. ssn[a] \in Sessions /\ ssn[a].out \in Seq(0..MaxVals) /\ wire[a] \in Seq(Messages)
  BY DEF ShapeInv, Sessions
<1>2. Len(ssn[a].out) < MaxVals /\ ssn[a].pc = "running"
  BY DEF YieldValue
<1>3. CASE Over(a, "stopped") /\ wire' = wire
  BY <1>2, <1>3, OverEffect DEF YieldValue
<1>4. CASE \E v \in {NoneValue, Len(ssn[a].out) + 1} :
                /\ ssn' = [ssn EXCEPT ![a].out = Append(@, v)]
                /\ wire' = [wire EXCEPT ![a] = Append(@, Data(v))]
  <2>1. PICK v \in {NoneValue, Len(ssn[a].out) + 1} :
                /\ ssn' = [ssn EXCEPT ![a].out = Append(@, v)]
                /\ wire' = [wire EXCEPT ![a] = Append(@, Data(v))]
    BY <1>4
  <2>2. v \in 0..MaxVals
    BY <1>1, <1>2, StreamAssumption DEF NoneValue
  <2>3. Append(ssn[a].out, v) \in Seq(0..MaxVals)
    BY <1>1, <2>2
  <2>4. Data(v) \in Messages
    BY <2>2 DEF Data, Messages
  <2>5. Append(wire[a], Data(v)) \in Seq(Messages)
    BY <1>1, <2>4
  <2> DEFINE s == [ssn[a] EXCEPT !.out = Append(ssn[a].out, v)]
  <2>6. ssn' = [ssn EXCEPT ![a] = s] /\ wire' = [wire EXCEPT ![a] = Append(wire[a], Data(v))]
    BY <2>1
  <2>7. s \in Sessions /\ s.pc = ssn[a].pc /\ s.out = Append(ssn[a].out, v) /\ s.result = ssn[a].result
    BY <1>1, <2>3 DEF Sessions
  <2> HIDE DEF s
  <2>8. SsnOnly(a) /\ ssn'[a] = s
    BY <2>6, <2>7, SsnEffect DEF ShapeInv
  <2>9. WireOnly(a) /\ wire'[a] = Append(wire[a], Data(v))
    BY <2>5, <2>6, WireEffect DEF ShapeInv
  <2>10. SsnSends(a, v)
    BY <2>7, <2>8 DEF SsnSends
  <2>11. QED  BY <1>2, <2>2, <2>9, <2>10 DEF YieldValue
<1>5. QED  BY <1>3, <1>4 DEF YieldValue

LEMMA FinishDoes ==
    ASSUME ShapeInv, NEW a \in Attempts, Finish(a)
    PROVE  Finishes(a)
<1> USE DEF Finishes
<1>1. PICK result \in Results :
        /\ Over(a, result)
        /\ wire' = IF Heard(a) THEN [wire EXCEPT ![a] = Append(@, Closing(result))] ELSE wire
  BY DEF Finish, Results
<1>2. SsnOver(a, result)
  BY <1>1, OverEffect
<1>3. Closing(result) \in Messages
  BY StreamAssumption DEF Closing, Messages, NoneValue
<1>4. Append(wire[a], Closing(result)) \in Seq(Messages)
  BY <1>3 DEF ShapeInv
<1>5. wire' \in {wire, [wire EXCEPT ![a] = Append(wire[a], Closing(result))]}
  BY <1>1, Zenon
<1>6. wire' = wire \/ (WireOnly(a) /\ wire'[a] = Append(wire[a], Closing(result)))
  BY <1>4, <1>5, WireEffect DEF ShapeInv
<1>7. QED
  BY <1>2, <1>6 DEF Finish

LEMMA CancelDoes ==
    ASSUME ShapeInv, NEW a \in Attempts, CancelHandler(a)
    PROVE  Cancels(a)
<1> USE DEF Cancels
<1>1. CASE ssn[a].pc # "running"
  BY <1>1 DEF CancelHandler
<1>2. CASE ssn[a].pc = "running"
  <2> DEFINE s == [ssn[a] EXCEPT !.cancelled = TRUE]
  <2>1. ssn' = [ssn EXCEPT ![a] = s]
    BY <1>2 DEF CancelHandler
  <2>2. s \in Sessions /\ s.pc = ssn[a].pc /\ s.out = ssn[a].out /\ s.result = ssn[a].result
    BY DEF ShapeInv, Sessions
  <2> HIDE DEF s
  <2>3. SsnOnly(a) /\ ssn'[a] = s
    BY <2>1, <2>2, SsnEffect DEF ShapeInv
  <2>4. QED  BY <2>2, <2>3 DEF SsnAt, CancelHandler
<1>3. QED  BY <1>1, <1>2

LEMMA RemoveDoes ==
    ASSUME ShapeInv, RemoveHandlers
    PROVE  Stands
<1> DEFINE Drop(a) == IF ssn[a].pc = "asked" THEN [ssn[a] EXCEPT !.pc = "dropped"] ELSE ssn[a]
<1>1. ssn' = [a \in Attempts |-> Drop(a)]
  BY DEF RemoveHandlers
<1>2. ASSUME NEW a \in Attempts
      PROVE  /\ Drop(a) \in Sessions /\ Drop(a).out = ssn[a].out /\ Drop(a).result = ssn[a].result
             /\ Drop(a).pc = ssn[a].pc \/ (ssn[a].pc = "asked" /\ Drop(a).pc = "dropped")
  BY DEF ShapeInv, Sessions
<1> HIDE DEF Drop
<1>3. QED  BY <1>1, <1>2 DEF RemoveHandlers, Stands

LEMMA VanishDoes ==
    ASSUME ShapeInv, Vanish
    PROVE  Stands
BY DEF Vanish, Stands, ShapeInv

(* Every step of the stream has one of these effects. *)
LEMMA StepEffects ==
    ASSUME ShapeInv, PcInv, AskedInv, SessionInv, HeldInv, Next
    PROVE  Step
<1>1. CASE Start \/ Subscribe \/ Publish \/ Get \/ Resume \/ Wake \/ Leave
  BY <1>1, StartDoes, SubscribeDoes, PublishDoes, GetDoes, ResumeDoes, WakeDoes, LeaveDoes DEF Step
<1>2. ASSUME NEW kind \in {"disconnect", "suspend"}, Sweep(kind) PROVE Step
  BY <1>2, SweepDoes DEF Step
<1>3. CASE CloseConnection
  BY <1>3, CloseDoes DEF Step
<1>4. CASE RemoveHandlers \/ Vanish
  <2>1. Stands
    BY <1>4, RemoveDoes, VanishDoes
  <2>2. QED  BY <2>1 DEF Step
<1>5. ASSUME NEW a \in Attempts, Deliver(a) PROVE Step
  BY <1>5, MessageDoes, NoRespondersDoes DEF Deliver, Step
<1>6. ASSUME NEW a \in Attempts, Session(a) PROVE Step
  BY <1>6, OpenDoes, YieldDoes, FinishDoes, CancelDoes DEF Session, Step
<1>7. QED
  BY <1>1, <1>2, <1>3, <1>4, <1>5, <1>6 DEF Next, Consumer

-----------------------------------------------------------------------------
(* The sequences. *)

(* YieldValue sends the next value, *)
LEMMA WireSend ==
    ASSUME NEW w \in Seq(Messages), NEW out \in Seq(0..MaxVals), NEW v \in 0..MaxVals,
           WireOK(w, out, "none")
    PROVE  /\ WireOK(Append(w, Data(v)), Append(out, v), "none")
           /\ Pending(Append(w, Data(v))) = Pending(w) + 1
<1> DEFINE x == Append(w, Data(v))
           o == Append(out, v)
<1>1. Data(v) \in Messages /\ Data(v).type = "data" /\ Data(v).value = v
  BY DEF Data, Messages
<1>2. /\ x \in Seq(Messages) /\ Len(x) = Len(w) + 1 /\ x[Len(w) + 1] = Data(v)
      /\ \A i \in 1..Len(w) : x[i] = w[i]
  BY <1>1
<1>3. /\ Len(o) = Len(out) + 1 /\ o[Len(out) + 1] = v
      /\ \A i \in 1..Len(out) : o[i] = out[i]
  OBVIOUS
<1>4. \A i \in 1..Len(w) : w[i].type = "data" /\ i <= Pending(w) /\ w[i].value = out[Len(out) - Pending(w) + i]
  BY DEF WireOK, Results
<1>5. Len(w) \in Nat /\ Len(out) \in Nat /\ Pending(w) = Len(w) /\ Len(w) <= Len(out)
  <2>1. Len(w) \in Nat /\ Len(out) \in Nat /\ (w # <<>> => Len(w) \in 1..Len(w))
    OBVIOUS
  <2>2. Pending(w) = Len(w)
    BY <1>4, <2>1 DEF Pending
  <2>3. QED  BY <2>1, <2>2 DEF WireOK
<1>6. Pending(x) = Len(w) + 1
  BY <1>1, <1>2, <1>5 DEF Pending
<1> HIDE DEF x, o
<1>7. \A i \in 1..Len(x) : x[i].type = "data" /\ i <= Pending(x) /\ x[i].value = o[Len(o) - Pending(x) + i]
  <2> SUFFICES ASSUME NEW i \in 1..Len(x)
               PROVE  x[i].type = "data" /\ i <= Pending(x) /\ x[i].value = o[Len(o) - Pending(x) + i]
    OBVIOUS
  <2>1. CASE i = Len(w) + 1
    BY <1>1, <1>2, <1>3, <1>5, <1>6, <2>1
  <2>2. CASE i \in 1..Len(w)
    <3>1. w[i].type = "data" /\ w[i].value = out[Len(out) - Len(w) + i] /\ x[i] = w[i]
      BY <1>2, <1>4, <1>5, <2>2
    <3>2. Len(out) - Len(w) + i \in 1..Len(out) /\ Len(o) - Pending(x) + i = Len(out) - Len(w) + i
      BY <1>3, <1>5, <1>6, <2>2
    <3>3. i <= Pending(x) /\ out[Len(out) - Len(w) + i] = o[Len(o) - Pending(x) + i]
      BY <1>3, <1>5, <1>6, <2>2, <3>2
    <3>4. QED  BY <3>1, <3>3
  <2>3. QED  BY <1>2, <1>5, <2>1, <2>2
<1>8. WireOK(x, o, "none") /\ Pending(x) = Pending(w) + 1
  BY <1>3, <1>5, <1>6, <1>7 DEF WireOK
<1>9. QED  BY <1>8 DEF x, o

(* a session that stops says nothing, *)
LEMMA WireStopped ==
    ASSUME NEW w \in Seq(Messages), NEW out \in Seq(0..MaxVals), NEW result, WireOK(w, out, "none")
    PROVE  WireOK(w, out, result)
BY DEF WireOK, Results

(* Finish closes the stream, *)
LEMMA WireClose ==
    ASSUME NEW w \in Seq(Messages), NEW out \in Seq(0..MaxVals), NEW result \in Results,
           WireOK(w, out, "none")
    PROVE  /\ WireOK(Append(w, Closing(result)), out, result)
           /\ Pending(Append(w, Closing(result))) = Pending(w)
<1> DEFINE x == Append(w, Closing(result))
<1>1. Closing(result) \in Messages /\ Closing(result).type = result /\ result # "data"
  BY StreamAssumption DEF Closing, Messages, NoneValue, Results
<1>2. /\ x \in Seq(Messages) /\ Len(x) = Len(w) + 1 /\ x[Len(w) + 1] = Closing(result)
      /\ \A i \in 1..Len(w) : x[i] = w[i]
  BY <1>1
<1>3. \A i \in 1..Len(w) : w[i].type = "data" /\ i <= Pending(w) /\ w[i].value = out[Len(out) - Pending(w) + i]
  BY DEF WireOK, Results
<1>4. Len(w) \in Nat /\ Len(out) \in Nat /\ Pending(w) = Len(w) /\ Len(w) <= Len(out)
  <2>1. Len(w) \in Nat /\ Len(out) \in Nat /\ (w # <<>> => Len(w) \in 1..Len(w))
    OBVIOUS
  <2>2. Pending(w) = Len(w)
    BY <1>3, <2>1 DEF Pending
  <2>3. QED  BY <2>1, <2>2 DEF WireOK
<1> HIDE DEF x
<1>5. Pending(x) = Len(w)
  <2>1. x # <<>> /\ x[Len(x)].type # "data"
    BY <1>1, <1>2, <1>4
  <2>2. QED  BY <1>2, <1>4, <2>1 DEF Pending
<1>6. \A i \in 1..Len(x) :
        \/ x[i].type = "data" /\ i <= Pending(x) /\ x[i].value = out[Len(out) - Pending(x) + i]
        \/ x[i].type \in Results /\ i = Len(x) /\ result = x[i].type
  BY <1>1, <1>2, <1>3, <1>4, <1>5
<1>7. WireOK(x, out, result) /\ Pending(x) = Pending(w)
  BY <1>4, <1>5, <1>6 DEF WireOK
<1>8. QED  BY <1>7 DEF x

(* and a message that is delivered is the first of the pending values, or the
   last message of all. *)
LEMMA WirePop ==
    ASSUME NEW w \in Seq(Messages), NEW out \in Seq(0..MaxVals), NEW result, w # <<>>,
           WireOK(w, out, result)
    PROVE  /\ WireOK(Tail(w), out, result)
           /\ Head(w).type = "data" =>
                /\ Pending(w) >= 1 /\ Pending(Tail(w)) = Pending(w) - 1 /\ Pending(w) <= Len(out)
                /\ Head(w).value = out[Len(out) - Pending(w) + 1]
           /\ Head(w).type # "data" => Pending(w) = 0 /\ result = Head(w).type
<1> DEFINE x == Tail(w)
<1>1. /\ Len(w) \in Nat /\ Len(w) >= 1 /\ Head(w) = w[1] /\ Len(x) = Len(w) - 1 /\ Len(out) \in Nat
      /\ x \in Seq(Messages) /\ \A i \in 1..Len(x) : x[i] = w[i + 1]
  OBVIOUS
<1> HIDE DEF x
<1>2. \/ /\ w[1].type = "data" /\ 1 <= Pending(w)
         /\ w[1].value = out[Len(out) - Pending(w) + 1]
      \/ w[1].type \in Results /\ 1 = Len(w) /\ result = w[1].type
  BY <1>1 DEF WireOK
<1>3. Pending(w) \in Nat /\ Pending(w) <= Len(w) /\ Pending(w) <= Len(out)
  <2>1. Pending(w) \in {Len(w), Len(w) - 1}
    BY DEF Pending
  <2>2. QED  BY <1>1, <2>1 DEF WireOK
<1>4. w[1].type # "data" => Len(w) = 1 /\ result = w[1].type /\ Pending(w) = 0
  <2> SUFFICES ASSUME w[1].type # "data"
               PROVE  Len(w) = 1 /\ result = w[1].type /\ Pending(w) = 0
    OBVIOUS
  <2>1. Len(w) = 1 /\ result = w[1].type
    BY <1>2
  <2>2. w[Len(w)].type # "data"
    BY <2>1
  <2>3. QED  BY <2>1, <2>2 DEF Pending
<1>5. w[1].type = "data" => Pending(x) = Pending(w) - 1
  <2> SUFFICES ASSUME w[1].type = "data"  PROVE Pending(x) = Pending(w) - 1
    OBVIOUS
  <2>1. CASE Len(w) = 1
    BY <1>1, <2>1 DEF Pending
  <2>2. CASE Len(w) > 1
    <3>1. x # <<>> /\ x[Len(x)] = w[Len(w)]
      BY <1>1, <2>2
    <3>2. QED  BY <1>1, <2>2, <3>1 DEF Pending
  <2>3. QED  BY <1>1, <2>1, <2>2
<1>6. w[1].type # "data" => Len(x) = 0 /\ Pending(x) = 0
  BY <1>1, <1>4 DEF Pending
<1>7. WireOK(x, out, result)
  <2>1. CASE w[1].type # "data"
    BY <1>1, <1>6, <2>1 DEF WireOK
  <2>2. CASE w[1].type = "data"
    <3>1. Pending(x) <= Len(out)
      BY <1>3, <1>5, <2>2
    <3>2. ASSUME NEW i \in 1..Len(x)
          PROVE  \/ x[i].type = "data" /\ i <= Pending(x) /\ x[i].value = out[Len(out) - Pending(x) + i]
                 \/ x[i].type \in Results /\ i = Len(x) /\ result = x[i].type
      <4>1. i + 1 \in 1..Len(w) /\ x[i] = w[i + 1] /\ Len(out) - Pending(x) + i = Len(out) - Pending(w) + (i + 1)
        BY <1>1, <1>3, <1>5, <2>2
      <4>2. \/ w[i + 1].type = "data" /\ i + 1 <= Pending(w) /\ w[i + 1].value = out[Len(out) - Pending(w) + (i + 1)]
            \/ w[i + 1].type \in Results /\ i + 1 = Len(w) /\ result = w[i + 1].type
        BY <4>1 DEF WireOK
      <4>3. QED  BY <1>1, <1>3, <1>5, <2>2, <4>1, <4>2
    <3>3. QED  BY <3>1, <3>2 DEF WireOK
  <2>3. QED  BY <2>1, <2>2
<1>8. w[1].type = "data" => Pending(w) >= 1 /\ w[1].value = out[Len(out) - Pending(w) + 1]
  BY <1>2, <1>3 DEF Results
<1>9. QED
  BY <1>1, <1>3, <1>4, <1>5, <1>7, <1>8 DEF x

(* A value that is queued behind the others keeps the prefix, *)
LEMMA PrefixQueue ==
    ASSUME NEW got \in Seq(1..MaxVals), NEW queue \in Seq(0..Marker), NEW out \in Seq(0..MaxVals),
           NEW v \in 0..Marker, PrefixOK(got, queue, out),
           v # Marker => Len(got) + Len(queue) + 1 <= Len(out) /\ v = out[Len(got) + Len(queue) + 1]
    PROVE  PrefixOK(got, Append(queue, v), out)
<1> DEFINE x == Append(queue, v)
<1>1. /\ Len(x) = Len(queue) + 1 /\ x[Len(queue) + 1] = v /\ \A j \in 1..Len(queue) : x[j] = queue[j]
      /\ Len(queue) \in Nat /\ Len(got) \in Nat
  OBVIOUS
<1> HIDE DEF x
<1>2. ASSUME NEW j \in 1..Len(x), x[j] # Marker
      PROVE  Len(got) + j <= Len(out) /\ x[j] = out[Len(got) + j]
  <2>1. CASE j = Len(queue) + 1
    BY <1>1, <1>2, <2>1
  <2>2. CASE j \in 1..Len(queue)
    BY <1>1, <1>2, <2>2 DEF PrefixOK
  <2>3. QED  BY <1>1, <2>1, <2>2
<1>3. PrefixOK(got, x, out)
  BY <1>2 DEF PrefixOK
<1>4. QED  BY <1>3 DEF x

(* so does the marker of the end, *)
LEMMA PrefixMark ==
    ASSUME NEW got \in Seq(1..MaxVals), NEW queue \in Seq(0..Marker), NEW out \in Seq(0..MaxVals),
           PrefixOK(got, queue, out)
    PROVE  PrefixOK(got, Append(queue, Marker), out)
BY PrefixQueue, StreamAssumption DEF Marker

(* taking the head of the queue, *)
LEMMA PrefixTake ==
    ASSUME NEW got \in Seq(1..MaxVals), NEW queue \in Seq(0..Marker), NEW out \in Seq(0..MaxVals),
           queue # <<>>, Head(queue) \in 1..MaxVals, PrefixOK(got, queue, out)
    PROVE  PrefixOK(Append(got, Head(queue)), Tail(queue), out)
<1> DEFINE g == Append(got, Head(queue))
           x == Tail(queue)
<1>1. /\ Len(g) = Len(got) + 1 /\ g[Len(got) + 1] = queue[1] /\ \A i \in 1..Len(got) : g[i] = got[i]
      /\ Len(got) \in Nat /\ Len(out) \in Nat
  OBVIOUS
<1>2. /\ Len(x) = Len(queue) - 1 /\ Len(queue) \in Nat /\ Len(queue) >= 1 /\ queue[1] = Head(queue)
      /\ \A j \in 1..Len(x) : x[j] = queue[j + 1]
  OBVIOUS
<1> HIDE DEF g, x
<1>3. queue[1] # Marker
  BY <1>2, StreamAssumption DEF Marker
<1>4. Len(got) + 1 <= Len(out) /\ queue[1] = out[Len(got) + 1]
  BY <1>2, <1>3 DEF PrefixOK
<1>5. Len(g) <= Len(out) /\ \A i \in 1..Len(g) : g[i] = out[i]
  BY <1>1, <1>4 DEF PrefixOK
<1>6. ASSUME NEW j \in 1..Len(x), x[j] # Marker
      PROVE  Len(g) + j <= Len(out) /\ x[j] = out[Len(g) + j]
  <2>1. j + 1 \in 1..Len(queue) /\ x[j] = queue[j + 1] /\ Len(g) + j = Len(got) + (j + 1)
    BY <1>1, <1>2
  <2>2. Len(got) + (j + 1) <= Len(out) /\ queue[j + 1] = out[Len(got) + (j + 1)]
    BY <1>6, <2>1 DEF PrefixOK
  <2>3. QED  BY <2>1, <2>2
<1>7. PrefixOK(g, x, out)
  BY <1>5, <1>6 DEF PrefixOK
<1>8. QED  BY <1>7 DEF g, x

(* and another value of the session. *)
LEMMA PrefixGrow ==
    ASSUME NEW got \in Seq(1..MaxVals), NEW queue \in Seq(0..Marker), NEW out \in Seq(0..MaxVals),
           NEW v \in 0..MaxVals, PrefixOK(got, queue, out)
    PROVE  PrefixOK(got, queue, Append(out, v))
<1> DEFINE o == Append(out, v)
<1>1. Len(o) = Len(out) + 1 /\ \A i \in 1..Len(out) : o[i] = out[i]
  OBVIOUS
<1>2. Len(out) \in Nat /\ Len(got) \in Nat /\ Len(queue) \in Nat
  OBVIOUS
<1> HIDE DEF o
<1>3. PrefixOK(got, queue, o)
  BY <1>1, <1>2 DEF PrefixOK
<1>4. QED  BY <1>3 DEF o

(* A None at the head of the queue is a value of the session, *)
LEMMA NoneSeen ==
    ASSUME NEW got \in Seq(1..MaxVals), NEW queue \in Seq(0..Marker), NEW out \in Seq(0..MaxVals),
           PrefixOK(got, queue, out), queue # <<>>, Head(queue) = NoneValue
    PROVE  NoneValue \in Range(out)
<1>1. 1 \in 1..Len(queue) /\ queue[1] = NoneValue /\ NoneValue # Marker
  BY StreamAssumption DEF NoneValue, Marker
<1>2. Len(got) + 1 <= Len(out) /\ NoneValue = out[Len(got) + 1]
  BY <1>1 DEF PrefixOK
<1>3. Len(got) + 1 \in DOMAIN out
  BY <1>2
<1>4. QED  BY <1>2, <1>3 DEF Range

(* and the marker is there alone when all values were taken. *)
LEMMA AllSeen ==
    ASSUME NEW got \in Seq(1..MaxVals), NEW queue \in Seq(0..Marker), NEW out \in Seq(0..MaxVals),
           PrefixOK(got, queue, out), AllQueued(got, queue, out), Head(queue) = Marker
    PROVE  got = out
<1> DEFINE n == Len(queue)
<1>0. Len(got) \in Nat /\ n \in Nat /\ Len(out) \in Nat /\ n > 0 /\ Len(got) + n - 1 = Len(out)
  BY DEF AllQueued
<1>1. queue[1] = Marker
  BY <1>0
<1>2. \A j \in 1..n - 1 : queue[j] # Marker
  BY DEF AllQueued, NoMarker
<1> HIDE DEF n
<1>3. 1 \notin 1..n - 1
  BY <1>1, <1>2, Zenon
<1>4. Len(got) = Len(out)
  BY <1>0, <1>3
<1>5. \A i \in 1..Len(got) : got[i] = out[i]
  BY DEF PrefixOK
<1>6. QED  BY <1>4, <1>5

LEMMA PendingNat ==
    ASSUME NEW w \in Seq(Messages)
    PROVE  Pending(w) \in Nat
<1>1. Len(w) \in Nat /\ (w # <<>> => Len(w) - 1 \in Nat)
  OBVIOUS
<1>2. QED  BY <1>1 DEF Pending

LEMMA TakeUnmarked ==
    ASSUME NEW queue \in Seq(0..Marker), queue # <<>>, NoMarker(queue, Len(queue))
    PROVE  NoMarker(Tail(queue), Len(Tail(queue)))
<1> DEFINE x == Tail(queue)
<1>1. Len(x) = Len(queue) - 1 /\ Len(queue) \in Nat /\ \A j \in 1..Len(x) : x[j] = queue[j + 1] /\ j + 1 \in 1..Len(queue)
  OBVIOUS
<1> HIDE DEF x
<1>2. NoMarker(x, Len(x))
  BY <1>1 DEF NoMarker
<1>3. QED  BY <1>2 DEF x

LEMMA TakeComplete ==
    ASSUME NEW got \in Seq(1..MaxVals), NEW queue \in Seq(0..Marker), NEW out \in Seq(0..MaxVals),
           queue # <<>>, Head(queue) \in 1..MaxVals, AllQueued(got, queue, out), PrefixOK(got, queue, out)
    PROVE  AllQueued(Append(got, Head(queue)), Tail(queue), out)
<1> DEFINE g == Append(got, Head(queue))
           x == Tail(queue)
           n == Len(queue)
           m == Len(got)
           k == Len(out)
<1>1. /\ Len(x) = n - 1 /\ n \in Nat /\ n >= 1 /\ Len(g) = m + 1 /\ m \in Nat /\ k \in Nat
      /\ queue[1] = Head(queue)
  OBVIOUS
<1>2. \A j \in 1..Len(x) : x[j] = queue[j + 1]
  OBVIOUS
<1>3. m + n - 1 = k /\ \A j \in 1..n - 1 : queue[j] # Marker
  BY DEF AllQueued, NoMarker
<1>4. \A j \in 1..n : queue[j] # Marker => m + j <= k
  BY DEF PrefixOK
<1>5. Head(queue) # Marker
  BY StreamAssumption DEF Marker
<1> HIDE DEF g, x, n, m, k
<1>6. n # 1
  <2> SUFFICES ASSUME n = 1  PROVE FALSE
    OBVIOUS
  <2>1. m + 1 <= k
    BY <1>1, <1>4, <1>5
  <2>2. QED  BY <1>1, <1>3, <2>1
<1>7. ASSUME NEW j \in 1..Len(x) - 1  PROVE x[j] # Marker
  <2>1. j \in 1..Len(x) /\ j + 1 \in 1..n - 1
    BY <1>1
  <2>2. QED  BY <1>2, <1>3, <2>1
<1>8. Len(x) > 0 /\ Len(g) + Len(x) - 1 = k
  BY <1>1, <1>3, <1>6
<1>9. AllQueued(g, x, out)
  BY <1>7, <1>8 DEF AllQueued, NoMarker, k
<1>10. QED  BY <1>9 DEF g, x

LEMMA CloseComplete ==
    ASSUME NEW got \in Seq(1..MaxVals), NEW queue \in Seq(0..Marker), NEW out \in Seq(0..MaxVals),
           NoMarker(queue, Len(queue)), Len(got) + Len(queue) = Len(out)
    PROVE  AllQueued(got, Append(queue, Marker), out)
<1> DEFINE x == Append(queue, Marker)
<1>1. Len(x) = Len(queue) + 1 /\ Len(queue) \in Nat /\ Len(got) \in Nat /\ \A j \in 1..Len(queue) : x[j] = queue[j]
  OBVIOUS
<1> HIDE DEF x
<1>2. Len(x) > 0 /\ Len(got) + Len(x) - 1 = Len(out) /\ Len(x) - 1 = Len(queue)
  BY <1>1
<1>3. AllQueued(got, x, out)
  BY <1>1, <1>2 DEF AllQueued, NoMarker
<1>4. QED  BY <1>3 DEF x

-----------------------------------------------------------------------------

(* Every variable keeps its type. *)
LEMMA ShapeStep ==
    ASSUME ShapeInv, PcInv, Step
    PROVE  ShapeInv'
<1>p0. cl.att \in 0..MaxRetries + 1
  BY DEF ShapeInv, Calls
<1> USE StreamAssumption, <1>p0 DEF ShapeInv, Attempts
<1>1. CASE Starts
  <2>1. CASE ClDone("raised") /\ UNCHANGED <<held, conn, silent>>
    BY <1>1, <2>1 DEF Starts, ClDone, responder
  <2>2. CASE /\ ClBegins /\ held' = [held EXCEPT ![cl.att + 1] = {"handler"}]
           /\ conn' = (IF conn = "down" THEN "up" ELSE conn)
           /\ silent' = (IF conn = "swept" THEN silent \cup {"late"} ELSE silent)
    <3>1. cl' \in Calls
      BY <2>2 DEF ClBegins
    <3>2. held' \in [Attempts -> SUBSET {"handler", "status", "sub"}]
      BY <2>2
    <3>3. conn' \in {"up", "swept", "down"} /\ silent' \subseteq {"late", "refused", "vanished", "dropped"}
      BY <2>2
    <3>4. QED
      BY <1>1, <3>1, <3>2, <3>3 DEF Starts, responder
  <2>3. QED  BY <1>1, <2>1, <2>2 DEF Starts
<1>2. CASE Subscribes
  <2>1. cl' \in Calls
    BY <1>2 DEF Subscribes, ClDone, ClAt
  <2>2. held' \in [Attempts -> SUBSET {"handler", "status", "sub"}]
    <3>1. cl.att \in Attempts
      BY <1>2 DEF Subscribes, PcInv
    <3>2. held \in [Attempts -> SUBSET {"handler", "status", "sub"}]
      BY DEF ShapeInv
    <3>3. held' = held \/ held' = [held EXCEPT ![cl.att] = @ \cup {"sub", "status"}]
      BY <1>2 DEF Subscribes
    <3>4. QED  BY ONLY <3>1, <3>2, <3>3
  <2>3. QED
    BY <1>2, <2>1, <2>2 DEF Subscribes, responder
<1>3. CASE Publishes
  BY <1>3 DEF Publishes, Clears, ClDone, ClAt, Kept, Loops, ClFails, SsnAt, SsnOnly
<1>4. CASE Gets
  BY <1>4 DEF Gets, ClTakes, Clears, ClDone, ClAt, Kept, ClFails, responder
<1>5. CASE Resumes
  BY <1>5 DEF Resumes, Loops, Clears, ClFails, ClDone, ClAt, Kept, responder
<1>6. CASE Leaves
  BY <1>6 DEF Leaves, ClDone, Kept, responder
<1>7. CASE Wakes
  BY <1>7 DEF Wakes, ClAt, Kept, responder
<1>8. CASE Sweeps
  BY <1>8 DEF Sweeps, ClCloses, responder
<1>9. CASE Closes
  BY <1>9 DEF Closes, responder
<1>10. CASE Stands
  BY <1>10 DEF Stands, consumer
<1>11. ASSUME NEW a \in Attempts, Delivers(a) PROVE ShapeInv'
  BY <1>11 DEF Delivers, ClQueues, ClCloses, WireOnly
<1>12. ASSUME NEW a \in Attempts, Refuses(a) PROVE ShapeInv'
  BY <1>12 DEF Refuses, ClCloses, responder
<1>13. ASSUME NEW a \in Attempts, Opens(a) PROVE ShapeInv'
  BY <1>13 DEF Opens, SsnAt, SsnOnly, consumer
<1>14. ASSUME NEW a \in Attempts, Yields(a) PROVE ShapeInv'
  BY <1>14 DEF Yields, SsnOver, SsnSends, SsnOnly, WireOnly, consumer
<1>15. ASSUME NEW a \in Attempts, Finishes(a) PROVE ShapeInv'
  BY <1>15 DEF Finishes, SsnOver, SsnOnly, WireOnly, consumer
<1>16. ASSUME NEW a \in Attempts, Cancels(a) PROVE ShapeInv'
  BY <1>16 DEF Cancels, SsnAt, SsnOnly, consumer
<1> HIDE DEF ShapeInv, Attempts
<1>17. QED
  BY <1>1, <1>2, <1>3, <1>4, <1>5, <1>6, <1>7, <1>8, <1>9, <1>10, <1>11, <1>12, <1>13, <1>14,
     <1>15, <1>16 DEF Step

(* There is an attempt under way, and only a call that is over has an outcome. *)
LEMMA PcStep ==
    ASSUME ShapeInv, PcInv, Step
    PROVE  PcInv'
<1>p0. cl.att \in 0..MaxRetries + 1
  BY DEF ShapeInv, Calls
<1> USE StreamAssumption, <1>p0 DEF PcInv, Attempts
<1>1. CASE Starts
  BY <1>1 DEF Starts, ClDone, ClBegins, Kept, responder
<1>2. CASE Subscribes
  BY <1>2 DEF Subscribes, ClDone, ClAt, Kept, responder
<1>3. CASE Publishes
  BY <1>3 DEF Publishes, Clears, ClDone, ClAt, Kept, Loops, ClFails, SsnAt, SsnOnly
<1>4. CASE Gets
  BY <1>4 DEF Gets, ClTakes, Clears, ClDone, ClAt, Kept, ClFails, responder
<1>5. CASE Resumes
  BY <1>5 DEF Resumes, Loops, Clears, ClFails, ClDone, ClAt, Kept, responder
<1>6. CASE Leaves
  BY <1>6 DEF Leaves, ClDone, Kept, responder
<1>7. CASE Wakes
  BY <1>7 DEF Wakes, ClAt, Kept, responder
<1>8. CASE Sweeps
  BY <1>8 DEF Sweeps, ClCloses, responder
<1>9. CASE Closes
  BY <1>9 DEF Closes, responder
<1>10. CASE Stands
  BY <1>10 DEF Stands, consumer
<1>11. ASSUME NEW a \in Attempts, Delivers(a) PROVE PcInv'
  BY <1>11 DEF Delivers, ClQueues, ClCloses, WireOnly
<1>12. ASSUME NEW a \in Attempts, Refuses(a) PROVE PcInv'
  BY <1>12 DEF Refuses, ClCloses, responder
<1>13. ASSUME NEW a \in Attempts, Opens(a) PROVE PcInv'
  BY <1>13 DEF Opens, SsnAt, SsnOnly, consumer
<1>14. ASSUME NEW a \in Attempts, Yields(a) PROVE PcInv'
  BY <1>14 DEF Yields, SsnOver, SsnSends, SsnOnly, WireOnly, consumer
<1>15. ASSUME NEW a \in Attempts, Finishes(a) PROVE PcInv'
  BY <1>15 DEF Finishes, SsnOver, SsnOnly, WireOnly, consumer
<1>16. ASSUME NEW a \in Attempts, Cancels(a) PROVE PcInv'
  BY <1>16 DEF Cancels, SsnAt, SsnOnly, consumer
<1> HIDE DEF PcInv, Attempts
<1>17. QED
  BY <1>1, <1>2, <1>3, <1>4, <1>5, <1>6, <1>7, <1>8, <1>9, <1>10, <1>11, <1>12, <1>13, <1>14,
     <1>15, <1>16 DEF Step

(* Only Publish asks, once per attempt. *)
LEMMA AskedStep ==
    ASSUME ShapeInv, PcInv, AskedInv, Step
    PROVE  AskedInv'
<1>p0. cl.att \in 0..MaxRetries + 1
  BY DEF ShapeInv, Calls
<1> USE StreamAssumption, <1>p0 DEF AskedInv, Unasked, Attempts
<1>1. CASE Starts
  BY <1>1 DEF Starts, ClDone, ClBegins, Kept, responder
<1>2. CASE Subscribes
  BY <1>2 DEF Subscribes, ClDone, ClAt, Kept, responder
<1>3. CASE Publishes
  BY <1>3 DEF Publishes, Clears, ClDone, ClAt, Kept, Loops, ClFails, SsnAt, SsnOnly
<1>4. CASE Gets
  BY <1>4 DEF Gets, ClTakes, Clears, ClDone, ClAt, Kept, ClFails, responder
<1>5. CASE Resumes
  BY <1>5 DEF Resumes, Loops, Clears, ClFails, ClDone, ClAt, Kept, responder
<1>6. CASE Leaves
  BY <1>6 DEF Leaves, ClDone, Kept, responder
<1>7. CASE Wakes
  BY <1>7 DEF Wakes, ClAt, Kept, responder
<1>8. CASE Sweeps
  BY <1>8 DEF Sweeps, ClCloses, responder
<1>9. CASE Closes
  BY <1>9 DEF Closes, responder
<1>10. CASE Stands
  BY <1>10 DEF Stands, consumer
<1>11. ASSUME NEW a \in Attempts, Delivers(a) PROVE AskedInv'
  BY <1>11 DEF Delivers, ClQueues, ClCloses, WireOnly
<1>12. ASSUME NEW a \in Attempts, Refuses(a) PROVE AskedInv'
  BY <1>12 DEF Refuses, ClCloses, responder
<1>13. ASSUME NEW a \in Attempts, Opens(a) PROVE AskedInv'
  BY <1>13 DEF Opens, SsnAt, SsnOnly, consumer
<1>14. ASSUME NEW a \in Attempts, Yields(a) PROVE AskedInv'
  BY <1>14 DEF Yields, SsnOver, SsnSends, SsnOnly, WireOnly, consumer
<1>15. ASSUME NEW a \in Attempts, Finishes(a) PROVE AskedInv'
  BY <1>15 DEF Finishes, SsnOver, SsnOnly, WireOnly, consumer
<1>16. ASSUME NEW a \in Attempts, Cancels(a) PROVE AskedInv'
  BY <1>16 DEF Cancels, SsnAt, SsnOnly, consumer
<1> HIDE DEF AskedInv, Unasked, Attempts
<1>17. QED
  BY <1>1, <1>2, <1>3, <1>4, <1>5, <1>6, <1>7, <1>8, <1>9, <1>10, <1>11, <1>12, <1>13, <1>14,
     <1>15, <1>16 DEF Step

(* Nothing is sent before a session is asked, and a result is final. *)
LEMMA SessionStep ==
    ASSUME AskedInv, SessionInv, Step
    PROVE  SessionInv'
<1> USE StreamAssumption DEF SessionInv, AskedInv, Unasked, Results
<1>1. CASE Starts
  BY <1>1 DEF Starts, ClDone, ClBegins, Kept, responder
<1>2. CASE Subscribes
  BY <1>2 DEF Subscribes, ClDone, ClAt, Kept, responder
<1>3. CASE Publishes
  BY <1>3 DEF Publishes, Clears, ClDone, ClAt, Kept, Loops, ClFails, SsnAt, SsnOnly
<1>4. CASE Gets
  BY <1>4 DEF Gets, ClTakes, Clears, ClDone, ClAt, Kept, ClFails, responder
<1>5. CASE Resumes
  BY <1>5 DEF Resumes, Loops, Clears, ClFails, ClDone, ClAt, Kept, responder
<1>6. CASE Leaves
  BY <1>6 DEF Leaves, ClDone, Kept, responder
<1>7. CASE Wakes
  BY <1>7 DEF Wakes, ClAt, Kept, responder
<1>8. CASE Sweeps
  BY <1>8 DEF Sweeps, ClCloses, responder
<1>9. CASE Closes
  BY <1>9 DEF Closes, responder
<1>10. CASE Stands
  BY <1>10 DEF Stands, consumer
<1>11. ASSUME NEW a \in Attempts, Delivers(a) PROVE SessionInv'
  BY <1>11 DEF Delivers, ClQueues, ClCloses, WireOnly
<1>12. ASSUME NEW a \in Attempts, Refuses(a) PROVE SessionInv'
  BY <1>12 DEF Refuses, ClCloses, responder
<1>13. ASSUME NEW a \in Attempts, Opens(a) PROVE SessionInv'
  BY <1>13 DEF Opens, SsnAt, SsnOnly, consumer
<1>14. ASSUME NEW a \in Attempts, Yields(a) PROVE SessionInv'
  BY <1>14 DEF Yields, SsnOver, SsnSends, SsnOnly, WireOnly, consumer
<1>15. ASSUME NEW a \in Attempts, Finishes(a) PROVE SessionInv'
  BY <1>15 DEF Finishes, SsnOver, SsnOnly, WireOnly, consumer
<1>16. ASSUME NEW a \in Attempts, Cancels(a) PROVE SessionInv'
  BY <1>16 DEF Cancels, SsnAt, SsnOnly, consumer
<1> HIDE DEF SessionInv, AskedInv, Unasked, Results
<1>17. QED
  BY <1>1, <1>2, <1>3, <1>4, <1>5, <1>6, <1>7, <1>8, <1>9, <1>10, <1>11, <1>12, <1>13, <1>14,
     <1>15, <1>16 DEF Step

(* Only the current attempt holds anything. *)
LEMMA HeldStep ==
    ASSUME ShapeInv, PcInv, SessionInv, HeldInv, ErrorInv, Step
    PROVE  HeldInv'
<1>p0. held \in [Attempts -> SUBSET {"handler", "status", "sub"}]
  BY DEF ShapeInv
<1>p1. cl.att \in 0..MaxRetries + 1
  BY DEF ShapeInv, Calls
<1> USE StreamAssumption, <1>p0, <1>p1 DEF HeldInv, SessionInv, PcInv, ErrorInv
<1>1. CASE Starts
  <2>1. \A x \in Attempts : held[x] = {}
    BY <1>1 DEF Starts
  <2>2. CASE ClDone("raised") /\ UNCHANGED <<held, conn, silent>>
    BY <1>1, <2>1, <2>2 DEF ClDone, Kept
  <2>3. CASE /\ ClBegins /\ cl.att + 1 \in Attempts
           /\ held' = [held EXCEPT ![cl.att + 1] = {"handler"}]
           /\ conn' = (IF conn = "down" THEN "up" ELSE conn)
           /\ silent' = (IF conn = "swept" THEN silent \cup {"late"} ELSE silent)
    <3>1. \A x \in Attempts : held'[x] = IF x = cl.att + 1 THEN {"handler"} ELSE {}
      BY <2>1, <2>3
    <3>2. cl'.att = cl.att + 1 /\ cl'.pc = "sub" /\ ~cl'.ended /\ cl'.outcome = "none"
      BY <1>1, <2>3 DEF Starts, ClBegins
    <3>3. conn' # "up" => "late" \in silent'
      BY <2>3 DEF ShapeInv
    <3>4. QED
      BY <3>1, <3>2, <3>3
  <2>4. QED  BY <1>1, <2>2, <2>3 DEF Starts
<1>2. CASE Subscribes
  BY <1>2 DEF Subscribes, ClDone, ClAt, Kept, responder
<1>3. CASE Publishes
  BY <1>3 DEF Publishes, Clears, ClDone, ClAt, Kept, Loops, ClFails, SsnAt, SsnOnly
<1>4. CASE Gets
  BY <1>4 DEF Gets, ClTakes, Clears, ClDone, ClAt, Kept, ClFails, responder
<1>5. CASE Resumes
  BY <1>5 DEF Resumes, Loops, Clears, ClFails, ClDone, ClAt, Kept, responder
<1>6. CASE Leaves
  BY <1>6 DEF Leaves, ClDone, Kept, responder
<1>7. CASE Wakes
  BY <1>7 DEF Wakes, ClAt, Kept, responder
<1>8. CASE Sweeps
  BY <1>8 DEF Sweeps, ClCloses, responder
<1>9. CASE Closes
  BY <1>9 DEF Closes, responder
<1>10. CASE Stands
  BY <1>10 DEF Stands, consumer
<1>11. ASSUME NEW a \in Attempts, Delivers(a) PROVE HeldInv'
  BY <1>11 DEF Delivers, ClQueues, ClCloses, WireOnly
<1>12. ASSUME NEW a \in Attempts, Refuses(a) PROVE HeldInv'
  BY <1>12 DEF Refuses, ClCloses, responder
<1>13. ASSUME NEW a \in Attempts, Opens(a) PROVE HeldInv'
  BY <1>13 DEF Opens, SsnAt, SsnOnly, consumer
<1>14. ASSUME NEW a \in Attempts, Yields(a) PROVE HeldInv'
  BY <1>14 DEF Yields, SsnOver, SsnSends, SsnOnly, WireOnly, consumer
<1>15. ASSUME NEW a \in Attempts, Finishes(a) PROVE HeldInv'
  BY <1>15 DEF Finishes, SsnOver, SsnOnly, WireOnly, consumer
<1>16. ASSUME NEW a \in Attempts, Cancels(a) PROVE HeldInv'
  BY <1>16 DEF Cancels, SsnAt, SsnOnly, consumer
<1> HIDE DEF HeldInv, SessionInv, PcInv, ErrorInv
<1>17. QED
  BY <1>1, <1>2, <1>3, <1>4, <1>5, <1>6, <1>7, <1>8, <1>9, <1>10, <1>11, <1>12, <1>13, <1>14,
     <1>15, <1>16 DEF Step

(* The error that leads to a retry tells what became of the session. *)
LEMMA ErrorStep ==
    ASSUME ShapeInv, PcInv, AskedInv, SessionInv, HeldInv, WireInv, ErrorInv, Step
    PROVE  ErrorInv'
<1>p0. cl.att \in 0..MaxRetries + 1
  BY DEF ShapeInv, Calls
<1> USE StreamAssumption, <1>p0 DEF ErrorInv, PcInv, AskedInv, Unasked, SessionInv, Results, Attempts
<1>1. CASE Starts
  BY <1>1 DEF Starts, ClDone, ClBegins, Kept, responder
<1>2. CASE Subscribes
  BY <1>2 DEF Subscribes, ClDone, ClAt, Kept, responder
<1>3. CASE Publishes
  BY <1>3 DEF Publishes, Clears, ClDone, ClAt, Kept, Loops, ClFails, SsnAt, SsnOnly
<1>4. CASE Gets
  BY <1>4 DEF Gets, ClTakes, Clears, ClDone, ClAt, Kept, ClFails, responder
<1>5. CASE Resumes
  BY <1>5 DEF Resumes, Loops, Clears, ClFails, ClDone, ClAt, Kept, responder
<1>6. CASE Leaves
  BY <1>6 DEF Leaves, ClDone, Kept, responder
<1>7. CASE Wakes
  BY <1>7 DEF Wakes, ClAt, Kept, responder
<1>8. CASE Sweeps
  BY <1>8 DEF Sweeps, ClCloses, responder
<1>9. CASE Closes
  BY <1>9 DEF Closes, responder
<1>10. CASE Stands
  BY <1>10 DEF Stands, consumer
<1>11. ASSUME NEW a \in Attempts, Delivers(a) PROVE ErrorInv'
  <2>1. ssn' = ssn /\ wire[a] \in Seq(Messages) /\ wire[a] # <<>>
    BY <1>11 DEF Delivers, ShapeInv
  <2>2. Head(wire[a]) = wire[a][1] /\ 1 \in 1..Len(wire[a])
    BY <2>1
  <2>3. Head(wire[a]).type # "data" => ssn[a].result = Head(wire[a]).type
    BY <2>2 DEF WireInv, WireOK
  <2>4. ssn[a].pc # "none" /\ ~Unasked(a)
    BY <2>1
  <2>5. CASE cl' = cl
    BY <2>1, <2>5
  <2>6. CASE a = cl.att /\ ClQueues(Head(wire[a]).value)
    BY <2>1, <2>6 DEF ClQueues
  <2>7. CASE a = cl.att /\ Head(wire[a]).type = "end" /\ ClCloses(cl.error)
    BY <2>1, <2>4, <2>7 DEF ClCloses
  <2>8. CASE a = cl.att /\ Head(wire[a]).type \in {"error", "err503"} /\ ClCloses(Head(wire[a]).type)
    BY <2>1, <2>3, <2>4, <2>8 DEF ClCloses
  <2> HIDE DEF ErrorInv, PcInv, AskedInv, Unasked, SessionInv, Results, Attempts
  <2>9. QED  BY <1>11, <2>5, <2>6, <2>7, <2>8 DEF Delivers
<1>12. ASSUME NEW a \in Attempts, Refuses(a) PROVE ErrorInv'
  BY <1>12 DEF Refuses, ClCloses, responder
<1>13. ASSUME NEW a \in Attempts, Opens(a) PROVE ErrorInv'
  BY <1>13 DEF Opens, SsnAt, SsnOnly, consumer
<1>14. ASSUME NEW a \in Attempts, Yields(a) PROVE ErrorInv'
  BY <1>14 DEF Yields, SsnOver, SsnSends, SsnOnly, WireOnly, consumer
<1>15. ASSUME NEW a \in Attempts, Finishes(a) PROVE ErrorInv'
  BY <1>15 DEF Finishes, SsnOver, SsnOnly, WireOnly, consumer
<1>16. ASSUME NEW a \in Attempts, Cancels(a) PROVE ErrorInv'
  BY <1>16 DEF Cancels, SsnAt, SsnOnly, consumer
<1> HIDE DEF ErrorInv, PcInv, AskedInv, Unasked, SessionInv, Results, Attempts
<1>17. QED
  BY <1>1, <1>2, <1>3, <1>4, <1>5, <1>6, <1>7, <1>8, <1>9, <1>10, <1>11, <1>12, <1>13, <1>14,
     <1>15, <1>16 DEF Step

(* The attempts before this one have not run, or raised what looks like a 503. *)
LEMMA OneStreamStep ==
    ASSUME ShapeInv, PcInv, AskedInv, SessionInv, ErrorInv, OneStream, Step
    PROVE  OneStream'
<1>p0. cl.att \in 0..MaxRetries + 1
  BY DEF ShapeInv, Calls
<1> USE StreamAssumption, <1>p0 DEF OneStream, PcInv, AskedInv, Unasked, SessionInv, ErrorInv
<1>1. CASE Starts
  <2>1. ssn' = ssn
    BY <1>1 DEF Starts, responder
  <2>2. CASE cl'.att = cl.att
    BY <2>1, <2>2
  <2>3. CASE cl'.att = cl.att + 1
    <3>1. cl.att > 0 => ssn[cl.att].pc = "none" \/ ssn[cl.att].result = "err503"
      BY <1>1 DEF Starts
    <3>2. \A x \in Attempts : x < cl.att + 1 => x < cl.att \/ (x = cl.att /\ cl.att > 0)
      BY DEF Attempts
    <3>3. QED  BY <2>1, <2>3, <3>1, <3>2
  <2>4. QED  BY <1>1, <2>2, <2>3 DEF Starts, ClDone, ClBegins, Kept
<1>2. CASE Subscribes
  BY <1>2 DEF Subscribes, ClDone, ClAt, Kept, responder
<1>3. CASE Publishes
  BY <1>3 DEF Publishes, Clears, ClDone, ClAt, Kept, Loops, ClFails, SsnAt, SsnOnly
<1>4. CASE Gets
  BY <1>4 DEF Gets, ClTakes, Clears, ClDone, ClAt, Kept, ClFails, responder
<1>5. CASE Resumes
  BY <1>5 DEF Resumes, Loops, Clears, ClFails, ClDone, ClAt, Kept, responder
<1>6. CASE Leaves
  BY <1>6 DEF Leaves, ClDone, Kept, responder
<1>7. CASE Wakes
  BY <1>7 DEF Wakes, ClAt, Kept, responder
<1>8. CASE Sweeps
  BY <1>8 DEF Sweeps, ClCloses, responder
<1>9. CASE Closes
  BY <1>9 DEF Closes, responder
<1>10. CASE Stands
  BY <1>10 DEF Stands, consumer
<1>11. ASSUME NEW a \in Attempts, Delivers(a) PROVE OneStream'
  BY <1>11 DEF Delivers, ClQueues, ClCloses, WireOnly
<1>12. ASSUME NEW a \in Attempts, Refuses(a) PROVE OneStream'
  BY <1>12 DEF Refuses, ClCloses, responder
<1>13. ASSUME NEW a \in Attempts, Opens(a) PROVE OneStream'
  BY <1>13 DEF Opens, SsnAt, SsnOnly, consumer
<1>14. ASSUME NEW a \in Attempts, Yields(a) PROVE OneStream'
  BY <1>14 DEF Yields, SsnOver, SsnSends, SsnOnly, WireOnly, consumer
<1>15. ASSUME NEW a \in Attempts, Finishes(a) PROVE OneStream'
  BY <1>15 DEF Finishes, SsnOver, SsnOnly, WireOnly, consumer
<1>16. ASSUME NEW a \in Attempts, Cancels(a) PROVE OneStream'
  BY <1>16 DEF Cancels, SsnAt, SsnOnly, consumer
<1> HIDE DEF OneStream, PcInv, AskedInv, Unasked, SessionInv, ErrorInv
<1>17. QED
  BY <1>1, <1>2, <1>3, <1>4, <1>5, <1>6, <1>7, <1>8, <1>9, <1>10, <1>11, <1>12, <1>13, <1>14,
     <1>15, <1>16 DEF Step

(* What is over holds nothing, unless it started in a teardown. *)
LEMMA ReleasedStep ==
    ASSUME ShapeInv, PcInv, HeldInv, Released, Step
    PROVE  Released'
<1>p0. held \in [Attempts -> SUBSET {"handler", "status", "sub"}]
  BY DEF ShapeInv
<1>p1. cl.att \in 0..MaxRetries + 1
  BY DEF ShapeInv, Calls
<1> USE StreamAssumption, <1>p0, <1>p1 DEF Released, PcInv, HeldInv
<1>1. CASE Starts
  BY <1>1 DEF Starts, ClDone, ClBegins, Kept, responder
<1>2. CASE Subscribes
  BY <1>2 DEF Subscribes, ClDone, ClAt, Kept, responder
<1>3. CASE Publishes
  BY <1>3 DEF Publishes, Clears, ClDone, ClAt, Kept, Loops, ClFails, SsnAt, SsnOnly
<1>4. CASE Gets
  BY <1>4 DEF Gets, ClTakes, Clears, ClDone, ClAt, Kept, ClFails, responder
<1>5. CASE Resumes
  BY <1>5 DEF Resumes, Loops, Clears, ClFails, ClDone, ClAt, Kept, responder
<1>6. CASE Leaves
  BY <1>6 DEF Leaves, ClDone, Kept, responder
<1>7. CASE Wakes
  BY <1>7 DEF Wakes, ClAt, Kept, responder
<1>8. CASE Sweeps
  BY <1>8 DEF Sweeps, ClCloses, responder
<1>9. CASE Closes
  BY <1>9 DEF Closes, responder
<1>10. CASE Stands
  BY <1>10 DEF Stands, consumer
<1>11. ASSUME NEW a \in Attempts, Delivers(a) PROVE Released'
  BY <1>11 DEF Delivers, ClQueues, ClCloses, WireOnly
<1>12. ASSUME NEW a \in Attempts, Refuses(a) PROVE Released'
  BY <1>12 DEF Refuses, ClCloses, responder
<1>13. ASSUME NEW a \in Attempts, Opens(a) PROVE Released'
  BY <1>13 DEF Opens, SsnAt, SsnOnly, consumer
<1>14. ASSUME NEW a \in Attempts, Yields(a) PROVE Released'
  BY <1>14 DEF Yields, SsnOver, SsnSends, SsnOnly, WireOnly, consumer
<1>15. ASSUME NEW a \in Attempts, Finishes(a) PROVE Released'
  BY <1>15 DEF Finishes, SsnOver, SsnOnly, WireOnly, consumer
<1>16. ASSUME NEW a \in Attempts, Cancels(a) PROVE Released'
  BY <1>16 DEF Cancels, SsnAt, SsnOnly, consumer
<1> HIDE DEF Released, PcInv, HeldInv
<1>17. QED
  BY <1>1, <1>2, <1>3, <1>4, <1>5, <1>6, <1>7, <1>8, <1>9, <1>10, <1>11, <1>12, <1>13, <1>14,
     <1>15, <1>16 DEF Step

(* What is on the wire stays the end of what was sent. *)
LEMMA WireStep ==
    ASSUME ShapeInv, SessionInv, WireInv, Step
    PROVE  WireInv'
<1>p0. \A x \in Attempts : wire[x] \in Seq(Messages) /\ ssn[x].out \in Seq(0..MaxVals)
  BY DEF ShapeInv, Sessions
<1> USE StreamAssumption, <1>p0 DEF WireInv
<1>1. CASE Starts
  BY <1>1 DEF Starts, ClDone, ClBegins, Kept, responder
<1>2. CASE Subscribes
  BY <1>2 DEF Subscribes, ClDone, ClAt, Kept, responder
<1>3. CASE Publishes
  BY <1>3 DEF Publishes, Clears, ClDone, ClAt, Kept, Loops, ClFails, SsnAt, SsnOnly
<1>4. CASE Gets
  BY <1>4 DEF Gets, ClTakes, Clears, ClDone, ClAt, Kept, ClFails, responder
<1>5. CASE Resumes
  BY <1>5 DEF Resumes, Loops, Clears, ClFails, ClDone, ClAt, Kept, responder
<1>6. CASE Leaves
  BY <1>6 DEF Leaves, ClDone, Kept, responder
<1>7. CASE Wakes
  BY <1>7 DEF Wakes, ClAt, Kept, responder
<1>8. CASE Sweeps
  BY <1>8 DEF Sweeps, ClCloses, responder
<1>9. CASE Closes
  BY <1>9 DEF Closes, responder
<1>10. CASE Stands
  BY <1>10 DEF Stands, consumer
<1>11. ASSUME NEW a \in Attempts, Delivers(a) PROVE WireInv'
  <2>1. WireOK(wire[a], ssn[a].out, ssn[a].result) /\ wire[a] # <<>> /\ wire'[a] = Tail(wire[a])
    BY <1>11 DEF Delivers
  <2>2. WireOK(Tail(wire[a]), ssn[a].out, ssn[a].result)
    BY <2>1, WirePop
  <2>3. QED  BY <1>11, <2>1, <2>2 DEF Delivers, WireOnly
<1>12. ASSUME NEW a \in Attempts, Refuses(a) PROVE WireInv'
  BY <1>12 DEF Refuses, ClCloses, responder
<1>13. ASSUME NEW a \in Attempts, Opens(a) PROVE WireInv'
  BY <1>13 DEF Opens, SsnAt, SsnOnly, consumer
<1>14. ASSUME NEW a \in Attempts, Yields(a) PROVE WireInv'
  <2>1. ssn[a].result = "none" /\ WireOK(wire[a], ssn[a].out, "none")
    BY <1>14 DEF Yields, SessionInv
  <2>2. CASE SsnOver(a, "stopped") /\ wire' = wire
    BY <1>14, <2>1, <2>2, WireStopped DEF SsnOver, SsnOnly
  <2>3. ASSUME NEW v \in 0..MaxVals,
               SsnSends(a, v) /\ WireOnly(a) /\ wire'[a] = Append(wire[a], Data(v))
        PROVE  WireInv'
    <3>1. WireOK(Append(wire[a], Data(v)), Append(ssn[a].out, v), "none")
      BY <2>1, WireSend
    <3>2. QED  BY <2>1, <2>3, <3>1 DEF SsnSends, SsnOnly, WireOnly
  <2> HIDE DEF WireInv
  <2>4. QED  BY <1>14, <2>2, <2>3 DEF Yields
<1>15. ASSUME NEW a \in Attempts, Finishes(a) PROVE WireInv'
  <2>1. ssn[a].result = "none" /\ WireOK(wire[a], ssn[a].out, "none")
    BY <1>15 DEF Finishes, SessionInv
  <2>2. ASSUME NEW result \in Results, SsnOver(a, result), wire' = wire
        PROVE  WireInv'
    BY <2>1, <2>2, WireStopped DEF SsnOver, SsnOnly
  <2>3. ASSUME NEW result \in Results, SsnOver(a, result),
               WireOnly(a), wire'[a] = Append(wire[a], Closing(result))
        PROVE  WireInv'
    <3>1. WireOK(Append(wire[a], Closing(result)), ssn[a].out, result)
      BY <2>1, WireClose
    <3>2. QED  BY <2>3, <3>1 DEF SsnOver, SsnOnly, WireOnly
  <2> HIDE DEF WireInv
  <2>4. QED  BY <1>15, <2>2, <2>3 DEF Finishes
<1>16. ASSUME NEW a \in Attempts, Cancels(a) PROVE WireInv'
  BY <1>16 DEF Cancels, SsnAt, SsnOnly, consumer
<1> HIDE DEF WireInv
<1>17. QED
  BY <1>1, <1>2, <1>3, <1>4, <1>5, <1>6, <1>7, <1>8, <1>9, <1>10, <1>11, <1>12, <1>13, <1>14,
     <1>15, <1>16 DEF Step

(* A loop that ends normally has had every value. *)
LEMMA EndStep ==
    ASSUME ShapeInv, PcInv, SessionInv, FlowInv, EndMeansAll, Step
    PROVE  EndMeansAll'
<1>p0. cl.outcome = "end" => cl.att \in Attempts
  BY StreamAssumption DEF ShapeInv, Calls, PcInv, Attempts
<1>p1. cl.pc = "done" <=> cl.outcome /= "none"
  BY DEF PcInv
<1> USE StreamAssumption, <1>p0, <1>p1 DEF EndMeansAll
<1>1. CASE Starts
  BY <1>1 DEF Starts, ClDone, ClBegins, Kept, responder
<1>2. CASE Subscribes
  BY <1>2 DEF Subscribes, ClDone, ClAt, Kept, responder
<1>3. CASE Publishes
  BY <1>3 DEF Publishes, Clears, ClDone, ClAt, Kept, Loops, ClFails, SsnAt, SsnOnly
<1>4. CASE Gets
  <2>1. ssn' = ssn /\ torn' = torn /\ cl.att \in Attempts /\ cl.att > 0 /\ cl.pc = "get"
    BY <1>4 DEF Gets, responder, Attempts
  <2>2. CASE ClTakes(Head(cl.queue))
    BY <2>1, <2>2 DEF ClTakes
  <2>3. CASE cl.error = "none" /\ ClDone("end") /\ Head(cl.queue) = NoneValue
    <3>1. NoneValue \in Range(ssn[cl.att].out)
      BY <1>4, <2>1, <2>3, NoneSeen DEF Gets, ShapeInv, Calls, Sessions, FlowInv
    <3>2. QED  BY <2>1, <2>3, <3>1 DEF ClDone, Kept
  <2>4. CASE cl.error = "none" /\ ClDone("end") /\ Head(cl.queue) = Marker
    <3> DEFINE out == ssn[cl.att].out
    <3>1. cl.queue \in Seq(0..Marker) /\ cl.got \in Seq(1..MaxVals) /\ out \in Seq(0..MaxVals) /\ cl.queue # <<>>
      BY <1>4, <2>1 DEF Gets, ShapeInv, Calls, Sessions
    <3>2. PrefixOK(cl.got, cl.queue, out) /\ (~cl.ended => NoMarker(cl.queue, Len(cl.queue)))
      BY <2>1 DEF FlowInv
    <3>3. cl.ended
      <4>1. 1 \in 1..Len(cl.queue) /\ cl.queue[1] = Marker
        BY <2>4, <3>1
      <4>2. QED  BY <3>2, <4>1 DEF NoMarker
    <3>4. torn \/ (ssn[cl.att].result = "end" /\ AllQueued(cl.got, cl.queue, out))
      BY <2>1, <2>4, <3>3 DEF FlowInv
    <3>5. AllQueued(cl.got, cl.queue, out) => cl.got = out
      BY <2>4, <3>1, <3>2, AllSeen
    <3>6. QED  BY <2>1, <2>4, <3>4, <3>5 DEF ClDone, Kept
  <2>5. CASE ClFails(cl.error)
    BY <2>1, <2>5 DEF ClFails, ClDone, ClAt, Kept
  <2> HIDE DEF EndMeansAll
  <2>6. QED  BY <1>4, <2>2, <2>3, <2>4, <2>5 DEF Gets
<1>5. CASE Resumes
  BY <1>5 DEF Resumes, Loops, Clears, ClFails, ClDone, ClAt, Kept, responder
<1>6. CASE Leaves
  BY <1>6 DEF Leaves, ClDone, Kept, responder
<1>7. CASE Wakes
  BY <1>7 DEF Wakes, ClAt, Kept, responder
<1>8. CASE Sweeps
  BY <1>8 DEF Sweeps, ClCloses, responder
<1>9. CASE Closes
  BY <1>9 DEF Closes, responder
<1>10. CASE Stands
  BY <1>10 DEF Stands, consumer
<1>11. ASSUME NEW a \in Attempts, Delivers(a) PROVE EndMeansAll'
  BY <1>11 DEF Delivers, ClQueues, ClCloses, WireOnly
<1>12. ASSUME NEW a \in Attempts, Refuses(a) PROVE EndMeansAll'
  BY <1>12 DEF Refuses, ClCloses, responder
<1>13. ASSUME NEW a \in Attempts, Opens(a) PROVE EndMeansAll'
  <2>1. cl' = cl /\ torn' = torn
    BY <1>13 DEF Opens, consumer
  <2>2. ASSUME NEW x \in Attempts  PROVE ssn'[x].out = ssn[x].out /\ ssn'[x].result = ssn[x].result
    BY <1>13 DEF Opens, SsnAt, SsnOnly
  <2>3. QED  BY <2>1, <2>2
<1>14. ASSUME NEW a \in Attempts, Yields(a) PROVE EndMeansAll'
  <2>1. cl' = cl /\ torn' = torn /\ ssn[a].result = "none"
    BY <1>14 DEF Yields, consumer, SessionInv
  <2>2. CASE SsnOver(a, "stopped")
    BY <2>1, <2>2 DEF SsnOver, SsnOnly
  <2>3. ASSUME NEW v \in 0..MaxVals, SsnSends(a, v)  PROVE EndMeansAll'
    <3>1. ssn[a].out \in Seq(0..MaxVals)
      BY DEF ShapeInv, Sessions
    <3>2. NoneValue \in Range(ssn[a].out) => NoneValue \in Range(Append(ssn[a].out, v))
      <4> DEFINE o == Append(ssn[a].out, v)
      <4>1. DOMAIN ssn[a].out \subseteq DOMAIN o /\ \A i \in DOMAIN ssn[a].out : o[i] = ssn[a].out[i]
        BY <3>1
      <4> HIDE DEF o
      <4>2. NoneValue \in Range(ssn[a].out) => NoneValue \in Range(o)
        BY <4>1 DEF Range
      <4>3. QED  BY <4>2 DEF o
    <3>3. QED  BY <2>1, <2>3, <3>2 DEF SsnSends, SsnOnly
  <2> HIDE DEF EndMeansAll
  <2>4. QED  BY <1>14, <2>2, <2>3 DEF Yields
<1>15. ASSUME NEW a \in Attempts, Finishes(a) PROVE EndMeansAll'
  <2>1. cl' = cl /\ torn' = torn /\ ssn[a].result = "none"
    BY <1>15 DEF Finishes, consumer, SessionInv
  <2>2. ASSUME NEW result, SsnOver(a, result)  PROVE EndMeansAll'
    BY <2>1, <2>2 DEF SsnOver, SsnOnly
  <2> HIDE DEF EndMeansAll
  <2>3. QED  BY <1>15, <2>2 DEF Finishes
<1>16. ASSUME NEW a \in Attempts, Cancels(a) PROVE EndMeansAll'
  <2>1. cl' = cl /\ torn' = torn
    BY <1>16 DEF Cancels, consumer
  <2>2. ASSUME NEW x \in Attempts  PROVE ssn'[x].out = ssn[x].out /\ ssn'[x].result = ssn[x].result
    BY <1>16 DEF Cancels, SsnAt, SsnOnly
  <2>3. QED  BY <2>1, <2>2
<1> HIDE DEF EndMeansAll
<1>17. QED
  BY <1>1, <1>2, <1>3, <1>4, <1>5, <1>6, <1>7, <1>8, <1>9, <1>10, <1>11, <1>12, <1>13, <1>14,
     <1>15, <1>16 DEF Step

(* A step that keeps the consumer's state, and what was sent, keeps FlowInv. *)
Undisturbed(a) ==
    /\ Kept
    /\ ssn'[a].out = ssn[a].out
    /\ ssn[a].result = "end" => ssn'[a].result = "end"
    /\ torn => torn'
    /\ "handler" \in held'[a] /\ ~cl.ended /\ conn' # "down" =>
          "handler" \in held[a] /\ conn # "down" /\ Pending(wire'[a]) = Pending(wire[a])

LEMMA FlowKept ==
    ASSUME FlowInv, cl.att > 0 => Undisturbed(cl.att), cl'.att = cl.att
    PROVE  FlowInv'
BY DEF FlowInv, Undisturbed, Kept

(* The sequences have their types. *)
LEMMA FlowTypes ==
    ASSUME ShapeInv
    PROVE  /\ cl.queue \in Seq(0..Marker) /\ cl.got \in Seq(1..MaxVals)
           /\ cl.att > 0 => cl.att \in Attempts
           /\ \A a \in Attempts : ssn[a].out \in Seq(0..MaxVals) /\ wire[a] \in Seq(Messages)
BY StreamAssumption DEF ShapeInv, Calls, Sessions, Attempts

(* An attempt begins with nothing sent and nothing queued. *)
LEMMA FlowStarts ==
    ASSUME ShapeInv, AskedInv, SessionInv, FlowInv, Starts
    PROVE  FlowInv'
<1>1. CASE ClDone("raised") /\ UNCHANGED <<held, conn, silent>>
  <2>1. Undisturbed(cl.att) /\ cl'.att = cl.att
    BY <1>1 DEF Starts, ClDone, Kept, Undisturbed, responder
  <2>2. QED  BY <2>1, FlowKept
<1>2. CASE ClBegins /\ cl.att + 1 \in Attempts
  <2> DEFINE b == cl.att + 1
  <2>1. cl'.att = b /\ cl'.queue = <<>> /\ cl'.got = <<>> /\ cl'.ended = FALSE /\ ssn' = ssn /\ wire' = wire
    BY <1>2 DEF ClBegins, Starts, responder
  <2>2. cl.att \in Nat /\ b \in Attempts
    BY <1>2, StreamAssumption DEF ShapeInv, Calls
  <2>3. Unasked(b)
    BY <2>2 DEF Unasked
  <2> HIDE DEF b
  <2>4. ssn[b].out = <<>> /\ wire[b] = <<>>
    BY <2>2, <2>3 DEF AskedInv, SessionInv
  <2>5. Pending(<<>>) = 0 /\ PrefixOK(<<>>, <<>>, <<>>) /\ NoMarker(<<>>, Len(<<>>))
    BY DEF Pending, PrefixOK, NoMarker
  <2>6. Len(<<>>) + Len(<<>>) + 0 = Len(<<>>)
    OBVIOUS
  <2>7. QED  BY <2>1, <2>4, <2>5, <2>6 DEF FlowInv
<1>3. QED  BY <1>1, <1>2, Zenon DEF Starts

(* The consumer's other steps. *)
LEMMA FlowCalls ==
    ASSUME ShapeInv, PcInv, FlowInv,
           Subscribes \/ Publishes \/ Resumes \/ Leaves \/ Wakes \/ Closes \/ Stands
    PROVE  FlowInv'
<1>1. held \in [Attempts -> SUBSET {"handler", "status", "sub"}] /\ (cl.att > 0 => cl.att \in Attempts)
  BY FlowTypes DEF ShapeInv
<1>2. CASE Subscribes
  <2>1. cl.att > 0 => Undisturbed(cl.att)
    BY <1>1, <1>2 DEF Subscribes, ClDone, ClAt, Undisturbed, Kept, responder
  <2>2. cl'.att = cl.att
    BY <1>2 DEF Subscribes, ClDone, ClAt, Kept
  <2>3. QED  BY <2>1, <2>2, FlowKept
<1>3. CASE Publishes
  <2>1. Kept /\ torn' = torn /\ conn' = conn /\ wire' = wire
    BY <1>3 DEF Publishes, Loops, ClFails, ClDone, ClAt
  <2>2. "handler" \in held'[cl.att] => "handler" \in held[cl.att]
    BY <1>1, <1>3 DEF Publishes, Loops, Clears
  <2>3. ssn'[cl.att].out = ssn[cl.att].out /\ ssn'[cl.att].result = ssn[cl.att].result
    BY <1>3 DEF Publishes, SsnAt
  <2>4. Undisturbed(cl.att) /\ cl'.att = cl.att
    BY <2>1, <2>2, <2>3 DEF Undisturbed, Kept
  <2>5. QED  BY <2>4, FlowKept
<1>4. CASE Resumes
  <2>1. Kept /\ torn' = torn /\ conn' = conn /\ wire' = wire /\ ssn' = ssn
    BY <1>4 DEF Resumes, Loops, ClFails, ClDone, ClAt, responder
  <2>2. "handler" \in held'[cl.att] => "handler" \in held[cl.att]
    BY <1>1, <1>4 DEF Resumes, Loops, Clears
  <2>3. Undisturbed(cl.att) /\ cl'.att = cl.att
    BY <2>1, <2>2 DEF Undisturbed, Kept
  <2>4. QED  BY <2>3, FlowKept
<1>5. CASE Leaves \/ Wakes
  <2>1. Undisturbed(cl.att) /\ cl'.att = cl.att
    BY <1>5 DEF Leaves, Wakes, ClDone, ClAt, Kept, Undisturbed, responder
  <2>2. QED  BY <2>1, FlowKept
<1>6. CASE Closes
  <2>1. Undisturbed(cl.att) /\ cl'.att = cl.att
    BY <1>6 DEF Closes, Kept, Undisturbed, responder
  <2>2. QED  BY <2>1, FlowKept
<1>7. CASE Stands
  <2>1. cl' = cl /\ held' = held /\ conn' = conn /\ torn' = torn /\ wire' = wire
    BY <1>7 DEF Stands, consumer
  <2>2. cl.att > 0 => ssn'[cl.att].out = ssn[cl.att].out /\ ssn'[cl.att].result = ssn[cl.att].result
    BY <1>1, <1>7 DEF Stands
  <2>3. cl.att > 0 => Undisturbed(cl.att)
    BY <2>1, <2>2 DEF Undisturbed, Kept
  <2>4. QED  BY <2>1, <2>3, FlowKept
<1>8. QED  BY <1>2, <1>3, <1>4, <1>5, <1>6, <1>7

(* The consumer takes a value, or its loop ends. *)
LEMMA FlowGets ==
    ASSUME ShapeInv, FlowInv, Gets
    PROVE  FlowInv'
<1>1. held \in [Attempts -> SUBSET {"handler", "status", "sub"}] /\ cl.att \in Attempts /\ cl.att > 0
  BY DEF ShapeInv, Gets, Attempts
<1>2. CASE Clears /\ Kept
  <2>1. "handler" \notin held'[cl.att]
    BY <1>1, <1>2 DEF Clears
  <2>2. Undisturbed(cl.att) /\ cl'.att = cl.att
    BY <1>2, <2>1 DEF Gets, Undisturbed, Kept, responder
  <2>3. QED  BY <2>2, FlowKept
<1>3. CASE Head(cl.queue) \in 1..MaxVals /\ ClTakes(Head(cl.queue)) /\ held' = held
  <2> DEFINE g == Append(cl.got, Head(cl.queue))
             x == Tail(cl.queue)
             out == ssn[cl.att].out
  <2>1. cl.queue \in Seq(0..Marker) /\ cl.got \in Seq(1..MaxVals) /\ out \in Seq(0..MaxVals) /\ cl.queue # <<>>
    BY <1>1, FlowTypes DEF Gets
  <2>2. PrefixOK(g, x, out)
    BY <1>1, <1>3, <2>1, PrefixTake DEF FlowInv
  <2>3. Len(g) = Len(cl.got) + 1 /\ Len(x) = Len(cl.queue) - 1 /\ Len(cl.got) \in Nat /\ Len(cl.queue) \in Nat
    BY <1>3, <2>1
  <2>4. NoMarker(cl.queue, Len(cl.queue)) => NoMarker(x, Len(x))
    BY <2>1, TakeUnmarked
  <2>5. AllQueued(cl.got, cl.queue, out) => AllQueued(g, x, out)
    BY <1>1, <1>3, <2>1, TakeComplete DEF FlowInv
  <2>6. /\ cl'.got = g /\ cl'.queue = x /\ cl'.att = cl.att /\ cl'.ended = cl.ended /\ cl'.error = cl.error
        /\ ssn' = ssn /\ wire' = wire /\ conn' = conn /\ torn' = torn
    BY <1>3 DEF ClTakes, Gets, responder
  <2> HIDE DEF g, x
  <2>7. ASSUME NEW p \in Nat  PROVE Len(g) + Len(x) + p = Len(cl.got) + Len(cl.queue) + p
    <3> DEFINE m == Len(cl.got)
               n == Len(cl.queue)
    <3>1. m \in Nat /\ n \in Nat /\ Len(g) = m + 1 /\ Len(x) = n - 1
      BY <2>3
    <3> HIDE DEF m, n
    <3>2. (m + 1) + (n - 1) + p = m + n + p
      BY <3>1
    <3>3. QED  BY <3>1, <3>2 DEF m, n
  <2>8. Pending(wire[cl.att]) \in Nat
    BY <1>1, FlowTypes, PendingNat
  <2> HIDE DEF out
  <2>9. QED  BY <1>1, <1>3, <2>2, <2>4, <2>5, <2>6, <2>7, <2>8 DEF FlowInv, out
<1>4. QED
  BY <1>2, <1>3, Zenon DEF Gets, ClFails, ClDone, ClAt

(* A callback that ends the stream marks the end of the queue. *)
LEMMA FlowCloses ==
    ASSUME ShapeInv, FlowInv, NEW error, ClCloses(error), cl.att > 0, ssn' = ssn,
           error = "none" =>
               torn' \/ (ssn[cl.att].result = "end" /\ NoMarker(cl.queue, Len(cl.queue))
                          /\ Len(cl.got) + Len(cl.queue) = Len(ssn[cl.att].out))
    PROVE  FlowInv'
<1> DEFINE x == Append(cl.queue, Marker)
           out == ssn[cl.att].out
<1>1. cl.queue \in Seq(0..Marker) /\ cl.got \in Seq(1..MaxVals) /\ out \in Seq(0..MaxVals)
  BY FlowTypes
<1>2. PrefixOK(cl.got, x, out)
  BY <1>1, PrefixMark DEF FlowInv
<1>3. NoMarker(cl.queue, Len(cl.queue)) /\ Len(cl.got) + Len(cl.queue) = Len(out) => AllQueued(cl.got, x, out)
  BY <1>1, CloseComplete
<1>4. cl'.got = cl.got /\ cl'.queue = x /\ cl'.att = cl.att /\ cl'.ended = TRUE /\ cl'.error = error
  BY DEF ClCloses
<1> HIDE DEF x
<1>5. QED  BY <1>2, <1>3, <1>4 DEF FlowInv

(* A message of the session arrives. *)
LEMMA FlowDelivers ==
    ASSUME ShapeInv, HeldInv, WireInv, FlowInv, NEW a \in Attempts, Delivers(a)
    PROVE  FlowInv'
<1>1. ssn' = ssn /\ torn' = torn /\ conn' = conn
  BY DEF Delivers
<1>2. /\ cl.queue \in Seq(0..Marker) /\ cl.got \in Seq(1..MaxVals) /\ (cl.att > 0 => cl.att \in Attempts)
      /\ ssn[a].out \in Seq(0..MaxVals) /\ wire[a] \in Seq(Messages) /\ wire[a] # <<>>
  BY FlowTypes DEF Delivers
<1>3. /\ Head(wire[a]).type = "data" =>
           /\ Pending(wire[a]) >= 1 /\ Pending(Tail(wire[a])) = Pending(wire[a]) - 1
           /\ Pending(wire[a]) <= Len(ssn[a].out)
           /\ Head(wire[a]).value = ssn[a].out[Len(ssn[a].out) - Pending(wire[a]) + 1]
      /\ Head(wire[a]).type # "data" => Pending(wire[a]) = 0 /\ ssn[a].result = Head(wire[a]).type
  BY <1>2, WirePop DEF WireInv
<1>4. CASE /\ cl' = cl /\ held' = held
           /\ a = cl.att => "handler" \notin held[a] \/ conn = "down" \/ cl.ended
  <2>1. cl.att > 0 /\ cl.att # a => wire'[cl.att] = wire[cl.att]
    BY <1>2 DEF Delivers, WireOnly
  <2>2. cl.att > 0 => Undisturbed(cl.att)
    BY <1>1, <1>4, <2>1 DEF Undisturbed, Kept
  <2>3. QED  BY <1>4, <2>2, FlowKept
<1>5. CASE /\ a = cl.att /\ "handler" \in held[a] /\ conn # "down"
           /\ Head(wire[a]).type = "data" /\ ~cl.ended /\ held' = held
           /\ ClQueues(Head(wire[a]).value)
  <2> DEFINE v == Head(wire[a]).value
             x == Append(cl.queue, v)
             out == ssn[a].out
             p == Pending(wire[a])
             m == Len(cl.got)
             n == Len(cl.queue)
             k == Len(out)
  <2>1. v \in 0..MaxVals
    <3>1. Head(wire[a]) \in Messages
      BY <1>2, HeadTail
    <3>2. QED  BY <3>1 DEF Messages
  <2>2. v \in 0..Marker /\ v # Marker
    BY <2>1, StreamAssumption DEF Marker
  <2>3. PrefixOK(cl.got, cl.queue, out) /\ NoMarker(cl.queue, n) /\ m + n + p = k
    <3>1. cl.att > 0
      BY <1>5 DEF Attempts
    <3>2. QED  BY <1>5, <3>1, Zenon DEF FlowInv
  <2>4. m \in Nat /\ n \in Nat /\ p \in Nat /\ k \in Nat
    BY <1>2, PendingNat
  <2>5. p >= 1 /\ Pending(wire'[a]) = p - 1 /\ v = out[k - p + 1]
    BY <1>3, <1>5 DEF Delivers
  <2>6. Len(x) = n + 1 /\ x[n + 1] = v /\ \A j \in 1..n : x[j] = cl.queue[j]
    BY <1>2, <2>2
  <2> HIDE DEF v, p, out, m, n, k
  <2>7. m + n + 1 <= k /\ k - p + 1 = m + n + 1
    BY <2>3, <2>4, <2>5
  <2>8. PrefixOK(cl.got, x, out)
    BY <1>2, <2>2, <2>3, <2>5, <2>7, PrefixQueue DEF out, m, n, k
  <2> HIDE DEF x
  <2>9. NoMarker(x, Len(x))
    BY <2>2, <2>3, <2>4, <2>6 DEF NoMarker
  <2>10. m + Len(x) + (p - 1) = k
    BY <2>3, <2>4, <2>6
  <2>11. cl'.got = cl.got /\ cl'.queue = x /\ cl'.att = a /\ cl'.ended = FALSE
    BY <1>5 DEF ClQueues, ShapeInv, Calls, v, x
  <2>12. QED  BY <1>1, <2>5, <2>8, <2>9, <2>10, <2>11 DEF FlowInv, out, m, k
<1>6. CASE /\ a = cl.att /\ "handler" \in held[a] /\ conn # "down"
           /\ Head(wire[a]).type = "end" /\ ClCloses(cl.error)
  <2>1. cl.error = "none" => ~cl.ended
    BY <1>6 DEF HeldInv
  <2>2. cl.error = "none" =>
          /\ ssn[a].result = "end" /\ NoMarker(cl.queue, Len(cl.queue))
          /\ Len(cl.got) + Len(cl.queue) + 0 = Len(ssn[a].out)
    <3>1. cl.att > 0 /\ Head(wire[a]).type # "data"
      BY <1>6 DEF Attempts
    <3>2. Pending(wire[a]) = 0 /\ ssn[a].result = "end"
      BY <1>3, <1>6, <3>1
    <3>3. QED  BY <1>6, <2>1, <3>1, <3>2 DEF FlowInv
  <2>3. Len(cl.got) + Len(cl.queue) + 0 = Len(cl.got) + Len(cl.queue)
    BY <1>2
  <2>4. cl.att > 0
    BY <1>6 DEF Attempts
  <2>5. QED  BY <1>1, <1>6, <2>2, <2>3, <2>4, FlowCloses
<1>7. CASE /\ a = cl.att
           /\ Head(wire[a]).type \in {"error", "err503"} /\ ClCloses(Head(wire[a]).type)
  <2>1. cl.att > 0 /\ Head(wire[a]).type # "none"
    BY <1>7 DEF Attempts
  <2>2. QED  BY <1>1, <1>7, <2>1, FlowCloses
<1>8. QED
  BY <1>4, <1>5, <1>6, <1>7 DEF Delivers

(* The 503 arrives, or the client is torn down. *)
LEMMA FlowEnds ==
    ASSUME ShapeInv, FlowInv, Sweeps \/ \E a \in Attempts : Refuses(a)
    PROVE  FlowInv'
<1>1. held \in [Attempts -> SUBSET {"handler", "status", "sub"}] /\ (cl.att > 0 => cl.att \in Attempts)
  BY FlowTypes DEF ShapeInv
<1>2. ssn' = ssn /\ wire' = wire
  BY DEF Sweeps, Refuses, responder
<1>3. CASE Sweeps
  <2>1. CASE cl' = cl /\ (cl.att > 0 => "handler" \notin held[cl.att])
    <3>1. cl.att > 0 => "handler" \notin held'[cl.att]
      BY <1>1, <1>3 DEF Sweeps
    <3>2. cl.att > 0 => Undisturbed(cl.att)
      BY <1>2, <1>3, <2>1, <3>1 DEF Sweeps, Undisturbed, Kept
    <3>3. QED  BY <2>1, <3>2, FlowKept
  <2>2. CASE cl.att > 0 /\ ClCloses(cl.error)
    BY <1>2, <1>3, <2>2, FlowCloses DEF Sweeps
  <2>3. QED  BY <1>3, <2>1, <2>2 DEF Sweeps
<1>4. ASSUME NEW a \in Attempts, Refuses(a)  PROVE FlowInv'
  <2>1. CASE cl' = cl
    <3>1. cl.att > 0 => ("handler" \in held'[cl.att] => "handler" \in held[cl.att])
      BY <1>1, <1>4 DEF Refuses
    <3>2. cl.att > 0 => Undisturbed(cl.att)
      BY <1>2, <1>4, <2>1, <3>1 DEF Refuses, Undisturbed, Kept
    <3>3. QED  BY <2>1, <3>2, FlowKept
  <2>2. CASE a = cl.att /\ ClCloses("noresp")
    <3>1. cl.att > 0
      BY <2>2 DEF Attempts
    <3>2. QED  BY <1>2, <2>2, <3>1, FlowCloses
  <2>3. QED  BY <1>4, <2>1, <2>2 DEF Refuses
<1>5. QED  BY <1>3, <1>4

(* The session opens, sends, ends or is cancelled. *)
LEMMA FlowSession ==
    ASSUME ShapeInv, SessionInv, WireInv, FlowInv, NEW a \in Attempts,
           Opens(a) \/ Yields(a) \/ Finishes(a) \/ Cancels(a)
    PROVE  FlowInv'
<1>1. cl.att > 0 => cl.att \in Attempts
  BY FlowTypes
<1>2. cl' = cl /\ held' = held /\ conn' = conn /\ torn' = torn /\ Kept
  BY DEF Opens, Yields, Finishes, Cancels, consumer, Kept
<1>3. CASE Opens(a) \/ Cancels(a)
  <2>1. wire' = wire
    BY <1>3 DEF Opens, Cancels
  <2>2. \A b \in Attempts : ssn'[b].out = ssn[b].out /\ ssn'[b].result = ssn[b].result
    BY <1>3 DEF Opens, Cancels, SsnAt, SsnOnly
  <2>3. cl.att > 0 => Undisturbed(cl.att)
    BY <1>1, <1>2, <2>1, <2>2 DEF Undisturbed
  <2>4. QED  BY <1>2, <2>3, FlowKept
<1>4. ASSUME ssn[a].pc = "running"
      PROVE  ssn[a].result = "none" /\ WireOK(wire[a], ssn[a].out, "none")
  BY <1>4 DEF SessionInv, WireInv
<1>5. ASSUME NEW result, ssn[a].pc = "running", SsnOver(a, result),
             WireOnly(a) \/ wire' = wire, Pending(wire'[a]) = Pending(wire[a])
      PROVE  FlowInv'
  <2>1. cl.att > 0 => Pending(wire'[cl.att]) = Pending(wire[cl.att])
    BY <1>1, <1>5 DEF WireOnly
  <2>2. cl.att > 0 => /\ ssn'[cl.att].out = ssn[cl.att].out
                      /\ ssn[cl.att].result = "end" => ssn'[cl.att].result = "end"
    BY <1>1, <1>4, <1>5 DEF SsnOver, SsnOnly
  <2>3. cl.att > 0 => Undisturbed(cl.att)
    BY <1>2, <2>1, <2>2 DEF Undisturbed
  <2>4. QED  BY <1>2, <2>3, FlowKept
<1>6. CASE Finishes(a)
  <2>1. ssn[a].pc = "running" /\ wire[a] \in Seq(Messages) /\ ssn[a].out \in Seq(0..MaxVals)
    BY <1>6, FlowTypes DEF Finishes
  <2>2. PICK result \in Results :
          SsnOver(a, result) /\ (wire' = wire \/ (WireOnly(a) /\ wire'[a] = Append(wire[a], Closing(result))))
    BY <1>6 DEF Finishes
  <2>3. Pending(Append(wire[a], Closing(result))) = Pending(wire[a])
    BY <1>4, <2>1, WireClose
  <2>4. QED  BY <1>5, <2>1, <2>2, <2>3
<1>7. CASE Yields(a)
  <2>1. ssn[a].pc = "running" /\ wire[a] \in Seq(Messages) /\ ssn[a].out \in Seq(0..MaxVals)
    BY <1>7, FlowTypes DEF Yields
  <2>2. CASE SsnOver(a, "stopped") /\ wire' = wire
    BY <1>5, <2>1, <2>2
  <2>3. ASSUME NEW v \in 0..MaxVals, SsnSends(a, v), WireOnly(a), wire'[a] = Append(wire[a], Data(v))
        PROVE  FlowInv'
    <3>1. CASE cl.att # a
      <4>1. cl.att > 0 => Undisturbed(cl.att)
        BY <1>1, <1>2, <2>3, <3>1 DEF Undisturbed, SsnSends, SsnOnly, WireOnly
      <4>2. QED  BY <1>2, <4>1, FlowKept
    <3>2. CASE cl.att = a
      <4> DEFINE o == Append(ssn[a].out, v)
                 p == Pending(wire[a])
      <4>1. Pending(wire'[a]) = p + 1 /\ p \in Nat
        BY <1>4, <2>1, <2>3, WireSend, PendingNat
      <4>2. ssn'[a].out = o /\ ssn'[a].result = "none" /\ ssn[a].result = "none"
        BY <1>4, <2>1, <2>3 DEF SsnSends
      <4>3. cl.queue \in Seq(0..Marker) /\ cl.got \in Seq(1..MaxVals) /\ cl.att > 0
        BY <3>2, FlowTypes DEF Attempts
      <4>4. PrefixOK(cl.got, cl.queue, o)
        BY <2>1, <3>2, <4>3, PrefixGrow DEF FlowInv
      <4>5. Len(o) = Len(ssn[a].out) + 1 /\ Len(ssn[a].out) \in Nat
        BY <2>1
      <4>6. Len(cl.got) \in Nat /\ Len(cl.queue) \in Nat
        BY <4>3
      <4> HIDE DEF o, p
      <4>7. Len(cl.got) + Len(cl.queue) + p = Len(ssn[a].out) => Len(cl.got) + Len(cl.queue) + (p + 1) = Len(o)
        <5> DEFINE m == Len(cl.got)
                   n == Len(cl.queue)
                   k == Len(ssn[a].out)
        <5>1. m \in Nat /\ n \in Nat /\ k \in Nat /\ p \in Nat /\ Len(o) = k + 1
          BY <4>1, <4>5, <4>6
        <5> HIDE DEF m, n, k
        <5>2. m + n + p = k => m + n + (p + 1) = k + 1
          BY <5>1
        <5>3. QED  BY <5>1, <5>2 DEF m, n, k
      <4>8. QED
        BY <1>2, <3>2, <4>1, <4>2, <4>3, <4>4, <4>7 DEF FlowInv, p
    <3>3. QED  BY <3>1, <3>2
  <2>4. QED  BY <1>7, <2>2, <2>3 DEF Yields
<1>8. QED  BY <1>3, <1>6, <1>7

LEMMA FlowStep ==
    ASSUME ShapeInv, PcInv, AskedInv, SessionInv, HeldInv, WireInv, FlowInv, Step
    PROVE  FlowInv'
BY FlowStarts, FlowCalls, FlowGets, FlowDelivers, FlowEnds, FlowSession DEF Step

-----------------------------------------------------------------------------
(* The theorems. *)

LEMMA InitPush ==
    ASSUME Init
    PROVE  PushInv
<1>1. cl \in Calls
  <2>1. <<>> \in Seq(0..Marker) /\ <<>> \in Seq(1..MaxVals) /\ 0 \in 0..MaxRetries + 1
    BY StreamAssumption
  <2>2. QED  BY <2>1 DEF Init, Calls, Pcs, Errors
<1>2. ssn \in [Attempts -> Sessions] /\ wire \in [Attempts -> Seq(Messages)]
  BY DEF Init, Sessions
<1>3. ShapeInv
  BY <1>1, <1>2 DEF Init, ShapeInv
<1>4. PcInv /\ AskedInv /\ SessionInv /\ HeldInv /\ ErrorInv
  BY StreamAssumption DEF Init, PcInv, AskedInv, SessionInv, HeldInv, ErrorInv, Results
<1>5. \A a \in Attempts : wire[a] = <<>> /\ ssn[a].out = <<>>
  BY DEF Init
<1>6. WireInv
  BY <1>5 DEF WireInv, WireOK, Pending
<1>7. cl.att = 0 /\ cl.outcome = "none" /\ cl.pc = "start"
  BY DEF Init
<1>8. FlowInv /\ EndMeansAll /\ OneStream /\ Released
  BY <1>7, StreamAssumption DEF FlowInv, EndMeansAll, OneStream, Released, Attempts
<1>9. QED  BY <1>3, <1>4, <1>6, <1>8 DEF PushInv

LEMMA PushStep ==
    ASSUME PushInv, [Next]_vars
    PROVE  PushInv'
<1> USE DEF PushInv
<1>1. CASE Next
  <2>1. Step
    BY <1>1, StepEffects
  <2>2. ShapeInv' /\ PcInv' /\ AskedInv' /\ SessionInv'
    BY <2>1, ShapeStep, PcStep, AskedStep, SessionStep
  <2>3. HeldInv' /\ ErrorInv' /\ WireInv' /\ FlowInv'
    BY <2>1, HeldStep, ErrorStep, WireStep, FlowStep
  <2>4. EndMeansAll' /\ OneStream' /\ Released'
    BY <2>1, EndStep, OneStreamStep, ReleasedStep
  <2>5. QED  BY <2>2, <2>3, <2>4
<1>2. CASE UNCHANGED vars
  <2>1. UNCHANGED <<cl, held, conn, torn, r503, ssn, wire, cancels, silent>>
    BY <1>2 DEF vars, consumer, responder
  <2>2. ShapeInv' /\ PcInv' /\ AskedInv' /\ SessionInv' /\ HeldInv' /\ ErrorInv'
    BY <2>1 DEF ShapeInv, PcInv, AskedInv, Unasked, SessionInv, HeldInv, ErrorInv
  <2>3. WireInv' /\ FlowInv' /\ EndMeansAll' /\ OneStream' /\ Released'
    BY <2>1 DEF WireInv, FlowInv, EndMeansAll, OneStream, Released
  <2>4. QED  BY <2>2, <2>3
<1>3. QED  BY <1>1, <1>2

LEMMA PushInvariant == Spec => []PushInv
BY InitPush, PushStep, PTL DEF Spec

(* The invariant implies the types and the order as the runs check them. *)
LEMMA PushTypes ==
    ASSUME ShapeInv
    PROVE  TypeOK
<1>1. ASSUME NEW S, NEW s \in Seq(S)  PROVE Range(s) \subseteq S
  BY DEF Range
<1>2. cl.queue \in Seq(0..Marker) /\ cl.got \in Seq(1..MaxVals)
  BY DEF ShapeInv, Calls
<1>3. \A a \in Attempts : Range(wire[a]) \subseteq Messages
  BY <1>1 DEF ShapeInv
<1>4. Range(cl.queue) \subseteq 0..Marker /\ Range(cl.got) \subseteq 1..MaxVals
  BY <1>1, <1>2
<1>5. cl.pc \in Pcs /\ cl.att \in 0..MaxRetries + 1 /\ cl.error \in Errors
      /\ cl.outcome \in {"none", "end", "raised", "left"}
  BY DEF ShapeInv, Calls
<1>6. QED
  BY <1>3, <1>4, <1>5 DEF ShapeInv, TypeOK, Messages, Pcs, Errors

LEMMA PushOrder ==
    ASSUME ShapeInv, FlowInv
    PROVE  InOrder
<1> SUFFICES ASSUME cl.att > 0  PROVE IsPrefix(cl.got, ssn[cl.att].out)
  BY DEF InOrder
<1> DEFINE s == cl.got
           t == ssn[cl.att].out
<1>1. s \in Seq(1..MaxVals) /\ t \in Seq(0..MaxVals)
  BY FlowTypes
<1>2. Len(s) <= Len(t) /\ \A i \in 1..Len(s) : s[i] = t[i]
  BY DEF FlowInv, PrefixOK
<1> HIDE DEF s, t
<1>3. SubSeq(s, 1, Len(s)) = SubSeq(t, 1, Len(s))
  BY <1>1, <1>2
<1>4. QED  BY <1>2, <1>3 DEF IsPrefix, s, t

(* What the consumer of call_stream() sees is the stream of its attempt: its
   values in order and without gaps, and all of them when the loop ends normally,
   whatever the retries, the teardown and the delays of the messages. *)
THEOREM DeliveredAlways == Spec => []Delivered
<1>1. ASSUME PushInv  PROVE Delivered
  BY <1>1, PushTypes, PushOrder DEF PushInv, Delivered
<1>2. QED  BY <1>1, PushInvariant, PTL

(* call_stream() asks again only when no generator has run, or when the generator
   itself raised what looks like a 503. *)
THEOREM OneStreamAlways == Spec => []OneStream
<1>1. PushInv => OneStream
  BY DEF PushInv
<1>2. QED  BY <1>1, PushInvariant, PTL

(* A stream that ended or raised has left no handler and no subscription in the
   client, unless it started while a teardown was under way. *)
THEOREM ReleasedAlways == Spec => []Released
<1>1. PushInv => Released
  BY DEF PushInv
<1>2. QED  BY <1>1, PushInvariant, PTL
=============================================================================
