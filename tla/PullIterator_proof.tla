------------------------- MODULE PullIterator_proof -------------------------
(***************************************************************************)
(* Proofs about PullIterator, for every length of the iteration and every  *)
(* combination of faults: the consumer gets the generator's values one by  *)
(* one and in order, and the generator never runs ahead of it.             *)
(*                                                                         *)
(* The argument follows one token.  A next request turns into a call of    *)
(* the generator, that into one response, that into one item of the        *)
(* consumer's queue; the consumer sends the next request only after it     *)
(* took the item.  A teardown and a 503 add errors to the queue and may    *)
(* destroy the token, but nothing duplicates it.  Hence the refinement:    *)
(* seen from outside the iterator is a ValueStream of Window 1.            *)
(***************************************************************************)
EXTENDS PullIterator, TLAPS

Over == {"clean", "cancel", "done"}

PcInv ==
    /\ cpc \in {"start", "init", "sub", "loop", "parked", "yielded"} \cup Over
    /\ hpc \in {"idle", "anext", "aclose", "finish"}

Items == [type : {"value"}, value : Nat] \cup {DoneMsg} \cup [type : {"error"}, why : Whys]

SeqInv ==
    /\ queue \in Seq(Items) /\ respQ \in Seq(Items)
    /\ got \in Seq(Nat) /\ made \in Nat
    /\ rq \in Seq({"next", "cancel"})

(* A session that has ended is not asked again. *)
GenInv == gen # "open" => ~active /\ hpc \in {"idle", "finish"}

(* Only a consumer that is through cancels. *)
CancelInv ==
    cpc # "done" => (\A i \in 1..Len(rq) : rq[i] = "next") /\ hpc # "aclose"

OnlyErrors(s) == \A i \in 1..Len(s) : s[i].type = "error"

(* There is no token: the consumer has not asked. *)
Quiet ==
    /\ Len(rq) = 0 /\ hpc = "idle" /\ Len(respQ) = 0
    /\ OnlyErrors(queue)
    /\ made = Len(got)

(* What the session answered to the request the consumer waits for. *)
Answer(m) ==
    \/ m.type = "value" /\ m.value = Len(got) + 1 /\ made = Len(got) + 1 /\ hpc = "idle"
    \/ m.type = "done" /\ gen = "exhausted" /\ made = Len(got)
    \/ m.type = "error"

(* The token is a request or a call of the generator, *)
Asked ==
    /\ OnlyErrors(queue) /\ Len(respQ) = 0 /\ made = Len(got)
    /\ Len(rq) = 0 \/ (Len(rq) = 1 /\ hpc = "idle")

(* it is a response under way, *)
Answered ==
    /\ OnlyErrors(queue) /\ Len(respQ) = 1 /\ Answer(respQ[1])
    /\ Len(rq) = 0 /\ hpc \in {"idle", "finish"}

(* it is in the consumer's queue, *)
Received ==
    /\ Len(respQ) = 0
    /\ \E i \in 1..Len(queue) :
          Answer(queue[i]) /\ \A j \in 1..Len(queue) : j # i => queue[j].type = "error"
    /\ Len(rq) = 0 /\ hpc \in {"idle", "finish"}

(* or it is lost. *)
Lost ==
    /\ OnlyErrors(queue) /\ Len(respQ) = 0
    /\ Len(rq) = 0 /\ hpc \in {"idle", "finish"}

TokenInv ==
    /\ cpc \notin Over \cup {"parked"} => Quiet
    /\ cpc = "parked" => Asked \/ Answered \/ Received \/ Lost

DoneInv == outcome = "done" => cpc \in Over /\ gen = "exhausted" /\ made = Len(got)

GotInv == \A i \in 1..Len(got) : got[i] = i

PullInv == PcInv /\ SeqInv /\ GenInv /\ CancelInv /\ TokenInv /\ DoneInv /\ GotInv

-----------------------------------------------------------------------------
(* What the queue operations do. *)

(* An error appended to errors. *)
LEMMA AppendError ==
  ASSUME NEW s \in Seq(Items), NEW m \in Items, m.type = "error", OnlyErrors(s)
  PROVE  OnlyErrors(Append(s, m))
  BY DEF OnlyErrors

(* A sequence that got one more element or none. *)
LEMMA MaybeAppend ==
  ASSUME NEW S, NEW s \in Seq(S), NEW m \in S, NEW t \in {s, Append(s, m)}
  PROVE  /\ t \in Seq(S)
         /\ Len(t) \in {Len(s), Len(s) + 1}
         /\ \A i \in 1..Len(s) : t[i] = s[i]
         /\ \A i \in 1..Len(t) : i \notin 1..Len(s) => t[i] = m
<1>1. CASE t = s
  BY <1>1
<1>2. CASE t = Append(s, m)
  BY <1>2
<1>. QED BY <1>1, <1>2

(* The three kinds of response. *)
LEMMA ItemKinds ==
  /\ DoneMsg \in Items
  /\ DoneMsg.type = "done"
  /\ \A w \in Whys : ErrorMsg(w) \in Items /\ ErrorMsg(w).type = "error"
  /\ \A n \in Nat : Value(n) \in Items /\ Value(n).type = "value" /\ Value(n).value = n
  BY DEF Items, DoneMsg, ErrorMsg, Value

(* The token invariant holds at first ... *)
LEMMA PullInit == Init => PullInv
  BY DEF Init, PullInv, PcInv, SeqInv, GenInv, CancelInv, TokenInv, Quiet, OnlyErrors, DoneInv, GotInv, Over

(* A teardown and a 503 only add an error to the consumer's queue. *)
LEMMA ErrorPushed ==
  ASSUME PullInv, NEW w \in Whys, queue' \in {queue, Append(queue, ErrorMsg(w))},
         UNCHANGED <<cpc, respQ, got, made, rq, hpc, gen, active, outcome>>
  PROVE  PullInv'
<1>1. ErrorMsg(w) \in Items /\ ErrorMsg(w).type = "error"
  BY ItemKinds
<1>2. SeqInv'
  BY <1>1, MaybeAppend DEF PullInv, SeqInv
<1>3. OnlyErrors(queue) => OnlyErrors(queue)'
  BY <1>1, AppendError DEF PullInv, SeqInv, OnlyErrors
<1>4. Received => Received'
  <2>. SUFFICES ASSUME Received PROVE Received'
    OBVIOUS
  <2>1. PICK i \in 1..Len(queue) :
          Answer(queue[i]) /\ \A j \in 1..Len(queue) : j # i => queue[j].type = "error"
    BY DEF Received
  <2>2. /\ i \in 1..Len(queue') /\ queue'[i] = queue[i]
        /\ \A j \in 1..Len(queue') : j # i => queue'[j].type = "error"
    <3>1. queue \in Seq(Items)
      BY DEF PullInv, SeqInv
    <3>2. /\ Len(queue') \in {Len(queue), Len(queue) + 1}
          /\ \A k \in 1..Len(queue) : queue'[k] = queue[k]
          /\ \A k \in 1..Len(queue') : k \notin 1..Len(queue) => queue'[k] = ErrorMsg(w)
      BY <1>1, <3>1, MaybeAppend
    <3>. QED BY <1>1, <2>1, <3>1, <3>2
  <2>3. Answer(queue[i])'
    BY <2>1, <2>2 DEF Answer
  <2>. QED BY <2>2, <2>3 DEF Received
<1>. QED
  BY <1>2, <1>3, <1>4 DEF PullInv, PcInv, GenInv, CancelInv, TokenInv, Quiet, Asked, Answered,
     Answer, Lost, DoneInv, GotInv

(* The session answers the one request there is, or a consumer that left. *)
LEMMA SessionAnswers ==
  ASSUME PullInv, hpc \in {"anext", "aclose"}, hpc' \in {"idle", "finish"},
         NEW m \in Items, respQ' \in {respQ, Append(respQ, m)},
         cpc = "parked" => Answer(m)',
         made' \in Nat, GenInv',
         UNCHANGED <<cpc, queue, got, rq, outcome>>
  PROVE  PullInv'
<1>1. SeqInv'
  <2>1. respQ \in Seq(Items)
    BY DEF PullInv, SeqInv
  <2>2. respQ' \in Seq(Items)
    BY <2>1
  <2>. QED BY <2>2 DEF PullInv, SeqInv
<1>2. ~(outcome = "done")
  BY DEF PullInv, DoneInv, GenInv
<1>3. TokenInv'
  <2>1. CASE cpc = "parked"
    <3>1. Asked /\ Len(rq) = 0 /\ hpc = "anext"
      BY <2>1 DEF PullInv, TokenInv, CancelInv, Asked, Answered, Received, Lost
    <3>2. CASE respQ' = respQ
      BY <2>1, <3>1, <3>2 DEF TokenInv, Asked, Lost, OnlyErrors
    <3>3. CASE respQ' = Append(respQ, m)
      <4>1. Len(respQ') = 1 /\ respQ'[1] = m
        BY <3>1, <3>3 DEF Asked, PullInv, SeqInv
      <4>2. Answered'
        BY <2>1, <3>1, <4>1 DEF Answered, Answer, Asked, OnlyErrors
      <4>. QED BY <2>1, <4>2 DEF TokenInv
    <3>. QED BY <3>2, <3>3
  <2>2. CASE cpc # "parked"
    BY <2>2 DEF PullInv, PcInv, TokenInv, Quiet
  <2>. QED BY <2>1, <2>2
<1>. QED
  BY <1>1, <1>2, <1>3 DEF PullInv, PcInv, CancelInv, DoneInv, GotInv

(* ... and every step of either side keeps it. *)
LEMMA PullStep == PullInv /\ [Next]_vars => PullInv'
<1>. SUFFICES ASSUME PullInv, [Next]_vars PROVE PullInv'
  OBVIOUS
<1>. USE DEF PullInv, PcInv, Over
<1>u. CASE UNCHANGED <<cpc, queue, respQ, got, made, rq, hpc, gen, active, outcome>>
  BY <1>u DEF SeqInv, GenInv, CancelInv, TokenInv, Quiet, Asked, Answered, Received, Lost, Answer, OnlyErrors, DoneInv, GotInv
<1>1. CASE Start
  BY <1>1 DEF Start, conn, session, SeqInv, GenInv, CancelInv, TokenInv, Quiet, OnlyErrors, DoneInv, GotInv
<1>2. CASE InitAnswered
  BY <1>2 DEF InitAnswered, conn, session, SeqInv, GenInv, CancelInv, TokenInv, Quiet, OnlyErrors, DoneInv, GotInv
<1>3. CASE InitRaised
  BY <1>3 DEF InitRaised, conn, session, SeqInv, GenInv, CancelInv, TokenInv, Quiet, OnlyErrors, DoneInv, GotInv
<1>4. CASE SubscribeResponses
  BY <1>4 DEF SubscribeResponses, session, SeqInv, GenInv, CancelInv, TokenInv, Quiet, OnlyErrors, DoneInv, GotInv
<1>5. CASE PublishNext
  <2>1. /\ cpc = "loop" /\ cpc' \in {"parked", "clean"} /\ outcome' \in {outcome, "closed"}
        /\ rq' \in {rq, Append(rq, "next")}
        /\ UNCHANGED <<queue, respQ, got, made, hpc, gen, active>>
    BY <1>5 DEF PublishNext, SendNext
  <2>2. Quiet /\ outcome # "done"
    BY <2>1 DEF TokenInv, DoneInv
  <2>3. /\ rq' \in Seq({"next", "cancel"}) /\ Len(rq') \in {0, 1}
        /\ \A i \in 1..Len(rq') : rq'[i] = "next"
    <3>1. rq \in Seq({"next", "cancel"}) /\ Len(rq) = 0
      BY <2>2 DEF Quiet, SeqInv
    <3>2. CASE rq' = rq
      BY <3>1, <3>2
    <3>3. CASE rq' = Append(rq, "next")
      <4>1. rq' \in Seq({"next", "cancel"}) /\ Len(rq') = 1 /\ rq'[1] = "next"
        BY <3>1, <3>3
      <4>. QED BY <4>1
    <3>. QED BY <2>1, <3>2, <3>3
  <2>4. Asked'
    BY <2>1, <2>2, <2>3 DEF Asked, Quiet, OnlyErrors
  <2>. QED BY <2>1, <2>2, <2>3, <2>4 DEF SeqInv, GenInv, CancelInv, TokenInv, Quiet, DoneInv, GotInv
<1>6. CASE Get
  <2>1. PICK m \in Items : m = Head(queue) /\ Len(queue) > 0 /\ m = queue[1]
    BY <1>6 DEF Get, SeqInv
  <2>2. /\ Taken(m)
        /\ queue' = Tail(queue) /\ cpc = "parked"
        /\ UNCHANGED <<respQ, made, rq, hpc, gen, active>>
    BY <1>6, <2>1 DEF Get, conn, session
  <2>3. CASE m.type = "value"
    <3>1. Received
      BY <2>1, <2>2, <2>3 DEF TokenInv, Asked, Answered, Lost, OnlyErrors
    <3>2. Answer(m) /\ \A j \in 2..Len(queue) : queue[j].type = "error"
      BY <2>1, <2>3, <3>1 DEF Received, SeqInv
    <3>3. /\ m.value = Len(got) + 1 /\ made = Len(got) + 1 /\ hpc = "idle"
          /\ got' = Append(got, m.value) /\ cpc' = "yielded" /\ outcome' = outcome
      BY <2>2, <2>3, <3>2 DEF Answer, Taken
    <3>4. OnlyErrors(queue')
      BY <2>1, <2>2, <3>2 DEF OnlyErrors, SeqInv
    <3>5. SeqInv' /\ GotInv'
      BY <2>1, <2>2, <3>3 DEF SeqInv, GotInv
    <3>. QED BY <2>2, <3>1, <3>3, <3>4, <3>5 DEF Received, SeqInv, GenInv, CancelInv, TokenInv, Quiet, DoneInv
  <2>4. CASE m.type = "done"
    <3>1. Received
      BY <2>1, <2>2, <2>4 DEF TokenInv, Asked, Answered, Lost, OnlyErrors
    <3>2. Answer(m)
      BY <2>1, <2>4, <3>1 DEF Received, SeqInv
    <3>3. gen = "exhausted" /\ made = Len(got) /\ cpc' = "clean" /\ got' = got
      BY <2>2, <2>4, <3>2 DEF Answer, Taken
    <3>4. SeqInv' /\ GotInv'
      BY <2>1, <2>2, <3>3 DEF SeqInv, GotInv
    <3>. QED BY <2>2, <3>3, <3>4 DEF GenInv, CancelInv, TokenInv, DoneInv
  <2>5. CASE m.type = "error"
    <3>1. cpc' = "clean" /\ got' = got /\ outcome' = m.why /\ m.why # "done"
      BY <2>1, <2>2, <2>5 DEF Taken, Items, DoneMsg, Whys
    <3>2. SeqInv' /\ GotInv'
      BY <2>1, <2>2, <3>1 DEF SeqInv, GotInv
    <3>. QED BY <2>2, <3>1, <3>2 DEF GenInv, CancelInv, TokenInv, DoneInv
  <2>. QED BY <2>2, <2>3, <2>4, <2>5 DEF Taken
<1>7. CASE Resume
  BY <1>7 DEF Resume, conn, session, SeqInv, GenInv, CancelInv, TokenInv, Quiet, OnlyErrors, DoneInv, GotInv
<1>8. CASE Leave
  BY <1>8 DEF Leave, conn, session, SeqInv, GenInv, CancelInv, TokenInv, DoneInv, GotInv
<1>9. CASE Cleanup
  BY <1>9 DEF Cleanup, session, SeqInv, GenInv, CancelInv, TokenInv, DoneInv, GotInv
<1>10. CASE SendCancel
  BY <1>10 DEF SendCancel, conn, SeqInv, GenInv, CancelInv, TokenInv, DoneInv, GotInv
<1>11. CASE HandleResponse
  <2>1. /\ respQ' = Tail(respQ) /\ queue' = Append(queue, Head(respQ))
        /\ UNCHANGED <<cpc, got, made, rq, hpc, gen, active, outcome>>
        /\ Len(respQ) > 0
    BY <1>11 DEF HandleResponse, session, SeqInv
  <2>2. SeqInv'
    BY <2>1 DEF SeqInv
  <2>3. TokenInv'
    <3>1. CASE cpc = "parked"
      <4>1. Answered
        BY <2>1, <3>1 DEF TokenInv, Asked, Received, Lost
      <4>2. Len(respQ') = 0 /\ Len(queue') = Len(queue) + 1 /\ queue'[Len(queue')] = respQ[1]
        BY <2>1, <4>1 DEF Answered, SeqInv
      <4>3. \A j \in 1..Len(queue') : j # Len(queue') => queue'[j].type = "error"
        BY <2>1, <4>1, <4>2 DEF Answered, OnlyErrors, SeqInv
      <4>4. Answer(queue[Len(queue)])'
        BY <2>1, <4>1, <4>2 DEF Answered, Answer
      <4>5. Received'
        BY <2>1, <2>2, <4>1, <4>2, <4>3, <4>4 DEF Answered, Received, SeqInv
      <4>. QED BY <2>1, <3>1, <4>5 DEF TokenInv
    <3>. QED BY <2>1, <3>1 DEF TokenInv, Quiet
  <2>. QED BY <2>1, <2>2, <2>3 DEF GenInv, CancelInv, DoneInv, GotInv
<1>12. CASE NoResponders
  <2>1. UNCHANGED <<cpc, respQ, got, made, rq, hpc, gen, active, outcome>>
    BY <1>12 DEF NoResponders, session
  <2>2. "noresp" \in Whys /\ queue' \in {queue, Append(queue, ErrorMsg("noresp"))}
    BY <1>12 DEF NoResponders, Whys
  <2>. QED BY <2>1, <2>2, ErrorPushed
<1>13. CASE Sweep
  <2>1. UNCHANGED <<cpc, respQ, got, made, rq, hpc, gen, active, outcome>>
    BY <1>13 DEF Sweep, session
  <2>2. "closed" \in Whys /\ queue' \in {queue, Append(queue, ErrorMsg("closed"))}
    BY <1>13 DEF Sweep, Whys
  <2>. QED BY <2>1, <2>2, ErrorPushed
<1>14. CASE CloseConnection
  BY <1>14 DEF CloseConnection, consumer, session, SeqInv, GenInv, CancelInv, TokenInv,
     Quiet, Asked, Answered, Received, Lost, Answer, OnlyErrors, DoneInv, GotInv
<1>15. CASE TakeRequest
  <2>1. /\ hpc = "idle" /\ Len(rq) > 0 /\ rq' = Tail(rq)
        /\ UNCHANGED <<cpc, queue, respQ, got, made, gen, outcome>>
    BY <1>15 DEF TakeRequest, consumer, conn, SeqInv
  <2>2. rq' \in Seq({"next", "cancel"}) /\ \A i \in 1..Len(rq') : rq'[i] = rq[i + 1] /\ i + 1 \in 1..Len(rq)
    BY <2>1 DEF SeqInv
  <2>3. rq[1] \in {"next", "cancel"} /\ Head(rq) = rq[1]
    BY <2>1 DEF SeqInv
  <2>5. /\ hpc' \in {"idle", "anext", "aclose"}
        /\ hpc' # "idle" => active
        /\ hpc' = "aclose" => rq[1] = "cancel"
        /\ active' => active
    <3>1. CASE ~active
      BY <1>15, <3>1 DEF TakeRequest
    <3>2. CASE active /\ Head(rq) = "next"
      BY <1>15, <2>3, <3>2 DEF TakeRequest
    <3>3. CASE active /\ Head(rq) = "cancel"
      BY <1>15, <2>3, <3>3 DEF TakeRequest
    <3>. QED BY <2>3, <3>1, <3>2, <3>3
  <2>6. CancelInv'
    BY <2>1, <2>2, <2>5 DEF CancelInv
  <2>7. TokenInv'
    <3>1. CASE cpc = "parked"
      <4>1. Asked /\ Len(rq) = 1 /\ Len(rq') = 0
        BY <2>1, <3>1 DEF TokenInv, Asked, Answered, Received, Lost, SeqInv
      <4>. QED BY <2>1, <3>1, <4>1 DEF TokenInv, Asked, OnlyErrors
    <3>. QED BY <2>1, <3>1 DEF TokenInv, Quiet
  <2>. QED BY <2>1, <2>2, <2>5, <2>6, <2>7 DEF SeqInv, GenInv, DoneInv, GotInv
<1>16. CASE YieldValue
  <2>1. /\ hpc = "anext" /\ hpc' = "idle" /\ made' = made + 1 /\ made \in Nat
        /\ respQ' \in {respQ, Append(respQ, Value(made + 1))}
        /\ UNCHANGED <<cpc, queue, got, rq, gen, active, outcome>>
    BY <1>16 DEF YieldValue, Respond, consumer, SeqInv
  <2>2. Value(made + 1) \in Items /\ GenInv'
    BY <2>1, ItemKinds DEF GenInv
  <2>3. cpc = "parked" => made = Len(got)
    BY <2>1 DEF TokenInv, Asked, Answered, Received, Lost
  <2>4. cpc = "parked" => Answer(Value(made))'
    BY <2>1, <2>3, ItemKinds DEF Answer
  <2>. QED BY <2>1, <2>2, <2>4, SessionAnswers
<1>17. CASE EndSession
  <2>1. /\ hpc \in {"anext", "aclose"} /\ hpc' = "finish" /\ ~active'
        /\ UNCHANGED <<cpc, queue, got, made, rq, outcome>>
    BY <1>17 DEF EndSession, consumer
  <2>2. PICK m \in Items :
          /\ respQ' \in {respQ, Append(respQ, m)}
          /\ m = DoneMsg \/ m = ErrorMsg("error")
          /\ hpc = "anext" /\ m = DoneMsg => gen' = "exhausted"
    BY <1>17, ItemKinds DEF EndSession, Respond, Whys
  <2>3. made' \in Nat /\ GenInv'
    BY <2>1 DEF SeqInv, GenInv
  <2>4. cpc = "parked" => hpc = "anext" /\ made = Len(got)
    BY <2>1 DEF CancelInv, TokenInv, Asked, Answered, Received, Lost
  <2>5. cpc = "parked" => Answer(m)'
    BY <2>1, <2>2, <2>4, ItemKinds DEF Answer, Whys
  <2>. QED BY <2>1, <2>2, <2>3, <2>5, SessionAnswers
<1>18. CASE Finish
  BY <1>18 DEF Finish, consumer, conn, SeqInv, GenInv, CancelInv, TokenInv, Quiet, Asked,
     Answered, Received, Lost, Answer, OnlyErrors, DoneInv, GotInv
<1>19. CASE Unsubscribe
  BY <1>19 DEF Unsubscribe, consumer, conn, SeqInv, GenInv, CancelInv, TokenInv, Quiet, Asked,
     Answered, Received, Lost, Answer, OnlyErrors, DoneInv, GotInv
<1>20. CASE RemoveHandlers
  <2>1. CASE tracked
    BY <1>20, <2>1 DEF RemoveHandlers, CleanupSession, consumer, conn, SeqInv, GenInv, CancelInv, TokenInv,
       Quiet, Asked, Answered, Received, Lost, Answer, OnlyErrors, DoneInv, GotInv
  <2>. QED BY <1>u, <1>20, <2>1 DEF RemoveHandlers, consumer, conn
<1>21. CASE OpenSession \/ RefuseSession \/ AnswerInit
  BY <1>u, <1>21 DEF OpenSession, RefuseSession, AnswerInit, consumer, conn, session
<1>22. CASE UNCHANGED vars
  BY <1>u, <1>22 DEF vars, consumer, conn, session
<1>. QED
  BY <1>1, <1>2, <1>3, <1>4, <1>5, <1>6, <1>7, <1>8, <1>9, <1>10, <1>11, <1>12, <1>13, <1>14,
     <1>15, <1>16, <1>17, <1>18, <1>19, <1>20, <1>21, <1>22 DEF Next, Client, Responder

-----------------------------------------------------------------------------
(* The consumer gets the generator's values in order, each once, and an
   iteration that ends normally is complete, whatever teardowns, 503 statuses,
   failing generators and removed handlers do. *)
THEOREM ValuesInOrder == Spec => []InOrder
<1>1. PullInv => InOrder
  BY DEF PullInv, GotInv, DoneInv, InOrder
<1>. QED BY <1>1, PullInit, PullStep, PTL DEF Spec

(* While the consumer works on a value no request is under way and the
   generator has yielded nothing further. *)
THEOREM GeneratorNeverAhead == Spec => []Lockstep
<1>1. PullInv => Lockstep
  BY DEF PullInv, TokenInv, Quiet, Over, Lockstep, RangeOf
<1>. QED BY <1>1, PullInit, PullStep, PTL DEF Spec

-----------------------------------------------------------------------------
(* Types. *)

(* What Append and Tail do to the elements of a sequence. *)
LEMMA RangeOfAppend ==
  ASSUME NEW S, NEW s \in Seq(S), NEW m
  PROVE  RangeOf(Append(s, m)) = RangeOf(s) \cup {m}
  BY DEF RangeOf

LEMMA RangeOfTail ==
  ASSUME NEW S, NEW s \in Seq(S), s # <<>>
  PROVE  RangeOf(Tail(s)) \subseteq RangeOf(s) /\ Head(s) \in RangeOf(s)
  BY DEF RangeOf

(* The responses there are. *)
LEMMA ResponseKinds ==
  /\ DoneMsg \in Responses
  /\ \A w \in Whys : ErrorMsg(w) \in Responses
  /\ \A n \in 1..MaxVals : Value(n) \in Responses
  /\ \A m \in Responses : /\ m.type = "value" => m.value \in 1..MaxVals
                          /\ m.type = "error" => m.why \in Whys
  BY PullAssumption DEF Responses, DoneMsg, ErrorMsg, Value

TypeInv == PullInv /\ TypeOK

LEMMA TypeInit == Init => TypeInv
<1>. SUFFICES ASSUME Init PROVE ContentsOK /\ FlagsOK
  BY PullInit DEF TypeInv, TypeOK
<1>1. RangeOf(<<>>) = {}
  BY DEF RangeOf
<1>2. ContentsOK
  BY <1>1, PullAssumption DEF Init, ContentsOK
<1>3. FlagsOK
  BY Zenon DEF Init, FlagsOK
<1>. QED BY <1>2, <1>3

(* Flags stay flags. *)
LEMMA FlagsStep ==
  ASSUME FlagsOK, Next
  PROVE  FlagsOK'
<1>. USE DEF FlagsOK, consumer, conn, session
<1>1. CASE Start
  BY Zenon, <1>1 DEF Start
<1>2. CASE InitAnswered
  BY Zenon, <1>2 DEF InitAnswered
<1>3. CASE InitRaised
  BY Zenon, <1>3 DEF InitRaised
<1>4. CASE SubscribeResponses
  BY Zenon, <1>4 DEF SubscribeResponses
<1>5. CASE PublishNext
  BY Zenon, <1>5 DEF PublishNext, SendNext
<1>6. CASE Get
  BY Zenon, <1>6 DEF Get
<1>7. CASE Resume
  BY Zenon, <1>7 DEF Resume
<1>8. CASE Leave
  BY Zenon, <1>8 DEF Leave
<1>9. CASE Cleanup
  BY Zenon, <1>9 DEF Cleanup
<1>10. CASE SendCancel
  BY Zenon, <1>10 DEF SendCancel
<1>11. CASE HandleResponse
  BY Zenon, <1>11 DEF HandleResponse
<1>12. CASE NoResponders
  BY Zenon, <1>12 DEF NoResponders
<1>13. CASE Sweep
  BY Zenon, <1>13 DEF Sweep
<1>14. CASE CloseConnection
  BY Zenon, <1>14 DEF CloseConnection
<1>15. CASE OpenSession
  BY Zenon, <1>15 DEF OpenSession
<1>16. CASE RefuseSession
  BY Zenon, <1>16 DEF RefuseSession
<1>17. CASE AnswerInit
  BY Zenon, <1>17 DEF AnswerInit
<1>18. CASE TakeRequest
  BY Zenon, <1>18 DEF TakeRequest
<1>19. CASE YieldValue
  BY Zenon, <1>19 DEF YieldValue
<1>20. CASE EndSession
  BY Zenon, <1>20 DEF EndSession
<1>21. CASE Finish
  BY Zenon, <1>21 DEF Finish
<1>22. CASE Unsubscribe
  BY Zenon, <1>22 DEF Unsubscribe
<1>23. CASE RemoveHandlers
  BY Zenon, <1>23 DEF RemoveHandlers, CleanupSession
<1>. QED
  BY <1>1, <1>2, <1>3, <1>4, <1>5, <1>6, <1>7, <1>8, <1>9, <1>10, <1>11, <1>12, <1>13, <1>14, <1>15, <1>16, <1>17, <1>18, <1>19, <1>20, <1>21, <1>22, <1>23 DEF Next, Client, Responder

(* Every action keeps the types; values stay below the bound because the
   generator yields only below it. *)
LEMMA TypeStep == TypeInv /\ [Next]_vars => TypeInv'
<1>. SUFFICES ASSUME PullInv, ContentsOK, [Next]_vars PROVE ContentsOK'
  <2>1. FlagsOK /\ [Next]_vars => FlagsOK'
    <3>1. FlagsOK /\ UNCHANGED vars => FlagsOK'
      BY Zenon DEF FlagsOK, vars, consumer, conn, session
    <3>. QED BY <3>1, FlagsStep
  <2>. QED BY <2>1, PullStep DEF TypeInv, TypeOK
<1>. USE DEF ContentsOK, vars, consumer, conn, session
<1>0. CASE UNCHANGED vars
  BY <1>0 DEF RangeOf
<1>e. RangeOf(<<>>) = {}
  BY DEF RangeOf
<1>s. /\ queue \in Seq(Items) /\ respQ \in Seq(Items) /\ got \in Seq(Nat) /\ rq \in Seq({"next", "cancel"})
  BY DEF PullInv, SeqInv
<1>w. {"closed", "noresp", "error"} = Whys
  BY DEF Whys
<1>1. CASE Start
  BY <1>1 DEF Start
<1>2. CASE InitAnswered
  BY <1>2 DEF InitAnswered
<1>3. CASE InitRaised
  BY <1>3 DEF InitRaised
<1>4. CASE SubscribeResponses
  BY <1>4 DEF SubscribeResponses
<1>5. CASE PublishNext
  <2>1. RangeOf(rq') \subseteq {"next", "cancel"}
    <3>1. rq' \in {rq, Append(rq, "next")}
      BY Zenon, <1>5 DEF PublishNext, SendNext
    <3>2. RangeOf(Append(rq, "next")) = RangeOf(rq) \cup {"next"}
      BY <1>s, RangeOfAppend
    <3>. QED BY <3>1, <3>2
  <2>2. cpc' \in {"parked", "clean"}
    BY <1>5 DEF PublishNext, SendNext
  <2>3. outcome' \in {"none", "failed", "done", "left"} \cup Whys
    BY <1>5, <1>w DEF PublishNext
  <2>. QED BY <1>5, <2>1, <2>2, <2>3 DEF PublishNext
<1>6. CASE Get
  <2>1. RangeOf(queue') \subseteq Responses /\ Head(queue) \in Responses
    BY <1>6, <1>s, RangeOfTail DEF Get
  <2>2. RangeOf(got') \subseteq 1..MaxVals /\ outcome' \in {"none", "failed", "done", "left"} \cup Whys
    <3>. DEFINE m == Head(queue)
    <3>1. CASE m.type = "value" /\ got' = Append(got, m.value) /\ UNCHANGED outcome
      <4>1. m.value \in 1..MaxVals
        BY <2>1, <3>1, ResponseKinds
      <4>2. RangeOf(got') = RangeOf(got) \cup {m.value}
        BY <3>1, <1>s, RangeOfAppend
      <4>. QED BY <3>1, <4>1, <4>2
    <3>2. CASE outcome' = "done" /\ UNCHANGED got
      BY <3>2
    <3>3. CASE m.type = "error" /\ outcome' = m.why /\ UNCHANGED got
      BY <2>1, <3>3, ResponseKinds
    <3>. QED BY <1>6, <3>1, <3>2, <3>3 DEF Get, Taken
  <2>3. cpc' \in {"yielded", "clean"}
    BY <1>6 DEF Get, Taken
  <2>. QED BY <1>6, <2>1, <2>2, <2>3 DEF Get
<1>7. CASE Resume
  BY <1>7 DEF Resume
<1>8. CASE Leave
  BY <1>8 DEF Leave
<1>9. CASE Cleanup
  BY <1>9, <1>e DEF Cleanup
<1>10. CASE SendCancel
  BY <1>10, <1>s, RangeOfAppend DEF SendCancel
<1>11. CASE HandleResponse
  <2>1. RangeOf(queue') \subseteq Responses /\ RangeOf(respQ') \subseteq Responses
    BY <1>11, <1>s, RangeOfAppend, RangeOfTail DEF HandleResponse
  <2>. QED BY <1>11, <2>1 DEF HandleResponse
<1>12. CASE NoResponders
  <2>1. RangeOf(queue') \subseteq Responses
    <3>1. ErrorMsg("noresp") \in Responses
      BY <1>w, ResponseKinds
    <3>2. queue' \in {queue, Append(queue, ErrorMsg("noresp"))}
      BY Zenon, <1>12 DEF NoResponders
    <3>3. RangeOf(Append(queue, ErrorMsg("noresp"))) = RangeOf(queue) \cup {ErrorMsg("noresp")}
      BY <1>s, RangeOfAppend
    <3>. QED BY <3>1, <3>2, <3>3
  <2>. QED BY <1>12, <2>1 DEF NoResponders
<1>13. CASE Sweep
  <2>1. RangeOf(queue') \subseteq Responses
    BY <1>13, <1>s, <1>w, RangeOfAppend, ResponseKinds DEF Sweep
  <2>. QED BY <1>13, <2>1 DEF Sweep
<1>14. CASE CloseConnection
  BY <1>14, <1>e DEF CloseConnection
<1>15. CASE OpenSession
  BY <1>15 DEF OpenSession
<1>16. CASE RefuseSession
  BY <1>16 DEF RefuseSession
<1>17. CASE AnswerInit
  BY <1>17 DEF AnswerInit
<1>18. CASE TakeRequest
  <2>1. RangeOf(rq') \subseteq {"next", "cancel"} /\ Head(rq) \in {"next", "cancel"}
    BY <1>18, <1>s, RangeOfTail DEF TakeRequest
  <2>2. hpc' \in {"idle", "anext", "aclose"}
    BY <1>18, <2>1 DEF TakeRequest
  <2>. QED BY <1>18, <2>1, <2>2 DEF TakeRequest
<1>19. CASE YieldValue
  <2>1. made' \in 1..MaxVals /\ made' = made + 1
    BY <1>19, PullAssumption DEF YieldValue
  <2>2. RangeOf(respQ') \subseteq Responses
    BY <1>19, <2>1, <1>s, RangeOfAppend, ResponseKinds DEF YieldValue, Respond
  <2>. QED BY <1>19, <2>1, <2>2 DEF YieldValue
<1>20. CASE EndSession
  <2>1. RangeOf(respQ') \subseteq Responses
    <3>1. DoneMsg \in Responses /\ ErrorMsg("error") \in Responses
      BY <1>w, ResponseKinds
    <3>2. \A m \in Responses : Respond(m) => RangeOf(respQ') \subseteq Responses
      BY <1>s, RangeOfAppend DEF Respond
    <3>. QED BY <1>20, <3>1, <3>2 DEF EndSession
  <2>. QED BY <1>20, <2>1 DEF EndSession
<1>21. CASE Finish
  BY <1>21 DEF Finish
<1>22. CASE Unsubscribe
  BY <1>22, <1>e DEF Unsubscribe
<1>23. CASE RemoveHandlers
  BY <1>23, <1>e DEF RemoveHandlers, CleanupSession
<1>. QED
  BY <1>0, <1>1, <1>2, <1>3, <1>4, <1>5, <1>6, <1>7, <1>8, <1>9, <1>10, <1>11, <1>12, <1>13, <1>14,
     <1>15, <1>16, <1>17, <1>18, <1>19, <1>20, <1>21, <1>22, <1>23 DEF Next, Client, Responder

(* Every queue holds what its readers expect, and values stay in the bound. *)
THEOREM TypeCorrect == Spec => []TypeOK
<1>1. TypeInv => TypeOK
  BY DEF TypeInv
<1>. QED BY <1>1, TypeInit, TypeStep, PTL DEF Spec

-----------------------------------------------------------------------------
(* Refinement.  The token also counts after the consumer left: as long as it
   is a request or a call of the generator, nothing is ahead of the consumer. *)

AheadInv ==
    /\ hpc = "anext" => made = Len(got) /\ \A i \in 1..Len(rq) : rq[i] # "next"
    /\ \A i \in 1..Len(rq) : rq[i] = "next" =>
          made = Len(got) /\ \A j \in 1..Len(rq) : rq[j] = "next" => j = i

OutcomeInv == cpc \notin Over => outcome = "none"

GenKinds == gen \in {"open", "exhausted", "failed", "closed"}

RefInv == PullInv /\ AheadInv /\ OutcomeInv /\ GenKinds

LEMMA RefInit == Init => RefInv
  BY PullInit DEF Init, RefInv, AheadInv, OutcomeInv, GenKinds

(* At most one request is under way, and none while the generator runs. *)
LEMMA AheadStep ==
  ASSUME RefInv, [Next]_vars
  PROVE  AheadInv'
<1>. USE DEF RefInv, AheadInv
<1>u. CASE UNCHANGED <<got, made, rq, hpc>>
  BY <1>u
<1>0. rq \in Seq({"next", "cancel"}) /\ made \in Nat /\ got \in Seq(Nat)
  BY DEF PullInv, SeqInv
<1>1. CASE PublishNext
  <2>1. rq' \in {rq, Append(rq, "next")} /\ UNCHANGED <<got, made, hpc>> /\ cpc = "loop"
    BY <1>1 DEF PublishNext, SendNext
  <2>2. Len(rq) = 0 /\ hpc = "idle" /\ made = Len(got)
    BY <2>1 DEF PullInv, TokenInv, Quiet, Over
  <2>. QED BY <1>0, <2>1, <2>2
<1>2. CASE Get
  <2>1. cpc = "parked" /\ UNCHANGED <<rq, hpc, made>> /\ Len(queue) > 0 /\ Taken(queue[1])
    BY <1>2 DEF Get, session, PullInv, SeqInv
  <2>2. CASE queue[1].type = "value"
    <3>1. Received
      BY <2>1, <2>2 DEF PullInv, SeqInv, TokenInv, Asked, Answered, Lost, OnlyErrors
    <3>. QED BY <2>1, <3>1 DEF Received
  <2>3. CASE queue[1].type # "value"
    BY <1>u, <2>1, <2>3 DEF Taken
  <2>. QED BY <2>2, <2>3
<1>3. CASE SendCancel
  <2>1. rq' \in {rq, Append(rq, "cancel")} /\ UNCHANGED <<got, made, hpc>>
    BY <1>3 DEF SendCancel
  <2>2. CASE rq' = rq
    BY <1>u, <2>1, <2>2
  <2>3. CASE rq' = Append(rq, "cancel")
    <3>1. /\ Len(rq') = Len(rq) + 1 /\ rq'[Len(rq) + 1] = "cancel"
          /\ \A i \in 1..Len(rq) : rq'[i] = rq[i]
      BY <1>0, <2>3
    <3>2. \A i \in 1..Len(rq') : rq'[i] = "next" => i \in 1..Len(rq) /\ rq[i] = "next"
      BY <1>0, <3>1
    <3>. QED BY <2>1, <3>2
  <2>. QED BY <2>1, <2>2, <2>3
<1>4. CASE TakeRequest
  <2>1. /\ hpc = "idle" /\ Len(rq) > 0 /\ rq' = Tail(rq) /\ UNCHANGED <<got, made>>
        /\ hpc' = "anext" => rq[1] = "next"
    BY <1>4, <1>0 DEF TakeRequest, consumer, conn
  <2>2. \A i \in 1..Len(rq') : rq'[i] = rq[i + 1] /\ i + 1 \in 1..Len(rq)
    BY <1>0, <2>1
  <2>3. 1 \in 1..Len(rq) /\ Len(rq') \in Nat
    BY <1>0, <2>1
  <2>4. \A i \in 1..Len(rq') : rq'[i] = "next" => rq[1] # "next"
    BY <2>2, <2>3
  <2>5. hpc' = "anext" => made' = Len(got') /\ \A i \in 1..Len(rq') : rq'[i] # "next"
    BY <2>1, <2>3, <2>4
  <2>6. ASSUME NEW i \in 1..Len(rq'), rq'[i] = "next"
        PROVE  made' = Len(got') /\ \A j \in 1..Len(rq') : rq'[j] = "next" => j = i
    <3>1. i + 1 \in 1..Len(rq) /\ rq[i + 1] = "next"
      BY <2>2, <2>6
    <3>2. \A j \in 1..Len(rq) : rq[j] = "next" => j = i + 1
      BY <3>1
    <3>3. \A j \in 1..Len(rq') : rq'[j] = "next" => j + 1 = i + 1
      BY <2>2, <3>2
    <3>. QED BY <2>1, <3>1, <3>3
  <2>. QED BY <2>5, <2>6
<1>5. CASE YieldValue
  BY <1>5 DEF YieldValue, consumer
<1>6. CASE EndSession
  BY <1>6 DEF EndSession, consumer
<1>7. CASE Finish
  BY <1>7 DEF Finish, consumer
<1>8. CASE Unsubscribe
  BY <1>8 DEF Unsubscribe, consumer
<1>9. CASE RemoveHandlers
  <2>1. CASE tracked
    BY <1>9, <2>1 DEF RemoveHandlers, CleanupSession, consumer
  <2>. QED BY <1>u, <1>9, <2>1 DEF RemoveHandlers, consumer
<1>10. CASE \/ Start \/ InitAnswered \/ InitRaised \/ SubscribeResponses \/ Resume \/ Leave
            \/ Cleanup \/ HandleResponse \/ NoResponders \/ Sweep \/ CloseConnection
            \/ OpenSession \/ RefuseSession \/ AnswerInit \/ UNCHANGED vars
  BY <1>u, <1>10 DEF Start, InitAnswered, InitRaised, SubscribeResponses, Resume, Leave, Cleanup, HandleResponse,
     NoResponders, Sweep, CloseConnection, OpenSession, RefuseSession, AnswerInit, vars, consumer, conn, session
<1>. QED
  BY <1>1, <1>2, <1>3, <1>4, <1>5, <1>6, <1>7, <1>8, <1>9, <1>10 DEF Next, Client, Responder

(* A loop that is not over has no outcome, and generators end for good. *)
LEMMA OutcomeStep ==
  ASSUME RefInv, [Next]_vars
  PROVE  OutcomeInv' /\ GenKinds'
<1>. USE DEF RefInv, OutcomeInv, GenKinds, Over
<1>1. CASE \/ Start \/ InitAnswered \/ InitRaised \/ SubscribeResponses \/ Resume \/ Leave \/ PublishNext \/ SendCancel
           \/ Cleanup \/ HandleResponse \/ NoResponders \/ Sweep \/ CloseConnection
           \/ OpenSession \/ RefuseSession \/ AnswerInit \/ UNCHANGED vars
  BY <1>1 DEF Start, InitAnswered, InitRaised, SubscribeResponses, Resume, Leave, PublishNext, SendCancel, Cleanup, HandleResponse,
     NoResponders, Sweep, CloseConnection, OpenSession, RefuseSession, AnswerInit, vars, consumer, conn, session
<1>2. CASE Get
  BY <1>2 DEF Get, Taken, session
<1>3. CASE TakeRequest \/ YieldValue \/ Finish \/ Unsubscribe
  BY <1>3 DEF TakeRequest, YieldValue, Finish, Unsubscribe, consumer
<1>4. CASE EndSession
  BY <1>4 DEF EndSession, consumer
<1>5. CASE RemoveHandlers
  BY <1>5 DEF RemoveHandlers, CleanupSession, consumer
<1>. QED
  BY <1>1, <1>2, <1>3, <1>4, <1>5 DEF Next, Client, Responder

LEMMA RefStep == RefInv /\ [Next]_vars => RefInv'
  BY PullStep, AheadStep, OutcomeStep DEF RefInv

(* What a step looks like from outside. *)
LEMMA Unseen ==
  ASSUME UNCHANGED <<gen, made, got, outcome>>
  PROVE  UNCHANGED Promise!vars
  BY DEF Promise!vars, Source, Ending

LEMMA LoopEnds ==
  ASSUME outcome = "none", outcome' \notin {"none", "done"}, UNCHANGED <<gen, made, got>>
  PROVE  Promise!FallShort
  BY DEF Promise!FallShort, Source, Ending

LEMMA SourceStops ==
  ASSUME gen = "open", gen' \in {"exhausted", "failed", "closed"}, UNCHANGED <<made, got, outcome>>
  PROVE  Promise!Stop
  BY DEF Promise!Stop, Source, Ending

LEMMA StepKeepsPromise == RefInv /\ [Next]_vars => [Promise!Next]_(Promise!vars)
<1>. SUFFICES ASSUME RefInv, [Next]_vars PROVE Promise!Next \/ UNCHANGED Promise!vars
  OBVIOUS
<1>. USE DEF Promise!Next
<1>1. CASE InitRaised
  BY <1>1, LoopEnds DEF InitRaised, session, RefInv, OutcomeInv, Over
<1>2. CASE SubscribeResponses
  BY <1>2, LoopEnds, Unseen DEF SubscribeResponses, session, RefInv, OutcomeInv, Over
<1>3. CASE PublishNext
  BY <1>3, LoopEnds, Unseen DEF PublishNext, RefInv, OutcomeInv, Over
<1>4. CASE Leave
  BY <1>4, LoopEnds DEF Leave, session, RefInv, OutcomeInv, Over
<1>5. CASE Get
  <2>1. /\ cpc = "parked" /\ UNCHANGED <<gen, made>> /\ Taken(queue[1])
        /\ queue[1] \in Items /\ Len(queue) > 0 /\ outcome = "none"
    BY <1>5 DEF Get, session, RefInv, OutcomeInv, Over, PullInv, SeqInv
  <2>2. CASE queue[1].type = "error"
    <3>1. queue[1].why \in Whys
      BY <2>1, <2>2 DEF Items, DoneMsg
    <3>. QED BY <2>1, <2>2, <3>1, LoopEnds DEF Taken, Whys
  <2>3. CASE queue[1].type # "error"
    <3>1. Received
      BY <2>1, <2>3 DEF RefInv, PullInv, SeqInv, TokenInv, Asked, Answered, Lost, OnlyErrors
    <3>2. Answer(queue[1])
      BY <2>1, <2>3, <3>1 DEF Received, RefInv, PullInv, SeqInv
    <3>3. CASE queue[1].type = "value"
      <4>1. made = Len(got) + 1 /\ got' = Append(got, Len(got) + 1) /\ outcome' = outcome
        BY <2>1, <3>2, <3>3 DEF Answer, Taken
      <4>2. Promise!Take
        BY <2>1, <4>1 DEF Promise!Take, Source, Ending, RefInv, PullInv, SeqInv
      <4>. QED BY <4>2
    <3>4. CASE queue[1].type = "done"
      <4>1. gen = "exhausted" /\ made = Len(got) /\ got' = got /\ outcome' = "done"
        BY <2>1, <3>2, <3>4 DEF Answer, Taken
      <4>2. Promise!Complete
        BY <2>1, <4>1 DEF Promise!Complete, Source, Ending
      <4>. QED BY <4>2
    <3>. QED BY <2>1, <2>3, <3>3, <3>4 DEF Taken
  <2>. QED BY <2>2, <2>3
<1>6. CASE YieldValue
  <2>1. hpc = "anext" /\ made' = made + 1 /\ UNCHANGED <<gen, got, outcome>>
    BY <1>6 DEF YieldValue, consumer
  <2>2. gen = "open" /\ made = Len(got) /\ made \in Nat
    BY <2>1 DEF RefInv, PullInv, GenInv, SeqInv, AheadInv
  <2>. QED BY <2>1, <2>2 DEF Promise!Make, Source, Ending
<1>7. CASE EndSession
  <2>1. hpc \in {"anext", "aclose"} /\ gen' \in {"exhausted", "failed", "closed"} /\ UNCHANGED <<made, got, outcome>>
    BY <1>7 DEF EndSession, consumer
  <2>. QED BY <2>1, SourceStops DEF RefInv, PullInv, GenInv
<1>8. CASE RemoveHandlers
  <2>1. UNCHANGED <<made, got, outcome>> /\ (gen' = gen \/ (gen = "open" /\ gen' = "closed"))
    BY <1>8 DEF RemoveHandlers, CleanupSession, consumer
  <2>. QED BY <2>1, SourceStops, Unseen
<1>9. CASE \/ Start \/ InitAnswered \/ Resume \/ Cleanup \/ SendCancel \/ HandleResponse \/ NoResponders
           \/ Sweep \/ CloseConnection \/ OpenSession \/ RefuseSession \/ AnswerInit
           \/ TakeRequest \/ Finish \/ Unsubscribe \/ UNCHANGED vars
  BY <1>9, Unseen DEF Start, InitAnswered, Resume, Cleanup, SendCancel, HandleResponse, NoResponders, Sweep,
     CloseConnection, OpenSession, RefuseSession, AnswerInit, TakeRequest, Finish, Unsubscribe, vars, consumer, conn, session
<1>. QED
  BY <1>1, <1>2, <1>3, <1>4, <1>5, <1>6, <1>7, <1>8, <1>9 DEF Next, Client, Responder

(* call_pull_iterator() and the session that serves it implement a stream of
   values whose source is at most one value ahead, for every length of the
   iteration and every combination of faults. *)
THEOREM ImplementsValueStream == Spec => KeepsPromise
<1>1. Init => Promise!Init
  BY DEF Init, Promise!Init, Source, Ending
<1>. QED BY <1>1, RefInit, RefStep, StepKeepsPromise, PTL DEF Spec, KeepsPromise, Promise!Spec
=============================================================================
