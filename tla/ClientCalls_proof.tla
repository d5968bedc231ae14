-------------------------- MODULE ClientCalls_proof --------------------------
(* Proofs about ClientCalls, for any calls, retries and teardowns. *)
EXTENDS ClientCalls, TLAPS

(* The counters start in their range. *)
LEMMA Bounds == 0 \in 0..MaxRetries /\ 0 \in 0..MaxTeardowns
  BY CallsAssumption

(* The id of a call's attempt is a request id. *)
LEMMA IdType ==
  ASSUME NEW c \in Calls, att[c] \in 0..MaxRetries
  PROVE  Id(c) \in Ids /\ Id(c)[1] = c /\ Id(c)[2] = att[c]
  BY DEF Id, Ids

(* An id is a call and an attempt number. *)
LEMMA IdParts ==
  ASSUME NEW id \in Ids
  PROVE  id[1] \in Calls /\ id[2] \in 0..MaxRetries /\ id = <<id[1], id[2]>>
  BY DEF Ids

(* What is put on the wire is a message. *)
LEMMA MessageType ==
  ASSUME NEW id \in Ids, NEW a \in {"req"} \cup Answers
  PROVE  <<id, a>> \in Messages
  BY DEF Messages

(* Giving subscriptions back keeps the types of what it touches. *)
LEMMA DropType ==
  ASSUME TypeOK, NEW ids, DropSubscriptions(ids)
  PROVE  /\ inbox' \subseteq Ids /\ entries' \subseteq Ids /\ live' \subseteq Ids
         /\ hasUnsub' = hasUnsub
  BY DEF TypeOK, DropSubscriptions

(* So does dropping a request. *)
LEMMA DropRequestType ==
  ASSUME TypeOK, NEW id \in Ids, DropRequest(id)
  PROVE  pending' \subseteq Ids /\ timer' \in [Calls -> BOOLEAN]
  BY IdParts DEF TypeOK, DropRequest

(* unsubscribe_all() keeps the types of what it touches. *)
LEMMA UnsubscribeType ==
  ASSUME TypeOK, NEW id \in Ids, UnsubscribeAll(id)
  PROVE  /\ pending' \subseteq Ids /\ inbox' \subseteq Ids
         /\ entries' \subseteq Ids /\ live' \subseteq Ids
         /\ timer' \in [Calls -> BOOLEAN]
         /\ hasUnsub' \in [Calls -> BOOLEAN]
  BY DropType, DropRequestType DEF TypeOK, UnsubscribeAll

(* A call that sleeps before a retry has an attempt left: what makes the
   types inductive, since the attempt number is bounded. *)
RetryLeft == \A c \in Calls : pc[c] = "backoff" => att[c] < MaxRetries

TypeInv == TypeOK /\ RetryLeft

(* The initial state of the request path has its type. *)
LEMMA TypeInit == Init => TypeInv
  BY Bounds, ZenonT(60) DEF Init, TypeInv, RetryLeft, TypeOK, PcStates, Settled, Outcomes

(* Every step of a call's task keeps the types. *)
LEMMA TypeTask ==
  ASSUME TypeInv, NEW c \in Calls, TaskStep(c)
  PROVE  TypeOK'
<1>0. Id(c) \in Ids /\ Id(c)[1] = c /\ <<Id(c), "req">> \in Messages
  BY IdType, MessageType DEF TypeInv, TypeOK
<1>. USE DEF TypeInv, TypeOK, connVars, svcVars, tdVars
<1>1. CASE AutoConnect(c)
  BY <1>1 DEF AutoConnect, StartConnecting, PcStates
<1>2. CASE NotConnected(c)
  BY <1>2 DEF NotConnected, Finish, PcStates, Outcomes
<1>3. CASE CallMuxed(c)
  BY <1>0, <1>3 DEF CallMuxed, RegisterAndPublish, Finish, PcStates, Outcomes
<1>4. CASE EnsureMux(c)
  BY <1>4 DEF EnsureMux, Finish, PcStates, Outcomes
<1>5. CASE MuxEnsured(c)
  BY <1>0, <1>5, ZenonT(60) DEF MuxEnsured, RegisterAndPublish, Finish, PcStates, Outcomes
<1>6. CASE ServiceSubscribe(c)
  BY <1>0, <1>6 DEF ServiceSubscribe, Finish, PcStates, Outcomes
<1>7. CASE ServiceInbox(c)
  BY <1>0, <1>7 DEF ServiceInbox, Finish, PcStates, Outcomes
<1>8. CASE ServicePublish(c)
  <2>1. CASE DropRequest(Id(c))
    BY <1>0, <1>8, <2>1, DropRequestType DEF ServicePublish, Finish, PcStates, Outcomes
  <2>2. CASE ~DropRequest(Id(c))
    BY <1>0, <1>8, <2>2 DEF ServicePublish, PcStates
  <2>. QED BY <2>1, <2>2
<1>9. CASE PublishReturns(c)
  BY <1>9 DEF PublishReturns, PcStates
<1>10. CASE PublishRaises(c)
  <2>1. pending' \subseteq Ids /\ timer' \in [Calls -> BOOLEAN]
    BY <1>0, <1>10, DropRequestType DEF PublishRaises, UnsubscribeAll
  <2>2. /\ inbox' \subseteq Ids /\ entries' \subseteq Ids /\ live' \subseteq Ids
        /\ hasUnsub' = hasUnsub
    BY <1>10, DropType DEF PublishRaises, UnsubscribeAll
  <2>3. pc' \in [Calls -> PcStates] /\ outcome' \in [Calls -> Outcomes] /\ net' \subseteq Messages
    BY <1>10 DEF PublishRaises, Finish, PcStates, Outcomes
  <2>. QED BY <1>10, <2>1, <2>2, <2>3 DEF PublishRaises
<1>11. CASE Wake(c)
  <2>1. /\ pending' \subseteq Ids /\ inbox' \subseteq Ids
        /\ entries' \subseteq Ids /\ live' \subseteq Ids
        /\ timer' \in [Calls -> BOOLEAN] /\ hasUnsub' \in [Calls -> BOOLEAN]
    BY <1>0, <1>11, UnsubscribeType DEF Wake
  <2>2. pc' \in [Calls -> PcStates] /\ outcome' \in [Calls -> Outcomes]
    BY <1>11 DEF Wake, Finish, PcStates, Outcomes, Settled
  <2>. QED BY <1>11, <2>1, <2>2 DEF Wake
<1>12. CASE Backoff(c)
  <2>1. att[c] + 1 \in 0..MaxRetries
    BY <1>12, CallsAssumption DEF Backoff, RetryLeft
  <2>. QED BY <1>12, <2>1 DEF Backoff, PcStates
<1>. QED
  BY <1>1, <1>2, <1>3, <1>4, <1>5, <1>6, <1>7, <1>8, <1>9, <1>10, <1>11, <1>12
     DEF TaskStep

(* Connecting, timers, answers and losses keep the types. *)
LEMMA TypeEvent ==
  ASSUME TypeInv,
         \/ \E c \in Calls : Timeout(c)
         \/ ExplicitConnect \/ ConnectStep
         \/ \E id \in Ids : Respond(id) \/ ServiceNoResponders(id)
         \/ \E id \in Ids, a \in Answers : RouteMux(id, a) \/ ServiceReply(id, a)
         \/ \E m \in net : Lose(m)
  PROVE  TypeOK'
<1>. USE DEF TypeInv, TypeOK, connVars, svcVars, tdVars
<1>1. ASSUME NEW c \in Calls, Timeout(c) PROVE TypeOK'
  BY <1>1 DEF Timeout, Settle, Settled
<1>2. CASE ExplicitConnect
  BY <1>2 DEF ExplicitConnect, StartConnecting
<1>3. ASSUME ConnectOpens \/ RestoreMux \/ \E id \in Ids : RestoreEntry(id) PROVE TypeOK'
  <2>1. ASSUME NEW left, NEW muxLeft, ReturnOrGoOn(left, muxLeft)
        PROVE  ctask' \in {"none", "dialing", "restoring"} /\ pc' \in [Calls -> PcStates]
    BY <2>1 DEF ReturnOrGoOn, PcStates
  <2>2. CASE ConnectOpens
    BY <2>2 DEF ConnectOpens
  <2>3. CASE RestoreMux
    BY <2>1, <2>3 DEF RestoreMux
  <2>4. ASSUME NEW id \in Ids, RestoreEntry(id) PROVE TypeOK'
    BY <2>1, <2>4 DEF RestoreEntry
  <2>. QED BY <1>3, <2>2, <2>3, <2>4
<1>4. CASE ConnectFails
  BY <1>4 DEF ConnectFails, PcStates, Outcomes
<1>5. ASSUME NEW id \in Ids, Respond(id) PROVE TypeOK'
  <2>1. \A a \in Answers : <<id, a>> \in Messages
    BY MessageType
  <2>2. {"ok", "noresp"} \subseteq Answers /\ ErrKinds \subseteq Answers
    BY DEF Answers
  <2>. QED BY <1>5, <2>1, <2>2 DEF Respond
<1>6. ASSUME NEW id \in Ids, ServiceNoResponders(id) PROVE TypeOK'
  BY <1>6, IdParts, UnsubscribeType DEF ServiceNoResponders, Settle, Settled, Answers
<1>7. ASSUME NEW id \in Ids, NEW a \in Answers, RouteMux(id, a) PROVE TypeOK'
  <2>1. id[1] \in Calls /\ id[2] \in 0..MaxRetries
    BY IdParts
  <2>2. /\ fut' \in [Calls -> Settled \cup {"none", "pending"}]
        /\ src' \in [Calls -> 0..MaxRetries]
    BY <1>7, <2>1 DEF RouteMux, Settle, Settled
  <2>3. timer' \in [Calls -> BOOLEAN]
    BY <1>7, <2>1 DEF RouteMux
  <2>. QED BY <1>7, <2>2, <2>3 DEF RouteMux
<1>8. ASSUME NEW id \in Ids, NEW a \in Answers, ServiceReply(id, a) PROVE TypeOK'
  BY <1>8, IdParts, UnsubscribeType DEF ServiceReply, Settle, Settled
<1>9. ASSUME NEW m \in net, Lose(m) PROVE TypeOK'
  BY <1>9 DEF Lose
<1>. QED
  BY <1>1, <1>2, <1>3, <1>4, <1>5, <1>6, <1>7, <1>8, <1>9 DEF ConnectStep

(* One run of the sweep keeps the types of what it touches. *)
LEMMA SweepType ==
  ASSUME TypeOK, NEW todo \in SUBSET Ids, NEW held \in SUBSET Ids, SweepRun(todo, held)
  PROVE  /\ fut' \in [Calls -> Settled \cup {"none", "pending"}]
         /\ timer' \in [Calls -> BOOLEAN]
         /\ pending' \subseteq Ids /\ tdTodo' \subseteq Ids /\ tdHeld' \subseteq Ids
         /\ tdPhase' \in {"hook", "cleanups"}
         /\ entries' \subseteq Ids /\ live' \subseteq Ids /\ inbox' \subseteq Ids
         /\ hasUnsub' = hasUnsub
<1>1. ASSUME NEW ids, SettleClosed(ids)
      PROVE  fut' \in [Calls -> Settled \cup {"none", "pending"}]
  BY <1>1 DEF TypeOK, SettleClosed, Settled
<1>2. ASSUME NEW ids, CancelTimers(ids) PROVE timer' \in [Calls -> BOOLEAN]
  BY <1>2 DEF TypeOK, CancelTimers
<1>3. PICK ids, timers, dropped :
        /\ SettleClosed(ids) /\ CancelTimers(timers) /\ DropSubscriptions(dropped)
        /\ pending' \subseteq Ids /\ tdTodo' \subseteq Ids /\ tdHeld' \subseteq Ids
        /\ tdPhase' \in {"hook", "cleanups"}
  BY DEF TypeOK, SweepRun
<1>. QED BY <1>1, <1>2, <1>3, DropType

(* Every step of a teardown keeps the types. *)
LEMMA TypeTeardown ==
  ASSUME TypeInv, (\E kind \in {"disconnect", "suspend"} : TeardownStart(kind)) \/ TeardownStep
  PROVE  TypeOK'
<1>. USE DEF TypeInv, TypeOK, connVars, svcVars, tdVars
<1>1. ASSUME NEW kind \in {"disconnect", "suspend"}, TeardownStart(kind) PROVE TypeOK'
  <2>1. SweepRun(pending, {})
    BY <1>1 DEF TeardownStart
  <2>2. teardowns' \in 0..MaxTeardowns
    BY <1>1, CallsAssumption DEF TeardownStart
  <2>3. closed' \in BOOLEAN
    BY <1>1 DEF TeardownStart
  <2>. QED BY <1>1, <2>1, <2>2, <2>3, SweepType DEF TeardownStart
<1>2. CASE TeardownHookDone
  BY <1>2, SweepType DEF TeardownHookDone
<1>3. CASE TeardownUnsubscribe
  BY <1>3 DEF TeardownUnsubscribe
<1>4. CASE TeardownClose
  BY <1>4 DEF TeardownClose
<1>5. CASE TeardownEnd
  BY <1>5 DEF TeardownEnd
<1>. QED
  BY <1>1, <1>2, <1>3, <1>4, <1>5 DEF TeardownStep

(* What the connection task does to the calls: those who wait for it go on or
   raise, and nobody else notices. *)
LEMMA ConnectEffect ==
  ASSUME TypeOK, ConnectStep
  PROVE  /\ UNCHANGED <<att, fut, src, timer, pending, net, ran, tdVars>>
         /\ \A c \in Calls : pc[c] # "connecting" => pc'[c] = pc[c] /\ outcome'[c] = outcome[c]
         /\ \A c \in Calls : pc[c] = "connecting" =>
               \/ pc'[c] \in {"connecting", "connected"} /\ outcome'[c] = outcome[c]
               \/ pc'[c] = "done" /\ outcome'[c] = "raised"
<1>. USE DEF TypeOK, svcVars
<1>1. CASE ConnectOpens
  BY <1>1 DEF ConnectOpens
<1>2. CASE RestoreMux \/ \E id \in Ids : RestoreEntry(id)
  BY <1>2 DEF RestoreMux, RestoreEntry, ReturnOrGoOn
<1>3. CASE ConnectFails
  BY <1>3 DEF ConnectFails
<1>. QED BY <1>1, <1>2, <1>3 DEF ConnectStep

(* The retry bound is kept: only Wake puts a call to sleep. *)
LEMMA RetryLeftStep ==
  ASSUME TypeInv, [Next]_vars
  PROVE  RetryLeft'
<1>. USE DEF TypeInv, TypeOK, RetryLeft, connVars, svcVars, tdVars
<1>1. ASSUME NEW c \in Calls, TaskStep(c) PROVE RetryLeft'
  BY <1>1 DEF TaskStep, AutoConnect, NotConnected, CallMuxed, EnsureMux, MuxEnsured,
     RegisterAndPublish, ServiceSubscribe, ServiceInbox, ServicePublish, PublishReturns,
     PublishRaises, Wake, Retries, Backoff, Finish
<1>2. ASSUME UNCHANGED <<pc, att>> PROVE RetryLeft'
  BY <1>2
<1>3. CASE ConnectStep
  BY <1>3, ConnectEffect
<1>. QED
  BY <1>1, <1>2, <1>3 DEF Next, vars, Timeout, ExplicitConnect, Respond, ServiceNoResponders,
     RouteMux, ServiceReply, Lose, TeardownStart, TeardownStep, TeardownHookDone,
     TeardownUnsubscribe, TeardownClose, TeardownEnd

(* TypeInv is inductive. *)
LEMMA TypeStep == TypeInv /\ [Next]_vars => TypeInv'
<1>. SUFFICES ASSUME TypeInv, [Next]_vars PROVE TypeOK'
  BY RetryLeftStep DEF TypeInv
<1>1. CASE UNCHANGED vars
  BY <1>1 DEF vars, TypeInv, TypeOK
<1>2. CASE Next
  BY <1>2, TypeTask, TypeEvent, TypeTeardown DEF Next
<1>. QED BY <1>1, <1>2

(* Type correctness of the request path (client.py call()). *)
THEOREM TypeCorrect == Spec => []TypeOK
<1>1. TypeInv => TypeOK
  BY DEF TypeInv
<1>. QED BY <1>1, TypeInit, TypeStep, PTL DEF Spec

-----------------------------------------------------------------------------
(* PendingLive and Integrity.  The dispatcher settles whatever future belongs
   to the id it pops, so both need two more facts: a value on the wire comes
   from a handler that ran, and a call that sleeps before a retry has no
   registered attempt left behind. *)

AnswersRan == \A id \in Ids : <<id, "ok">> \in net => id \in ran

BackoffSettled == \A c \in Calls : pc[c] = "backoff" => fut[c] \notin {"pending", "closed"}

CallInv == TypeInv /\ PendingLive /\ Integrity /\ AnswersRan /\ BackoffSettled

(* The invariant holds in the initial state. *)
LEMMA CallInit == Init => CallInv
  BY TypeInit DEF Init, CallInv, PendingLive, Integrity, AnswersRan, BackoffSettled

(* Dropping a request takes it away with its own timer. *)
LEMMA DropPending ==
  ASSUME CallInv, NEW id \in Ids, Current(id), DropRequest(id)
  PROVE  /\ pending' = pending \ {id}
         /\ \A q \in pending' : timer'[q[1]] = timer[q[1]]
<1>1. \A q \in pending' : q[1] = id[1] => q = id
  BY DEF CallInv, PendingLive, Current, DropRequest
<1>2. pending' = pending \ {id}
  BY DEF DropRequest
<1>. QED
  BY <1>1, <1>2, IdParts DEF CallInv, TypeInv, TypeOK, DropRequest

(* Registering and publishing an attempt, from either entry to it. *)
LEMMA RegisterCallInv ==
  ASSUME CallInv, NEW c \in Calls, RegisterAndPublish(c),
         UNCHANGED <<att, src, ran>>, pc[c] # "backoff"
  PROVE  PendingLive' /\ Integrity' /\ AnswersRan' /\ BackoffSettled'
<1>0. Id(c) \in Ids /\ Id(c)[1] = c
  BY IdType DEF CallInv, TypeInv, TypeOK
<1>. USE DEF CallInv, TypeInv, TypeOK
<1>1. PendingLive'
  BY <1>0, IdParts DEF RegisterAndPublish, PendingLive, Current, Id
<1>2. Integrity'
  BY DEF RegisterAndPublish, Integrity, Id
<1>3. AnswersRan'
  BY DEF RegisterAndPublish, AnswersRan
<1>4. BackoffSettled'
  BY DEF RegisterAndPublish, BackoffSettled, Finish
<1>. QED BY <1>1, <1>2, <1>3, <1>4

(* A step that leaves the settled state of the attempts alone and registers
   nothing. *)
LEMMA QuietCallInv ==
  ASSUME CallInv, UNCHANGED <<att, fut, src>>, pending' \subseteq pending,
         \A q \in pending' : timer'[q[1]] = timer[q[1]],
         ran \subseteq ran',
         \A id \in Ids : <<id, "ok">> \in net' => id \in ran',
         \A c \in Calls : pc'[c] = "backoff" => fut[c] \notin {"pending", "closed"}
  PROVE  PendingLive' /\ Integrity' /\ AnswersRan' /\ BackoffSettled'
<1>1. PendingLive'
  BY DEF CallInv, PendingLive, Current, Id
<1>2. Integrity'
  BY DEF CallInv, Integrity, Id
<1>. QED BY <1>1, <1>2 DEF AnswersRan, BackoffSettled

(* An event that takes one request out and may settle its future. *)
LEMMA SettleCallInv ==
  ASSUME CallInv, NEW id \in Ids, NEW a \in Settled, Settle(id[1], a, id[2]),
         pending' = pending \ {id}, Current(id), a # "closed",
         \A q \in pending' : timer'[q[1]] = timer[q[1]],
         UNCHANGED <<pc, att, ran>>, net' \subseteq net,
         a = "ok" => id \in ran
  PROVE  PendingLive' /\ Integrity' /\ AnswersRan' /\ BackoffSettled'
<1>0. id[1] \in Calls /\ id[2] = att[id[1]] /\ id = Id(id[1])
  BY IdParts DEF Current, Id
<1>00. fut[id[1]] = "pending" => fut' = [fut EXCEPT ![id[1]] = a] /\ src' = [src EXCEPT ![id[1]] = id[2]]
  BY DEF Settle
<1>01. fut[id[1]] # "pending" => UNCHANGED <<fut, src>>
  BY DEF Settle
<1>. USE DEF CallInv, TypeInv, TypeOK
<1>1. \A q \in pending' : q[1] # id[1]
  BY <1>0 DEF PendingLive, Current
<1>2. PendingLive'
  BY <1>0, <1>00, <1>01, <1>1, IdParts DEF PendingLive, Current, Id
<1>3. Integrity'
  BY <1>0, <1>00, <1>01 DEF Integrity, Id
<1>4. AnswersRan'
  BY DEF AnswersRan
<1>5. BackoffSettled'
  BY <1>0, <1>00, <1>01 DEF BackoffSettled
<1>. QED BY <1>2, <1>3, <1>4, <1>5

(* One run of the sweep: it cancels the timer of a request only when it also
   settles it or takes it out. *)
LEMMA SweepCallInv ==
  ASSUME CallInv, NEW todo \in SUBSET Ids, NEW held \in SUBSET Ids, SweepRun(todo, held),
         UNCHANGED <<pc, att, src, net, ran>>
  PROVE  PendingLive' /\ Integrity' /\ AnswersRan' /\ BackoffSettled'
<1>. USE DEF CallInv, TypeInv, TypeOK
<1>1. PICK done, stopped :
        /\ SettleClosed(done) /\ CancelTimers(stopped)
        /\ pending' \subseteq pending
        /\ \A id \in pending' : id \in stopped => id \in done
  BY DEF SweepRun
<1>2. \A c \in Calls : /\ fut'[c] = fut[c] \/ (fut[c] = "pending" /\ fut'[c] = "closed")
                       /\ Id(c) \in done => fut'[c] # "pending"
                       /\ Id(c) \notin stopped => timer'[c] = timer[c]
  BY <1>1 DEF SettleClosed, CancelTimers
<1>3. PendingLive'
  BY <1>1, <1>2, IdParts DEF PendingLive, Current, Id
<1>4. Integrity'
  BY <1>2 DEF Integrity, Id
<1>5. AnswersRan' /\ BackoffSettled'
  BY <1>2 DEF AnswersRan, BackoffSettled
<1>. QED BY <1>3, <1>4, <1>5

(* The steps of a call's task. *)
LEMMA TaskCallInv ==
  ASSUME CallInv, NEW c \in Calls, TaskStep(c)
  PROVE  PendingLive' /\ Integrity' /\ AnswersRan' /\ BackoffSettled'
<1>0. Id(c) \in Ids /\ Id(c)[1] = c /\ Current(Id(c))
  BY IdType DEF CallInv, TypeInv, TypeOK, Current
<1>t. /\ pc \in [Calls -> PcStates] /\ fut \in [Calls -> Settled \cup {"none", "pending"}]
      /\ timer \in [Calls -> BOOLEAN] /\ pending \subseteq Ids
      /\ att \in [Calls -> 0..MaxRetries]
      /\ BackoffSettled /\ AnswersRan /\ PendingLive /\ Integrity
  BY DEF CallInv, TypeInv, TypeOK
<1>. USE DEF connVars, svcVars, tdVars
<1>1. CASE AutoConnect(c) \/ NotConnected(c) \/ EnsureMux(c) \/ ServiceInbox(c) \/ PublishReturns(c)
  <2>1. UNCHANGED <<att, fut, src, timer, pending, net, ran>>
    BY <1>1 DEF AutoConnect, NotConnected, EnsureMux, ServiceInbox, PublishReturns
  <2>2. \A d \in Calls : pc'[d] = "backoff" => pc[d] = "backoff"
    BY <1>1, <1>t DEF AutoConnect, NotConnected, EnsureMux, ServiceInbox, PublishReturns, Finish
  <2>. QED BY <2>1, <2>2, <1>t, QuietCallInv DEF AnswersRan, BackoffSettled
<1>2. CASE CallMuxed(c) \/ MuxEnsured(c)
  <2>1. pc[c] # "backoff"
    BY <1>2 DEF CallMuxed, MuxEnsured, PastConnect, Starting
  <2>. QED BY <1>2, <2>1, RegisterCallInv DEF CallMuxed, MuxEnsured
<1>3. CASE ServiceSubscribe(c)
  <2>1. pc[c] # "backoff"
    BY <1>3 DEF ServiceSubscribe, PastConnect, Starting
  <2>2. PendingLive'
    BY <1>0, <1>3, <1>t, IdParts DEF ServiceSubscribe, PendingLive, Current, Id
  <2>3. Integrity' /\ AnswersRan' /\ BackoffSettled'
    BY <1>3, <1>t, <2>1 DEF ServiceSubscribe, Integrity, AnswersRan, BackoffSettled, Id, Finish
  <2>. QED BY <2>2, <2>3
<1>4. CASE ServicePublish(c) \/ PublishRaises(c)
  <2>1. UNCHANGED <<att, fut, src, ran>>
    BY <1>4 DEF ServicePublish, PublishRaises
  <2>2. \A d \in Calls : pc'[d] = "backoff" => pc[d] = "backoff"
    BY <1>4, <1>t DEF ServicePublish, PublishRaises, Finish
  <2>3. /\ pending' \subseteq pending
        /\ \A q \in pending' : timer'[q[1]] = timer[q[1]]
    <3>1. CASE DropRequest(Id(c))
      BY <1>0, <3>1, DropPending
    <3>2. CASE UNCHANGED <<pending, timer>>
      BY <3>2
    <3>. QED BY <1>4, <3>1, <3>2 DEF ServicePublish, PublishRaises, UnsubscribeAll
  <2>4. \A id \in Ids : <<id, "ok">> \in net' => <<id, "ok">> \in net
    BY <1>4 DEF ServicePublish, PublishRaises
  <2>. QED BY <2>1, <2>2, <2>3, <2>4, <1>t, QuietCallInv DEF AnswersRan, BackoffSettled
<1>5. CASE Wake(c)
  <2>1. UNCHANGED <<att, fut, src, net, ran>>
    BY <1>5 DEF Wake
  <2>2. \A d \in Calls : pc'[d] = "backoff" => fut[d] \notin {"pending", "closed"}
    BY <1>5, <1>t DEF Wake, Retries, Finish, BackoffSettled
  <2>3. /\ pending' \subseteq pending
        /\ \A q \in pending' : timer'[q[1]] = timer[q[1]]
    BY <1>0, <1>5, DropPending DEF Wake, UnsubscribeAll
  <2>. QED BY <2>1, <2>2, <2>3, <1>t, QuietCallInv DEF AnswersRan
<1>6. CASE Backoff(c)
  <2>1. \A q \in pending : q[1] \in Calls /\ q[1] # c
    BY <1>6, <1>t, IdParts DEF Backoff, BackoffSettled, PendingLive
  <2>2. PendingLive'
    BY <1>6, <1>t, <2>1 DEF Backoff, PendingLive, Current, Id
  <2>3. Integrity' /\ AnswersRan' /\ BackoffSettled'
    BY <1>6, <1>t DEF Backoff, Integrity, AnswersRan, BackoffSettled, Id
  <2>. QED BY <2>2, <2>3
<1>. QED
  BY <1>1, <1>2, <1>3, <1>4, <1>5, <1>6 DEF TaskStep

(* Connecting, timers, answers and losses. *)
LEMMA EventCallInv ==
  ASSUME CallInv,
         \/ \E c \in Calls : Timeout(c)
         \/ ExplicitConnect \/ ConnectStep
         \/ \E id \in Ids : Respond(id) \/ ServiceNoResponders(id)
         \/ \E id \in Ids, a \in Answers : RouteMux(id, a) \/ ServiceReply(id, a)
         \/ \E m \in net : Lose(m)
  PROVE  PendingLive' /\ Integrity' /\ AnswersRan' /\ BackoffSettled'
<1>t. /\ timer \in [Calls -> BOOLEAN] /\ pending \subseteq Ids
      /\ att \in [Calls -> 0..MaxRetries]
      /\ BackoffSettled /\ AnswersRan /\ PendingLive /\ Integrity
  BY DEF CallInv, TypeInv, TypeOK
<1>o. \A q, id \in pending : q[1] = id[1] => q = id
  BY <1>t DEF PendingLive, Current
<1>a. Answers \subseteq Settled /\ "closed" \notin Answers /\ "timeout" \in Settled
      /\ "noresp" \in Answers
  BY CallsAssumption DEF Answers, Settled
<1>. USE DEF connVars, svcVars, tdVars
<1>1. ASSUME NEW c \in Calls, Timeout(c)
      PROVE  PendingLive' /\ Integrity' /\ AnswersRan' /\ BackoffSettled'
  <2>1. /\ Id(c) \in Ids /\ Id(c)[1] = c /\ Id(c)[2] = att[c] /\ Current(Id(c))
        /\ pending' = pending \ {Id(c)} /\ timer' = [timer EXCEPT ![c] = FALSE]
    BY <1>1, <1>t, IdType DEF Current, Timeout
  <2>2. \A q \in pending' : q[1] \in Calls /\ q[1] # c
    BY <1>t, <2>1, IdParts DEF PendingLive, Current
  <2>3. \A q \in pending' : timer'[q[1]] = timer[q[1]]
    BY <1>t, <2>1, <2>2
  <2>4. CASE Id(c) \in pending
    BY <1>1, <1>a, <2>1, <2>3, <2>4, SettleCallInv DEF Timeout
  <2>5. CASE Id(c) \notin pending
    BY <1>1, <1>t, <2>1, <2>3, <2>5, QuietCallInv DEF Timeout, AnswersRan, BackoffSettled
  <2>. QED BY <2>4, <2>5
<1>2. CASE ExplicitConnect \/ ConnectStep
  <2>0. TypeOK
    BY DEF CallInv, TypeInv
  <2>1. UNCHANGED <<att, fut, src, timer, pending, net, ran>>
    BY <1>2, <2>0, ConnectEffect DEF ExplicitConnect
  <2>2. \A d \in Calls : pc'[d] = "backoff" => pc[d] = "backoff"
    BY <1>2, <2>0, ConnectEffect DEF ExplicitConnect
  <2>. QED BY <2>1, <2>2, <1>t, QuietCallInv DEF AnswersRan, BackoffSettled
<1>3. ASSUME NEW id \in Ids, Respond(id)
      PROVE  PendingLive' /\ Integrity' /\ AnswersRan' /\ BackoffSettled'
  <2>1. \A q \in Ids : <<q, "ok">> \in net' => q \in ran'
    BY <1>3, <1>t DEF Respond, AnswersRan
  <2>. QED BY <1>3, <1>t, <2>1, QuietCallInv DEF Respond, BackoffSettled
<1>4. ASSUME NEW id \in Ids, ServiceNoResponders(id)
      PROVE  PendingLive' /\ Integrity' /\ AnswersRan' /\ BackoffSettled'
  BY <1>4, <1>a, DropPending, SettleCallInv DEF ServiceNoResponders, UnsubscribeAll
<1>5. ASSUME NEW id \in Ids, NEW a \in Answers, RouteMux(id, a)
      PROVE  PendingLive' /\ Integrity' /\ AnswersRan' /\ BackoffSettled'
  <2>1. CASE id \in pending
    <3>1. Current(id) /\ (a = "ok" => id \in ran)
      BY <1>5, <1>t, <2>1 DEF PendingLive, AnswersRan, RouteMux
    <3>2. \A q \in pending' : timer'[q[1]] = timer[q[1]]
      BY <1>5, <1>t, <1>o, <2>1, IdParts DEF RouteMux
    <3>. QED BY <1>5, <1>a, <2>1, <3>1, <3>2, SettleCallInv DEF RouteMux
  <2>2. CASE id \notin pending
    BY <1>5, <1>t, <2>2, QuietCallInv DEF RouteMux, AnswersRan, BackoffSettled
  <2>. QED BY <2>1, <2>2
<1>6. ASSUME NEW id \in Ids, NEW a \in Answers, ServiceReply(id, a)
      PROVE  PendingLive' /\ Integrity' /\ AnswersRan' /\ BackoffSettled'
  <2>1. CASE id \in pending
    <3>1. Current(id) /\ (a = "ok" => id \in ran)
      BY <1>6, <1>t, <2>1 DEF PendingLive, AnswersRan, ServiceReply
    <3>. QED BY <1>6, <1>a, <2>1, <3>1, DropPending, SettleCallInv DEF ServiceReply, UnsubscribeAll
  <2>2. CASE id \notin pending
    BY <1>6, <1>t, <2>2, QuietCallInv DEF ServiceReply, AnswersRan, BackoffSettled
  <2>. QED BY <2>1, <2>2
<1>7. ASSUME NEW m \in net, Lose(m)
      PROVE  PendingLive' /\ Integrity' /\ AnswersRan' /\ BackoffSettled'
  BY <1>7, <1>t, QuietCallInv DEF Lose, AnswersRan, BackoffSettled
<1>. QED BY <1>1, <1>2, <1>3, <1>4, <1>5, <1>6, <1>7

(* The steps of disconnect() and suspend(). *)
LEMMA TeardownCallInv ==
  ASSUME CallInv, (\E kind \in {"disconnect", "suspend"} : TeardownStart(kind)) \/ TeardownStep
  PROVE  PendingLive' /\ Integrity' /\ AnswersRan' /\ BackoffSettled'
<1>t. pending \subseteq Ids /\ tdTodo \subseteq Ids /\ tdHeld \subseteq Ids
      /\ BackoffSettled /\ AnswersRan
  BY DEF CallInv, TypeInv, TypeOK
<1>1. ASSUME NEW kind \in {"disconnect", "suspend"}, TeardownStart(kind)
      PROVE  PendingLive' /\ Integrity' /\ AnswersRan' /\ BackoffSettled'
  BY <1>1, <1>t, SweepCallInv DEF TeardownStart
<1>2. CASE TeardownHookDone
  BY <1>2, <1>t, SweepCallInv DEF TeardownHookDone
<1>3. CASE TeardownUnsubscribe \/ TeardownClose \/ TeardownEnd
  BY <1>3, <1>t, QuietCallInv
     DEF TeardownUnsubscribe, TeardownClose, TeardownEnd, AnswersRan, BackoffSettled
<1>. QED BY <1>1, <1>2, <1>3 DEF TeardownStep

(* CallInv is inductive. *)
LEMMA CallStep == CallInv /\ [Next]_vars => CallInv'
<1>. SUFFICES ASSUME CallInv, [Next]_vars
              PROVE  PendingLive' /\ Integrity' /\ AnswersRan' /\ BackoffSettled'
  BY TypeStep DEF CallInv
<1>1. CASE UNCHANGED vars
  BY <1>1 DEF vars, CallInv, PendingLive, Current, Integrity, Id, AnswersRan, BackoffSettled
<1>2. CASE Next
  BY <1>2, TaskCallInv, EventCallInv, TeardownCallInv DEF Next
<1>. QED BY <1>1, <1>2

(* pending_requests holds only the attempts their callers are waiting in, and
   an unsettled one always has its timer. *)
THEOREM PendingIsLive == Spec => []PendingLive
<1>1. CallInv => PendingLive
  BY DEF CallInv
<1>. QED BY <1>1, CallInit, CallStep, PTL DEF Spec

(* A late answer never settles a later attempt; a value means a run. *)
THEOREM AnswersAreGenuine == Spec => []Integrity
<1>1. CallInv => Integrity
  BY DEF CallInv
<1>. QED BY <1>1, CallInit, CallStep, PTL DEF Spec

(* The reply inbox of a connection.  A teardown takes it away only when it goes
   on to close the transport or to forget it, and the restore loop keeps the mux
   entry on its list until it is subscribed. *)
MuxKept ==
    /\ tdKind = "none" => tdPhase = "idle"
    /\ conn = "up" /\ tdPhase \notin {"unsubbed", "closing"} =>
         muxSub \/ (ctask = "restoring" /\ muxTodo)

(* A client that is connected, and not being torn down, has its reply inbox, or
   its connection task is about to subscribe it: however connection attempts,
   their failures, callers that subscribe the mux themselves and teardowns
   overlap. *)
THEOREM MuxIsReady == Spec => []MuxReady
<1>1. Init => TypeInv /\ MuxKept
  BY TypeInit DEF Init, MuxKept
<1>2. TypeInv /\ MuxKept /\ [Next]_vars => MuxKept'
  <2>. SUFFICES ASSUME TypeInv, MuxKept, [Next]_vars PROVE MuxKept'
    OBVIOUS
  <2>. USE DEF MuxKept, connVars, svcVars, tdVars
  <2>1. ASSUME NEW c \in Calls, TaskStep(c) PROVE MuxKept'
    <3>1. conn' = conn /\ tdKind' = tdKind /\ tdPhase' = tdPhase /\ muxTodo' = muxTodo /\ (muxSub => muxSub')
      BY <2>1 DEF TaskStep, AutoConnect, NotConnected, CallMuxed, EnsureMux, MuxEnsured,
         ServiceSubscribe, ServiceInbox, ServicePublish, PublishReturns, PublishRaises, Wake, Backoff
    <3>2. ctask = "restoring" => ctask' = ctask
      BY <2>1 DEF TaskStep, AutoConnect, StartConnecting, NotConnected, CallMuxed, EnsureMux,
         MuxEnsured, ServiceSubscribe, ServiceInbox, ServicePublish, PublishReturns, PublishRaises,
         Wake, Backoff
    <3>. QED BY <3>1, <3>2
  <2>2. CASE ExplicitConnect
    BY <2>2 DEF ExplicitConnect, StartConnecting
  <2>3. CASE ConnectOpens \/ RestoreMux
    BY <2>3 DEF ConnectOpens, RestoreMux
  <2>4. ASSUME NEW id \in Ids, RestoreEntry(id) PROVE MuxKept'
    BY <2>4 DEF RestoreEntry, ReturnOrGoOn
  <2>5. CASE ConnectFails
    BY <2>5 DEF ConnectFails, IsConnected
  <2>6. ASSUME NEW kind \in {"disconnect", "suspend"}, TeardownStart(kind) PROVE MuxKept'
    BY <2>6 DEF TeardownStart
  <2>7. CASE TeardownHookDone
    BY <2>7 DEF TeardownHookDone
  <2>8. CASE TeardownUnsubscribe \/ TeardownClose \/ TeardownEnd
    BY <2>8 DEF TeardownUnsubscribe, TeardownClose, TeardownEnd
  <2>9. CASE UNCHANGED <<conn, ctask, muxTodo, muxSub, tdKind, tdPhase>>
    BY <2>9
  <2>. QED
    BY <2>1, <2>2, <2>3, <2>4, <2>5, <2>6, <2>7, <2>8, <2>9
       DEF Next, ConnectStep, TeardownStep, vars, Timeout, Respond, ServiceNoResponders, RouteMux,
           ServiceReply, Lose
<1>3. MuxKept => MuxReady
  BY DEF MuxKept, MuxReady
<1>. QED BY <1>1, <1>2, <1>3, TypeStep, PTL DEF Spec

-----------------------------------------------------------------------------
(* NoLostCall.  A muxed request has no cleanup hook, so without service calls
   the sweep of a teardown runs from its snapshot to clear() without awaiting. *)

SweepAtomic == tdPhase # "hook" /\ \A c \in Calls : pc[c] \notin {"subscribing", "inboxing"}

Registered ==
    \A c \in Calls : pc[c] \in {"publishing", "waiting"} /\ fut[c] = "pending" => Id(c) \in pending

RpcInv == CallInv /\ SweepAtomic /\ Registered

(* Without service calls the sweep never parks. *)
LEMMA SweepAtomicStep ==
  ASSUME SvcCalls = {}, RpcInv, [Next]_vars
  PROVE  SweepAtomic'
<1>t. pc \in [Calls -> PcStates] /\ SweepAtomic /\ pending \subseteq Ids
  BY DEF RpcInv, CallInv, TypeInv, TypeOK
<1>. USE DEF SweepAtomic, connVars, svcVars, tdVars
<1>1. ASSUME NEW c \in Calls, TaskStep(c) PROVE SweepAtomic'
  BY <1>1, <1>t DEF TaskStep, AutoConnect, NotConnected, CallMuxed, EnsureMux, MuxEnsured,
     RegisterAndPublish, ServiceSubscribe, ServiceInbox, ServicePublish, PublishReturns,
     PublishRaises, Wake, Backoff, Finish
<1>2. ASSUME NEW kind \in {"disconnect", "suspend"}, TeardownStart(kind) PROVE SweepAtomic'
  <2>1. \A id \in pending : id[1] \notin SvcCalls
    OBVIOUS
  <2>2. tdPhase' # "hook"
    BY <1>2, <2>1 DEF TeardownStart, SweepRun, HookAwaits
  <2>. QED BY <1>2, <1>t, <2>2 DEF TeardownStart
<1>3. CASE TeardownStep
  BY <1>3, <1>t DEF TeardownStep, TeardownHookDone, TeardownUnsubscribe, TeardownClose, TeardownEnd
<1>4. CASE ConnectStep
  BY <1>4, <1>t, ConnectEffect DEF RpcInv, CallInv, TypeInv
<1>5. CASE UNCHANGED <<pc, tdPhase>>
  BY <1>5, <1>t
<1>. QED
  BY <1>1, <1>2, <1>3, <1>4, <1>5 DEF Next, vars, Timeout, ExplicitConnect, Respond,
     ServiceNoResponders, RouteMux, ServiceReply, Lose

(* Whoever takes a muxed request out of pending_requests settles it. *)
LEMMA RegisteredStep ==
  ASSUME SvcCalls = {}, RpcInv, [Next]_vars
  PROVE  Registered'
<1>t. /\ pc \in [Calls -> PcStates] /\ fut \in [Calls -> Settled \cup {"none", "pending"}]
      /\ pending \subseteq Ids /\ att \in [Calls -> 0..MaxRetries]
      /\ SweepAtomic /\ Registered /\ PendingLive
  BY DEF RpcInv, CallInv, TypeInv, TypeOK
<1>r. Calls = RpcCalls
  BY DEF Calls
<1>a. "pending" \notin Answers
  BY CallsAssumption DEF Answers
<1>. USE DEF Registered, connVars, svcVars, tdVars
<1>1. ASSUME NEW c \in Calls, TaskStep(c) PROVE Registered'
  <2>0. Id(c) \in Ids /\ Id(c)[1] = c
    BY <1>t, IdType
  <2>1. CASE CallMuxed(c) \/ MuxEnsured(c)
    BY <2>1, <1>t DEF CallMuxed, MuxEnsured, RegisterAndPublish, Finish, Id
  <2>2. CASE Backoff(c)
    BY <2>2, <1>t DEF Backoff, Id
  <2>3. CASE PublishRaises(c)
    <3>1. ASSUME NEW d \in Calls, pc'[d] \in {"publishing", "waiting"}, fut'[d] = "pending"
          PROVE  Id(d) \in pending /\ Id(d) # Id(c) /\ att' = att
      BY <2>3, <3>1, <1>t, <2>0, IdType DEF PublishRaises, Finish
    <3>2. pending' = pending \ {Id(c)}
      BY <2>3 DEF PublishRaises, UnsubscribeAll, DropRequest
    <3>. QED BY <3>1, <3>2 DEF Id
  <2>4. CASE Wake(c)
    <3>1. UNCHANGED <<pending, fut, att>>
      BY <2>4, <1>r DEF Wake
    <3>. QED BY <2>4, <3>1, <1>t DEF Wake, Finish, Id
  <2>5. CASE AutoConnect(c) \/ NotConnected(c) \/ EnsureMux(c) \/ PublishReturns(c)
    BY <2>5, <1>t DEF AutoConnect, NotConnected, EnsureMux, PublishReturns, Finish, Id
  <2>. QED
    BY <1>1, <1>t, <1>r, <2>1, <2>2, <2>3, <2>4, <2>5
       DEF TaskStep, ServiceSubscribe, ServiceInbox, ServicePublish, SweepAtomic
<1>2. ASSUME NEW c \in Calls, Timeout(c) PROVE Registered'
  <2>1. /\ att' = att /\ pc' = pc /\ pending' = pending \ {Id(c)}
        /\ \A d \in Calls : d # c => fut'[d] = fut[d]
        /\ Id(c) \in pending => fut'[c] # "pending"
        /\ Id(c) \notin pending => fut' = fut
    BY <1>2, <1>t DEF Timeout, Settle
  <2>2. \A d \in Calls : Id(d) = Id(c) => d = c
    BY <1>t, IdType
  <2>. QED BY <2>1, <2>2, <1>t DEF Id
<1>3. ASSUME NEW id \in Ids, NEW a \in Answers, RouteMux(id, a) PROVE Registered'
  <2>1. id[1] \in Calls /\ (id \in pending => id = Id(id[1]))
    BY <1>t, IdParts DEF PendingLive, Current
  <2>2. /\ att' = att /\ pc' = pc /\ pending' = pending \ {id}
        /\ \A d \in Calls : d # id[1] => fut'[d] = fut[d]
        /\ id \in pending => fut'[id[1]] # "pending"
        /\ id \notin pending => fut' = fut
    BY <1>3, <1>t, <1>a, <2>1 DEF RouteMux, Settle
  <2>3. \A d \in Calls : Id(d) = id => d = id[1]
    BY <1>t, IdType
  <2>. QED BY <2>1, <2>2, <2>3, <1>t DEF Id
<1>4. ASSUME NEW id \in Ids,
             ServiceNoResponders(id) \/ \E a \in Answers : ServiceReply(id, a)
      PROVE  Registered'
  <2>1. id[1] \in Calls /\ \A d \in Calls : Id(d) = id => d = id[1]
    BY <1>t, IdParts, IdType
  <2>2. att' = att /\ pc' = pc
    BY <1>4 DEF ServiceNoResponders, ServiceReply
  <2>3. \/ UNCHANGED <<pending, fut>>
        \/ /\ pending' = pending \ {id}
           /\ \A d \in Calls : d # id[1] => fut'[d] = fut[d]
           /\ fut'[id[1]] # "pending"
    BY <1>4, <1>t, <1>a, <2>1 DEF ServiceNoResponders, ServiceReply, Settle, UnsubscribeAll,
       DropRequest
  <2>. QED BY <2>1, <2>2, <2>3, <1>t DEF Id
<1>5. ASSUME NEW kind \in {"disconnect", "suspend"}, TeardownStart(kind) PROVE Registered'
  <2>1. /\ SettleClosed(pending \cup {}) /\ UNCHANGED <<pc, att>>
    <3>1. \A id \in pending : id[1] \notin SvcCalls
      OBVIOUS
    <3>. QED BY <1>5, <3>1 DEF TeardownStart, SweepRun, HookAwaits
  <2>2. \A d \in Calls : Id(d) \in pending => fut'[d] # "pending"
    BY <2>1 DEF SettleClosed
  <2>3. \A d \in Calls : Id(d) \notin pending => fut'[d] = fut[d]
    BY <2>1 DEF SettleClosed
  <2>. QED BY <2>1, <2>2, <2>3, <1>t
<1>6. CASE UNCHANGED <<pending, fut, att>>
           /\ \A d \in Calls : pc'[d] \in {"publishing", "waiting"} => pc'[d] = pc[d]
  BY <1>6, <1>t DEF Id
<1>7. CASE ConnectStep
  BY <1>6, <1>7, <1>t, ConnectEffect DEF RpcInv, CallInv, TypeInv
<1>. QED
  BY <1>1, <1>2, <1>3, <1>4, <1>5, <1>6, <1>7, <1>t DEF Next, vars, ExplicitConnect, Respond, Lose, TeardownStep, TeardownHookDone, TeardownUnsubscribe,
     TeardownClose, TeardownEnd, SweepAtomic

(* Every muxed call a teardown or the dispatcher meets is settled: no caller
   is left without its timer, the dispatcher or the sweep to wake it.  With
   service calls the same statement fails (run calls_lost). *)
THEOREM NoMuxedCallIsLost ==
  ASSUME SvcCalls = {}
  PROVE  Spec => []NoLostCall
<1>1. Init => RpcInv
  BY CallInit DEF Init, RpcInv, SweepAtomic, Registered
<1>2. RpcInv /\ [Next]_vars => RpcInv'
  BY CallStep, SweepAtomicStep, RegisteredStep DEF RpcInv
<1>3. RpcInv => NoLostCall
  <2>. SUFFICES ASSUME RpcInv, NEW c \in Calls, InFlight(c), fut[c] = "pending"
                PROVE  Id(c) \in pending /\ timer[c]
    BY DEF NoLostCall
  <2>1. Id(c) \in pending
    BY DEF RpcInv, SweepAtomic, Registered, InFlight
  <2>2. Id(c)[1] = c
    BY IdType DEF RpcInv, CallInv, TypeInv, TypeOK
  <2>. QED BY <2>1, <2>2 DEF RpcInv, CallInv, PendingLive
<1>. QED BY <1>1, <1>2, <1>3, PTL DEF Spec

-----------------------------------------------------------------------------
(* What is executed, and what is not.  A call is retried only when its attempt was
   answered with "no responders", so whatever was sent and not refused belongs to
   the attempt the call is in now, or, when a handler's own error looked like that,
   to an earlier one that ran; and a refusal takes the request off the wire. *)

Repeats == "err503" \in ErrKinds

(* The answers of a handler come from a run of it; a call is told its outcome when
   it is over, and sleeps only after what looked like "no responders". *)
Handled == {"ok"} \cup ErrKinds

RanInv ==
    /\ \A id \in Ids, a \in Handled : <<id, a>> \in net => id \in ran
    /\ \A c \in Calls :
        /\ fut[c] \in Handled => Id(c) \in ran
        /\ pc[c] # "done" => outcome[c] = "none"
        /\ pc[c] = "backoff" => fut[c] \in {"noresp", "err503"}

(* A step that delivers no answer. *)
LEMMA QuietRan ==
  ASSUME RanInv, att' = att, ran \subseteq ran',
         \A id \in Ids, a \in Handled : <<id, a>> \in net' => <<id, a>> \in net,
         \A c \in Calls : /\ fut'[c] = fut[c] \/ fut'[c] \notin Handled
                          /\ pc'[c] # "done" => pc[c] # "done" /\ outcome'[c] = outcome[c]
                          /\ pc'[c] = "backoff" => fut'[c] \in {"noresp", "err503"}
  PROVE  RanInv'
  BY DEF RanInv, Id

(* The steps of a call's task. *)
LEMMA TaskRan ==
  ASSUME CallInv, RanInv, NEW c \in Calls, TaskStep(c)
  PROVE  RanInv'
<1>t. /\ pc \in [Calls -> PcStates] /\ fut \in [Calls -> Settled \cup {"none", "pending"}]
      /\ att \in [Calls -> 0..MaxRetries] /\ outcome \in [Calls -> Outcomes]
  BY DEF CallInv, TypeInv, TypeOK
<1>h. "req" \notin Handled /\ "pending" \notin Handled /\ "none" \notin Handled
  BY CallsAssumption DEF Handled
<1>. USE DEF connVars, svcVars, tdVars
<1>1. CASE \/ AutoConnect(c) \/ NotConnected(c) \/ EnsureMux(c) \/ ServiceInbox(c) \/ PublishReturns(c)
           \/ ServicePublish(c) \/ PublishRaises(c)
  <2>1. UNCHANGED <<att, fut, ran>>
    BY <1>1 DEF AutoConnect, NotConnected, EnsureMux, ServiceInbox, PublishReturns, ServicePublish, PublishRaises
  <2>2. \A id \in Ids, a \in Handled : <<id, a>> \in net' => <<id, a>> \in net
    BY <1>1, <1>h DEF AutoConnect, NotConnected, EnsureMux, ServiceInbox, PublishReturns, ServicePublish,
       PublishRaises
  <2>3. \A d \in Calls : d # c => pc'[d] = pc[d] /\ outcome'[d] = outcome[d]
    BY <1>1, <1>t DEF AutoConnect, NotConnected, EnsureMux, ServiceInbox, PublishReturns, ServicePublish,
       PublishRaises, Finish
  <2>4. pc[c] # "done" /\ pc'[c] # "backoff" /\ (pc'[c] = "done" \/ outcome' = outcome)
    BY <1>1, <1>t DEF AutoConnect, NotConnected, EnsureMux, ServiceInbox, PublishReturns, ServicePublish,
       PublishRaises, Finish, PastConnect, Starting
  <2>. QED BY <2>1, <2>2, <2>3, <2>4, QuietRan DEF RanInv
<1>2. CASE CallMuxed(c) \/ MuxEnsured(c) \/ ServiceSubscribe(c)
  <2>1. UNCHANGED <<att, ran>>
    BY <1>2 DEF CallMuxed, MuxEnsured, ServiceSubscribe
  <2>2. \A id \in Ids, a \in Handled : <<id, a>> \in net' => <<id, a>> \in net
    BY <1>2, <1>h DEF CallMuxed, MuxEnsured, ServiceSubscribe, RegisterAndPublish
  <2>3. \A d \in Calls : d # c => pc'[d] = pc[d] /\ outcome'[d] = outcome[d] /\ fut'[d] = fut[d]
    BY <1>2, <1>t DEF CallMuxed, MuxEnsured, ServiceSubscribe, RegisterAndPublish, Finish
  <2>4. /\ pc[c] # "done" /\ pc'[c] # "backoff" /\ (pc'[c] = "done" \/ outcome' = outcome)
        /\ fut'[c] = fut[c] \/ fut'[c] = "pending"
    BY <1>2, <1>t DEF CallMuxed, MuxEnsured, ServiceSubscribe, RegisterAndPublish, Finish, PastConnect, Starting
  <2>. QED BY <1>h, <2>1, <2>2, <2>3, <2>4, QuietRan DEF RanInv
<1>3. CASE Wake(c)
  <2>1. UNCHANGED <<att, ran, fut, net>> /\ pc[c] = "waiting"
    BY <1>3 DEF Wake
  <2>2. \A d \in Calls : d # c => pc'[d] = pc[d] /\ outcome'[d] = outcome[d]
    BY <1>3, <1>t DEF Wake, Finish
  <2>3. \/ pc'[c] = "done"
        \/ pc'[c] = "backoff" /\ outcome' = outcome /\ fut[c] \in {"noresp", "err503"}
    BY <1>3, <1>t DEF Wake, Finish, Retries
  <2>. QED BY <2>1, <2>2, <2>3, QuietRan DEF RanInv
<1>4. CASE Backoff(c)
  <2>1. /\ pc[c] = "backoff" /\ UNCHANGED <<net, ran, outcome>>
        /\ pc'[c] = "retry" /\ fut'[c] = "none"
        /\ \A d \in Calls : d # c => att'[d] = att[d] /\ pc'[d] = pc[d] /\ fut'[d] = fut[d]
    BY <1>4, <1>t DEF Backoff
  <2>. QED BY <2>1, <1>h DEF RanInv, Id
<1>. QED
  BY <1>1, <1>2, <1>3, <1>4 DEF TaskStep

(* An answer settles the attempt that its id names. *)
LEMMA AnswerRan ==
  ASSUME CallInv, RanInv, NEW id \in Ids, NEW a \in Answers, Current(id), UNCHANGED <<pc, att, ran, outcome>>,
         net' \subseteq net, <<id, a>> \in net, Settle(id[1], a, id[2])
  PROVE  RanInv'
<1>1. fut \in [Calls -> Settled \cup {"none", "pending"}] /\ id[1] \in Calls /\ Id(id[1]) = id
  BY IdParts DEF CallInv, TypeInv, TypeOK, Current
<1>2. \A d \in Calls : d # id[1] => fut'[d] = fut[d]
  BY <1>1 DEF Settle
<1>3. fut'[id[1]] = fut[id[1]] \/ (fut[id[1]] = "pending" /\ fut'[id[1]] = a)
  BY <1>1 DEF Settle
<1>4. a \in Handled => id \in ran
  BY DEF RanInv
<1>5. \A d \in Calls : pc[d] = "backoff" => fut[d] # "pending"
  BY DEF RanInv
<1>6. \A d \in Calls : Id(d)' = Id(d)
  BY DEF Id
<1>7. \A d \in Calls : (fut'[d] \in Handled => Id(d) \in ran) /\ (pc[d] = "backoff" => fut'[d] = fut[d])
  BY <1>1, <1>2, <1>3, <1>4, <1>5 DEF RanInv
<1>. QED BY <1>6, <1>7 DEF RanInv

(* Connecting, timers, answers and losses. *)
LEMMA EventRan ==
  ASSUME CallInv, RanInv,
         \/ \E c \in Calls : Timeout(c)
         \/ ExplicitConnect \/ ConnectStep
         \/ \E id \in Ids : Respond(id) \/ ServiceNoResponders(id)
         \/ \E id \in Ids, a \in Answers : RouteMux(id, a) \/ ServiceReply(id, a)
         \/ \E m \in net : Lose(m)
  PROVE  RanInv'
<1>t. /\ pc \in [Calls -> PcStates] /\ outcome \in [Calls -> Outcomes]
      /\ fut \in [Calls -> Settled \cup {"none", "pending"}] /\ att \in [Calls -> 0..MaxRetries]
  BY DEF CallInv, TypeInv, TypeOK
<1>h. "req" \notin Handled /\ "timeout" \notin Handled /\ "noresp" \notin Handled /\ "noresp" \in Answers
  BY CallsAssumption DEF Handled, Answers
<1>q. ASSUME UNCHANGED <<pc, att, fut, ran, outcome>>, net' \subseteq net
      PROVE  RanInv'
  BY <1>q, QuietRan DEF RanInv
<1>. USE DEF connVars, svcVars, tdVars
<1>1. ASSUME NEW c \in Calls, Timeout(c)
      PROVE  RanInv'
  <2>1. UNCHANGED <<pc, att, net, ran, outcome>>
    BY <1>1 DEF Timeout
  <2>2. \A d \in Calls : fut'[d] = fut[d] \/ (fut[d] = "pending" /\ fut'[d] = "timeout")
    BY <1>1, <1>t DEF Timeout, Settle
  <2>3. \A d \in Calls : pc[d] = "backoff" => fut'[d] = fut[d]
    BY <2>2 DEF RanInv
  <2>. QED BY <1>h, <2>1, <2>2, <2>3, QuietRan DEF RanInv
<1>2. CASE ExplicitConnect
  BY <1>2, <1>q DEF ExplicitConnect
<1>3. CASE ConnectStep
  <2>0. TypeOK
    BY DEF CallInv, TypeInv
  <2>1. UNCHANGED <<att, fut, net, ran>>
    BY <1>3, <2>0, ConnectEffect
  <2>2. \A d \in Calls : pc[d] # "connecting" => pc'[d] = pc[d] /\ outcome'[d] = outcome[d]
    BY <1>3, <2>0, ConnectEffect
  <2>3. \A d \in Calls : pc[d] = "connecting" =>
           \/ pc'[d] = "done"
           \/ pc'[d] \in {"connecting", "connected"} /\ outcome'[d] = outcome[d]
    BY <1>3, <2>0, ConnectEffect
  <2>. QED BY <2>1, <2>2, <2>3, QuietRan DEF RanInv
<1>4. ASSUME NEW id \in Ids, Respond(id)
      PROVE  RanInv'
  <2>1. UNCHANGED <<pc, att, fut, outcome>> /\ ran \subseteq ran'
    BY <1>4 DEF Respond
  <2>2. \A q \in Ids, a \in Handled : <<q, a>> \in net' => <<q, a>> \in net \/ q \in ran'
    BY <1>4, <1>h DEF Respond
  <2>3. \A d \in Calls : Id(d)' = Id(d)
    BY <2>1 DEF Id
  <2>. QED BY <2>1, <2>2, <2>3 DEF RanInv
<1>5. ASSUME NEW id \in Ids, ServiceNoResponders(id)
      PROVE  RanInv'
  BY <1>5, <1>h, AnswerRan DEF ServiceNoResponders
<1>6. ASSUME NEW id \in Ids, NEW a \in Answers, RouteMux(id, a) \/ ServiceReply(id, a)
      PROVE  RanInv'
  <2>1. UNCHANGED <<pc, att, ran, outcome>> /\ net' \subseteq net /\ <<id, a>> \in net
    BY <1>6 DEF RouteMux, ServiceReply
  <2>2. CASE id \in pending
    <3>1. Current(id) /\ Settle(id[1], a, id[2])
      BY <1>6, <2>2 DEF CallInv, PendingLive, RouteMux, ServiceReply
    <3>. QED BY <2>1, <3>1, AnswerRan
  <2>3. CASE id \notin pending
    BY <1>6, <1>q, <2>1, <2>3 DEF RouteMux, ServiceReply
  <2>. QED BY <2>2, <2>3
<1>7. ASSUME NEW m \in net, Lose(m)
      PROVE  RanInv'
  BY <1>7, <1>q DEF Lose
<1>. QED BY <1>1, <1>2, <1>3, <1>4, <1>5, <1>6, <1>7

(* The steps of disconnect() and suspend(). *)
LEMMA TeardownRan ==
  ASSUME CallInv, RanInv, (\E kind \in {"disconnect", "suspend"} : TeardownStart(kind)) \/ TeardownStep
  PROVE  RanInv'
<1>1. UNCHANGED <<pc, att, net, ran, outcome>>
  BY DEF TeardownStart, TeardownStep, TeardownHookDone, TeardownUnsubscribe, TeardownClose, TeardownEnd
<1>2. fut' = fut \/ \E ids : SettleClosed(ids)
  BY DEF TeardownStart, TeardownStep, TeardownHookDone, TeardownUnsubscribe, TeardownClose, TeardownEnd, SweepRun
<1>3. \A c \in Calls : fut'[c] = fut[c] \/ (fut[c] = "pending" /\ fut'[c] = "closed")
  BY <1>2 DEF SettleClosed
<1>4. "closed" \notin Handled
  BY CallsAssumption DEF Handled
<1>5. \A c \in Calls : pc[c] = "backoff" => fut'[c] = fut[c]
  BY <1>3 DEF RanInv
<1>. QED BY <1>1, <1>3, <1>4, <1>5, QuietRan DEF RanInv

Out == {"publishing", "waiting", "backoff", "done"}

Sent(c, k) == <<c, k>> \in ran \/ <<<<c, k>>, "req">> \in net
Refused(c, k) == <<<<c, k>>, "noresp">> \in net

SentAt(c, k) ==
    /\ Sent(c, k) => /\ ~Refused(c, k)
                     /\ (k = att[c] /\ pc[c] \in Out /\ fut[c] # "noresp")
                          \/ (k < att[c] /\ Repeats /\ <<c, k>> \in ran)
    /\ Refused(c, k) => k < att[c] \/ (k = att[c] /\ pc[c] \in Out)

SentInv == \A c \in Calls, k \in 0..MaxRetries : SentAt(c, k)

RefusedInv ==
    \A c \in Calls :
        /\ pc[c] = "backoff" => fut[c] = "noresp" \/ Repeats
        /\ pc[c] \notin Out => fut[c] # "noresp"
        /\ outcome[c] = "noresp" => pc[c] = "done" /\ fut[c] = "noresp"

NoRespInv == CallInv /\ RanInv /\ SentInv /\ RefusedInv

(* A step that sends nothing, refuses nothing and starts no attempt. *)
LEMMA QuietNoResp ==
  ASSUME NoRespInv, att' = att, ran \subseteq ran',
         \A c \in Calls : /\ pc[c] \in Out => pc'[c] \in Out
                          /\ pc'[c] = "backoff" => fut[c] = "noresp" \/ Repeats
                          /\ fut'[c] = "noresp" <=> fut[c] = "noresp"
                          /\ outcome'[c] = "noresp" => pc'[c] = "done" /\ fut[c] = "noresp",
         \A c \in Calls, k \in 0..MaxRetries :
              (Sent(c, k)' => Sent(c, k)) /\ (Refused(c, k)' => Refused(c, k))
  PROVE  SentInv' /\ RefusedInv'
  BY DEF NoRespInv, SentInv, SentAt, RefusedInv

(* A first publish of the attempt a call is in. *)
LEMMA SendNoResp ==
  ASSUME NoRespInv, NEW c \in Calls, UNCHANGED <<att, ran, outcome>>, pc[c] \notin Out,
         net' = net \cup {<<Id(c), "req">>}, pc' = [pc EXCEPT ![c] = "publishing"],
         \A d \in Calls : fut'[d] = fut[d] \/ (d = c /\ fut'[d] = "pending")
  PROVE  SentInv' /\ RefusedInv'
<1>t. pc \in [Calls -> PcStates] /\ att \in [Calls -> 0..MaxRetries] /\ Id(c) = <<c, att[c]>>
  BY DEF NoRespInv, CallInv, TypeInv, TypeOK, Id
<1>1. \A d \in Calls, k \in 0..MaxRetries :
         /\ Sent(d, k)' => Sent(d, k) \/ (d = c /\ k = att[c])
         /\ Refused(d, k)' => Refused(d, k)
  BY <1>t DEF Sent, Refused
<1>2. ~Refused(c, att[c]) /\ fut[c] # "noresp" /\ outcome[c] # "noresp"
  BY <1>t, CallsAssumption DEF NoRespInv, SentInv, SentAt, RefusedInv, Out
<1>3. pc'[c] = "publishing" /\ \A d \in Calls : d # c => pc'[d] = pc[d]
  BY <1>t
<1>4. SentInv'
  BY <1>1, <1>2, <1>3 DEF NoRespInv, SentInv, SentAt, RefusedInv, Out
<1>5. RefusedInv'
  BY <1>2, <1>3 DEF NoRespInv, RefusedInv, Out
<1>. QED BY <1>4, <1>5

(* The steps of a call's task. *)
LEMMA TaskNoResp ==
  ASSUME NoRespInv, NEW c \in Calls, TaskStep(c)
  PROVE  SentInv' /\ RefusedInv'
<1>t. /\ pc \in [Calls -> PcStates] /\ fut \in [Calls -> Settled \cup {"none", "pending"}]
      /\ att \in [Calls -> 0..MaxRetries] /\ outcome \in [Calls -> Outcomes]
  BY DEF NoRespInv, CallInv, TypeInv, TypeOK
<1>. USE DEF connVars, svcVars, tdVars
<1>1. CASE AutoConnect(c) \/ NotConnected(c) \/ EnsureMux(c) \/ ServiceInbox(c) \/ PublishReturns(c)
  <2>1. UNCHANGED <<att, fut, net, ran>>
    BY <1>1 DEF AutoConnect, NotConnected, EnsureMux, ServiceInbox, PublishReturns
  <2>2. \A d \in Calls : d # c => pc'[d] = pc[d] /\ outcome'[d] = outcome[d]
    BY <1>1, <1>t DEF AutoConnect, NotConnected, EnsureMux, ServiceInbox, PublishReturns, Finish
  <2>3. /\ pc[c] \in Out => pc'[c] \in Out
        /\ pc'[c] # "backoff" /\ outcome'[c] # "noresp"
    BY <1>1, <1>t DEF NoRespInv, RefusedInv, AutoConnect, NotConnected, EnsureMux, ServiceInbox,
       PublishReturns, Finish, PastConnect, Starting, Out
  <2>4. \A d \in Calls, k \in 0..MaxRetries : Sent(d, k)' = Sent(d, k) /\ Refused(d, k)' = Refused(d, k)
    BY <2>1 DEF Sent, Refused
  <2>. QED BY <2>1, <2>2, <2>3, <2>4, QuietNoResp DEF NoRespInv, RefusedInv
<1>2. CASE CallMuxed(c) \/ MuxEnsured(c)
  <2>1. pc[c] \notin Out /\ RegisterAndPublish(c) /\ UNCHANGED <<att, ran>>
    BY <1>2 DEF CallMuxed, MuxEnsured, PastConnect, Starting, Out
  <2>2. CASE IsConnected
    <3>1. /\ net' = net \cup {<<Id(c), "req">>} /\ pc' = [pc EXCEPT ![c] = "publishing"]
          /\ outcome' = outcome /\ fut' = [fut EXCEPT ![c] = "pending"]
      BY <2>1, <2>2 DEF RegisterAndPublish
    <3>2. \A d \in Calls : fut'[d] = fut[d] \/ (d = c /\ fut'[d] = "pending")
      BY <1>t, <3>1
    <3>. QED BY <2>1, <3>1, <3>2, SendNoResp
  <2>3. CASE ~IsConnected
    <3>1. Finish(c, "raised") /\ UNCHANGED <<fut, net>>
      BY <2>1, <2>3 DEF RegisterAndPublish
    <3>2. \A d \in Calls : d # c => pc'[d] = pc[d] /\ outcome'[d] = outcome[d]
      BY <1>t, <3>1 DEF Finish
    <3>3. pc'[c] = "done" /\ outcome'[c] = "raised"
      BY <1>t, <3>1 DEF Finish
    <3>4. \A d \in Calls, k \in 0..MaxRetries : Sent(d, k)' = Sent(d, k) /\ Refused(d, k)' = Refused(d, k)
      BY <2>1, <3>1 DEF Sent, Refused
    <3>. QED BY <2>1, <3>1, <3>2, <3>3, <3>4, QuietNoResp DEF NoRespInv, RefusedInv, Out
  <2>. QED BY <2>2, <2>3
<1>3. CASE ServiceSubscribe(c)
  <2>1. pc[c] \notin Out /\ UNCHANGED <<att, net, ran>> /\ fut' = [fut EXCEPT ![c] = "pending"]
    BY <1>3 DEF ServiceSubscribe, PastConnect, Starting, Out
  <2>2. \A d \in Calls : d # c => pc'[d] = pc[d] /\ outcome'[d] = outcome[d] /\ fut'[d] = fut[d]
    BY <1>3, <1>t DEF ServiceSubscribe, Finish
  <2>3. fut[c] # "noresp" /\ fut'[c] # "noresp" /\ outcome[c] # "noresp"
    BY <1>t, <2>1 DEF NoRespInv, RefusedInv, Out
  <2>4. pc'[c] # "backoff" /\ outcome'[c] # "noresp"
    BY <1>3, <1>t, <2>3 DEF ServiceSubscribe, Finish
  <2>5. \A d \in Calls, k \in 0..MaxRetries : Sent(d, k)' = Sent(d, k) /\ Refused(d, k)' = Refused(d, k)
    BY <2>1 DEF Sent, Refused
  <2>. QED BY <2>1, <2>2, <2>3, <2>4, <2>5, QuietNoResp DEF NoRespInv, RefusedInv
<1>4. CASE ServicePublish(c) \/ PublishRaises(c)
  <2>1. UNCHANGED <<att, fut, ran>>
    BY <1>4 DEF ServicePublish, PublishRaises
  <2>2. CASE net' = net \cup {<<Id(c), "req">>} /\ pc' = [pc EXCEPT ![c] = "publishing"] /\ ServicePublish(c)
    <3>1. pc[c] \notin Out
      BY <2>2 DEF ServicePublish, Out
    <3>2. outcome' = outcome
      BY <1>t, <2>2 DEF ServicePublish, Finish
    <3>. QED BY <2>1, <2>2, <3>1, <3>2, SendNoResp
  <2>3. CASE Finish(c, "raised") /\ net' \subseteq net
    <3>1. \A d \in Calls : d # c => pc'[d] = pc[d] /\ outcome'[d] = outcome[d]
      BY <1>t, <2>3 DEF Finish
    <3>2. pc'[c] = "done" /\ outcome'[c] = "raised"
      BY <1>t, <2>3 DEF Finish
    <3>3. \A d \in Calls, k \in 0..MaxRetries :
            (Sent(d, k)' => Sent(d, k)) /\ (Refused(d, k)' => Refused(d, k))
      BY <2>1, <2>3 DEF Sent, Refused
    <3>. QED BY <2>1, <3>1, <3>2, <3>3, QuietNoResp DEF NoRespInv, RefusedInv, Out
  <2>. QED BY <1>4, <2>2, <2>3 DEF ServicePublish, PublishRaises
<1>5. CASE Wake(c)
  <2>1. UNCHANGED <<att, fut, net, ran>> /\ pc[c] = "waiting"
    BY <1>5 DEF Wake
  <2>2. \A d \in Calls : d # c => pc'[d] = pc[d] /\ outcome'[d] = outcome[d]
    BY <1>5, <1>t DEF Wake, Finish
  <2>3. outcome[c] # "noresp" /\ (fut[c] = "err503" => Repeats)
    BY <1>t, <2>1, CallsAssumption DEF NoRespInv, RefusedInv, Settled, Answers, Repeats
  <2>4. \/ pc'[c] = "backoff" /\ (fut[c] = "noresp" \/ Repeats) /\ outcome'[c] = outcome[c]
        \/ pc'[c] = "done" /\ outcome'[c] = fut[c]
    BY <1>5, <1>t, <2>3 DEF Wake, Retries, Finish
  <2>5. \A d \in Calls, k \in 0..MaxRetries : Sent(d, k)' = Sent(d, k) /\ Refused(d, k)' = Refused(d, k)
    BY <2>1 DEF Sent, Refused
  <2>. QED BY <2>1, <2>2, <2>3, <2>4, <2>5, QuietNoResp DEF NoRespInv, RefusedInv, Out
<1>6. CASE Backoff(c)
  <2>1. /\ pc[c] = "backoff" /\ UNCHANGED <<net, ran, outcome>>
        /\ att'[c] = att[c] + 1 /\ pc'[c] = "retry" /\ fut'[c] = "none"
        /\ \A d \in Calls : d # c => att'[d] = att[d] /\ pc'[d] = pc[d] /\ fut'[d] = fut[d]
    BY <1>6, <1>t DEF Backoff
  <2>2. \A d \in Calls, k \in 0..MaxRetries : Sent(d, k)' = Sent(d, k) /\ Refused(d, k)' = Refused(d, k)
    BY <2>1 DEF Sent, Refused
  <2>3. (fut[c] = "noresp" \/ (Repeats /\ <<c, att[c]>> \in ran)) /\ outcome[c] # "noresp" /\ att[c] \in Nat
    BY <1>t, <2>1, CallsAssumption DEF NoRespInv, RanInv, RefusedInv, Settled, Answers, Handled, Repeats, Id
  <2>4. \A k \in 0..MaxRetries : /\ Sent(c, k) => k < att[c] + 1 /\ Repeats /\ <<c, k>> \in ran
                                 /\ Refused(c, k) => k < att[c] + 1
    BY <2>1, <2>3, CallsAssumption DEF NoRespInv, SentInv, SentAt
  <2>5. SentInv'
    BY <2>1, <2>2, <2>4 DEF NoRespInv, SentInv, SentAt
  <2>6. RefusedInv'
    BY <2>1, <2>3 DEF NoRespInv, RefusedInv
  <2>. QED BY <2>5, <2>6
<1>. QED
  BY <1>1, <1>2, <1>3, <1>4, <1>5, <1>6 DEF TaskStep

(* An answer settles the future it belongs to: "no responders" only when the
   attempt was refused. *)
LEMMA AnswerNoResp ==
  ASSUME NoRespInv, NEW id \in Ids, NEW a, Current(id), UNCHANGED <<pc, att, ran, outcome>>,
         net' \subseteq net, a = "noresp" => <<id, "noresp">> \in net,
         Settle(id[1], a, id[2])
  PROVE  SentInv' /\ RefusedInv'
<1>t. /\ fut \in [Calls -> Settled \cup {"none", "pending"}] /\ att \in [Calls -> 0..MaxRetries]
      /\ id[1] \in Calls /\ id[2] = att[id[1]] /\ id = <<id[1], id[2]>>
  BY IdParts DEF NoRespInv, CallInv, TypeInv, TypeOK, Current, Id
<1>1. \A d \in Calls, k \in 0..MaxRetries :
         (Sent(d, k)' => Sent(d, k)) /\ (Refused(d, k)' => Refused(d, k))
  BY DEF Sent, Refused
<1>2. CASE fut[id[1]] = "pending" /\ a = "noresp"
  <2>1. \A d \in Calls : d # id[1] => fut'[d] = fut[d]
    BY <1>t, <1>2 DEF Settle
  <2>2. fut'[id[1]] = "noresp"
    BY <1>t, <1>2 DEF Settle
  <2>3. Refused(id[1], att[id[1]])
    BY <1>t, <1>2 DEF Refused
  <2>4. pc[id[1]] \in Out /\ ~Sent(id[1], att[id[1]])
    BY <1>t, <2>3, CallsAssumption DEF NoRespInv, SentInv, SentAt
  <2>5. SentInv'
    BY <1>t, <1>1, <2>1, <2>4 DEF NoRespInv, SentInv, SentAt
  <2>6. RefusedInv'
    BY <1>t, <2>1, <2>2, <2>4 DEF NoRespInv, RefusedInv
  <2>. QED BY <2>5, <2>6
<1>3. CASE ~(fut[id[1]] = "pending" /\ a = "noresp")
  <2>1. \A d \in Calls : fut'[d] = "noresp" <=> fut[d] = "noresp"
    BY <1>t, <1>3 DEF Settle
  <2>. QED BY <1>1, <2>1, QuietNoResp DEF NoRespInv, RefusedInv
<1>. QED BY <1>2, <1>3

(* Connecting, timers, answers and losses. *)
LEMMA EventNoResp ==
  ASSUME NoRespInv,
         \/ \E c \in Calls : Timeout(c)
         \/ ExplicitConnect \/ ConnectStep
         \/ \E id \in Ids : Respond(id) \/ ServiceNoResponders(id)
         \/ \E id \in Ids, a \in Answers : RouteMux(id, a) \/ ServiceReply(id, a)
         \/ \E m \in net : Lose(m)
  PROVE  SentInv' /\ RefusedInv'
<1>t. /\ pc \in [Calls -> PcStates] /\ outcome \in [Calls -> Outcomes]
      /\ fut \in [Calls -> Settled \cup {"none", "pending"}] /\ att \in [Calls -> 0..MaxRetries]
      /\ CallInv
  BY DEF NoRespInv, CallInv, TypeInv, TypeOK
<1>q. ASSUME UNCHANGED <<pc, att, fut, ran, outcome>>, net' \subseteq net
      PROVE  SentInv' /\ RefusedInv'
  <2>1. \A d \in Calls, k \in 0..MaxRetries :
           (Sent(d, k)' => Sent(d, k)) /\ (Refused(d, k)' => Refused(d, k))
    BY <1>q DEF Sent, Refused
  <2>. QED BY <1>q, <2>1, QuietNoResp DEF NoRespInv, RefusedInv
<1>. USE DEF connVars, svcVars, tdVars
<1>1. ASSUME NEW c \in Calls, Timeout(c)
      PROVE  SentInv' /\ RefusedInv'
  <2>1. UNCHANGED <<pc, att, net, ran, outcome>>
    BY <1>1 DEF Timeout
  <2>2. \A d \in Calls : fut'[d] = "noresp" <=> fut[d] = "noresp"
    BY <1>1, <1>t DEF Timeout, Settle
  <2>3. \A d \in Calls, k \in 0..MaxRetries : Sent(d, k)' = Sent(d, k) /\ Refused(d, k)' = Refused(d, k)
    BY <2>1 DEF Sent, Refused
  <2>. QED BY <2>1, <2>2, <2>3, QuietNoResp DEF NoRespInv, RefusedInv
<1>2. CASE ExplicitConnect
  BY <1>2, <1>q DEF ExplicitConnect
<1>3. CASE ConnectStep
  <2>0. TypeOK
    BY <1>t DEF CallInv, TypeInv
  <2>1. UNCHANGED <<att, fut, net, ran>>
    BY <1>3, <2>0, ConnectEffect
  <2>2. \A d \in Calls : pc[d] # "connecting" => pc'[d] = pc[d] /\ outcome'[d] = outcome[d]
    BY <1>3, <2>0, ConnectEffect
  <2>3. \A d \in Calls : pc[d] = "connecting" =>
           /\ pc'[d] \in {"connecting", "connected", "done"}
           /\ outcome'[d] = outcome[d] \/ outcome'[d] = "raised"
    BY <1>3, <2>0, ConnectEffect
  <2>4. \A d \in Calls, k \in 0..MaxRetries : Sent(d, k)' = Sent(d, k) /\ Refused(d, k)' = Refused(d, k)
    BY <2>1 DEF Sent, Refused
  <2>. QED BY <2>1, <2>2, <2>3, <2>4, QuietNoResp DEF NoRespInv, RefusedInv, Out
<1>4. ASSUME NEW id \in Ids, Respond(id)
      PROVE  SentInv' /\ RefusedInv'
  <2>0. id[1] \in Calls /\ id[2] \in 0..MaxRetries /\ id = <<id[1], id[2]>> /\ "noresp" \notin {"ok"} \cup ErrKinds
    BY IdParts, CallsAssumption
  <2>1. UNCHANGED <<pc, att, fut, outcome>> /\ ran \subseteq ran' /\ Sent(id[1], id[2])
    BY <1>4, <2>0 DEF Respond, Sent
  <2>2. \A d \in Calls, k \in 0..MaxRetries : <<d, k>> # id =>
           (Sent(d, k)' => Sent(d, k)) /\ (Refused(d, k)' => Refused(d, k))
    BY <1>4 DEF Respond, Sent, Refused
  <2>3. Sent(id[1], id[2])' /\ Refused(id[1], id[2])' => Refused(id[1], id[2])
    BY <1>4, <2>0 DEF Respond, Sent, Refused
  <2>4. ASSUME NEW d \in Calls, NEW k \in 0..MaxRetries  PROVE SentAt(d, k)'
    <3>1. CASE <<d, k>> # id
      BY <2>1, <2>2, <3>1 DEF NoRespInv, SentInv, SentAt
    <3>2. CASE <<d, k>> = id
      <4>1. d = id[1] /\ k = id[2]
        BY <3>2
      <4>2. /\ ~Refused(d, k)
            /\ (k = att[d] /\ pc[d] \in Out /\ fut[d] # "noresp") \/ (k < att[d] /\ Repeats /\ <<d, k>> \in ran)
        BY <2>1, <4>1 DEF NoRespInv, SentInv, SentAt
      <4>. QED BY <2>1, <2>3, <4>1, <4>2 DEF NoRespInv, SentInv, SentAt
    <3>. QED BY <3>1, <3>2
  <2>5. SentInv'
    BY <2>4 DEF SentInv
  <2>6. RefusedInv'
    BY <2>1 DEF NoRespInv, RefusedInv
  <2>. QED BY <2>5, <2>6
<1>5. ASSUME NEW id \in Ids, ServiceNoResponders(id)
      PROVE  SentInv' /\ RefusedInv'
  BY <1>5, AnswerNoResp DEF ServiceNoResponders
<1>6. ASSUME NEW id \in Ids, NEW a \in Answers, RouteMux(id, a) \/ ServiceReply(id, a)
      PROVE  SentInv' /\ RefusedInv'
  <2>1. UNCHANGED <<pc, att, ran, outcome>> /\ net' \subseteq net /\ <<id, a>> \in net
    BY <1>6 DEF RouteMux, ServiceReply
  <2>2. CASE id \in pending
    <3>1. Current(id) /\ Settle(id[1], a, id[2])
      BY <1>6, <1>t, <2>2 DEF CallInv, PendingLive, RouteMux, ServiceReply
    <3>. QED BY <2>1, <3>1, AnswerNoResp
  <2>3. CASE id \notin pending
    BY <1>6, <1>q, <2>1, <2>3 DEF RouteMux, ServiceReply
  <2>. QED BY <2>2, <2>3
<1>7. ASSUME NEW m \in net, Lose(m)
      PROVE  SentInv' /\ RefusedInv'
  BY <1>7, <1>q DEF Lose
<1>. QED BY <1>1, <1>2, <1>3, <1>4, <1>5, <1>6, <1>7

(* The steps of disconnect() and suspend(). *)
LEMMA TeardownNoResp ==
  ASSUME NoRespInv, (\E kind \in {"disconnect", "suspend"} : TeardownStart(kind)) \/ TeardownStep
  PROVE  SentInv' /\ RefusedInv'
<1>1. UNCHANGED <<pc, att, net, ran, outcome>>
  BY DEF TeardownStart, TeardownStep, TeardownHookDone, TeardownUnsubscribe, TeardownClose, TeardownEnd
<1>2. fut' = fut \/ \E ids : SettleClosed(ids)
  BY DEF TeardownStart, TeardownStep, TeardownHookDone, TeardownUnsubscribe, TeardownClose, TeardownEnd, SweepRun
<1>3. \A c \in Calls : fut'[c] = "noresp" <=> fut[c] = "noresp"
  BY <1>2 DEF SettleClosed
<1>4. \A d \in Calls, k \in 0..MaxRetries : Sent(d, k)' = Sent(d, k) /\ Refused(d, k)' = Refused(d, k)
  BY <1>1 DEF Sent, Refused
<1>. QED BY <1>1, <1>3, <1>4, QuietNoResp DEF NoRespInv, RefusedInv

(* NoRespInv at the start: nothing was sent, run or refused. *)
LEMMA NoRespInit == Init => NoRespInv
<1>. SUFFICES ASSUME Init PROVE RanInv /\ SentInv /\ RefusedInv
  BY CallInit DEF NoRespInv
<1>1. "none" \notin Handled
  BY CallsAssumption DEF Handled
<1>. QED BY <1>1 DEF Init, RanInv, SentInv, SentAt, RefusedInv, Sent, Refused

(* Every step keeps NoRespInv. *)
LEMMA NoRespStep == NoRespInv /\ [Next]_vars => NoRespInv'
<1>. SUFFICES ASSUME NoRespInv, [Next]_vars PROVE RanInv' /\ SentInv' /\ RefusedInv'
  BY CallStep DEF NoRespInv
<1>1. CASE UNCHANGED vars
  BY <1>1 DEF vars, NoRespInv, RanInv, SentInv, SentAt, RefusedInv, Sent, Refused, Id
<1>2. CASE Next
  <2>1. RanInv'
    BY <1>2, TaskRan, EventRan, TeardownRan DEF Next, NoRespInv
  <2>2. SentInv' /\ RefusedInv'
    BY <1>2, TaskNoResp, EventNoResp, TeardownNoResp DEF Next
  <2>. QED BY <2>1, <2>2
<1>. QED BY <1>1, <1>2

(* So it holds in every reachable state. *)
LEMMA NoRespInvariant == Spec => []NoRespInv
  BY NoRespInit, NoRespStep, PTL DEF Spec

(* NoRespondersError means that no attempt of the call reached a handler: the
   retry repeats no execution, with any number of calls, retries and teardowns,
   as long as no handler answers with an error that looks like a 503. *)
THEOREM NoRespondersNotRun ==
  ASSUME "err503" \notin ErrKinds
  PROVE  Spec => []NoRespondersMeansNotRun
<1>1. NoRespInv => NoRespondersMeansNotRun
  <2>. SUFFICES ASSUME NoRespInv, NEW c \in Calls, outcome[c] = "noresp", NEW id \in ran, id[1] = c
                PROVE  FALSE
    BY DEF NoRespondersMeansNotRun
  <2>1. id \in Ids
    BY DEF NoRespInv, CallInv, TypeInv, TypeOK
  <2>2. id[2] \in 0..MaxRetries /\ Sent(c, id[2])
    BY <2>1, IdParts DEF Sent
  <2>. QED BY <2>2 DEF NoRespInv, SentInv, SentAt, RefusedInv, Repeats
<1>. QED BY <1>1, NoRespInvariant, PTL

-----------------------------------------------------------------------------
(* The calls are remote calls.  Most steps are not visible from outside; a step
   of the task that ends a call tells its outcome, and a run of a handler is of
   the attempt its call is in, or one that was seen before. *)

(* A step that is not seen. *)
LEMMA RemoteStutter ==
  ASSUME UNCHANGED <<att, ran, outcome>>
  PROVE  UNCHANGED Remote!vars
  BY DEF Remote!vars, Reported

(* One call is told how it ended. *)
LEMMA RemoteTell ==
  ASSUME NoRespInv, NEW c \in Calls, pc[c] # "done", Finish(c, outcome'[c]), UNCHANGED <<att, ran>>,
         NEW o, o = Reported(c)'
  PROVE  Remote!Tell(c, o)
<1>1. /\ outcome[c] = "none" /\ outcome \in [Calls -> Outcomes]
      /\ outcome' = [outcome EXCEPT ![c] = outcome'[c]]
  BY DEF NoRespInv, CallInv, TypeInv, TypeOK, RanInv, Finish
<1>2. \A d \in Calls : d # c => Reported(d)' = Reported(d)
  BY <1>1 DEF Reported
<1>3. [d \in Calls |-> Reported(d)][c] = "none"
  BY <1>1 DEF Reported
<1>4. [d \in Calls |-> Reported(d)]' = [[d \in Calls |-> Reported(d)] EXCEPT ![c] = o]
  BY <1>2
<1>. QED BY <1>3, <1>4 DEF Remote!Tell

(* A call that raises without an answer fails. *)
LEMMA RemoteRaises ==
  ASSUME NoRespInv, NEW c \in Calls, pc[c] # "done", UNCHANGED <<att, ran>>,
         outcome' = outcome \/ Finish(c, "raised")
  PROVE  Remote!Next \/ UNCHANGED Remote!vars
<1>1. CASE outcome' = outcome
  BY <1>1, RemoteStutter
<1>2. CASE Finish(c, "raised")
  <2>1. outcome \in [Calls -> Outcomes] /\ outcome[c] = "none"
    BY DEF NoRespInv, RanInv, CallInv, TypeInv, TypeOK
  <2>2. \A d \in Calls : outcome'[d] = IF d = c THEN "raised" ELSE outcome[d]
    BY <1>2, <2>1 DEF Finish
  <2>3. Reported(c) = "none" /\ Reported(c)' = "failed" /\ \A d \in Calls : d # c => Reported(d)' = Reported(d)
    BY <2>1, <2>2, CallsAssumption DEF Reported
  <2>4. Remote!Fail({c})
    BY <2>3 DEF Remote!Fail
  <2>5. {c} \in SUBSET Calls
    OBVIOUS
  <2>. QED BY <2>4, <2>5 DEF Remote!Next
<1>. QED BY <1>1, <1>2

(* The steps of a call's task. *)
LEMMA RemoteTask ==
  ASSUME NoRespInv, NEW c \in Calls, TaskStep(c)
  PROVE  Remote!Next \/ UNCHANGED Remote!vars
<1>t. /\ pc \in [Calls -> PcStates] /\ fut \in [Calls -> Settled \cup {"none", "pending"}]
      /\ att \in [Calls -> 0..MaxRetries] /\ outcome \in [Calls -> Outcomes] /\ RanInv
      /\ \A d \in Calls : pc[d] = "backoff" => att[d] < MaxRetries
  BY DEF NoRespInv, CallInv, TypeInv, TypeOK, RetryLeft
<1>. USE DEF connVars, svcVars, tdVars
<1>1. CASE \/ AutoConnect(c) \/ NotConnected(c) \/ EnsureMux(c) \/ ServiceInbox(c) \/ PublishReturns(c)
           \/ ServicePublish(c) \/ PublishRaises(c) \/ CallMuxed(c) \/ MuxEnsured(c) \/ ServiceSubscribe(c)
  <2>1. UNCHANGED <<att, ran>> /\ (outcome' = outcome \/ Finish(c, "raised"))
    BY <1>1 DEF AutoConnect, NotConnected, EnsureMux, ServiceInbox, PublishReturns, ServicePublish, PublishRaises,
       CallMuxed, MuxEnsured, ServiceSubscribe, RegisterAndPublish
  <2>2. pc[c] # "done"
    BY <1>1 DEF AutoConnect, NotConnected, EnsureMux, ServiceInbox, PublishReturns, ServicePublish, PublishRaises,
       CallMuxed, MuxEnsured, ServiceSubscribe, PastConnect, Starting
  <2>. QED BY <2>1, <2>2, RemoteRaises
<1>2. CASE Wake(c)
  <2>1. UNCHANGED <<att, ran>> /\ pc[c] = "waiting" /\ fut[c] # "pending"
    BY <1>2 DEF Wake
  <2>2. CASE outcome' = outcome
    BY <2>1, <2>2, RemoteStutter
  <2>3. CASE Finish(c, fut[c])
    <3>1. outcome'[c] = fut[c] /\ Finish(c, outcome'[c])
      BY <1>t, <2>3 DEF Finish
    <3>2. Remote!Tell(c, Reported(c)')
      BY <1>t, <2>1, <3>1, RemoteTell
    <3>3. CASE fut[c] \in Handled
      <4>1. Reported(c)' \in {"ok", "error"}
        BY <3>1, <3>3, CallsAssumption DEF Reported, Handled
      <4>2. Remote!Ran(c)
        BY <1>t, <3>3 DEF RanInv, Remote!Ran, Id
      <4>. QED BY <3>2, <4>1, <4>2 DEF Remote!Return, Remote!Next
    <3>4. CASE fut[c] = "noresp"
      <4>1. Reported(c)' = "noresp"
        BY <3>1, <3>4 DEF Reported
      <4>2. att[c] \in 0..MaxRetries /\ ~(att[c] < att[c])
        BY <1>t, CallsAssumption
      <4>3. ~Remote!Ran(c)
        BY <3>4, <4>2 DEF NoRespInv, SentInv, SentAt, Sent, Remote!Ran
      <4>. QED BY <3>2, <4>1, <4>3 DEF Remote!Refuse, Remote!Next
    <3>5. CASE fut[c] \in {"timeout", "closed"}
      <4>1. Reported(c)' = "failed" /\ outcome[c] = "none" /\ Reported(c) = "none"
        BY <1>t, <2>1, <3>1, <3>5, CallsAssumption DEF Reported, RanInv
      <4>2. \A d \in Calls : d # c => Reported(d)' = Reported(d)
        BY <1>t, <2>3 DEF Finish, Reported
      <4>3. Remote!Fail({c})
        BY <2>1, <4>1, <4>2 DEF Remote!Fail
      <4>4. {c} \in SUBSET Calls
        OBVIOUS
      <4>. QED BY <4>3, <4>4 DEF Remote!Next
    <3>6. CASE fut[c] = "none"
      <4>1. outcome' = outcome
        BY <1>t, <2>1, <2>3, <3>6 DEF RanInv, Finish
      <4>. QED BY <2>1, <4>1, RemoteStutter
    <3>. QED BY <1>t, <2>1, <3>3, <3>4, <3>5, <3>6 DEF Settled, Answers, Handled
  <2>. QED BY <1>2, <2>2, <2>3 DEF Wake
<1>3. CASE Backoff(c)
  <2>1. /\ pc[c] = "backoff" /\ UNCHANGED <<ran, outcome>> /\ att[c] < MaxRetries
        /\ att' = [att EXCEPT ![c] = @ + 1]
    BY <1>3, <1>t DEF Backoff
  <2>2. Reported(c) = "none"
    BY <1>t, <2>1 DEF RanInv, Reported
  <2>3. fut[c] = "noresp" \/ Repeats
    BY <2>1 DEF NoRespInv, RefusedInv
  <2>4. ~Remote!Ran(c) \/ "err503" \in ErrKinds
    BY <1>t, <2>3 DEF NoRespInv, SentInv, SentAt, Sent, Remote!Ran, Repeats
  <2>5. \A d \in Calls : Reported(d)' = Reported(d)
    BY <2>1 DEF Reported
  <2>6. Remote!Retry(c)
    BY <2>1, <2>2, <2>4, <2>5 DEF Remote!Retry
  <2>. QED BY <2>6 DEF Remote!Next
<1>. QED BY <1>1, <1>2, <1>3 DEF TaskStep

(* Connecting, timers, answers and losses. *)
LEMMA RemoteEvent ==
  ASSUME NoRespInv,
         \/ \E c \in Calls : Timeout(c)
         \/ ExplicitConnect \/ ConnectStep
         \/ \E id \in Ids : Respond(id) \/ ServiceNoResponders(id)
         \/ \E id \in Ids, a \in Answers : RouteMux(id, a) \/ ServiceReply(id, a)
         \/ \E m \in net : Lose(m)
  PROVE  Remote!Next \/ UNCHANGED Remote!vars
<1>t. /\ pc \in [Calls -> PcStates] /\ att \in [Calls -> 0..MaxRetries] /\ outcome \in [Calls -> Outcomes]
      /\ RanInv /\ ran \subseteq Ids
  BY DEF NoRespInv, CallInv, TypeInv, TypeOK
<1>. USE DEF connVars, svcVars, tdVars
<1>1. ASSUME \/ \E c \in Calls : Timeout(c)
             \/ ExplicitConnect \/ ConnectOpens \/ RestoreMux
             \/ \E id \in Ids : RestoreEntry(id)
             \/ \E id \in Ids : ServiceNoResponders(id)
             \/ \E id \in Ids, a \in Answers : RouteMux(id, a) \/ ServiceReply(id, a)
             \/ \E m \in net : Lose(m)
      PROVE  UNCHANGED <<att, ran, outcome>>
  BY <1>1 DEF Timeout, ExplicitConnect, ConnectOpens, RestoreMux, RestoreEntry, ServiceNoResponders,
     RouteMux, ServiceReply, Lose
<1>2. CASE ConnectFails
  <2> DEFINE failing == {c \in Calls : pc[c] = "connecting"}
  <2>1. /\ UNCHANGED <<att, ran>>
        /\ \A c \in Calls : outcome'[c] = IF c \in failing THEN "raised" ELSE outcome[c]
    BY <1>2, <1>t DEF ConnectFails
  <2>2. \A c \in failing : Reported(c) = "none"
    BY <1>t DEF RanInv, Reported
  <2>3. \A c \in Calls : Reported(c)' = IF c \in failing THEN "failed" ELSE Reported(c)
    BY <2>1, CallsAssumption DEF Reported
  <2>4. CASE failing = {}
    <3>1. \A c \in Calls : Reported(c)' = Reported(c)
      BY <2>3, <2>4
    <3>. QED BY <2>1, <3>1 DEF Remote!vars
  <2>5. CASE failing # {}
    <3>1. failing \in SUBSET Calls
      OBVIOUS
    <3> HIDE DEF failing
    <3>2. Remote!Fail(failing)
      BY <2>1, <2>2, <2>3, <2>5, <3>1 DEF Remote!Fail
    <3>. QED BY <3>1, <3>2 DEF Remote!Next
  <2>. QED BY <2>4, <2>5
<1>3. ASSUME NEW id \in Ids, Respond(id)
      PROVE  Remote!Next \/ UNCHANGED Remote!vars
  <2>1. id[1] \in Calls /\ id[2] \in 0..MaxRetries /\ id = <<id[1], id[2]>>
    BY IdParts
  <2>2. UNCHANGED <<att, outcome>> /\ (ran' = ran \/ ran' = ran \cup {id}) /\ Sent(id[1], id[2])
    BY <1>3, <2>1 DEF Respond, Sent
  <2>3. CASE ran' = ran
    BY <2>2, <2>3, RemoteStutter
  <2>4. CASE ran' # ran
    <3>1. id \notin ran /\ ran' = ran \cup {id}
      BY <2>2, <2>4
    <3>2. id[2] = att[id[1]] /\ fut[id[1]] # "noresp"
      BY <2>1, <2>2, <3>1 DEF NoRespInv, SentInv, SentAt
    <3>3. outcome[id[1]] # "noresp"
      BY <2>1, <3>2 DEF NoRespInv, RefusedInv
    <3>4. Reported(id[1]) # "noresp" /\ \A d \in Calls : Reported(d)' = Reported(d)
      BY <2>2, <3>3 DEF Reported
    <3>5. Remote!Execute(id[1])
      BY <2>1, <2>2, <3>1, <3>2, <3>4 DEF Remote!Execute
    <3>. QED BY <2>1, <3>5 DEF Remote!Next
  <2>. QED BY <2>3, <2>4
<1>. QED BY <1>1, <1>2, <1>3, RemoteStutter DEF ConnectStep

(* disconnect() and suspend() settle futures; the tasks tell of it. *)
LEMMA RemoteTeardown ==
  ASSUME (\E kind \in {"disconnect", "suspend"} : TeardownStart(kind)) \/ TeardownStep
  PROVE  UNCHANGED Remote!vars
<1>1. UNCHANGED <<att, ran, outcome>>
  BY DEF TeardownStart, TeardownStep, TeardownHookDone, TeardownUnsubscribe, TeardownClose, TeardownEnd
<1>. QED BY <1>1, RemoteStutter

(* Every step of the client is a step of a remote call, or is not seen. *)
LEMMA RemoteStep == NoRespInv /\ [Next]_vars => [Remote!Next]_(Remote!vars)
<1>. SUFFICES ASSUME NoRespInv, [Next]_vars PROVE Remote!Next \/ UNCHANGED Remote!vars
  OBVIOUS
<1>1. CASE UNCHANGED vars
  BY <1>1, RemoteStutter DEF vars
<1>2. CASE Next
  BY <1>2, RemoteTask, RemoteEvent, RemoteTeardown DEF Next
<1>. QED BY <1>1, <1>2

(* call() with its retries, timers and teardowns is a remote call: it repeats
   only an attempt that nobody ran, unless a handler's own error looks like
   "no responders", an answer is one of a handler that ran in its last attempt,
   and after NoRespondersError no handler begins to run it any more, for any
   calls, retries and teardowns. *)
THEOREM ImplementsRemoteCall == Spec => IsRemoteCall
<1>1. Init => Remote!Init
  BY DEF Init, Remote!Init, Reported
<1>. QED BY <1>1, NoRespInit, NoRespStep, RemoteStep, PTL DEF Spec, IsRemoteCall, Remote!Spec
=============================================================================
