---------------------------- MODULE PullIterator ----------------------------
(***************************************************************************)
(* One pull iterator between two Python clients: call_pull_iterator() on   *)
(* the consumer's side, handle_pull_iterator_request() and the session it  *)
(* opens on the responder's side, a teardown of the consumer's client and  *)
(* the cleanup of the responder's register_handler().                      *)
(*                                                                         *)
(* A step runs a coroutine to its next await.  The init call is abstracted *)
(* to "answered or raised" (ClientCalls models call() itself); a teardown  *)
(* is final, and the transport loses nothing by itself.                    *)
(***************************************************************************)
EXTENDS Naturals, Sequences

CONSTANTS
    MaxVals,    \* bound: values the generator yields
    Faults      \* what may happen besides the iteration, see AllFaults

(* teardown: disconnect() or suspend() of the consumer's client;
   late: the iterator may start while that teardown is under way;
   abandon: the consumer's task is cancelled while it waits;
   gone: the responder's handlers are removed between two requests;
   stop: they are removed at any time. *)
AllFaults == {"teardown", "late", "abandon", "gone", "stop"}

ASSUME PullAssumption == MaxVals \in Nat /\ Faults \subseteq AllFaults

VARIABLES
    cpc,        \* where call_pull_iterator() is
    ended,      \* its flag ended
    queue,      \* response_queue
    settle,     \* settle_on_disconnect is in _pull_iterator_settles
    status,     \* the iterator is in status_handlers
    got,        \* values yielded to the consumer
    outcome,    \* how the iteration ended
    up,         \* the consumer's connection is up
    td,         \* progress of the teardown
    rsub,       \* the response subscription exists
    respQ,      \* its messages not yet handled
    r503,       \* a 503 status is on its way to the mux
    init,       \* the init request: none, sent, opening, answered or dropped
    son,        \* the request subscription of the session exists
    rq,         \* its messages not yet handled
    hpc,        \* where handle_pull_request() is
    active,     \* the session's flag active
    finished,   \* its flag finished
    tracked,    \* its cleanup is in pull_iterator_cleanups
    unsubTask,  \* the unsubscribe task of finish() is scheduled
    gen,        \* the generator: open, exhausted, failed or closed
    made,       \* values it yielded
    served      \* register_handler() is in effect

consumer == <<cpc, ended, queue, settle, status, got, outcome>>
conn == <<up, td, rsub, respQ, r503>>
session == <<son, rq, hpc, active, finished, tracked, unsubTask, gen, made>>
vars == <<consumer, conn, init, session, served>>

Value(i) == [type |-> "value", value |-> i]
DoneMsg == [type |-> "done"]
ErrorMsg(why) == [type |-> "error", why |-> why]

Init ==
    /\ cpc = "start" /\ ended = FALSE /\ queue = <<>> /\ settle = FALSE /\ status = FALSE
    /\ got = <<>> /\ outcome = "none"
    /\ up = TRUE /\ td = "idle" /\ rsub = FALSE /\ respQ = <<>> /\ r503 = FALSE
    /\ init = "none"
    /\ son = FALSE /\ rq = <<>> /\ hpc = "idle" /\ active = TRUE /\ finished = FALSE
    /\ tracked = FALSE /\ unsubTask = FALSE /\ gen = "open" /\ made = 0
    /\ served = TRUE

-----------------------------------------------------------------------------
(* call_pull_iterator() up to the first next request. *)

(* Register for the settling on teardown, then await the init call. *)
Start ==
    /\ cpc = "start" /\ up
    /\ td = "idle" \/ "late" \in Faults
    /\ settle' = TRUE
    /\ cpc' = "init"
    /\ init' = IF served THEN "sent" ELSE "dropped"
    /\ UNCHANGED <<ended, queue, status, got, outcome, conn, session, served>>

InitAnswered ==
    /\ cpc = "init" /\ init = "answered"
    /\ cpc' = "sub"
    /\ UNCHANGED <<ended, queue, settle, status, got, outcome, conn, init, session, served>>

(* call() raised: an error answer, no responders, a timeout, a teardown. *)
InitRaised ==
    /\ cpc = "init"
    /\ settle' = FALSE
    /\ cpc' = "done" /\ outcome' = "failed"
    /\ UNCHANGED <<ended, queue, status, got, conn, init, session, served>>

(* subscribe() to the responses and register for 503 statuses; on a closed
   connection it raises, outside of the try block. *)
SubscribeResponses ==
    /\ cpc = "sub"
    /\ \/ up /\ cpc' = "loop" /\ rsub' = TRUE /\ status' = TRUE /\ UNCHANGED outcome
       \/ ~up /\ cpc' = "done" /\ outcome' = "failed" /\ UNCHANGED <<rsub, status>>
    /\ UNCHANGED <<ended, queue, settle, got, up, td, respQ, r503, init, session, served>>

-----------------------------------------------------------------------------
(* Its loop: one next request per value. *)

(* The request reaches the session, or NATS answers 503 to the status inbox. *)
SendNext ==
    /\ up
    /\ IF son THEN rq' = Append(rq, "next") /\ UNCHANGED r503
              ELSE r503' = TRUE /\ UNCHANGED rq

PublishNext ==
    /\ cpc = "loop"
    /\ \/ SendNext /\ cpc' = "parked" /\ UNCHANGED outcome
       \/ ~up /\ cpc' = "clean" /\ outcome' = "closed" /\ UNCHANGED <<rq, r503>>
    /\ UNCHANGED <<ended, queue, settle, status, got, up, td, rsub, respQ, init,
                   son, hpc, active, finished, tracked, unsubTask, gen, made, served>>

Taken(m) ==
    \/ /\ m.type = "value"
       /\ got' = Append(got, m.value) /\ cpc' = "yielded" /\ UNCHANGED outcome
    \/ /\ m.type = "done"
       /\ cpc' = "clean" /\ outcome' = "done" /\ UNCHANGED got
    \/ /\ m.type = "error"
       /\ cpc' = "clean" /\ outcome' = m.why /\ UNCHANGED got

(* Mutant of Get: the next value is requested before this one is used. *)
GetPrefetching ==
    /\ cpc = "parked" /\ queue # <<>>
    /\ Taken(Head(queue))
    /\ queue' = Tail(queue)
    /\ rq' = IF son THEN Append(rq, "next") ELSE rq
    /\ UNCHANGED <<ended, settle, status, conn, init,
                   son, hpc, active, finished, tracked, unsubTask, gen, made, served>>

(* await response_queue.get() returns. *)
Get ==
    /\ cpc = "parked" /\ queue # <<>>
    /\ Taken(Head(queue))
    /\ queue' = Tail(queue)
    /\ UNCHANGED <<ended, settle, status, conn, init, session, served>>

(* The consumer asks for the next value. *)
Resume ==
    /\ cpc = "yielded"
    /\ cpc' = "loop"
    /\ UNCHANGED <<ended, queue, settle, status, got, outcome, conn, init, session, served>>

(* It leaves its loop and closes the generator, or its task is cancelled. *)
Leave ==
    /\ \/ cpc = "yielded"
       \/ cpc = "parked" /\ "abandon" \in Faults
    /\ cpc' = "clean" /\ outcome' = "left"
    /\ UNCHANGED <<ended, queue, settle, status, got, conn, init, session, served>>

(* cleanup() until unsubscribe() is done ... *)
Cleanup ==
    /\ cpc = "clean"
    /\ settle' = FALSE /\ status' = FALSE
    /\ rsub' = FALSE /\ respQ' = <<>>
    /\ cpc' = "cancel"
    /\ UNCHANGED <<ended, queue, got, outcome, up, td, r503, init, session, served>>

(* Mutant of SendCancel: cancel only what never gave a value. *)
SendCancelUnused ==
    /\ cpc = "cancel"
    /\ rq' = IF ~ended /\ up /\ son /\ got = <<>> THEN Append(rq, "cancel") ELSE rq
    /\ cpc' = "done"
    /\ UNCHANGED <<ended, queue, settle, status, got, outcome, conn, init,
                   son, hpc, active, finished, tracked, unsubTask, gen, made, served>>

(* ... and the cancel request, if the session did not end by itself. *)
SendCancel ==
    /\ cpc = "cancel"
    /\ rq' = IF ~ended /\ up /\ son THEN Append(rq, "cancel") ELSE rq
    /\ cpc' = "done"
    /\ UNCHANGED <<ended, queue, settle, status, got, outcome, conn, init,
                   son, hpc, active, finished, tracked, unsubTask, gen, made, served>>

(* handle_response(). *)
HandleResponse ==
    /\ respQ # <<>>
    /\ respQ' = Tail(respQ)
    /\ queue' = Append(queue, Head(respQ))
    /\ ended' = (ended \/ Head(respQ).type # "value")
    /\ UNCHANGED <<cpc, settle, status, got, outcome, up, td, rsub, r503, init, session, served>>

(* on_no_responders(), called once by the mux. *)
NoResponders ==
    /\ r503
    /\ r503' = FALSE
    /\ status' = FALSE
    /\ IF status THEN ended' = TRUE /\ queue' = Append(queue, ErrorMsg("noresp"))
                 ELSE UNCHANGED <<ended, queue>>
    /\ UNCHANGED <<cpc, settle, got, outcome, up, td, rsub, respQ, init, session, served>>

Client ==
    \/ InitAnswered \/ InitRaised \/ SubscribeResponses
    \/ PublishNext \/ Get \/ Cleanup \/ SendCancel
    \/ HandleResponse \/ NoResponders

-----------------------------------------------------------------------------
(* disconnect() or suspend() of the consumer's client. *)

(* Mutant of Sweep: settle_on_disconnect only sets the flag. *)
SweepFlagOnly ==
    /\ td = "idle" /\ "teardown" \in Faults
    /\ td' = "swept"
    /\ status' = FALSE /\ settle' = FALSE
    /\ ended' = (ended \/ settle)
    /\ UNCHANGED <<cpc, queue, got, outcome, up, rsub, respQ, r503, init, session, served>>

(* status_handlers.clear(), _settle_pull_iterators(). *)
Sweep ==
    /\ td = "idle" /\ "teardown" \in Faults
    /\ td' = "swept"
    /\ status' = FALSE /\ settle' = FALSE
    /\ ended' = (ended \/ settle)
    /\ queue' = IF settle THEN Append(queue, ErrorMsg("closed")) ELSE queue
    /\ UNCHANGED <<cpc, got, outcome, up, rsub, respQ, r503, init, session, served>>

(* Everything else, until the connection is closed. *)
CloseConnection ==
    /\ td = "swept"
    /\ td' = "done"
    /\ up' = FALSE /\ rsub' = FALSE /\ respQ' = <<>> /\ r503' = FALSE
    /\ UNCHANGED <<consumer, init, session, served>>

-----------------------------------------------------------------------------
(* The responder. *)

(* handle_pull_iterator_request(): the request subscription. *)
OpenSession ==
    /\ init = "sent" /\ served
    /\ init' = "opening"
    /\ son' = TRUE
    /\ UNCHANGED <<consumer, conn, rq, hpc, active, finished, tracked, unsubTask, gen, made, served>>

(* The handler raised, or returned no generator: an error answer. *)
RefuseSession ==
    /\ init = "sent"
    /\ init' = "dropped"
    /\ UNCHANGED <<consumer, conn, session, served>>

(* handle_message() stores the cleanup and answers with the iterator id. *)
AnswerInit ==
    /\ init = "opening"
    /\ tracked' = TRUE
    /\ init' = "answered"
    /\ UNCHANGED <<consumer, conn, son, rq, hpc, active, finished, unsubTask, gen, made, served>>

Respond(m) == respQ' = IF rsub THEN Append(respQ, m) ELSE respQ

(* handle_pull_request() takes a message; without active it returns at once. *)
TakeRequest ==
    /\ hpc = "idle" /\ rq # <<>>
    /\ rq' = Tail(rq)
    /\ hpc' = CASE ~active -> "idle"
                [] active /\ Head(rq) = "next" -> "anext"
                [] active /\ Head(rq) = "cancel" -> "aclose"
    /\ active' = (active /\ Head(rq) # "cancel")
    /\ UNCHANGED <<consumer, conn, init, son, finished, tracked, unsubTask, gen, made, served>>

(* Mutant of YieldValue: the response carries the value before. *)
YieldStale ==
    /\ hpc = "anext" /\ made < MaxVals
    /\ made' = made + 1
    /\ Respond(Value(made))
    /\ hpc' = "idle"
    /\ UNCHANGED <<consumer, up, td, rsub, r503, init, son, rq, active, finished, tracked, unsubTask, gen, served>>

YieldValue ==
    /\ hpc = "anext" /\ made < MaxVals
    /\ made' = made + 1
    /\ Respond(Value(made + 1))
    /\ hpc' = "idle"
    /\ UNCHANGED <<consumer, up, td, rsub, r503, init, son, rq, active, finished, tracked, unsubTask, gen, served>>

(* Mutant of EndSession: an error of the generator is answered like its end. *)
EndSessionAlike ==
    /\ \/ hpc = "anext" /\ gen' \in {"exhausted", "failed"}
       \/ hpc = "aclose" /\ gen' = "closed"
    /\ Respond(DoneMsg)
    /\ active' = FALSE
    /\ hpc' = "finish"
    /\ UNCHANGED <<consumer, up, td, rsub, r503, init, son, rq, finished, tracked, unsubTask, made, served>>

(* StopAsyncIteration, an exception (of the generator, or of encoding what it
   yielded), or aclose() after a cancel: answer, then finish(). *)
EndSession ==
    /\ \/ hpc = "anext" /\ gen' = "exhausted" /\ Respond(DoneMsg)
       \/ hpc = "anext" /\ gen' = "failed" /\ Respond(ErrorMsg("error"))
       \/ hpc = "aclose" /\ gen' = "closed" /\ Respond(DoneMsg)
    /\ active' = FALSE
    /\ hpc' = "finish"
    /\ UNCHANGED <<consumer, up, td, rsub, r503, init, son, rq, finished, tracked, unsubTask, made, served>>

(* finish(): once; the unsubscribe runs as a task of its own. *)
Finish ==
    /\ hpc = "finish"
    /\ hpc' = "idle"
    /\ IF finished THEN UNCHANGED <<finished, tracked, unsubTask>>
                   ELSE finished' = TRUE /\ tracked' = FALSE /\ unsubTask' = TRUE
    /\ UNCHANGED <<consumer, conn, init, son, rq, active, gen, made, served>>

Unsubscribe ==
    /\ unsubTask
    /\ unsubTask' = FALSE
    /\ son' = FALSE /\ rq' = <<>>
    /\ UNCHANGED <<consumer, conn, init, hpc, active, finished, tracked, gen, made, served>>

Responder ==
    \/ OpenSession \/ RefuseSession \/ AnswerInit \/ TakeRequest
    \/ YieldValue \/ EndSession \/ Finish \/ Unsubscribe

(* cleanup() of the session: unsubscribing cancels a handler that waits for the
   generator, which is then closed. *)
CleanupSession ==
    /\ active' = FALSE /\ finished' = TRUE /\ tracked' = FALSE
    /\ son' = FALSE /\ rq' = <<>> /\ hpc' = "idle"
    /\ gen' = IF gen = "open" THEN "closed" ELSE gen

(* The cleanup of register_handler(): the handler's subscription goes, with a
   request it is working on, and so do the sessions it has stored. *)
RemoveHandlers ==
    /\ served
    /\ "stop" \in Faults \/ ("gone" \in Faults /\ hpc = "idle" /\ rq = <<>>)
    /\ served' = FALSE
    /\ init' = IF init \in {"sent", "opening"} THEN "dropped" ELSE init
    /\ IF tracked
          THEN CleanupSession
          ELSE UNCHANGED <<active, finished, tracked, son, rq, hpc, gen>>
    /\ UNCHANGED <<consumer, conn, unsubTask, made>>

Next ==
    \/ Start \/ Client \/ Resume \/ Leave
    \/ Sweep \/ CloseConnection
    \/ Responder \/ RemoveHandlers

Spec == Init /\ [][Next]_vars

(* Both event loops run what is ready, messages arrive, a teardown that began
   goes on, and a generator that is asked for a value yields, ends or raises.
   The consumer owes nothing. *)
FairSpec ==
    /\ Spec
    /\ WF_vars(Client) /\ WF_vars(CloseConnection)
    /\ WF_vars(Responder) /\ WF_vars(HandleResponse \/ NoResponders) /\ WF_vars(Unsubscribe)

-----------------------------------------------------------------------------
(* Properties. *)

Whys == {"closed", "noresp", "error"}
Responses == [type : {"value"}, value : 1..MaxVals] \cup {DoneMsg} \cup [type : {"error"}, why : Whys]
RangeOf(s) == {s[i] : i \in 1..Len(s)}

FlagsOK ==
    /\ ended \in BOOLEAN /\ settle \in BOOLEAN /\ status \in BOOLEAN /\ up \in BOOLEAN /\ rsub \in BOOLEAN
    /\ r503 \in BOOLEAN /\ served \in BOOLEAN /\ son \in BOOLEAN /\ active \in BOOLEAN
    /\ finished \in BOOLEAN /\ tracked \in BOOLEAN /\ unsubTask \in BOOLEAN

ContentsOK ==
    /\ cpc \in {"start", "init", "sub", "loop", "parked", "yielded", "clean", "cancel", "done"}
    /\ RangeOf(queue) \subseteq Responses /\ RangeOf(respQ) \subseteq Responses
    /\ RangeOf(got) \subseteq 1..MaxVals
    /\ RangeOf(rq) \subseteq {"next", "cancel"}
    /\ outcome \in {"none", "failed", "done", "left"} \cup Whys
    /\ td \in {"idle", "swept", "done"}
    /\ init \in {"none", "sent", "opening", "answered", "dropped"}
    /\ hpc \in {"idle", "anext", "aclose", "finish"}
    /\ gen \in {"open", "exhausted", "failed", "closed"}
    /\ made \in 0..MaxVals

TypeOK == ContentsOK /\ FlagsOK

(* The consumer gets the generator's values in order, each once, and a loop
   that ends normally has had all of them: neither a teardown, a 503 nor an
   exception on the responder's side looks like the end of the iteration. *)
InOrder ==
    /\ \A i \in 1..Len(got) : got[i] = i
    /\ outcome = "done" => gen = "exhausted" /\ Len(got) = made

(* Pull means pull: while the consumer works on a value, no request is on its
   way, the generator rests at its yield, and no other value exists. *)
Lockstep ==
    cpc = "yielded" =>
        /\ made = Len(got)
        /\ hpc # "anext" /\ "next" \notin RangeOf(rq)

(* A consumer that waits for a response gets one or an error: its loop does
   not hang, whatever a teardown of its client and the responder do. *)
ConsumerWakes == cpc = "parked" ~> cpc # "parked"

(* An iteration that began and is over, left early ones included, takes the
   responder's session with it, unless the client was torn down meanwhile. *)
SessionReleased == (cpc = "done" /\ outcome # "failed" /\ td = "idle") ~> ~son /\ ~tracked

(* Seen from outside: the generator is the source, and a loop that did not end
   normally falls short. *)
Source == IF gen = "open" THEN "on" ELSE IF gen = "exhausted" THEN "exhausted" ELSE "broken"
Ending == IF outcome = "none" THEN "no" ELSE IF outcome = "done" THEN "complete" ELSE "short"

Promise == INSTANCE ValueStream WITH Window <- 1, source <- Source, over <- Ending

(* A pull iterator is a stream of values whose source is never more than the
   one value ahead that the consumer asked for. *)
KeepsPromise == Promise!Spec
=============================================================================
