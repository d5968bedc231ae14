---------------------------- MODULE PullCallback ----------------------------
(***************************************************************************)
(* A pull iterator with callbacks between two Python clients:              *)
(* call_pull_iterator_with_callback() with its consumer task on one side,  *)
(* handle_pull_callback_request() and its CallbackInvoker on the other.    *)
(*                                                                         *)
(* A frame is one oneway callback of a method both sides know; others are  *)
(* dropped on the way.  It carries the batch it belongs to, or 0 when the  *)
(* handler fires it between two batches.  Frames and responses come over   *)
(* one connection and are handled in that order: both handlers run without *)
(* suspending.  The init call is abstracted to "answered or raised".       *)
(***************************************************************************)
EXTENDS Naturals, Sequences, SequencesExt

CONSTANTS
    MaxBatches,     \* bound: batches the generator yields
    MaxFrames       \* bound: frames it fires

ASSUME PullCallbackAssumption == MaxBatches \in Nat /\ MaxFrames \in Nat

VARIABLES
    cl,         \* the call: pc, ended, queue (of responses), got (batches), outcome
    holds,      \* what it keeps in the client: settle, status, cbsub, rsub, task
    cbq,        \* cb_queue
    busy,       \* the frames consume_callbacks() works on, at most one
    conn,       \* the consumer's connection: up, swept (in a teardown) or down
    wire,       \* frames and responses on their way
    r503,       \* a 503 status is on its way
    init,       \* the init request: none, sent, answered, refused or dropped
    ss,         \* the session: open, rq, hpc, active, tracked, unsub, made, fired
    served,     \* register_handler() is in effect
    silent      \* why the consumer may wait for something that never comes

consumer == <<cl, holds, cbq, busy>>
session == <<init, ss, served>>
vars == <<consumer, conn, wire, r503, session, silent>>

Response(type) == [type |-> type, batch |-> 0]
Frame(batch) == [type |-> "frame", batch |-> batch]

Init ==
    /\ cl = [pc |-> "start", ended |-> FALSE, queue |-> <<>>, got |-> 0, outcome |-> "none"]
    /\ holds = {} /\ cbq = <<>> /\ busy = <<>>
    /\ conn = "up" /\ wire = <<>> /\ r503 = FALSE
    /\ init = "none" /\ served = TRUE /\ silent = {}
    /\ ss = [open |-> FALSE, rq |-> <<>>, hpc |-> "idle", active |-> FALSE, tracked |-> FALSE,
             unsub |-> FALSE, made |-> 0, fired |-> 0]

-----------------------------------------------------------------------------
(* The call up to its loop. *)

Done(outcome) == [cl EXCEPT !.pc = "done", !.outcome = outcome]

(* The consumer task first, then the callback subscription: when that raises,
   the task stays. *)
Start ==
    /\ cl.pc = "start"
    /\ \/ conn = "down" /\ cl' = Done("unsubscribed") /\ holds' = {"task"} /\ UNCHANGED <<init, silent>>
       \/ /\ conn # "down" /\ cl' = [cl EXCEPT !.pc = "init"]
          /\ holds' = {"task", "cbsub", "settle"}
          /\ init' = IF served THEN "sent" ELSE "dropped"
          /\ silent' = IF conn = "swept" THEN silent \cup {"late"} ELSE silent
    /\ UNCHANGED <<cbq, busy, conn, wire, r503, ss, served>>

(* call() raised, also by its timeout when the answer is still to come. *)
InitRaised ==
    /\ cl.pc = "init"
    /\ cl' = Done("failed") /\ holds' = {} /\ busy' = <<>> /\ cbq' = <<>>
    /\ UNCHANGED <<conn, wire, r503, session, silent>>

(* The task is cancelled here: "except Exception" does not see it. *)
AbandonInit ==
    /\ cl.pc = "init"
    /\ cl' = Done("abandoned")
    /\ UNCHANGED <<holds, cbq, busy, conn, wire, r503, session, silent>>

(* subscribe() to the responses, outside of any try block. *)
InitAnswered ==
    /\ cl.pc = "init" /\ init = "answered"
    /\ \/ conn = "down" /\ cl' = Done("unsubscribed") /\ UNCHANGED holds
       \/ conn # "down" /\ cl' = [cl EXCEPT !.pc = "loop"] /\ holds' = holds \cup {"rsub", "status"}
    /\ UNCHANGED <<cbq, busy, conn, wire, r503, session, silent>>

-----------------------------------------------------------------------------
(* Its loop. *)

PublishNext ==
    /\ cl.pc = "loop"
    /\ \/ conn = "down" /\ cl' = [cl EXCEPT !.pc = "clean", !.outcome = "closed"] /\ UNCHANGED <<ss, r503>>
       \/ /\ conn # "down" /\ cl' = [cl EXCEPT !.pc = "parked"]
          /\ IF ss.open THEN ss' = [ss EXCEPT !.rq = Append(@, "next")] /\ UNCHANGED r503
                        ELSE r503' = TRUE /\ UNCHANGED ss
    /\ UNCHANGED <<holds, cbq, busy, conn, wire, init, served, silent>>

(* await response_queue.get() returns. *)
Get ==
    /\ cl.pc = "parked" /\ cl.queue # <<>>
    /\ LET type == Head(cl.queue) IN
       cl' = [cl EXCEPT !.queue = Tail(@),
                        !.pc = IF type \in {"value", "done"} THEN "join" ELSE "clean",
                        !.outcome = type]
    /\ UNCHANGED <<holds, cbq, busy, conn, wire, r503, session, silent>>

(* Mutant of Join: the frames that are still in the queue are not waited for. *)
JoinBusyOnly ==
    /\ cl.pc = "join" /\ busy = <<>>
    /\ cl' = IF cl.outcome = "value" THEN [cl EXCEPT !.pc = "yielded", !.got = @ + 1, !.outcome = "none"]
                                     ELSE [cl EXCEPT !.pc = "clean"]
    /\ UNCHANGED <<holds, cbq, busy, conn, wire, r503, session, silent>>

(* await cb_queue.join() returns: every frame received so far is processed. *)
Join ==
    /\ cl.pc = "join" /\ cbq = <<>> /\ busy = <<>>
    /\ cl' = IF cl.outcome = "value" THEN [cl EXCEPT !.pc = "yielded", !.got = @ + 1, !.outcome = "none"]
                                     ELSE [cl EXCEPT !.pc = "clean"]
    /\ UNCHANGED <<holds, cbq, busy, conn, wire, r503, session, silent>>

(* The consumer is done with the batch and asks for the next one. *)
Resume ==
    /\ cl.pc = "yielded"
    /\ cl' = [cl EXCEPT !.pc = "loop"]
    /\ UNCHANGED <<holds, cbq, busy, conn, wire, r503, session, silent>>

(* It leaves the loop, or its task is cancelled while it waits. *)
Leave ==
    /\ cl.pc \in {"parked", "join", "yielded"}
    /\ cl' = [cl EXCEPT !.pc = "clean", !.outcome = "left"]
    /\ UNCHANGED <<holds, cbq, busy, conn, wire, r503, session, silent>>

(* cleanup() up to the end of the consumer task. *)
Cleanup ==
    /\ cl.pc = "clean"
    /\ cl' = [cl EXCEPT !.pc = "cancel"]
    /\ holds' = holds \ {"settle", "status", "cbsub", "task"}
    /\ cbq' = <<>> /\ busy' = <<>>
    /\ UNCHANGED <<conn, wire, r503, session, silent>>

(* Mutant of SendCancel: only a session that already ended is cancelled. *)
SendCancelEnded ==
    /\ cl.pc = "cancel"
    /\ cl' = Done(cl.outcome) /\ holds' = holds \ {"rsub"}
    /\ ss' = IF cl.ended /\ conn # "down" /\ ss.open THEN [ss EXCEPT !.rq = Append(@, "cancel")] ELSE ss
    /\ UNCHANGED <<cbq, busy, conn, wire, r503, init, served, silent>>

(* Its rest: a session that has not ended is cancelled. *)
SendCancel ==
    /\ cl.pc = "cancel"
    /\ cl' = Done(cl.outcome) /\ holds' = holds \ {"rsub"}
    /\ ss' = IF ~cl.ended /\ conn # "down" /\ ss.open THEN [ss EXCEPT !.rq = Append(@, "cancel")] ELSE ss
    /\ UNCHANGED <<cbq, busy, conn, wire, r503, init, served, silent>>

-----------------------------------------------------------------------------
(* consume_callbacks(). *)

TakeFrame ==
    /\ "task" \in holds /\ busy = <<>> /\ cbq # <<>>
    /\ busy' = <<Head(cbq)>> /\ cbq' = Tail(cbq)
    /\ UNCHANGED <<cl, holds, conn, wire, r503, session, silent>>

(* The callback returns or raises an Exception, which is printed; a
   CancelledError that it raises ends the task instead. *)
FrameDone ==
    /\ "task" \in holds /\ busy # <<>> /\ busy' = <<>>
    /\ \/ UNCHANGED <<holds, silent>>
       \/ holds' = holds \ {"task"} /\ silent' = silent \cup {"killed"}
    /\ UNCHANGED <<cl, cbq, conn, wire, r503, session>>

-----------------------------------------------------------------------------
(* Messages to the consumer, and its teardown. *)

(* handle_cb_msg() and handle_response(). *)
Receive ==
    /\ wire # <<>> /\ wire' = Tail(wire)
    /\ LET m == Head(wire) IN
        /\ cbq' = IF m.type = "frame" /\ "cbsub" \in holds /\ conn # "down" THEN Append(cbq, m) ELSE cbq
        /\ cl' = IF m.type # "frame" /\ "rsub" \in holds /\ conn # "down"
                    THEN [cl EXCEPT !.queue = Append(@, m.type), !.ended = @ \/ m.type # "value"] ELSE cl
    /\ UNCHANGED <<holds, busy, conn, r503, session, silent>>

(* on_no_responders(), once. *)
NoResponders ==
    /\ r503 /\ r503' = FALSE
    /\ cl' = IF "status" \in holds /\ conn # "down"
                THEN [cl EXCEPT !.queue = Append(@, "noresp"), !.ended = TRUE] ELSE cl
    /\ holds' = holds \ {"status"}
    /\ UNCHANGED <<cbq, busy, conn, wire, session, silent>>

(* Mutant of Sweep: the flags are set, but nobody is woken. *)
SweepFlagOnly ==
    /\ conn = "up" /\ conn' = "swept"
    /\ cl' = IF "settle" \in holds THEN [cl EXCEPT !.ended = TRUE] ELSE cl
    /\ holds' = holds \ {"settle", "status"}
    /\ UNCHANGED <<cbq, busy, wire, r503, session, silent>>

(* disconnect() or suspend(): settle_on_disconnect(). *)
Sweep ==
    /\ conn = "up" /\ conn' = "swept"
    /\ cl' = IF "settle" \in holds THEN [cl EXCEPT !.ended = TRUE, !.queue = Append(@, "closed")] ELSE cl
    /\ holds' = holds \ {"settle", "status"}
    /\ UNCHANGED <<cbq, busy, wire, r503, session, silent>>

CloseConnection ==
    /\ conn = "swept" /\ conn' = "down"
    /\ holds' = holds \ {"cbsub", "rsub"}
    /\ UNCHANGED <<cl, cbq, busy, wire, r503, session, silent>>

-----------------------------------------------------------------------------
(* The responder. *)

(* handle_pull_callback_request(): the generator, its invoker and the request
   subscription, then the answer; or no generator, and an error answer. *)
OpenSession ==
    /\ init = "sent"
    /\ \/ /\ init' = "answered"
          /\ ss' = [ss EXCEPT !.open = TRUE, !.active = TRUE, !.tracked = TRUE]
       \/ init' = "refused" /\ UNCHANGED ss
    /\ UNCHANGED <<consumer, conn, wire, r503, served, silent>>

(* CallbackInvoker.invoke(). *)
Invoke ==
    /\ ss.active /\ ss.fired < MaxFrames
    /\ ss' = [ss EXCEPT !.fired = @ + 1]
    /\ wire' = Append(wire, Frame(IF ss.hpc = "anext" THEN ss.made + 1 ELSE 0))
    /\ UNCHANGED <<consumer, conn, r503, init, served, silent>>

(* The last response of a session, then finish(): the owner forgets it, and
   the unsubscribe is scheduled. *)
Finish(s, type) ==
    /\ ss' = [s EXCEPT !.hpc = "idle", !.active = FALSE, !.tracked = FALSE, !.unsub = TRUE]
    /\ wire' = Append(wire, Response(type))

(* handle_pull_request() takes a request. *)
TakeRequest ==
    /\ ss.open /\ ss.hpc = "idle" /\ ss.rq # <<>>
    /\ LET s == [ss EXCEPT !.rq = Tail(@)] IN
       \/ ~ss.active /\ ss' = s /\ UNCHANGED wire
       \/ ss.active /\ Head(ss.rq) = "cancel" /\ Finish(s, "done")
       \/ /\ ss.active /\ Head(ss.rq) = "next"
          /\ ss' = [s EXCEPT !.hpc = "anext"] /\ UNCHANGED wire
    /\ UNCHANGED <<consumer, conn, r503, init, served, silent>>

(* The generator yields: the boundary of a batch. *)
YieldBatch ==
    /\ ss.hpc = "anext" /\ ss.made < MaxBatches
    /\ ss' = [ss EXCEPT !.hpc = "idle", !.made = @ + 1]
    /\ wire' = Append(wire, Response("value"))
    /\ UNCHANGED <<consumer, conn, r503, init, served, silent>>

(* It is exhausted, or raises. *)
EndSession ==
    /\ ss.hpc = "anext"
    /\ \E type \in {"done", "error"} : Finish(ss, type)
    /\ UNCHANGED <<consumer, conn, r503, init, served, silent>>

(* The unsubscribe task of finish(). *)
Unsubscribe ==
    /\ ss.unsub
    /\ ss' = [ss EXCEPT !.unsub = FALSE, !.open = FALSE, !.rq = <<>>]
    /\ UNCHANGED <<consumer, conn, wire, r503, init, served, silent>>

(* The cleanup of register_handler(): the sessions it has stored go, with the
   requests they have or work on. *)
RemoveHandlers ==
    /\ served /\ served' = FALSE
    /\ init' = IF init = "sent" THEN "dropped" ELSE init
    /\ IF ss.tracked
          THEN /\ ss' = [ss EXCEPT !.open = FALSE, !.rq = <<>>, !.hpc = "idle",
                                   !.active = FALSE, !.tracked = FALSE]
               /\ silent' = IF ss.hpc = "anext" \/ ss.rq # <<>> THEN silent \cup {"stopped"} ELSE silent
          ELSE UNCHANGED <<ss, silent>>
    /\ UNCHANGED <<consumer, conn, wire, r503>>

-----------------------------------------------------------------------------
Client == Start \/ InitAnswered \/ InitRaised \/ PublishNext \/ Get \/ Join \/ Resume \/ Cleanup \/ SendCancel
Task == TakeFrame \/ FrameDone
Deliver == Receive \/ NoResponders
Responder == OpenSession \/ TakeRequest \/ YieldBatch \/ EndSession \/ Unsubscribe

Next ==
    \/ Client \/ Task \/ Deliver \/ Responder
    \/ AbandonInit \/ Leave \/ Sweep \/ CloseConnection \/ Invoke \/ RemoveHandlers

Spec == Init /\ [][Next]_vars

(* The event loops run, messages arrive, callbacks return, a generator yields,
   ends or raises, and the consumer keeps asking. *)
FairSpec ==
    /\ Spec /\ WF_vars(Client) /\ WF_vars(Task) /\ WF_vars(Deliver) /\ WF_vars(CloseConnection)
    /\ WF_vars(OpenSession \/ TakeRequest \/ YieldBatch \/ EndSession) /\ WF_vars(Unsubscribe)

-----------------------------------------------------------------------------
(* Properties. *)

TypeOK ==
    /\ cl.pc \in {"start", "init", "loop", "parked", "join", "yielded", "clean", "cancel", "done"}
    /\ Range(cl.queue) \subseteq {"value", "done", "error", "noresp", "closed"}
    /\ cl.got \in 0..MaxBatches
    /\ holds \subseteq {"settle", "status", "cbsub", "rsub", "task"}
    /\ \A m \in Range(wire) \cup Range(cbq) : m.batch \in 0..MaxBatches + 1
    /\ ss.made \in 0..MaxBatches /\ ss.fired \in 0..MaxFrames
    /\ init \in {"none", "sent", "answered", "refused", "dropped"}
    /\ silent \subseteq {"late", "killed", "stopped"}

(* Frames of the first n batches that the consumer's callbacks have not seen. *)
Unseen(n) == {m \in Range(wire) \cup Range(cbq) \cup Range(busy) : m.type = "frame" /\ m.batch \in 1..n}

(* A batch boundary comes after the frames of its batch: when the loop's body
   runs, and when the loop ends normally, every frame of the batches so far
   has been processed. *)
BatchBoundary ==
    /\ cl.pc = "yielded" => Unseen(cl.got) = {}
    /\ cl.pc = "done" /\ cl.outcome = "done" => Unseen(ss.made + 1) = {} /\ cl.got = ss.made

(* Backpressure from end to end: the generator works on a batch only when the
   consumer's callbacks are through with all batches before it. *)
Backpressure == ss.hpc = "anext" => Unseen(ss.made) = {} /\ cl.got = ss.made

(* A call that is over leaves nothing in its client: neither a task nor a
   subscription.  Three ways out release nothing: a subscribe() that raises,
   and a cancellation during the init call. *)
ClientReleased ==
    cl.pc = "done" /\ cl.outcome \notin {"unsubscribed", "abandoned"} => holds = {}

(* An iteration that began and is over takes the responder's session with it,
   unless the client was torn down meanwhile. *)
SessionReleased ==
    (cl.pc = "done" /\ cl.outcome \in {"left", "done", "error", "noresp"} /\ conn = "up")
        ~> ~ss.open /\ ~ss.tracked

(* Callbacks and batch boundaries keep their order from the generator to the
   consumer's loop. *)
Boundaries == TypeOK /\ BatchBoundary /\ Backpressure

(* A call that is over has released what it held, on both sides. *)
Released == []ClientReleased /\ SessionReleased

(* The loop is over some day, unless a callback killed the consumer task, the
   responder was stopped with a request in its hands, or the call began while
   a teardown was under way. *)
Ends == <>(cl.pc = "done" \/ silent # {})
=============================================================================
