----------------------------- MODULE PushStream -----------------------------
(***************************************************************************)
(* One push stream between two Python clients: call_stream() with its      *)
(* retries on the consumer's side, handle_stream_request() in a task of    *)
(* its own on the responder's side, and the teardown of either client.     *)
(*                                                                         *)
(* A step runs a coroutine to its next await.  Every attempt has a request *)
(* id and a stream subject of its own; messages of one subject stay in     *)
(* order, messages between two connections are delayed at will.            *)
(***************************************************************************)
EXTENDS Naturals, Sequences, SequencesExt

CONSTANTS
    MaxRetries,     \* no_responder_retry.max_retries
    MaxVals         \* bound: values the generator yields in one session

ASSUME StreamAssumption == MaxRetries \in Nat /\ MaxVals \in Nat

Attempts == 1..MaxRetries + 1
NoneValue == 0      \* the value None; the other values are 1, 2, ...
Marker == MaxVals + 1       \* the None that on_end() and on_error() queue

VARIABLES
    cl,         \* call_stream(): pc, att, queue, ended, error, got (of this attempt), before, outcome
    held,       \* per attempt: its stream handler, status handler and subscription
    conn,       \* the consumer's connection: up, swept (in a teardown) or down
    closed,     \* its client's _closed
    torn,       \* a teardown began
    r503,       \* attempts whose 503 status is on its way
    ssn,        \* per attempt: handle_stream_request(): pc, out, cancelled, result
    wire,       \* per attempt: messages on the stream subject
    cancels,    \* attempts whose cancel message is on its way
    resp,       \* the responder: up, removed (its handlers are) or gone
    silent      \* why the consumer may wait for a message that nobody sends

consumer == <<cl, held, conn, closed, torn>>
responder == <<ssn, wire, resp>>
vars == <<consumer, r503, responder, cancels, silent>>

Init ==
    /\ cl = [pc |-> "start", att |-> 0, queue |-> <<>>, ended |-> FALSE, error |-> "none",
             got |-> <<>>, before |-> 0, outcome |-> "none"]
    /\ held = [a \in Attempts |-> {}]
    /\ conn = "up" /\ closed = FALSE /\ torn = FALSE
    /\ r503 = {} /\ cancels = {}
    /\ ssn = [a \in Attempts |-> [pc |-> "none", out |-> <<>>, cancelled |-> FALSE, result |-> "none"]]
    /\ wire = [a \in Attempts |-> <<>>]
    /\ resp = "up" /\ silent = {}

-----------------------------------------------------------------------------
(* call_stream() and _call_stream_once(). *)

Done(outcome) == [cl EXCEPT !.pc = "done", !.outcome = outcome]

(* One more attempt: connect() if the client is not closed, then the state of
   the attempt with its stream handler. *)
Start ==
    /\ cl.pc = "start"
    /\ \/ /\ conn = "down" /\ closed
          /\ cl' = Done("raised") /\ UNCHANGED <<held, conn, silent>>
       \/ /\ conn # "down" \/ ~closed
          /\ conn' = IF conn = "down" THEN "up" ELSE conn
          /\ silent' = IF conn = "swept" THEN silent \cup {"late"} ELSE silent
          /\ cl' = [cl EXCEPT !.pc = "sub", !.att = @ + 1, !.queue = <<>>, !.ended = FALSE,
                              !.error = "none", !.before = @ + Len(cl.got), !.got = <<>>]
          /\ held' = [held EXCEPT ![cl.att + 1] = {"handler"}]
    /\ UNCHANGED <<closed, torn, r503, responder, cancels>>

(* subscribe() to the stream subject, outside of the try block, and register
   for the 503 status. *)
Subscribe ==
    /\ cl.pc = "sub"
    /\ \/ conn = "down" /\ cl' = Done("raised") /\ UNCHANGED held
       \/ /\ conn # "down" /\ cl' = [cl EXCEPT !.pc = "publish"]
          /\ held' = [held EXCEPT ![cl.att] = @ \cup {"sub", "status"}]
    /\ UNCHANGED <<conn, closed, torn, r503, responder, cancels, silent>>

(* Mutant of Retries: every error is worth another attempt. *)
RetriesAll(e) == e # "notconn" /\ cl.att <= MaxRetries /\ ~closed

(* What call_stream() does with an exception: no responders, as a type, in the
   text or by the code "503", is worth another attempt. *)
Retries(e) == e \in {"noresp", "err503"} /\ cl.att <= MaxRetries /\ ~closed

Raised(e) == IF Retries(e) THEN [cl EXCEPT !.pc = "backoff"] ELSE Done("raised")

(* Mutant of UnsubscribeAll: the status handler is forgotten. *)
UnsubscribeSome ==
    /\ held' = [held EXCEPT ![cl.att] = @ \cap {"status"}]
    /\ cancels' = IF cl.ended \/ conn = "down" THEN cancels ELSE cancels \cup {cl.att}

(* unsubscribe_all(): a stream that has not ended is cancelled. *)
UnsubscribeAll ==
    /\ held' = [held EXCEPT ![cl.att] = {}]
    /\ cancels' = IF cl.ended \/ conn = "down" THEN cancels ELSE cancels \cup {cl.att}

(* The top of the generator's loop. *)
Top ==
    \/ /\ cl.error = "none" /\ cl' = [cl EXCEPT !.pc = "get"]
       /\ UNCHANGED <<held, cancels>>
    \/ cl.error # "none" /\ UnsubscribeAll /\ cl' = Raised(cl.error)

(* Publish the request; NATS answers 503 when nobody is subscribed. *)
Publish ==
    /\ cl.pc = "publish"
    /\ \/ /\ conn = "down" /\ UnsubscribeAll /\ cl' = Raised("notconn")
          /\ UNCHANGED <<ssn, r503>>
       \/ /\ conn # "down" /\ Top
          /\ IF resp = "up" THEN ssn' = [ssn EXCEPT ![cl.att].pc = "asked"] /\ UNCHANGED r503
                            ELSE r503' = r503 \cup {cl.att} /\ UNCHANGED ssn
    /\ UNCHANGED <<conn, closed, torn, wire, resp, silent>>

(* await queue.get() returns: a value, or None, the end or the value None. *)
Get ==
    /\ cl.pc = "get" /\ cl.queue # <<>>
    /\ LET v == Head(cl.queue) IN
       \/ /\ v \notin {Marker, NoneValue} /\ UNCHANGED <<held, cancels>>
          /\ cl' = [cl EXCEPT !.pc = "yielded", !.queue = Tail(@), !.got = Append(@, v)]
       \/ /\ v \in {Marker, NoneValue} /\ UnsubscribeAll
          /\ cl' = IF cl.error # "none" THEN Raised(cl.error) ELSE Done("end")
    /\ UNCHANGED <<conn, closed, torn, r503, responder, silent>>

(* The consumer asks for the next value. *)
Resume ==
    /\ cl.pc = "yielded" /\ Top
    /\ UNCHANGED <<conn, closed, torn, r503, responder, silent>>

(* It leaves its loop, or its task is cancelled: neither GeneratorExit nor
   CancelledError is an Exception, so nothing is released or cancelled. *)
Leave ==
    /\ cl.pc \in {"get", "yielded"}
    /\ cl' = Done("left")
    /\ UNCHANGED <<held, conn, closed, torn, r503, responder, cancels, silent>>

(* asyncio.sleep() before the next attempt is over. *)
Wake ==
    /\ cl.pc = "backoff"
    /\ cl' = [cl EXCEPT !.pc = "start"]
    /\ UNCHANGED <<held, conn, closed, torn, r503, responder, cancels, silent>>

-----------------------------------------------------------------------------
(* The callbacks of an attempt. *)

Data(v) == [type |-> "data", value |-> v]
Closing(type) == [type |-> type, value |-> NoneValue]

Ended == [cl EXCEPT !.ended = TRUE, !.queue = Append(@, Marker)]
Failed(e) == [Ended EXCEPT !.error = e]

Handle(a, m) ==
    \/ /\ ~("sub" \in held[a] /\ "handler" \in held[a] /\ conn # "down")
       /\ UNCHANGED <<cl, held>>
    \/ /\ "sub" \in held[a] /\ "handler" \in held[a] /\ conn # "down"
       /\ \/ /\ m.type = "data" /\ UNCHANGED held
             /\ cl' = IF cl.ended THEN cl ELSE [cl EXCEPT !.queue = Append(@, m.value)]
          \/ /\ m.type # "data" /\ held' = [held EXCEPT ![a] = {}]
             /\ cl' = IF m.type = "end" THEN Ended ELSE Failed(m.type)

(* handle_stream_message(): nothing without the stream handler. *)
HandleStreamMessage(a) ==
    /\ wire[a] # <<>>
    /\ wire' = [wire EXCEPT ![a] = Tail(@)]
    /\ Handle(a, Head(wire[a]))
    /\ UNCHANGED <<conn, closed, torn, r503, ssn, resp, cancels, silent>>

(* _handle_mux_message() finds the status handler, once; on_no_responders()
   raises in the stream. *)
NoResponders(a) ==
    /\ a \in r503
    /\ r503' = r503 \ {a}
    /\ held' = [held EXCEPT ![a] = @ \ {"status"}]
    /\ cl' = IF {"status", "handler"} \subseteq held[a] /\ conn # "down" THEN Failed("noresp") ELSE cl
    /\ UNCHANGED <<conn, closed, torn, responder, cancels, silent>>

(* Mutant of Sweep: the handlers are dropped without ending the streams. *)
SweepQuietly(kind) ==
    /\ conn = "up" /\ ~torn
    /\ conn' = "swept" /\ torn' = TRUE /\ closed' = (kind = "disconnect")
    /\ held' = [a \in Attempts |-> held[a] \cap {"sub"}]
    /\ UNCHANGED <<cl, r503, responder, cancels, silent>>

(* disconnect() or suspend(): every stream is told that it ended. *)
Sweep(kind) ==
    /\ conn = "up" /\ ~torn
    /\ conn' = "swept" /\ torn' = TRUE /\ closed' = (kind = "disconnect")
    /\ held' = [a \in Attempts |-> held[a] \cap {"sub"}]
    /\ cl' = IF cl.att > 0 /\ "handler" \in held[cl.att] THEN Ended ELSE cl
    /\ UNCHANGED <<r503, responder, cancels, silent>>

(* The rest of it: disconnect() drops the subscription entries, suspend()
   keeps them, and the transport is closed. *)
CloseConnection ==
    /\ conn = "swept"
    /\ conn' = "down"
    /\ held' = IF closed THEN [a \in Attempts |-> held[a] \ {"sub"}] ELSE held
    /\ UNCHANGED <<cl, closed, torn, r503, responder, cancels, silent>>

-----------------------------------------------------------------------------
(* run_stream() and handle_stream_request(). *)

(* Get the generator and subscribe for the cancel message.  What fails here is
   printed by run_stream() and by nobody else. *)
Open(a) ==
    /\ ssn[a].pc = "asked" /\ resp = "up"
    /\ \/ ssn' = [ssn EXCEPT ![a].pc = "running"] /\ UNCHANGED silent
       \/ ssn' = [ssn EXCEPT ![a].pc = "refused"] /\ silent' = silent \cup {"refused"}
    /\ UNCHANGED <<consumer, r503, wire, resp, cancels>>

Heard(a) == ~ssn[a].cancelled /\ resp # "gone"

Over(a, result) == ssn' = [ssn EXCEPT ![a].pc = "done", ![a].result = result]

(* The generator yields: publish the value, or stop when the stream was
   cancelled or the responder is not connected. *)
YieldValue(a) ==
    /\ ssn[a].pc = "running" /\ Len(ssn[a].out) < MaxVals
    /\ \/ ~Heard(a) /\ Over(a, "stopped") /\ UNCHANGED wire
       \/ /\ Heard(a)
          /\ \E v \in {NoneValue, Len(ssn[a].out) + 1} :
                /\ ssn' = [ssn EXCEPT ![a].out = Append(@, v)]
                /\ wire' = [wire EXCEPT ![a] = Append(@, Data(v))]
    /\ UNCHANGED <<consumer, r503, resp, cancels, silent>>

(* Mutant of Finish: the exception is lost and the stream just ends. *)
FinishAlike(a) ==
    /\ ssn[a].pc = "running"
    /\ \E result \in {"end", "error", "err503"} :
        /\ Over(a, result)
        /\ wire' = IF Heard(a) THEN [wire EXCEPT ![a] = Append(@, Closing("end"))] ELSE wire
    /\ UNCHANGED <<consumer, r503, resp, cancels, silent>>

(* The generator is exhausted or raises: the last message and the finally
   block, which unsubscribes and closes the generator. *)
Finish(a) ==
    /\ ssn[a].pc = "running"
    /\ \E result \in {"end", "error", "err503"} :
        /\ Over(a, result)
        /\ wire' = IF Heard(a) THEN [wire EXCEPT ![a] = Append(@, Closing(result))] ELSE wire
    /\ UNCHANGED <<consumer, r503, resp, cancels, silent>>

(* cancel_handler(), if its subscription is there. *)
CancelHandler(a) ==
    /\ a \in cancels
    /\ cancels' = cancels \ {a}
    /\ ssn' = IF ssn[a].pc = "running" THEN [ssn EXCEPT ![a].cancelled = TRUE] ELSE ssn
    /\ UNCHANGED <<consumer, r503, wire, resp, silent>>

(* The cleanup of register_handler() leaves running streams alone, but it
   unsubscribes: a request that was not delivered yet is dropped, and nobody
   answers 503 for it. *)
RemoveHandlers ==
    /\ resp = "up" /\ resp' = "removed"
    /\ ssn' = [a \in Attempts |->
                  IF ssn[a].pc = "asked" THEN [ssn[a] EXCEPT !.pc = "dropped"] ELSE ssn[a]]
    /\ silent' = IF \E a \in Attempts : ssn[a].pc = "asked" THEN silent \cup {"dropped"} ELSE silent
    /\ UNCHANGED <<consumer, r503, wire, cancels>>

(* The responder disconnects or crashes; its sessions say nothing any more. *)
Vanish ==
    /\ resp # "gone" /\ resp' = "gone"
    /\ silent' = IF \E a \in Attempts : ssn[a].pc \in {"asked", "running"}
                  THEN silent \cup {"vanished"} ELSE silent
    /\ UNCHANGED <<consumer, r503, ssn, wire, cancels>>

-----------------------------------------------------------------------------
Consumer == Start \/ Subscribe \/ Publish \/ Get \/ Resume \/ Wake
Deliver(a) == HandleStreamMessage(a) \/ NoResponders(a)
Session(a) == Open(a) \/ YieldValue(a) \/ Finish(a) \/ CancelHandler(a)

Next ==
    \/ Consumer \/ Leave
    \/ \E kind \in {"disconnect", "suspend"} : Sweep(kind)
    \/ CloseConnection \/ RemoveHandlers \/ Vanish
    \/ \E a \in Attempts : Deliver(a) \/ Session(a)

Spec == Init /\ [][Next]_vars

(* The event loops run, messages arrive, a generator yields, ends or raises,
   and the consumer keeps asking. *)
FairSpec ==
    /\ Spec /\ WF_vars(Consumer) /\ WF_vars(CloseConnection)
    /\ \A a \in Attempts : WF_vars(Deliver(a)) /\ WF_vars(Session(a))

-----------------------------------------------------------------------------
(* Properties. *)

Results == {"end", "error", "err503"}

TypeOK ==
    /\ cl.pc \in {"start", "sub", "publish", "get", "yielded", "backoff", "done"}
    /\ cl.att \in 0..MaxRetries + 1
    /\ cl.error \in {"none", "noresp", "error", "err503"}
    /\ cl.outcome \in {"none", "end", "raised", "left"}
    /\ Range(cl.queue) \subseteq 0..Marker /\ Range(cl.got) \subseteq 1..MaxVals
    /\ held \in [Attempts -> SUBSET {"handler", "status", "sub"}]
    /\ \A a \in Attempts : Range(wire[a]) \subseteq [type : {"data"} \cup Results, value : 0..MaxVals]
    /\ silent \subseteq {"late", "refused", "vanished", "dropped"}
    /\ r503 \subseteq Attempts /\ cancels \subseteq Attempts

(* The consumer gets what the generator of its attempt yields, in order and
   without gaps. *)
InOrder == cl.att > 0 => IsPrefix(cl.got, ssn[cl.att].out)

(* A loop that ends normally has had every value of a generator that was
   exhausted, unless the client was torn down or the generator yielded None,
   which both look like the end of the stream. *)
EndMeansAll ==
    cl.outcome = "end" =>
        \/ torn \/ NoneValue \in Range(ssn[cl.att].out)
        \/ ssn[cl.att].result = "end" /\ cl.got = ssn[cl.att].out

(* What the consumer sees is the stream: its values in order, and all of them
   when the loop ends normally. *)
Delivered == TypeOK /\ InOrder /\ EndMeansAll

(* A retry never runs the generator twice, unless the generator itself raised
   what looks like a 503: then values may come again. *)
OneStream ==
    \A a \in Attempts : a < cl.att => ssn[a].pc = "none" \/ ssn[a].result = "err503"

(* A stream that ended or raised leaves nothing behind in the client; one that
   started while a teardown was under way may. *)
Released ==
    cl.pc = "backoff" \/ cl.outcome \in {"end", "raised"} =>
        \A a \in Attempts : held[a] = {} \/ "late" \in silent

(* The consumer's loop is over some day, except for one of the reasons in
   silent: the stream was refused, its request was dropped when the handlers
   were removed, its responder went away, or it began while a teardown was
   under way.  Then it may wait for ever: call_stream() has no timeout. *)
Ends == <>(cl.pc = "done" \/ silent # {})
=============================================================================
