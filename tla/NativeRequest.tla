---------------------------- MODULE NativeRequest ----------------------------
(***************************************************************************)
(* A native request of the Python client: request() with its retries, the  *)
(* on_request() handler of another client (or a service endpoint, or no-   *)
(* body), and the codec on both ways.                                      *)
(*                                                                         *)
(* The request and its answer are encoded by Python or by a client in      *)
(* another language; either way Python decodes them here.                  *)
(***************************************************************************)
EXTENDS Codec

CONSTANTS
    Data,           \* values that are requested with
    Results,        \* values the handler may return
    MaxRetries      \* no_responder_retry.max_retries

ASSUME RequestAssumption == MaxRetries \in Nat

VARIABLES
    rq,         \* request(): pc, att, data, outcome, value
    wire,       \* the encoded request of this attempt on its way, or the answer; or nothing
    subscribed, \* who answers: nobody, handler or service
    run         \* on_request()'s handler: runs, seen (its argument), how it ended, value

vars == <<rq, wire, subscribed, run>>

(* Texts and codes of error answers; the last two are handle_request()'s own. *)
Text(s) == <<"str", s>>
Errors == {<<"failed", "500">>, <<"no responders", "500">>, <<"failed", "503">>,
           <<"undecodable", "500">>, <<"unpackable", "500">>}
ErrorAnswer(e) == <<<<"error", Text(e[1])>>, <<"code", Text(e[2])>>>>

(* The codec on everything this instance sends, as functions. *)
Values == {d \in Data \cup Results : Packable(d)} \cup {ErrorAnswer(e) : e \in Errors}
Bodies == [v \in Values |-> {EncodeMessage(v), EncodeElsewhere(v)}]
Decoded == [body \in UNION {Bodies[v] : v \in Values} |-> DecodeMessage(body)]
Encoded == [v \in Values |-> EncodeMessage(v)]

Nothing == [kind |-> "nothing", body |-> <<>>]
Carried(kind, body) == [kind |-> kind, body |-> body]

Init ==
    /\ rq \in {[pc |-> "send", att |-> 1, data |-> d, outcome |-> "none", value |-> <<>>] : d \in Data}
    /\ wire = Nothing
    /\ subscribed \in {"nobody", "handler", "service"}
    /\ run = [runs |-> 0, seen |-> <<>>, how |-> "none", value |-> <<>>]

-----------------------------------------------------------------------------
(* request(). *)

(* Mutant of Looks503: a timeout is worth another attempt, too. *)
Looks503Late(e) == e \in {"noresp", "says503", "code503", "timeout"}

(* What _with_no_responder_retry() takes for "no responders": the text (of
   NATS, or of an exception of the handler), or the code "503". *)
Looks503(e) == e \in {"noresp", "says503", "code503"}

Ended(outcome) == [rq EXCEPT !.pc = "done", !.outcome = outcome]

(* _with_no_responder_retry(): another attempt, or raise. *)
Raised(e) ==
    IF Looks503(e) /\ rq.att <= MaxRetries THEN [rq EXCEPT !.pc = "send", !.att = @ + 1] ELSE Ended(e)

(* Encode, which may raise, and ask; NATS answers when nobody listens. *)
Send ==
    /\ rq.pc = "send"
    /\ \/ ~Packable(rq.data) /\ rq' = Ended("unpackable") /\ UNCHANGED wire
       \/ /\ Packable(rq.data)
          /\ rq' = [rq EXCEPT !.pc = "wait"]
          /\ \/ subscribed = "nobody" /\ wire' = Carried("noresp", <<>>)
             \/ /\ subscribed # "nobody"
                /\ \E body \in Bodies[rq.data] : wire' = Carried("request", body)
    /\ UNCHANGED <<subscribed, run>>

(* An answer is an error when it is a map with an entry "error". *)
IsError(v) == \E i \in DOMAIN v : v[i][1] = "error"

(* The codes and texts an error answer has. *)
KindOf(v) == IF At(v, "code") = <<"str", "503">> THEN "code503"
             ELSE IF At(v, "error") = <<"str", "no responders">> THEN "says503" ELSE "error"

(* nc.request() returns: decode the answer; an error in it is raised. *)
Answered ==
    /\ rq.pc = "wait" /\ wire.kind \in {"answer", "svcerror", "noresp"}
    /\ wire' = Nothing
    /\ \/ wire.kind = "noresp" /\ rq' = Raised("noresp")
       \/ wire.kind = "svcerror" /\ rq' = Raised("error")
       \/ /\ wire.kind = "answer"
          /\ LET v == Decoded[wire.body] IN
             \/ v = Raises /\ rq' = Raised("undecodable")
             \/ v # Raises /\ IsError(v) /\ rq' = Raised(KindOf(v))
             \/ v # Raises /\ ~IsError(v) /\ rq' = [Ended("ok") EXCEPT !.value = v]
    /\ UNCHANGED <<subscribed, run>>

(* It times out, before or after the handler ran; a late answer is dropped. *)
TimedOut ==
    /\ rq.pc = "wait" /\ wire.kind # "noresp"
    /\ rq' = Raised("timeout")
    /\ wire' = Nothing
    /\ UNCHANGED <<subscribed, run>>

-----------------------------------------------------------------------------
(* The other side. *)

(* handle_request(): decode, call the handler, answer with what it returns or
   raises; a value that cannot be encoded is an error, too. *)
HandleRequest ==
    /\ wire.kind = "request" /\ subscribed = "handler"
    /\ LET seen == Decoded[wire.body] IN
       \/ /\ seen = Raises
          /\ wire' = Carried("answer", Encoded[ErrorAnswer(<<"undecodable", "500">>)]) /\ UNCHANGED run
       \/ /\ seen # Raises
          /\ \/ \E v \in Results :
                /\ run' = [runs |-> run.runs + 1, seen |-> seen, how |-> "returned", value |-> v]
                /\ \/ /\ ~Packable(v) /\ wire' = Carried("answer", Encoded[ErrorAnswer(<<"unpackable", "500">>)])
                   \/ /\ Packable(v)
                      /\ \E body \in Bodies[v] : wire' = Carried("answer", body)
             \/ \E e \in {<<"failed", "500">>, <<"no responders", "500">>, <<"failed", "503">>} :
                /\ run' = [runs |-> run.runs + 1, seen |-> seen, how |-> "raised", value |-> <<>>]
                /\ wire' = Carried("answer", Encoded[ErrorAnswer(e)])
    /\ UNCHANGED <<rq, subscribed>>

(* A service endpoint takes it for an RPC message, which it is not, and
   answers with the error headers of the micro protocol. *)
ServiceError ==
    /\ wire.kind = "request" /\ subscribed = "service"
    /\ wire' = Carried("svcerror", <<>>)
    /\ UNCHANGED <<rq, subscribed, run>>

(* on_request() or its unsubscribe(), between two attempts. *)
Resubscribe ==
    /\ rq.pc = "send" /\ wire = Nothing
    /\ subscribed' \in {"nobody", "handler"} \ {subscribed}
    /\ UNCHANGED <<rq, wire, run>>

-----------------------------------------------------------------------------
Next == Send \/ Answered \/ TimedOut \/ HandleRequest \/ ServiceError \/ Resubscribe

Spec == Init /\ [][Next]_vars

(* The requester's side goes on, and nc.request() has a timeout. *)
FairSpec == Spec /\ WF_vars(Send) /\ WF_vars(Answered \/ TimedOut)

-----------------------------------------------------------------------------
(* Properties. *)

TypeOK ==
    /\ rq.pc \in {"send", "wait", "done"} /\ rq.att \in 1..MaxRetries + 1
    /\ wire.kind \in {"nothing", "request", "answer", "svcerror", "noresp"}
    /\ run.runs \in 0..MaxRetries + 1

SaysError(v) == "error" \in {v[i][1] : i \in DOMAIN v}
Expected == [d \in Data \cup Results |-> Arrives(d)]
MayDiffer == {d \in Data \cup Results : Ambiguous(d)}

(* The handler sees what the requester sent: binaries of any size, at any
   depth and in any order come back in their places, and only a map that looks
   like a placeholder, in a message that has real ones, does not. *)
HandlerSeesRequest ==
    run.runs > 0 => Content(run.seen) = Expected[rq.data] \/ rq.data \in MayDiffer

(* A request that returns has what the handler returned for it last. *)
AnswerIsReturn ==
    rq.outcome = "ok" =>
        /\ run.how = "returned"
        /\ Content(rq.value) = Expected[run.value] \/ run.value \in MayDiffer

(* A request that raises has a reason: the handler raised, or returned what
   cannot be encoded or looks like an error. *)
ErrorHasReason ==
    rq.outcome \in {"error", "undecodable"} =>
        \/ subscribed = "service"
        \/ run.how = "raised"
        \/ run.how = "returned" /\ (~Packable(run.value) \/ SaysError(run.value) \/ run.value \in MayDiffer)
        \/ rq.data \in MayDiffer

(* What goes in comes out, in both directions: the data of the request and the
   answer, and no error comes from nowhere. *)
ArrivesIntact == TypeOK /\ HandlerSeesRequest /\ AnswerIsReturn /\ ErrorHasReason

(* A request ends, and its retries do not run the handler again, unless the
   handler's own error looks like "no responders". *)
EndsAfterOneRun ==
    /\ <>(rq.pc = "done")
    /\ [][run.runs > 0 /\ run'.runs > run.runs => run.how = "raised" \/ SaysError(run.value)]_vars
=============================================================================
