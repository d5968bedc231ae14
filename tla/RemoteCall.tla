----------------------------- MODULE RemoteCall -----------------------------
(***************************************************************************)
(* What call() promises, without connections, subscriptions and messages:  *)
(* a call is made in attempts, its handler may run for the one it is in,   *)
(* also after the caller has given up, and the caller is told once how the *)
(* call ended.  A call that ran is not repeated, and "no responders" is    *)
(* said only of an attempt that did not run and never will.                *)
(***************************************************************************)
EXTENDS Naturals

CONSTANTS
    Calls,          \* the calls
    MaxRetries,     \* how often one may be repeated
    Repeats         \* a handler's own error may look like "no responders"

VARIABLES
    attempt,    \* the attempt a call is in
    ran,        \* the attempts for which a handler ran: <<call, attempt>>
    outcome     \* none, ok, error (of the handler), noresp or failed

vars == <<attempt, ran, outcome>>

Init ==
    /\ attempt = [c \in Calls |-> 0]
    /\ ran = {}
    /\ outcome = [c \in Calls |-> "none"]

Ran(c) == <<c, attempt[c]>> \in ran

Tell(c, o) ==
    /\ outcome[c] = "none"
    /\ outcome' = [outcome EXCEPT ![c] = o]
    /\ UNCHANGED <<attempt, ran>>

Execute(c) ==
    /\ outcome[c] # "noresp"
    /\ ran' = ran \cup {<<c, attempt[c]>>}
    /\ UNCHANGED <<attempt, outcome>>

Retry(c) ==
    /\ outcome[c] = "none" /\ attempt[c] < MaxRetries
    /\ ~Ran(c) \/ Repeats
    /\ attempt' = [attempt EXCEPT ![c] = @ + 1]
    /\ UNCHANGED <<ran, outcome>>

Return(c) == Ran(c) /\ \E o \in {"ok", "error"} : Tell(c, o)

Refuse(c) == ~Ran(c) /\ Tell(c, "noresp")

(* Timeouts and teardowns, and a connection that fails for all who wait for it. *)
Fail(failing) ==
    /\ failing # {} /\ \A c \in failing : outcome[c] = "none"
    /\ outcome' = [c \in Calls |-> IF c \in failing THEN "failed" ELSE outcome[c]]
    /\ UNCHANGED <<attempt, ran>>

Next ==
    \/ \E c \in Calls : Execute(c) \/ Retry(c) \/ Return(c) \/ Refuse(c)
    \/ \E failing \in SUBSET Calls : Fail(failing)

Spec == Init /\ [][Next]_vars
=============================================================================
