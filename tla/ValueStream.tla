----------------------------- MODULE ValueStream -----------------------------
(***************************************************************************)
(* What an iteration over a remote source promises its consumer: the       *)
(* values of the source one after the other, a source that is at most      *)
(* Window values ahead, and a normal end only after the last value of a    *)
(* source that was exhausted.  It may always fall short, but never without *)
(* saying so.                                                              *)
(***************************************************************************)
EXTENDS Naturals, Sequences

CONSTANT Window

VARIABLES
    source,     \* on, exhausted or broken
    made,       \* number of values it made: 1, 2, ...
    got,        \* what the consumer got
    over        \* how the consumer's loop ended: no, complete or short

vars == <<source, made, got, over>>

Init == source = "on" /\ made = 0 /\ got = <<>> /\ over = "no"

Make ==
    /\ source = "on" /\ made < Len(got) + Window
    /\ made' = made + 1
    /\ UNCHANGED <<source, got, over>>

Stop ==
    /\ source = "on"
    /\ source' \in {"exhausted", "broken"}
    /\ UNCHANGED <<made, got, over>>

Take ==
    /\ over = "no" /\ Len(got) < made
    /\ got' = Append(got, Len(got) + 1)
    /\ UNCHANGED <<source, made, over>>

Complete ==
    /\ over = "no" /\ source = "exhausted" /\ Len(got) = made
    /\ over' = "complete"
    /\ UNCHANGED <<source, made, got>>

FallShort ==
    /\ over = "no"
    /\ over' = "short"
    /\ UNCHANGED <<source, made, got>>

Next == Make \/ Stop \/ Take \/ Complete \/ FallShort

Spec == Init /\ [][Next]_vars
=============================================================================
