------------------------- MODULE MCClientLifecycle -------------------------
(* Instances of ClientLifecycle for TLC. *)
EXTENDS ClientLifecycle, TLC

(* Registrations of one kind are interchangeable. *)
RegSymmetry == Permutations(Subs)
=============================================================================
