----------------------------- MODULE MCChunking ------------------------------
(* Instances of Chunking for TLC. *)
EXTENDS Chunking, TLC

CONSTANTS t1, t2, s1, s2

(* One message has two subscriptions on its subject, the other one has one. *)
TwoAndOne == t1 :> {s1, s2} @@ t2 :> {s1}

(* Assembler objects are interchangeable. *)
Symmetry == Permutations(Objs)
=============================================================================
