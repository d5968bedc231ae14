---------------------------- MODULE MCClientCalls ----------------------------
(* Instances of ClientCalls for TLC: the configurations name their calls. *)
EXTENDS ClientCalls
=============================================================================
