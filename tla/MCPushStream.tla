---------------------------- MODULE MCPushStream ----------------------------
(* Instances of PushStream for TLC. *)
EXTENDS PushStream
=============================================================================
