--------------------------- MODULE MCPullCallback ---------------------------
(* Instances of PullCallback for TLC. *)
EXTENDS PullCallback
=============================================================================
