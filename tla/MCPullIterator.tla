--------------------------- MODULE MCPullIterator ---------------------------
(* Instances of PullIterator for TLC. *)
EXTENDS PullIterator

OrderlyFaults == {"teardown", "abandon", "gone"}
=============================================================================
