----------------------------- MODULE MCGoStream -----------------------------
(* Instances of GoStream: a channel of capacity 1 stands for the 64 of
   the code, so that a slow consumer fills it. *)
EXTENDS GoStream

AllFaults == {"cancel", "down", "encode", "503", "gone"}
=============================================================================
