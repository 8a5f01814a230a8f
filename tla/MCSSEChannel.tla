---------------------------- MODULE MCSSEChannel ----------------------------
(* Two clients that come, read and leave, and two tasks that broadcast.  A  *)
(* third broadcast of either task can fall between the steps of the others. *)
EXTENDS SSEChannel

CONSTANTS l1, l2, b1, b2
=============================================================================
