---------------------------- MODULE AsgiResponse ----------------------------
(***************************************************************************)
(* What an application promises its server about one HTTP request: the     *)
(* response starts once and is completed before the application returns,   *)
(* and a response that cannot be completed ends in an exception, so that   *)
(* the server knows the connection must not be reused.                     *)
(***************************************************************************)
VARIABLES
  lenient,   \* whether the application may start a response over
  response,  \* how far the response is
  outcome    \* how the call of the application ended

vars == <<lenient, response, outcome>>

Init ==
  /\ lenient \in BOOLEAN
  /\ response = "idle"
  /\ outcome = "running"

Start ==
  /\ outcome = "running"
  /\ response = "idle" \/ lenient
  /\ response' = "started"
  /\ UNCHANGED <<lenient, outcome>>

Complete ==
  /\ outcome = "running"
  /\ response = "started"
  /\ response' = "complete"
  /\ UNCHANGED <<lenient, outcome>>

Return ==
  /\ outcome = "running"
  /\ response = "complete"
  /\ outcome' = "returned"
  /\ UNCHANGED <<lenient, response>>

Raise ==
  /\ outcome = "running"
  /\ outcome' = "raised"
  /\ UNCHANGED <<lenient, response>>

Next == Start \/ Complete \/ Return \/ Raise

Spec == Init /\ [][Next]_vars
=============================================================================
