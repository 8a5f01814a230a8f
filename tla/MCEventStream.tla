--------------------------- MODULE MCEventStream ---------------------------
(* One response: two events and two pings fall in every order between the   *)
(* other steps, with and without pings and a task of the application.       *)
EXTENDS EventStream
=============================================================================
