--------------------------- MODULE MCRequestBody ---------------------------
(* The request of the context, the handler's and an exception handler's.    *)
EXTENDS RequestBody

CONSTANTS context, handler, failure
=============================================================================
