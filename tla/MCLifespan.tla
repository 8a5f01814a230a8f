---------------------------- MODULE MCLifespan ----------------------------
(* A global hook, two own handlers and an added one of each event.          *)
EXTENDS Lifespan

CONSTANTS global_start, global_stop, open, start, stop, close, added_start, added_stop

TheEvent == [h \in Handlers |->
  IF h \in {global_start, open, start, added_start, Enter} THEN "startup" ELSE "shutdown"]
=============================================================================
