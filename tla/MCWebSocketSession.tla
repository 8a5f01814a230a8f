------------------------ MODULE MCWebSocketSession ------------------------
(* A connection whose endpoint talks from two tasks.  Two callbacks and a   *)
(* wire of three messages are enough for both tasks to close, send and      *)
(* clean up in every order.                                                 *)
EXTENDS WebSocketSession

\* The default handlers: the one of an HTTPException sends nothing here, the one
\* of a WebSocketException closes.
DefaultHandled == {"http", "websocket"}
DefaultClosing == {"websocket"}

\* Of each sort one: with a handler that closes, with one that sends nothing, and
\* without a handler.
DefaultHookKinds == {"websocket", "http", "other"}
=============================================================================
