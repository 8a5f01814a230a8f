------------------------------ MODULE MCRelay ------------------------------
(* A request of up to two body messages in up to three attempts, and a      *)
(* WebSocket with two messages each way.                                    *)
EXTENDS Relay

\* httpx.ConnectError; httpx.ReadTimeout is a timeout.
DefaultRetried == {"connect"}
=============================================================================
