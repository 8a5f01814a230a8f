------------------------------- MODULE Relay -------------------------------
(***************************************************************************)
(* One connection through the reverse proxy of lilya.contrib.proxy.relay.  *)
(*                                                                         *)
(* An HTTP request is forwarded in attempts: each opens a request to the   *)
(* upstream, streams the body of the client into it, and streams the       *)
(* response back.  All attempts draw from one iterator over the body, and  *)
(* a failure is retried, or answered by the relay, wherever it occurs.     *)
(*                                                                         *)
(* A WebSocket is accepted, the upstream is dialled, and two tasks pump    *)
(* the messages in either direction until one of them fails or both end.   *)
(*                                                                         *)
(* The HTTP client was started before and is not shut down meanwhile; an   *)
(* upstream answers when it has got the request.                           *)
(***************************************************************************)
EXTENDS Naturals, Sequences

CONSTANTS
  MaxRetries,   \* _max_retries
  Retried,      \* the errors _retry_exceptions names
  MaxBody,      \* bound on the messages of a request body
  MaxChunks,    \* bound on the chunks of an upstream response
  MaxFrames     \* bound on the WebSocket messages of each side

\* What an attempt may end with: connecting fails, a timeout passes, any other
\* error of the HTTP client, or a status from _retry_statuses.
Errors == {"connect", "timeout", "request"}

ASSUME RelayAssumption ==
  /\ MaxRetries \in Nat
  /\ Retried \subseteq Errors
  /\ MaxBody \in Nat /\ MaxChunks \in Nat /\ MaxFrames \in Nat

VARIABLES
  kind,      \* a request without a body, one with a body, a WebSocket
  at,        \* what the relay does
  wire,      \* messages given to the server
  left,      \* the client has disconnected
  attempt,   \* attempts made
  size,      \* messages the client's body consists of
  taken,     \* those that were taken out of the iterator
  body,      \* the iterator: open, at its last message, exhausted
  base,      \* history: what was taken before this attempt
  failure,   \* what the last attempt ended with
  chunks,    \* chunks of this attempt's response
  broke,     \* history: an upstream failed while its response was relayed
  upstream,  \* the connection to the upstream WebSocket
  down, up,  \* the task that reads the client, the one that reads the upstream
  inbox,     \* messages of the client to be received, and how many it sent
  sent,
  replies,   \* the same for the upstream
  answered

http == <<attempt, size, taken, body, base, failure, chunks, broke>>
client == <<inbox, sent>>
server == <<replies, answered>>
pump == <<upstream, down, up, client, server>>
vars == <<kind, at, wire, left, http, pump>>

Over == at \in {"returned", "raised"}
Socket == kind = "websocket"
Put(message) == wire' = Append(wire, message)
Starts == {"start", "502", "504"}
Closes == {"1000", "1011"}
Closed == \E i \in DOMAIN wire : wire[i] \in Closes

\* A server may refuse what is sent when the client is gone or the WebSocket
\* was closed before.
Refuses == (left \/ Closed) /\ UNCHANGED wire

Init ==
  /\ kind \in {"get", "post", "websocket"}
  /\ at = IF Socket THEN "accepting" ELSE "attempt"
  /\ wire = <<>>
  /\ left = FALSE
  /\ attempt = 0
  /\ size \in (IF kind = "post" THEN 0..MaxBody ELSE {0})
  /\ taken = 0
  /\ body = IF kind = "post" THEN "open" ELSE "ended"
  /\ base = 0
  /\ failure = "none"
  /\ chunks = 0
  /\ broke = FALSE
  /\ upstream = "none"
  /\ down = "receive"
  /\ up = "iterate"
  /\ inbox = 0 /\ sent = 0
  /\ replies = 0 /\ answered = 0

-----------------------------------------------------------------------------
(* HTTP: an attempt.                                                        *)

\* The loop goes round: the request to the upstream is opened.
Attempt ==
  /\ at = "attempt"
  /\ attempt' = attempt + 1
  /\ base' = taken
  /\ failure' = "none"
  /\ chunks' = 0
  /\ at' = "connecting"
  /\ UNCHANGED <<kind, wire, left, size, taken, body, broke, pump>>

Connect ==
  /\ at = "connecting"
  /\ at' = "sending"
  /\ UNCHANGED <<kind, wire, left, http, pump>>

\* body_iter yields what the client sent; the message may say it is the last.
TakeBody ==
  /\ at = "sending"
  /\ body = "open" /\ taken < size
  /\ taken' = taken + 1
  /\ body' \in {"open"} \cup (IF taken + 1 = size THEN {"last"} ELSE {})
  /\ UNCHANGED <<kind, at, wire, left, attempt, size, base, failure, chunks,
                 broke, pump>>

\* Mutant: the first message ends the body.
EndOfBodyEarly == TRUE

\* body_iter ends: after the last message, with an empty one, or because the
\* client has disconnected.
EndOfBody == body # "open" \/ taken = size \/ left

BodyEnds ==
  /\ at = "sending"
  /\ EndOfBody
  /\ body' = "ended"
  /\ at' = "waiting"
  /\ UNCHANGED <<kind, wire, left, attempt, size, taken, base, failure, chunks,
                 broke, pump>>

Respond ==
  /\ at = "waiting"
  /\ Put("start")
  /\ at' = "relaying"
  /\ UNCHANGED <<kind, left, http, pump>>

\* Mutant: the status is looked at after the start was sent.
RetryableStatusLate ==
  /\ at = "relaying" /\ chunks = 0
  /\ failure' = "status"
  /\ at' = "failed"
  /\ UNCHANGED <<kind, wire, left, attempt, size, taken, body, base, chunks,
                 broke, pump>>

\* A status from _retry_statuses is raised before anything is sent.
RetryableStatus ==
  /\ at = "waiting"
  /\ failure' = "status"
  /\ at' = "failed"
  /\ UNCHANGED <<kind, wire, left, attempt, size, taken, body, base, chunks,
                 broke, pump>>

RelayChunk ==
  /\ at = "relaying"
  /\ chunks < MaxChunks
  /\ chunks' = chunks + 1
  /\ Put("body")
  /\ UNCHANGED <<kind, at, left, attempt, size, taken, body, base, failure,
                 broke, pump>>

RelayEnds ==
  /\ at = "relaying"
  /\ Put("final")
  /\ at' = "returned"
  /\ UNCHANGED <<kind, left, http, pump>>

\* The HTTP client raises, which it may do until the response has ended.
AttemptFails(error) ==
  /\ \/ at = "connecting"
     \/ at \in {"sending", "waiting", "relaying"} /\ error # "connect"
  /\ failure' = error
  /\ broke' = (broke \/ at = "relaying")
  /\ at' = "failed"
  /\ UNCHANGED <<kind, wire, left, attempt, size, taken, body, base, chunks, pump>>

-----------------------------------------------------------------------------
(* HTTP: what _handle_http does about it.                                   *)

\* A status, a timeout and the errors to be retried.
Again ==
  /\ failure \in {"status", "timeout"} \cup Retried
  /\ attempt <= MaxRetries

Retry ==
  /\ ~Socket /\ at = "failed"
  /\ Again
  /\ at' = "attempt"
  /\ UNCHANGED <<kind, wire, left, http, pump>>

\* _send_text: the start of a response of the relay's own, and its body.
GiveUp ==
  /\ ~Socket /\ at = "failed"
  /\ ~Again /\ failure # "status"
  /\ Put(IF failure = "timeout" THEN "504" ELSE "502")
  /\ at' = "text"
  /\ UNCHANGED <<kind, left, http, pump>>

SendText ==
  /\ at = "text"
  /\ Put("final")
  /\ at' = "returned"
  /\ UNCHANGED <<kind, left, http, pump>>

\* The last status would be passed on with the text of its response, but that
\* was never read: the HTTP client raises ResponseNotRead.
StatusUnread ==
  /\ ~Socket /\ at = "failed"
  /\ ~Again /\ failure = "status"
  /\ at' = "raised"
  /\ UNCHANGED <<kind, wire, left, http, pump>>

-----------------------------------------------------------------------------
(* WebSocket: the two ends.                                                 *)

\* The connection is accepted before the upstream is dialled.
Accept ==
  /\ at = "accepting"
  /\ \/ Put("accept") /\ at' = "dialling"
     \/ Refuses /\ at' = "raised"
  /\ UNCHANGED <<kind, left, http, pump>>

Dial ==
  /\ at = "dialling"
  /\ upstream' = "open"
  /\ at' = "pumping"
  /\ UNCHANGED <<kind, wire, left, http, down, up, client, server>>

DialFails ==
  /\ at = "dialling"
  /\ at' = "failed"
  /\ UNCHANGED <<kind, wire, left, http, pump>>

\* Mutant: the except clauses only log.
CloseFailedSilently ==
  /\ Socket /\ at = "failed"
  /\ at' = "returned"
  /\ UNCHANGED <<kind, wire, left, http, pump>>

\* Both except clauses close with 1011.
CloseFailed ==
  /\ Socket /\ at = "failed"
  /\ \/ Put("1011") /\ at' = "returned"
     \/ Refuses /\ at' = "raised"
  /\ UNCHANGED <<kind, left, http, pump>>

-----------------------------------------------------------------------------
(* WebSocket: the pump.  A task that fails cancels the other one.           *)

Failed == "failed" \in {down, up}
Pumping == at = "pumping" /\ ~Failed

\* downstream_to_upstream waits for a message; once the client has left, or
\* the relay has closed, the server gives it the disconnect.
Receive ==
  /\ Pumping
  /\ down = "receive"
  /\ IF inbox > 0
     THEN inbox' = inbox - 1 /\ down' = "forward"
     ELSE (left \/ Closed) /\ down' = "close" /\ UNCHANGED inbox
  /\ UNCHANGED <<kind, at, wire, left, http, upstream, up, sent, server>>

\* A connection that is closed raises.
Forward ==
  /\ Pumping
  /\ down = "forward"
  /\ down' = IF upstream = "open" THEN "receive" ELSE "failed"
  /\ UNCHANGED <<kind, at, wire, left, http, upstream, up, client, server>>

Hangup == IF upstream = "open" THEN "closed" ELSE upstream

\* Mutant: the disconnect of the client ends the task, not the upstream.
CloseUpstreamNever ==
  /\ Pumping
  /\ down = "close"
  /\ down' = "ended"
  /\ UNCHANGED <<kind, at, wire, left, http, upstream, up, client, server>>

CloseUpstream ==
  /\ Pumping
  /\ down = "close"
  /\ upstream' = Hangup
  /\ down' = "ended"
  /\ UNCHANGED <<kind, at, wire, left, http, up, client, server>>

\* upstream_to_downstream takes a message, or finds the connection closed.
Iterate ==
  /\ Pumping
  /\ up = "iterate"
  /\ IF replies > 0
     THEN replies' = replies - 1 /\ up' = "send"
     ELSE /\ upstream # "open"
          /\ up' = IF upstream = "broken" THEN "break" ELSE "close"
          /\ UNCHANGED replies
  /\ UNCHANGED <<kind, at, wire, left, http, upstream, down, client, answered>>

Deliver ==
  /\ Pumping
  /\ up = "send"
  /\ \/ Put("frame") /\ up' = "iterate"
     \/ Refuses /\ up' = "break"
  /\ UNCHANGED <<kind, at, left, http, upstream, down, client, server>>

\* The finally clause closes with 1000, whatever ended the iteration.
CloseDownstream ==
  /\ Pumping
  /\ up \in {"close", "break"}
  /\ \/ Put("1000") /\ up' = IF up = "close" THEN "ended" ELSE "failed"
     \/ Refuses /\ up' = "failed"
  /\ UNCHANGED <<kind, at, left, http, upstream, down, client, server>>

\* A cancelled task ends; the close of its finally clause may still be sent.
CancelDown ==
  /\ at = "pumping" /\ Failed
  /\ down \in {"receive", "forward", "close"}
  /\ down' = "ended"
  /\ UNCHANGED <<kind, at, wire, left, http, upstream, up, client, server>>

CancelUp ==
  /\ at = "pumping" /\ Failed
  /\ up \in {"iterate", "send", "close", "break"}
  /\ up' = "ended"
  /\ Put("1000") \/ UNCHANGED wire
  /\ UNCHANGED <<kind, at, left, http, upstream, down, client, server>>

Stopped == {"ended", "failed"}

\* The task group waits for both tasks, and the connection is closed.
PumpEnds ==
  /\ at = "pumping"
  /\ down \in Stopped /\ up \in Stopped
  /\ upstream' = Hangup
  /\ at' = IF Failed THEN "failed" ELSE "returned"
  /\ UNCHANGED <<kind, wire, left, http, down, up, client, server>>

-----------------------------------------------------------------------------
(* The client and the upstream.                                             *)

Leave ==
  /\ ~Over /\ kind # "get" /\ ~left
  /\ left' = TRUE
  /\ UNCHANGED <<kind, at, wire, http, pump>>

ClientSends ==
  /\ Socket /\ ~Over /\ ~left
  /\ sent < MaxFrames
  /\ sent' = sent + 1
  /\ inbox' = inbox + 1
  /\ UNCHANGED <<kind, at, wire, left, http, upstream, down, up, server>>

UpstreamSends ==
  /\ at = "pumping" /\ upstream = "open"
  /\ answered < MaxFrames
  /\ answered' = answered + 1
  /\ replies' = replies + 1
  /\ UNCHANGED <<kind, at, wire, left, http, upstream, down, up, client>>

UpstreamEnds ==
  /\ at = "pumping" /\ upstream = "open"
  /\ upstream' \in {"closed", "broken"}
  /\ UNCHANGED <<kind, at, wire, left, http, down, up, client, server>>

-----------------------------------------------------------------------------
Forwards ==
  \/ Attempt \/ Connect \/ TakeBody \/ BodyEnds
  \/ Respond \/ RetryableStatus \/ RelayChunk \/ RelayEnds
  \/ \E error \in Errors : AttemptFails(error)
  \/ Retry \/ GiveUp \/ SendText \/ StatusUnread

Downstream == Receive \/ Forward \/ CloseUpstream \/ CancelDown
Upstream == Iterate \/ Deliver \/ CloseDownstream \/ CancelUp
Ends == Accept \/ Dial \/ DialFails \/ CloseFailed \/ PumpEnds
World == Leave \/ ClientSends \/ UpstreamSends \/ UpstreamEnds
Done == Over /\ UNCHANGED vars

Next == Forwards \/ Downstream \/ Upstream \/ Ends \/ World \/ Done

Spec == Init /\ [][Next]_vars

\* Every step of the relay is taken: a client that does not send its body has
\* left at some time, an upstream that does not answer runs into a timeout,
\* and answers the closing handshake.
FairSpec ==
  Spec /\ WF_vars(Forwards) /\ WF_vars(Downstream) /\ WF_vars(Upstream) /\ WF_vars(Ends)

-----------------------------------------------------------------------------
TypeOK ==
  /\ kind \in {"get", "post", "websocket"}
  /\ at \in {"attempt", "connecting", "sending", "waiting", "relaying", "text",
             "accepting", "dialling", "pumping", "failed", "returned", "raised"}
  /\ wire \in Seq(Starts \cup {"body", "final", "accept", "frame"} \cup Closes)
  /\ {left, broke} \subseteq BOOLEAN
  /\ attempt \in 0..MaxRetries + 1
  /\ size \in 0..MaxBody
  /\ taken \in 0..size /\ base \in 0..taken
  /\ body \in {"open", "last", "ended"}
  /\ failure \in {"none", "status"} \cup Errors
  /\ chunks \in 0..MaxChunks
  /\ upstream \in {"none", "open", "closed", "broken"}
  /\ down \in {"receive", "forward", "close", "ended", "failed"}
  /\ up \in {"iterate", "send", "close", "break", "ended", "failed"}
  /\ sent \in 0..MaxFrames /\ inbox \in 0..sent
  /\ answered \in 0..MaxFrames /\ replies \in 0..answered

\* A client gets one response: only a last message ends it, one does before
\* the relay returns, and it is started over only if an upstream broke off
\* while its response was relayed.
OneResponse ==
  ~Socket =>
    /\ \A i \in DOMAIN wire : wire[i] = "final" => i = Len(wire) /\ at = "returned"
    /\ \A i \in DOMAIN wire : wire[i] \in Starts => i = 1 \/ broke
    /\ at = "returned" => wire # <<>> /\ wire[Len(wire)] = "final"

\* An error that is to be retried is given to the client only after all the
\* attempts were made.
GivesUpLate ==
  Over /\ failure \in {"status", "timeout"} \cup Retried => attempt = MaxRetries + 1

\* The iterator drops nothing: once an upstream takes the body for complete, the
\* attempts up to this one have got every message, unless the client has left.
\* So a first attempt got the whole body.
RequestWhole ==
  ~Socket /\ at \in {"waiting", "relaying"} => left \/ taken = size

\* A WebSocket client is told of the end: unless it has left itself it gets a
\* close, and the last one is the 1011 of the except clauses (relay.py:591-596) if
\* the dial or a task of the pump failed, the 1000 of the pump if not.  No message
\* follows a close, and a close only when a task fails after the finally clause has
\* closed with 1000 (relay.py:665): the connection is then closed once more.
ToldTheEnd ==
  Socket =>
    /\ Over => left \/ Closed
    /\ at = "returned" => /\ wire # <<>>
                         /\ wire[Len(wire)] = IF Failed \/ upstream = "none"
                                              THEN "1011" ELSE "1000"
    /\ \A i, j \in DOMAIN wire : wire[i] \in Closes /\ j > i =>
         wire[i] = "1000" /\ wire[j] = "1011" /\ j = Len(wire) /\ Failed

\* A request ends; so does a WebSocket when the client leaves or the upstream
\* connection is lost.
Finishes == (~Socket \/ left \/ upstream \in {"closed", "broken"}) ~> Over
=============================================================================
