---------------------------- MODULE RelayProofs ----------------------------
(* Theorems about Relay: for any number of retries, whatever errors are     *)
(* retried, and messages without bound.                                     *)
EXTENDS Relay, SequenceTheorems, TLAPS

Messages == Starts \cup {"body", "final", "accept", "frame"} \cup Closes
HttpPlaces == {"attempt", "connecting", "sending", "waiting", "relaying", "text",
               "failed", "returned", "raised"}
SocketPlaces == {"accepting", "dialling", "pumping", "failed", "returned", "raised"}

\* TypeOK in the parts that the two kinds of connection change.
PlaceOK ==
  /\ kind \in {"get", "post", "websocket"}
  /\ IF Socket THEN at \in SocketPlaces ELSE at \in HttpPlaces
  /\ wire \in Seq(Messages)
  /\ left \in BOOLEAN

BodyOK ==
  /\ size \in 0..MaxBody
  /\ taken \in 0..size /\ base \in 0..taken
  /\ body \in {"open", "last", "ended"}
  /\ chunks \in 0..MaxChunks
  /\ broke \in BOOLEAN

Retriable == {"status", "timeout"} \cup Retried

\* An attempt is begun only when one is left; the last one that failed is kept.
AttemptOK ==
  /\ attempt \in 0..MaxRetries + 1
  /\ failure \in {"none", "status"} \cup Errors
  /\ at = "attempt" => attempt <= MaxRetries
  /\ Socket \/ at \in {"connecting", "sending", "waiting", "relaying"}
       => failure = "none"
  /\ at \in {"text", "returned", "raised"} /\ failure \in Retriable
       => attempt = MaxRetries + 1

PumpOK ==
  /\ upstream \in {"none", "open", "closed", "broken"}
  /\ down \in {"receive", "forward", "close", "ended", "failed"}
  /\ up \in {"iterate", "send", "close", "break", "ended", "failed"}
  /\ sent \in 0..MaxFrames /\ inbox \in 0..sent
  /\ answered \in 0..MaxFrames /\ replies \in 0..answered

\* How far the response is at each place of an HTTP request.
ResponseInv ==
  ~Socket =>
    /\ \A i \in DOMAIN wire : wire[i] = "final" => i = Len(wire) /\ at = "returned"
    /\ \A i \in DOMAIN wire : wire[i] \in Starts => i = 1 \/ broke
    /\ at \in {"attempt", "connecting", "sending", "waiting", "failed"}
         => wire = <<>> \/ broke
    /\ at = "returned" => wire # <<>> /\ wire[Len(wire)] = "final"

\* The iterator ends only when everything was taken or the client has left.
BodyInv ==
  /\ body = "last" => taken = size
  /\ body = "ended" => left \/ taken = size
  /\ ~Socket /\ at \in {"waiting", "relaying"} => body = "ended"

\* Nothing follows a close, which is the pump's.
ClosedByPump == \A i \in DOMAIN wire : wire[i] \in Closes => i = Len(wire) /\ wire[i] = "1000"

\* The last message is a close with this code, and at most the pump's is before it.
ClosedAtLast(code) ==
  /\ wire # <<>> /\ wire[Len(wire)] = code
  /\ \A i, j \in DOMAIN wire : wire[i] \in Closes /\ j > i =>
       wire[i] = "1000" /\ wire[j] = "1011" /\ j = Len(wire) /\ Failed

\* A WebSocket is not closed while the task that reads the upstream goes on, and
\* is once it has ended of itself; the except clauses close after that, for a dial
\* that failed or a task that did.
CloseInv ==
  Socket =>
    /\ at \in {"accepting", "dialling"} =>
         up = "iterate" /\ down = "receive" /\ upstream = "none" /\ ~Closed
    /\ at = "pumping" => upstream # "none"
    /\ up \in {"iterate", "send", "close", "break"} /\ at = "pumping" => ~Closed
    /\ at = "pumping" /\ up = "ended" /\ ~Failed => Closed
    /\ at = "failed" => Failed \/ (upstream = "none" /\ ~Closed)
    /\ at # "returned" => ClosedByPump
    /\ at = "raised" => left \/ Closed
    /\ at = "returned" /\ (Failed \/ upstream = "none") => ClosedAtLast("1011")
    /\ at = "returned" /\ ~Failed /\ upstream # "none" => ClosedAtLast("1000")

-----------------------------------------------------------------------------
(* Types.                                                                   *)

\* A step changes the place only within its kind of connection, and gives the
\* server at most one message.
LEMMA TypePlace == PlaceOK /\ [Next]_vars => PlaceOK'
<1> SUFFICES ASSUME PlaceOK, [Next]_vars PROVE PlaceOK'
  OBVIOUS
<1> USE DEF PlaceOK, Socket, HttpPlaces, SocketPlaces
<1>a. /\ wire' = wire \/ (\E m \in Messages : wire' = Append(wire, m))
      /\ left' \in {left, TRUE}
      /\ kind' = kind
  <2>1. CASE Forwards
    BY <2>1 DEF Forwards, Attempt, Connect, TakeBody, BodyEnds, Respond, RetryableStatus,
       RelayChunk, RelayEnds, AttemptFails, Retry, GiveUp, SendText, StatusUnread, Put,
       Messages, Starts, http, pump
  <2>2. CASE Downstream \/ Upstream
    BY <2>2 DEF Downstream, Receive, Forward, CloseUpstream, CancelDown, Upstream, Iterate,
       Deliver, CloseDownstream, CancelUp, Put, Refuses, Messages, Closes
  <2>3. CASE Ends
    BY <2>3 DEF Ends, Accept, Dial, DialFails, CloseFailed, PumpEnds, Put, Refuses,
       Messages, Closes
  <2>4. CASE World \/ Done \/ UNCHANGED vars
    BY <2>4 DEF World, Leave, ClientSends, UpstreamSends, UpstreamEnds, Done, vars
  <2> QED
    BY <2>1, <2>2, <2>3, <2>4 DEF Next
<1>b. IF Socket THEN at' \in SocketPlaces ELSE at' \in HttpPlaces
  <2>1. CASE Forwards
    BY <2>1 DEF Forwards, Attempt, Connect, TakeBody, BodyEnds, Respond, RetryableStatus,
       RelayChunk, RelayEnds, AttemptFails, Retry, GiveUp, SendText, StatusUnread
  <2>2. CASE Downstream \/ Upstream
    BY <2>2 DEF Downstream, Receive, Forward, CloseUpstream, CancelDown, Upstream, Iterate,
       Deliver, CloseDownstream, CancelUp
  <2>3. CASE Ends
    BY <2>3 DEF Ends, Accept, Dial, DialFails, CloseFailed, PumpEnds
  <2>4. CASE World \/ Done \/ UNCHANGED vars
    BY <2>4 DEF World, Leave, ClientSends, UpstreamSends, UpstreamEnds, Done, vars
  <2> QED
    BY <2>1, <2>2, <2>3, <2>4 DEF Next
<1>c. wire' \in Seq(Messages)
  BY <1>a, AppendProperties
<1> QED
  BY <1>a, <1>b, <1>c

\* What only the forwarding of a request changes.
LEMMA HttpKept ==
  Downstream \/ Upstream \/ Ends \/ World \/ Done \/ UNCHANGED vars
    => /\ UNCHANGED <<http, kind>>
       /\ UNCHANGED at \/ Socket \/ at \in {"accepting", "dialling", "pumping"}
BY DEF Downstream, Receive, Forward, CloseUpstream, CancelDown, Upstream, Iterate, Deliver,
   CloseDownstream, CancelUp, Ends, Accept, Dial, DialFails, CloseFailed, PumpEnds, World,
   Leave, ClientSends, UpstreamSends, UpstreamEnds, Done, vars

LEMMA KindKept == [Next]_vars => kind' = kind
<1>1. Forwards => kind' = kind
  BY DEF Forwards, Attempt, Connect, TakeBody, BodyEnds, Respond, RetryableStatus,
     RelayChunk, RelayEnds, AttemptFails, Retry, GiveUp, SendText, StatusUnread
<1> QED
  BY <1>1, HttpKept DEF Next

LEMMA TypeBody == BodyOK /\ [Next]_vars => BodyOK'
<1> SUFFICES ASSUME BodyOK, [Next]_vars PROVE BodyOK'
  OBVIOUS
<1> USE RelayAssumption DEF BodyOK
<1>1. CASE Attempt
  BY <1>1 DEF Attempt
<1>2. CASE TakeBody
  BY <1>2 DEF TakeBody
<1>3. CASE BodyEnds
  BY <1>3 DEF BodyEnds
<1>4. CASE RelayChunk
  BY <1>4 DEF RelayChunk
<1>5. CASE \E error \in Errors : AttemptFails(error)
  BY <1>5 DEF AttemptFails
<1>6. CASE Connect \/ Respond \/ RetryableStatus \/ RelayEnds \/ Retry \/ GiveUp
           \/ SendText \/ StatusUnread
  BY <1>6 DEF Connect, Respond, RetryableStatus, RelayEnds, Retry, GiveUp, SendText,
     StatusUnread, http
<1>7. CASE Downstream \/ Upstream \/ Ends \/ World \/ Done \/ UNCHANGED vars
  BY <1>7, HttpKept DEF http
<1> QED
  BY <1>1, <1>2, <1>3, <1>4, <1>5, <1>6, <1>7 DEF Next, Forwards

LEMMA LeftForGood == left \in BOOLEAN /\ left /\ [Next]_vars => left'
<1> SUFFICES ASSUME left, [Next]_vars PROVE left'
  OBVIOUS
<1>1. CASE Forwards
  BY <1>1 DEF Forwards, Attempt, Connect, TakeBody, BodyEnds, Respond, RetryableStatus,
     RelayChunk, RelayEnds, AttemptFails, Retry, GiveUp, SendText, StatusUnread
<1>2. CASE Downstream \/ Upstream \/ Ends
  BY <1>2 DEF Downstream, Receive, Forward, CloseUpstream, CancelDown, Upstream, Iterate,
     Deliver, CloseDownstream, CancelUp, Ends, Accept, Dial, DialFails, CloseFailed, PumpEnds
<1>3. CASE World \/ Done \/ UNCHANGED vars
  BY <1>3 DEF World, Leave, ClientSends, UpstreamSends, UpstreamEnds, Done, vars
<1> QED
  BY <1>1, <1>2, <1>3 DEF Next

LEMMA TypeAttempt == PlaceOK /\ AttemptOK /\ [Next]_vars => AttemptOK'
<1> SUFFICES ASSUME PlaceOK, AttemptOK, [Next]_vars PROVE AttemptOK'
  OBVIOUS
<1> USE RelayAssumption DEF AttemptOK, PlaceOK, Socket, HttpPlaces,
   SocketPlaces, Retriable, Errors
<1>1. CASE Attempt
  BY <1>1 DEF Attempt
<1>2. CASE RetryableStatus
  BY <1>2 DEF RetryableStatus
<1>8. ASSUME NEW error \in Errors, AttemptFails(error) PROVE AttemptOK'
  BY <1>8 DEF AttemptFails
<1>3. CASE Retry
  BY <1>3 DEF Retry, Again, http
<1>4. CASE GiveUp \/ StatusUnread
  BY <1>4 DEF GiveUp, StatusUnread, Again, http
<1>5. CASE SendText \/ RelayEnds
  BY <1>5 DEF SendText, RelayEnds, http
<1>6. CASE Connect \/ TakeBody \/ BodyEnds \/ Respond \/ RelayChunk
  BY <1>6 DEF Connect, TakeBody, BodyEnds, Respond, RelayChunk, http
<1>7. CASE Downstream \/ Upstream \/ Ends \/ World \/ Done \/ UNCHANGED vars
  <2>1. PlaceOK'
    BY TypePlace
  <2>2. UNCHANGED <<attempt, failure, kind>> /\ (at' = at \/ Socket)
    BY <1>7, HttpKept DEF http
  <2> QED
    BY <2>1, <2>2
<1> QED
  BY <1>1, <1>2, <1>3, <1>4, <1>5, <1>6, <1>7, <1>8 DEF Next, Forwards

LEMMA TypePump == PumpOK /\ [Next]_vars => PumpOK'
<1> SUFFICES ASSUME PumpOK, [Next]_vars PROVE PumpOK'
  OBVIOUS
<1> USE RelayAssumption DEF PumpOK, client, server
<1>1. CASE Receive
  BY <1>1 DEF Receive
<1>2. CASE Forward \/ CloseUpstream \/ CancelDown
  BY <1>2 DEF Forward, CloseUpstream, CancelDown, Hangup
<1>3. CASE Iterate
  BY <1>3 DEF Iterate
<1>4. CASE Deliver \/ CloseDownstream \/ CancelUp
  BY <1>4 DEF Deliver, CloseDownstream, CancelUp
<1>5. CASE Ends
  BY <1>5 DEF Ends, Accept, Dial, DialFails, CloseFailed, PumpEnds, Hangup, pump
<1>6. CASE ClientSends
  BY <1>6 DEF ClientSends
<1>7. CASE UpstreamSends
  BY <1>7 DEF UpstreamSends
<1>8. CASE Leave \/ UpstreamEnds \/ Done \/ UNCHANGED vars
  BY <1>8 DEF Leave, UpstreamEnds, Done, vars, pump
<1>9. CASE Forwards
  BY <1>9 DEF Forwards, Attempt, Connect, TakeBody, BodyEnds, Respond, RetryableStatus,
     RelayChunk, RelayEnds, AttemptFails, Retry, GiveUp, SendText, StatusUnread, pump
<1> QED
  BY <1>1, <1>2, <1>3, <1>4, <1>5, <1>6, <1>7, <1>8, <1>9 DEF Next, Downstream, Upstream,
     World

Types == PlaceOK /\ BodyOK /\ AttemptOK /\ PumpOK

LEMMA TypesHold == Spec => []Types
<1>1. Init => Types
  <2> SUFFICES ASSUME Init PROVE Types
    OBVIOUS
  <2>1. <<>> \in Seq(Messages)
    BY EmptySeq
  <2>2. PlaceOK
    BY <2>1 DEF Init, PlaceOK, Socket, HttpPlaces, SocketPlaces
  <2>3. BodyOK
    <3>1. size \in Nat /\ size <= MaxBody
      <4>1. CASE kind = "post"
        BY <4>1, RelayAssumption DEF Init
      <4>2. CASE kind # "post"
        BY <4>2, RelayAssumption DEF Init
      <4> QED
        BY <4>1, <4>2
    <3>2. body \in {"open", "ended"} /\ taken = 0 /\ base = 0 /\ chunks = 0 /\ broke \in BOOLEAN
      BY DEF Init
    <3> QED
      BY <3>1, <3>2, RelayAssumption DEF BodyOK
  <2>4. AttemptOK
    BY RelayAssumption DEF Init, AttemptOK, Socket, Retriable, Errors
  <2>5. PumpOK
    BY RelayAssumption DEF Init, PumpOK
  <2> QED
    BY <2>2, <2>3, <2>4, <2>5 DEF Types
<1>2. Types /\ [Next]_vars => Types'
  BY TypePlace, TypeBody, TypeAttempt, TypePump DEF Types
<1> QED
  BY <1>1, <1>2, PTL DEF Spec

\* Every reachable state is of its type; an attempt is never made beyond the
\* retries.
THEOREM TypeCorrect == Spec => []TypeOK
<1>1. Types => TypeOK
  <2> SUFFICES ASSUME Types PROVE TypeOK
    OBVIOUS
  <2>1. {left, broke} \subseteq BOOLEAN
    BY DEF Types, PlaceOK, BodyOK
  <2> QED
    BY <2>1 DEF Types, TypeOK, PlaceOK, BodyOK, AttemptOK, PumpOK, HttpPlaces, SocketPlaces,
       Messages
<1> QED
  BY <1>1, TypesHold, PTL

\* Only after all the attempts does the client get an error that is retried.
THEOREM AllAttempts == Spec => []GivesUpLate
<1>1. Types => GivesUpLate
  BY DEF Types, AttemptOK, GivesUpLate, Over, Retriable
<1> QED
  BY <1>1, TypesHold, PTL

-----------------------------------------------------------------------------
(* The body of the request.                                                 *)

\* Once an upstream takes a body for complete, the attempts have got all of it.
THEOREM BodyWhole == Spec => []RequestWhole
<1>1. Init => BodyInv
  BY DEF Init, BodyInv, Socket
<1>2. Types /\ BodyInv /\ [Next]_vars => BodyInv'
  <2> SUFFICES ASSUME Types, BodyInv, [Next]_vars PROVE BodyInv'
    OBVIOUS
  <2> USE DEF BodyInv, Types, PlaceOK, BodyOK, Socket, HttpPlaces, SocketPlaces
  <2>1. CASE TakeBody
    BY <2>1 DEF TakeBody
  <2>2. CASE BodyEnds
    BY <2>2 DEF BodyEnds, EndOfBody
  <2>3. CASE Attempt \/ Connect
    BY <2>3 DEF Attempt, Connect, http
  <2>4. CASE Respond \/ RelayChunk \/ RelayEnds
    BY <2>4 DEF Respond, RelayChunk, RelayEnds, http
  <2>5. CASE RetryableStatus \/ \E error \in Errors : AttemptFails(error)
    BY <2>5 DEF RetryableStatus, AttemptFails
  <2>6. CASE Retry \/ GiveUp \/ SendText \/ StatusUnread
    BY <2>6 DEF Retry, GiveUp, SendText, StatusUnread, http
  <2>7. CASE Downstream \/ Upstream \/ Ends \/ World \/ Done \/ UNCHANGED vars
    <3>1. UNCHANGED <<taken, size, body, kind>> /\ (at' = at \/ Socket)
      BY <2>7, HttpKept DEF http
    <3>2. left => left'
      BY LeftForGood
    <3> QED
      BY <3>1, <3>2
  <2> QED
    BY <2>1, <2>2, <2>3, <2>4, <2>5, <2>6, <2>7 DEF Next, Forwards
<1>3. BodyInv => RequestWhole
  BY DEF BodyInv, RequestWhole
<1> QED
  BY <1>1, <1>2, <1>3, TypesHold, PTL DEF Spec

-----------------------------------------------------------------------------
(* The response.                                                            *)

\* What a step does to the response: nothing, unless it says or ends it, or the
\* upstream breaks off.
LEMMA ResponseSteps ==
  ASSUME Types, [Next]_vars, ~Socket
  PROVE  /\ broke => broke'
         /\ \/ /\ wire' = wire
               /\ \/ at' = at
                  \/ at' \in {"connecting", "sending", "waiting", "attempt", "raised"}
                       /\ at \in {"attempt", "connecting", "sending", "waiting", "failed"}
                  \/ at' = "failed" /\ (at # "relaying" \/ broke')
                       /\ at \in {"connecting", "sending", "waiting", "relaying"}
            \/ /\ at \in {"waiting", "failed"} /\ at' \in {"relaying", "text"}
               /\ \E m \in Starts : wire' = Append(wire, m)
            \/ at = "relaying" /\ at' = at /\ wire' = Append(wire, "body")
            \/ /\ at \in {"relaying", "text"} /\ at' = "returned"
               /\ wire' = Append(wire, "final")
<1> USE DEF Types, PlaceOK, BodyOK, Socket, HttpPlaces
<1>1. CASE Attempt \/ Connect \/ TakeBody \/ BodyEnds \/ RetryableStatus
  BY <1>1 DEF Attempt, Connect, TakeBody, BodyEnds, RetryableStatus, http
<1>2. CASE Respond \/ RelayChunk \/ RelayEnds
  BY <1>2 DEF Respond, RelayChunk, RelayEnds, Put, Starts, http
<1>3. ASSUME NEW error \in Errors, AttemptFails(error)
      PROVE  /\ wire' = wire /\ at' = "failed" /\ broke' = (broke \/ at = "relaying")
             /\ at \in {"connecting", "sending", "waiting", "relaying"}
  BY <1>3 DEF AttemptFails
<1>4. CASE Retry \/ StatusUnread
  BY <1>4 DEF Retry, StatusUnread, http
<1>5. CASE GiveUp \/ SendText
  BY <1>5 DEF GiveUp, SendText, Put, Starts, http
<1>6. CASE Downstream \/ Upstream \/ Ends
  BY <1>6 DEF Downstream, Receive, Forward, CloseUpstream, CancelDown, Upstream, Iterate,
     Deliver, CloseDownstream, CancelUp, Ends, Accept, Dial, DialFails, CloseFailed, PumpEnds,
     Pumping, Failed
<1>7. CASE World \/ Done \/ UNCHANGED vars
  BY <1>7 DEF World, Leave, ClientSends, UpstreamSends, UpstreamEnds, Done, vars, http
<1> QED
  BY <1>1, <1>2, <1>3, <1>4, <1>5, <1>6, <1>7 DEF Next, Forwards

LEMMA AppendOne ==
  ASSUME NEW S, NEW s \in Seq(S), NEW m \in S
  PROVE  /\ Len(Append(s, m)) = Len(s) + 1 /\ Append(s, m) # <<>>
         /\ DOMAIN Append(s, m) = 1..Len(s) + 1 /\ DOMAIN s = 1..Len(s) /\ Len(s) \in Nat
         /\ \A i \in 1..Len(s) : Append(s, m)[i] = s[i]
         /\ Append(s, m)[Len(s) + 1] = m
BY AppendProperties, LenProperties

\* A client gets one response, and an upstream that breaks off is the only reason
\* to start it over.
THEOREM ResponseOnce == Spec => []OneResponse
<1>1. Init => ResponseInv
  BY DEF Init, ResponseInv, Socket
<1>2. Types /\ ResponseInv /\ [Next]_vars => ResponseInv'
  <2> SUFFICES ASSUME Types, ResponseInv, [Next]_vars, ~Socket' PROVE ResponseInv'
    BY DEF ResponseInv
  <2>0. ~Socket
    BY KindKept DEF Socket
  <2> USE DEF ResponseInv
  <2>1. /\ wire \in Seq(Messages)
        /\ {"body", "final"} \cup Starts \subseteq Messages
        /\ "final" \notin Starts /\ "body" \notin Starts
    BY DEF Types, PlaceOK, Messages, Starts
  <2>a. broke => broke'
    BY <2>0, ResponseSteps
  <2>2. CASE wire' = wire /\ at' = at
    BY <2>0, <2>2, <2>a
  <2>3. CASE /\ wire' = wire
             /\ at' \in {"connecting", "sending", "waiting", "attempt", "raised"}
             /\ at \in {"attempt", "connecting", "sending", "waiting", "failed"}
    BY <2>0, <2>3, <2>a
  <2>4. CASE /\ wire' = wire /\ at' = "failed" /\ (at # "relaying" \/ broke')
             /\ at \in {"connecting", "sending", "waiting", "relaying"}
    BY <2>0, <2>4, <2>a
  <2>5. CASE /\ at \in {"waiting", "failed"} /\ at' \in {"relaying", "text"}
             /\ \E m \in Starts : wire' = Append(wire, m)
    <3>1. PICK m \in Starts : wire' = Append(wire, m)
      BY <2>5
    <3>2. m \in Messages /\ m # "final"
      BY <2>1
    <3>3. wire = <<>> \/ broke'
      BY <2>0, <2>5, <2>a
    <3>4. wire = <<>> => Len(wire) = 0
      BY EmptySeq
    <3> QED
      BY <2>0, <2>1, <2>5, <2>a, <3>1, <3>2, <3>3, <3>4, AppendOne
  <2>6. CASE at = "relaying" /\ at' = at /\ wire' = Append(wire, "body")
    BY <2>0, <2>1, <2>6, <2>a, AppendOne
  <2>7. CASE at \in {"relaying", "text"} /\ at' = "returned" /\ wire' = Append(wire, "final")
    BY <2>0, <2>1, <2>7, <2>a, AppendOne
  <2> QED
    BY <2>0, <2>2, <2>3, <2>4, <2>5, <2>6, <2>7, ResponseSteps
<1>3. ResponseInv => OneResponse
  BY DEF ResponseInv, OneResponse
<1> QED
  BY <1>1, <1>2, <1>3, TypesHold, PTL DEF Spec

-----------------------------------------------------------------------------
(* The close of a WebSocket.                                                *)

LEMMA ClosedStays ==
  wire' = wire => (Closed' = Closed) /\ (ClosedByPump' = ClosedByPump)
BY DEF Closed, ClosedByPump

LEMMA LastStays ==
  ASSUME wire' = wire, down' = down, up' = up, NEW code, ClosedAtLast(code)
  PROVE  ClosedAtLast(code)'
BY DEF ClosedAtLast, Failed

\* What another message changes.
LEMMA ClosedAfter ==
  ASSUME wire \in Seq(Messages), NEW m \in Messages, wire' = Append(wire, m)
  PROVE  /\ Closed' <=> Closed \/ m \in Closes
         /\ ~Closed /\ (m = "1000" \/ m \notin Closes) => ClosedByPump'
         /\ ClosedByPump /\ (Closed => Failed') /\ m = "1011" => ClosedAtLast("1011")'
<1>1. /\ DOMAIN wire' = 1..Len(wire) + 1 /\ DOMAIN wire = 1..Len(wire) /\ Len(wire) \in Nat
      /\ \A i \in 1..Len(wire) : wire'[i] = wire[i]
      /\ wire'[Len(wire) + 1] = m /\ Len(wire') = Len(wire) + 1 /\ wire' # <<>>
  BY AppendOne
<1>2. Closed' <=> \E i \in DOMAIN wire' : wire'[i] \in Closes
  BY DEF Closed, Closes
<1>3. Closed' <=> Closed \/ m \in Closes
  BY <1>1, <1>2 DEF Closed
<1>4. ASSUME ~Closed, m = "1000" \/ m \notin Closes PROVE ClosedByPump'
  <2>1. SUFFICES ASSUME NEW i \in DOMAIN wire', wire'[i] \in Closes
                 PROVE  i = Len(wire') /\ wire'[i] = "1000"
    BY DEF ClosedByPump, Closes
  <2>2. i \notin 1..Len(wire)
    BY <1>1, <1>4, <2>1 DEF Closed
  <2> QED
    BY <1>1, <1>4, <2>1, <2>2
<1>5. ASSUME ClosedByPump, Closed => Failed', m = "1011" PROVE ClosedAtLast("1011")'
  <2>1. SUFFICES ASSUME NEW i \in DOMAIN wire', NEW j \in DOMAIN wire',
                        wire'[i] \in Closes, j > i
                 PROVE  wire'[i] = "1000" /\ wire'[j] = "1011" /\ j = Len(wire') /\ Failed'
    BY <1>1, <1>5 DEF ClosedAtLast, Closes
  <2>2. i \in 1..Len(wire)
    BY <1>1, <2>1
  <2>3. i = Len(wire) /\ wire[i] = "1000" /\ Closed
    BY <1>1, <1>5, <2>1, <2>2 DEF ClosedByPump, Closed
  <2> QED
    BY <1>1, <1>5, <2>1, <2>3
<1> QED
  BY <1>3, <1>4, <1>5

\* A close of the pump is the last message.
LEMMA PumpsLast ==
  ASSUME wire \in Seq(Messages), Closed, ClosedByPump PROVE ClosedAtLast("1000")
<1>1. PICK i \in DOMAIN wire : wire[i] \in Closes
  BY DEF Closed
<1>2. i = Len(wire) /\ wire[i] = "1000" /\ DOMAIN wire = 1..Len(wire) /\ Len(wire) \in Nat
  BY <1>1, LenProperties DEF ClosedByPump
<1>3. wire # <<>>
  BY <1>1, EmptySeq
<1>4. \A k, j \in DOMAIN wire : wire[k] \in Closes => ~(j > k)
  BY <1>2 DEF ClosedByPump
<1> QED
  BY <1>2, <1>3, <1>4 DEF ClosedAtLast

\* A WebSocket client is told of the end and whether it was a failure; nothing but
\* the close of a failure follows the pump's close, and nothing follows that.
THEOREM CloseTold == Spec => []ToldTheEnd
<1>1. Init => CloseInv
  <2> SUFFICES ASSUME Init PROVE CloseInv
    OBVIOUS
  <2>1. DOMAIN wire = {}
    BY EmptySeq DEF Init
  <2>2. ~Closed /\ ClosedByPump
    BY <2>1 DEF Closed, ClosedByPump
  <2> QED
    BY <2>2 DEF Init, CloseInv, Over, Socket
<1>2. Types /\ CloseInv /\ [Next]_vars => CloseInv'
  <2> SUFFICES ASSUME Types, CloseInv, [Next]_vars, Socket' PROVE CloseInv'
    BY DEF CloseInv
  <2>1. Socket /\ at \in SocketPlaces /\ wire \in Seq(Messages) /\ left \in BOOLEAN
    BY KindKept DEF Socket, Types, PlaceOK
  <2>2. /\ "accept" \in Messages \ Closes /\ "frame" \in Messages \ Closes
        /\ "1000" \in Messages \cap Closes /\ "1011" \in Messages \cap Closes
    BY DEF Messages, Closes
  <2>3. left => left'
    BY <2>1, LeftForGood
  <2> USE <2>1, <2>2, <2>3 DEF CloseInv, Over, SocketPlaces
  <2>4. CASE Forwards
    BY <2>4 DEF Forwards, Attempt, Connect, TakeBody, BodyEnds, Respond, RetryableStatus,
       RelayChunk, RelayEnds, AttemptFails, Retry, GiveUp, SendText, StatusUnread
  <2>5. CASE Downstream
    BY <2>5, ClosedStays DEF Downstream, Receive, Forward, CloseUpstream, CancelDown, Pumping,
       Failed, Hangup
  <2>6. CASE Iterate
    BY <2>6, ClosedStays DEF Iterate, Pumping, Failed
  <2>7. CASE Deliver
    BY <2>7, ClosedStays, ClosedAfter DEF Deliver, Put, Refuses, Pumping, Failed
  <2>8. CASE CloseDownstream
    BY <2>8, ClosedStays, ClosedAfter DEF CloseDownstream, Put, Refuses, Pumping, Failed
  <2>9. CASE CancelUp
    BY <2>9, ClosedStays, ClosedAfter DEF CancelUp, Put, Failed
  <2>10. CASE Accept
    BY <2>10, ClosedStays, ClosedAfter DEF Accept, Put, Refuses, pump
  <2>11. CASE Dial \/ DialFails
    BY <2>11, ClosedStays DEF Dial, DialFails, pump
  <2>12. CASE CloseFailed
    <3>1. /\ at = "failed" /\ upstream' = upstream /\ Failed' = Failed /\ left' = left
          /\ Closed => Failed
      BY <2>12 DEF CloseFailed, pump, Failed
    <3>2. CASE Put("1011") /\ at' = "returned"
      <4>1. ClosedAtLast("1011")'
        BY <3>1, <3>2, ClosedAfter DEF Put
      <4> QED
        BY <3>1, <3>2, <4>1
    <3>3. CASE Refuses /\ at' = "raised"
      BY <3>1, <3>3, ClosedStays DEF Refuses
    <3> QED
      BY <2>12, <3>2, <3>3 DEF CloseFailed
  <2>13. CASE PumpEnds
    <3>1. Failed' = Failed /\ Closed' = Closed /\ ClosedByPump' = ClosedByPump
      BY <2>13, ClosedStays DEF PumpEnds, Failed
    <3>2. upstream # "none" /\ upstream' # "none" /\ at = "pumping" /\ ClosedByPump
      BY <2>13 DEF PumpEnds, Hangup
    <3>3. CASE Failed
      BY <2>13, <3>1, <3>2, <3>3 DEF PumpEnds
    <3>4. CASE ~Failed
      <4>1. ClosedAtLast("1000")
        BY <2>13, <3>2, <3>4, PumpsLast DEF PumpEnds, Stopped, Failed
      <4>2. ClosedAtLast("1000")'
        BY <2>13, <3>1, <4>1 DEF PumpEnds, ClosedAtLast
      <4> QED
        BY <2>13, <3>1, <3>2, <3>4, <4>2 DEF PumpEnds
    <3> QED
      BY <3>3, <3>4
  <2>14. CASE World
    BY <2>14, ClosedStays DEF World, Leave, ClientSends, UpstreamSends, UpstreamEnds, pump, Failed
  <2>15. CASE Done \/ UNCHANGED vars
    <3>1. /\ at' = at /\ wire' = wire /\ up' = up /\ down' = down /\ upstream' = upstream
          /\ left' = left /\ Failed' = Failed
      BY <2>15 DEF Done, vars, pump, Failed
    <3>2. /\ Closed' = Closed /\ ClosedByPump' = ClosedByPump
          /\ ClosedAtLast("1011") => ClosedAtLast("1011")'
          /\ ClosedAtLast("1000") => ClosedAtLast("1000")'
      <4>1. Closed' = Closed /\ ClosedByPump' = ClosedByPump
        BY <3>1, ClosedStays
      <4>2. ASSUME ClosedAtLast("1011") PROVE ClosedAtLast("1011")'
        BY <3>1, <4>2, LastStays
      <4>3. ASSUME ClosedAtLast("1000") PROVE ClosedAtLast("1000")'
        BY <3>1, <4>3, LastStays
      <4> QED
        BY <4>1, <4>2, <4>3
    <3>3. /\ at # "returned" => ClosedByPump'
          /\ at = "returned" /\ (Failed' \/ upstream' = "none") => ClosedAtLast("1011")'
          /\ at = "returned" /\ ~Failed' /\ upstream' # "none" => ClosedAtLast("1000")'
      BY <3>1, <3>2
    <3>4. /\ at' \in {"accepting", "dialling"} =>
               up' = "iterate" /\ down' = "receive" /\ upstream' = "none" /\ ~Closed'
          /\ at' = "pumping" => upstream' # "none"
          /\ up' \in {"iterate", "send", "close", "break"} /\ at' = "pumping" => ~Closed'
          /\ at' = "pumping" /\ up' = "ended" /\ ~Failed' => Closed'
          /\ at' = "failed" => Failed' \/ (upstream' = "none" /\ ~Closed')
          /\ at' = "raised" => left' \/ Closed'
      BY <3>1, <3>2
    <3> QED
      BY <3>1, <3>3, <3>4
  <2> QED
    BY <2>4, <2>5, <2>6, <2>7, <2>8, <2>9, <2>10, <2>11, <2>12, <2>13, <2>14, <2>15
       DEF Next, Upstream, Ends
<1>3. Types /\ CloseInv => ToldTheEnd
  <2> SUFFICES ASSUME Types, CloseInv, Socket PROVE ToldTheEnd
    BY DEF ToldTheEnd
  <2>1. wire \in Seq(Messages) /\ DOMAIN wire = 1..Len(wire) /\ Len(wire) \in Nat
    BY LenProperties DEF Types, PlaceOK
  <2>2. CASE at = "returned"
    <3>1. PICK code \in {"1000", "1011"} :
            code = (IF Failed \/ upstream = "none" THEN "1011" ELSE "1000") /\ ClosedAtLast(code)
      <4>1. CASE Failed \/ upstream = "none"
        BY <2>2, <4>1 DEF CloseInv
      <4>2. CASE ~Failed /\ upstream # "none"
        BY <2>2, <4>2 DEF CloseInv
      <4> QED
        BY <4>1, <4>2
    <3>2. Closed
      BY <2>1, <3>1, EmptySeq DEF ClosedAtLast, Closed, Closes
    <3> QED
      BY <2>2, <3>1, <3>2 DEF ToldTheEnd, ClosedAtLast
  <2>3. CASE at # "returned"
    <3>1. \A i, j \in DOMAIN wire : wire[i] \in Closes => ~(j > i)
      BY <2>1, <2>3 DEF CloseInv, ClosedByPump
    <3> QED
      BY <2>3, <3>1 DEF CloseInv, ToldTheEnd, Over
  <2> QED
    BY <2>2, <2>3
<1> QED
  BY <1>1, <1>2, <1>3, TypesHold, PTL DEF Spec
=============================================================================
