---------------------------- MODULE ResponseProofs ---------------------------
(***************************************************************************)
(* Proofs about responses that take more than one message, for any number  *)
(* of them.                                                                *)
(*                                                                         *)
(* EventStream: the order of what an EventStreamResponse sends. Each fact  *)
(* about the wire is strengthened with where the stream is once the fact's *)
(* messages have been sent.                                                *)
(*                                                                         *)
(* FileResponse: a response to a request for a file, whole or in ranges,   *)
(* ends once (FilesEnd), and it sends what was asked for and nothing else  *)
(* (FilesAsRequested, FilesNothingElse).  Those two take three steps.      *)
(*   - parse_range_value returns ranges that cover what the definitions    *)
(*     mean (ParsedMeans): an induction along each of its loops, with      *)
(*     list.sort() in between, which keeps each range once and puts them   *)
(*     in order.                                                           *)
(*   - Underway, InRow, Exact and Parting relate what was sent, what is    *)
(*     left and what is meant; a chunk that is read, as long as it was     *)
(*     asked for or shorter, keeps them (ReadUnderway and the others).     *)
(*   - DeliveryInv has them hold of each request that no other one of the  *)
(*     response object has spoilt the headers for, and its headers         *)
(*     announce as much as is meant.                                       *)
(* The two components have no name in common.                              *)
(***************************************************************************)
EXTENDS EventStream, FileResponse, SequenceTheorems, FiniteSetTheorems, WellFoundedInduction,
        TLAPS

Message == {"start", "event", "ping", "final"}

-----------------------------------------------------------------------------
(* What a message adds to the wire.                                         *)

LEMMA PutFacts ==
  ASSUME NEW message \in Message, wire \in Seq(Message), Put(message)
  PROVE  /\ wire' \in Seq(Message)
         /\ Len(wire) \in Nat /\ Len(wire') = Len(wire) + 1
         /\ DOMAIN wire = 1 .. Len(wire) /\ DOMAIN wire' = 1 .. Len(wire) + 1
         /\ \A i \in 1 .. Len(wire) : wire'[i] = wire[i]
         /\ wire'[Len(wire) + 1] = message
BY AppendProperties, LenProperties DEF Put

LEMMA PutSent ==
  ASSUME NEW message \in Message, wire \in Seq(Message), Put(message)
  PROVE  \A other \in Message : Sent(other)' <=> Sent(other) \/ other = message
BY PutFacts DEF Sent

-----------------------------------------------------------------------------
(* The type of the state.                                                   *)

LEMMA TypeInit == Init => TypeOK
<1>1. <<>> \in Seq(Message)
  OBVIOUS
<1>2. Init => {active, cancelled, failed, gone, timedOut} \subseteq BOOLEAN
  BY DEF Init
<1>3. QED
  BY <1>1, <1>2 DEF Init, TypeOK, StreamStates, PingStates, ListenerStates, Message

LEMMA TypeStep == TypeOK /\ [Next]_vars => TypeOK'
<1> SUFFICES ASSUME TypeOK, [Next]_vars PROVE TypeOK'
  OBVIOUS
<1> USE DEF TypeOK, StreamStates, PingStates, ListenerStates, tasks
<1>0. wire \in Seq(Message)
  BY DEF Message
<1>p. ASSUME NEW message \in Message, Put(message) PROVE wire' \in Seq(Message)
  BY <1>0, <1>p, PutFacts
<1>1. CASE SendStart
  BY <1>1, <1>p DEF SendStart, Message
<1>2. CASE StreamResume
  BY <1>2 DEF StreamResume
<1>3. CASE SendEvent
  BY <1>3, <1>p DEF SendEvent, Message
<1>4. CASE SourceEnds
  BY <1>4 DEF SourceEnds
<1>5. CASE SourceTimeout
  BY <1>5 DEF SourceTimeout
<1>6. CASE SendExpired
  BY <1>6, <1>p DEF SendExpired, Message
<1>7. CASE RaiseExpired
  BY <1>7 DEF RaiseExpired
<1>8. CASE SendTimeout
  BY <1>8 DEF SendTimeout
<1>9. CASE SendFinal
  BY <1>9, <1>p DEF SendFinal, Message
<1>10. CASE StreamEnds
  BY <1>10 DEF StreamEnds
<1>11. CASE GraceEnds
  BY <1>11 DEF GraceEnds
<1>12. CASE StreamCancelled
  BY <1>12 DEF StreamCancelled
<1>13. CASE FirstPing
  BY <1>13, <1>p DEF FirstPing, Message
<1>14. CASE PingResume
  BY <1>14 DEF PingResume
<1>15. CASE PingWakes
  BY <1>15, <1>p DEF PingWakes, Message
<1>16. CASE PingEnds
  BY <1>16 DEF PingEnds
<1>17. CASE Disconnect
  BY <1>17 DEF Disconnect
<1>18. CASE HandlerEnds
  BY <1>18 DEF HandlerEnds
<1>19. CASE ListenerStops
  BY <1>19 DEF ListenerStops
<1>20. CASE ListenerCancelled
  BY <1>20 DEF ListenerCancelled
<1>21. CASE SenderEnds
  BY <1>21 DEF SenderEnds
<1>22. CASE SenderFails
  BY <1>22 DEF SenderFails
<1>23. CASE SenderCancelled
  BY <1>23 DEF SenderCancelled
<1>24. CASE Join
  BY <1>24 DEF Join
<1>25. CASE Done \/ UNCHANGED vars
  BY <1>25 DEF Done, vars
<1>26. QED
  BY <1>1, <1>2, <1>3, <1>4, <1>5, <1>6, <1>7, <1>8, <1>9, <1>10, <1>11, <1>12,
     <1>13, <1>14, <1>15, <1>16, <1>17, <1>18, <1>19, <1>20, <1>21, <1>22, <1>23,
     <1>24, <1>25 DEF Next

\* The tasks are in one of their states, and a response that has ended has no
\* task left.
THEOREM TypeCorrect == Spec => []TypeOK
BY TypeInit, TypeStep, PTL DEF Spec

-----------------------------------------------------------------------------
(* The steps, as far as the order of the messages depends on them.          *)

Closing == {"ending", "grace", "done"}
Late == Closing \cup {"expiring", "ended"}

\* Who may put which message on the wire.
Puts ==
  \/ UNCHANGED wire
  \/ Put("start") /\ stream = "new" /\ stream' = "starting"
  \/ Put("event") /\ stream = "source" /\ stream' = "sending"
  \/ Put("ping") /\ stream' = stream /\ (ping = "new" /\ Ordered => stream # "new")
                 /\ ping \in {"new", "sleeping"} /\ ping' = "sending"
  \/ Put("final") /\ stream = "expired" /\ stream' = "expiring"
  \/ Put("final") /\ stream = "ended" /\ stream' = "ending"

\* Where the stream goes: it never comes back.
Moves ==
  /\ stream \in Late => stream' \in Late
  /\ stream \in Closing => stream' \in Closing
  /\ stream # "new" => stream' # "new"
  /\ stream = "new" => stream' = "new" \/ Put("start")
  /\ stream = "new" /\ stream' = "new" => Put("ping") \/ UNCHANGED wire
  /\ stream' \in {"expired", "expiring"} =>
       stream \in {"expired", "expiring"} \/ timedOut'
  /\ timedOut => timedOut'
  /\ ping \in {"new", "done"} => ping' = ping \/ (ping = "new" /\ Put("ping"))

\* Why the group is cancelled and how it ends.
Ends ==
  /\ stream' \in {"ending", "grace"} => stream \in {"ending", "grace"} \/ Put("final")
  /\ stream' = "done" => stream \in {"ending", "grace", "done"} \/ cancelled
  /\ cancelled => cancelled'
  /\ cancelled' => \/ cancelled \/ stream \in {"ending", "grace"}
                  \/ sender' = "failed" \/ listener = "handler"
  /\ sender = "failed" => sender' = "failed"
  /\ gone => gone'
  /\ listener' = "handler" => listener = "handler" \/ gone'

LEMMA Steps == TypeOK /\ [Next]_vars => Puts /\ Moves /\ Ends
<1> SUFFICES ASSUME TypeOK, [Next]_vars PROVE Puts /\ Moves /\ Ends
  OBVIOUS
<1> USE DEF TypeOK, StreamStates, PingStates, ListenerStates, tasks,
            Puts, Moves, Ends, Closing, Late
<1>1. CASE SendStart
  BY <1>1 DEF SendStart
<1>2. CASE StreamResume
  BY <1>2 DEF StreamResume
<1>3. CASE SendEvent
  BY <1>3 DEF SendEvent
<1>4. CASE SourceEnds
  BY <1>4 DEF SourceEnds
<1>5. CASE SourceTimeout
  BY <1>5 DEF SourceTimeout
<1>6. CASE SendExpired
  BY <1>6 DEF SendExpired
<1>7. CASE RaiseExpired
  BY <1>7 DEF RaiseExpired
<1>8. CASE SendTimeout
  BY <1>8 DEF SendTimeout
<1>9. CASE SendFinal
  BY <1>9 DEF SendFinal
<1>10. CASE StreamEnds
  BY <1>10 DEF StreamEnds
<1>11. CASE GraceEnds
  BY <1>11 DEF GraceEnds
<1>12. CASE StreamCancelled
  BY <1>12 DEF StreamCancelled
<1>13. CASE FirstPing
  BY <1>13 DEF FirstPing
<1>14. CASE PingResume
  BY <1>14 DEF PingResume
<1>15. CASE PingWakes
  BY <1>15 DEF PingWakes
<1>16. CASE PingEnds
  BY <1>16 DEF PingEnds
<1>17. CASE Disconnect
  BY <1>17 DEF Disconnect
<1>18. CASE HandlerEnds
  BY <1>18 DEF HandlerEnds
<1>19. CASE ListenerStops
  BY <1>19 DEF ListenerStops
<1>20. CASE ListenerCancelled
  BY <1>20 DEF ListenerCancelled
<1>21. CASE SenderEnds
  BY <1>21 DEF SenderEnds
<1>22. CASE SenderFails
  BY <1>22 DEF SenderFails
<1>23. CASE SenderCancelled
  BY <1>23 DEF SenderCancelled
<1>24. CASE Join
  BY <1>24 DEF Join
<1>25. CASE Done \/ UNCHANGED vars
  BY <1>25 DEF Done, vars
<1>26. QED
  BY <1>1, <1>2, <1>3, <1>4, <1>5, <1>6, <1>7, <1>8, <1>9, <1>10, <1>11, <1>12,
     <1>13, <1>14, <1>15, <1>16, <1>17, <1>18, <1>19, <1>20, <1>21, <1>22, <1>23,
     <1>24, <1>25 DEF Next

-----------------------------------------------------------------------------
(* No event follows the end of the body.                                    *)

OrderInv == TypeOK /\ (Sent("final") => stream \in Late) /\ EventsBeforeFinal

LEMMA OrderStep == OrderInv /\ [Next]_vars => OrderInv'
<1> SUFFICES ASSUME OrderInv, [Next]_vars PROVE OrderInv'
  OBVIOUS
<1>1. TypeOK' /\ Puts /\ Moves /\ wire \in Seq(Message)
  BY TypeStep, Steps DEF OrderInv, TypeOK, Message
<1>2. CASE UNCHANGED wire
  BY <1>1, <1>2 DEF OrderInv, Moves, Sent, EventsBeforeFinal
<1>3. ASSUME NEW message \in Message, Put(message),
             message = "event" => stream \notin Late,
             message = "final" => stream' \in Late
      PROVE  OrderInv'
  <2>1. Sent("final")' => stream' \in Late
    BY <1>1, <1>3, PutSent DEF OrderInv, Moves, Message
  <2>2. EventsBeforeFinal'
    <3> SUFFICES ASSUME NEW i \in DOMAIN wire', NEW j \in DOMAIN wire',
                        wire'[i] = "final", wire'[j] = "event"
                 PROVE  j < i
      BY DEF EventsBeforeFinal
    <3>1. i \in 1 .. Len(wire) + 1 /\ j \in 1 .. Len(wire) + 1 /\ Len(wire) \in Nat
      BY <1>1, <1>3, PutFacts
    <3>2. CASE i = Len(wire) + 1
      <4>1. message = "final" /\ j # i
        BY <1>1, <1>3, <3>2, PutFacts
      <4>2. QED
        BY <3>1, <3>2, <4>1
    <3>3. CASE i # Len(wire) + 1
      <4>1. i \in DOMAIN wire /\ wire[i] = "final"
        BY <1>1, <1>3, <3>1, <3>3, PutFacts
      <4>2. message # "event"
        BY <1>3, <4>1 DEF OrderInv, Sent
      <4>3. j \in DOMAIN wire /\ wire[j] = "event"
        BY <1>1, <1>3, <3>1, <4>2, PutFacts
      <4>4. QED
        BY <4>1, <4>3 DEF OrderInv, EventsBeforeFinal
    <3>4. QED
      BY <3>2, <3>3
  <2>3. QED
    BY <1>1, <2>1, <2>2 DEF OrderInv
<1>4. QED
  BY <1>1, <1>2, <1>3 DEF Puts, Message, Late, Closing

\* No event follows the last body, whatever fails, times out or is cancelled.
THEOREM EventsComeFirst == Spec => []EventsBeforeFinal
<1>1. Init => OrderInv
  <2>1. Init => TypeOK
    BY TypeInit
  <2>2. QED
    BY <2>1 DEF Init, OrderInv, Sent, EventsBeforeFinal
<1>2. OrderInv => EventsBeforeFinal
  BY DEF OrderInv
<1>3. QED
  BY <1>1, <1>2, OrderStep, PTL DEF Spec

-----------------------------------------------------------------------------
(* The response starts first, where tasks start in the order they were      *)
(* given to the task group.                                                 *)

StartInv ==
  /\ TypeOK /\ StartFirst
  /\ stream = "new" => wire = <<>>
  /\ stream # "new" => wire # <<>>
  /\ stream = "new" => ping \in {"new", "done"}

LEMMA StartStep ==
  ASSUME Ordered, StartInv, [Next]_vars
  PROVE  StartInv'
<1>1. TypeOK /\ TypeOK' /\ Puts /\ Moves /\ wire \in Seq(Message)
  BY TypeStep, Steps DEF StartInv, TypeOK, Message
<1>2. CASE UNCHANGED wire
  <2>1. stream = "new" <=> stream' = "new"
    <3>1. ~Put("start")
      <4> SUFFICES ASSUME Put("start") PROVE FALSE
        OBVIOUS
      <4>1. Len(wire') = Len(wire) + 1 /\ Len(wire) \in Nat
        BY <1>1, PutFacts DEF Message
      <4>2. QED
        BY <1>2, <4>1
    <3>2. QED
      BY <1>1, <3>1 DEF Moves
  <2>2. stream' = "new" => ping' \in {"new", "done"}
    <3>1. ~Put("ping")
      <4> SUFFICES ASSUME Put("ping") PROVE FALSE
        OBVIOUS
      <4>1. Len(wire') = Len(wire) + 1 /\ Len(wire) \in Nat
        BY <1>1, PutFacts DEF Message
      <4>2. QED
        BY <1>2, <4>1
    <3>2. QED
      BY <1>1, <2>1, <3>1 DEF Moves, StartInv
  <2>3. QED
    BY <1>1, <1>2, <2>1, <2>2 DEF StartInv, StartFirst
<1>3. CASE Put("start") /\ stream = "new" /\ stream' = "starting"
  <2>1. wire = <<>>
    BY <1>3 DEF StartInv
  <2>2. DOMAIN wire' = 1 .. 1 /\ wire'[1] = "start" /\ wire' # <<>>
    BY <1>1, <1>3, <2>1, PutFacts DEF Message
  <2>3. StartFirst'
    BY <2>2 DEF StartFirst
  <2>4. QED
    BY <1>1, <1>3, <2>2, <2>3 DEF StartInv
<1>4. ASSUME NEW message \in Message \ {"start"}, Put(message),
             stream # "new", stream' # "new"
      PROVE  StartInv'
  <2>1. Len(wire) \in Nat /\ Len(wire) > 0
    <3>1. wire # <<>>
      BY <1>4 DEF StartInv
    <3>2. QED
      BY <1>1, <3>1, EmptySeq, LenProperties
  <2>2. StartFirst'
    <3> SUFFICES ASSUME NEW i \in DOMAIN wire' PROVE wire'[i] = "start" <=> i = 1
      BY DEF StartFirst
    <3>1. i \in 1 .. Len(wire) + 1
      BY <1>1, <1>4, PutFacts
    <3>2. CASE i = Len(wire) + 1
      BY <1>1, <1>4, <2>1, <3>2, PutFacts
    <3>3. CASE i # Len(wire) + 1
      <4>1. i \in DOMAIN wire /\ wire'[i] = wire[i]
        BY <1>1, <1>4, <2>1, <3>1, <3>3, PutFacts
      <4>2. QED
        BY <4>1 DEF StartInv, StartFirst
    <3>4. QED
      BY <3>2, <3>3
  <2>3. wire' # <<>>
    BY <1>4, <1>1, AppendProperties DEF Put
  <2>4. QED
    BY <1>1, <1>4, <2>2, <2>3 DEF StartInv
<1>5. QED
  <2>1. ASSUME Put("ping"), stream' = stream, ping = "new" => stream # "new",
               ping \in {"new", "sleeping"}
        PROVE  stream # "new"
    BY <2>1 DEF StartInv
  <2>2. QED
    BY <1>1, <1>2, <1>3, <1>4, <2>1 DEF Puts, Message

\* Where tasks start in order, the first message is the start of the response,
\* and it is the only one.
THEOREM StartComesFirst == ASSUME Ordered PROVE Spec => []StartFirst
<1>1. Init => StartInv
  BY TypeInit DEF Init, StartInv, StartFirst
<1>2. StartInv /\ [Next]_vars => StartInv'
  BY StartStep
<1>3. StartInv => StartFirst
  BY DEF StartInv
<1>4. QED
  BY <1>1, <1>2, <1>3, PTL DEF Spec

-----------------------------------------------------------------------------
(* The body is ended once, if the send timeout has not passed.              *)

OnceInv ==
  /\ TypeOK /\ FinalOnce
  /\ stream \in {"expired", "expiring"} => timedOut
  /\ Sent("final") => stream \in Closing \/ timedOut

LEMMA OnceStep == OnceInv /\ [Next]_vars => OnceInv'
<1> SUFFICES ASSUME OnceInv, [Next]_vars PROVE OnceInv'
  OBVIOUS
<1>1. TypeOK' /\ Puts /\ Moves /\ wire \in Seq(Message)
  BY TypeStep, Steps DEF OnceInv, TypeOK, Message
<1>2. stream' \in {"expired", "expiring"} => timedOut'
  BY <1>1 DEF OnceInv, Moves
<1>3. CASE UNCHANGED wire
  BY <1>1, <1>2, <1>3 DEF OnceInv, Moves, Sent, FinalOnce
<1>4. ASSUME NEW message \in Message \ {"final"}, Put(message)
      PROVE  OnceInv'
  <2>1. Sent("final")' => stream' \in Closing \/ timedOut'
    BY <1>1, <1>4, PutSent DEF OnceInv, Moves, Message
  <2>2. FinalOnce'
    <3> SUFFICES ASSUME NEW i \in DOMAIN wire', NEW j \in DOMAIN wire',
                        wire'[i] = "final", wire'[j] = "final"
                 PROVE  i = j \/ timedOut'
      BY DEF FinalOnce
    <3>1. i \in DOMAIN wire /\ j \in DOMAIN wire /\ wire[i] = "final" /\ wire[j] = "final"
      BY <1>1, <1>4, PutFacts
    <3>2. QED
      BY <1>1, <3>1 DEF OnceInv, FinalOnce, Moves
  <2>3. QED
    BY <1>1, <1>2, <2>1, <2>2 DEF OnceInv
<1>5. CASE timedOut
  BY <1>1, <1>2, <1>5 DEF OnceInv, Moves, FinalOnce
<1>6. CASE Put("final") /\ stream = "ended" /\ stream' = "ending" /\ ~timedOut
  <2>1. ~Sent("final")
    BY <1>6 DEF OnceInv, Closing
  <2>2. FinalOnce'
    <3> SUFFICES ASSUME NEW i \in DOMAIN wire', wire'[i] = "final"
                 PROVE  i = Len(wire) + 1
      BY DEF FinalOnce
    <3>1. i \in 1 .. Len(wire) + 1 /\ Len(wire) \in Nat
      BY <1>1, <1>6, PutFacts DEF Message
    <3>2. ASSUME i # Len(wire) + 1 PROVE FALSE
      <4>1. i \in DOMAIN wire /\ wire[i] = "final"
        BY <1>1, <1>6, <3>1, <3>2, PutFacts DEF Message
      <4>2. QED
        BY <2>1, <4>1 DEF Sent
    <3>3. QED
      BY <3>2
  <2>3. QED
    BY <1>1, <1>2, <1>6, <2>2 DEF OnceInv, Closing
<1>7. QED
  BY <1>1, <1>3, <1>4, <1>5, <1>6 DEF Puts, Message, OnceInv

\* A body that is ended twice has a source that let the send timeout pass.
THEOREM EndedOnce == Spec => []FinalOnce
<1>1. Init => OnceInv
  BY TypeInit DEF Init, OnceInv, Sent, FinalOnce
<1>2. OnceInv => FinalOnce
  BY DEF OnceInv
<1>3. QED
  BY <1>1, <1>2, OnceStep, PTL DEF Spec

-----------------------------------------------------------------------------
(* The client that stays gets the end of the body.                          *)

EndInv ==
  /\ TypeOK
  /\ stream \in {"ending", "grace"} => Sent("final")
  /\ stream = "done" => Sent("final") \/ cancelled
  /\ cancelled => gone \/ sender = "failed" \/ Sent("final")
  /\ listener = "handler" => gone

LEMMA EndStep == EndInv /\ [Next]_vars => EndInv'
<1> SUFFICES ASSUME EndInv, [Next]_vars PROVE EndInv'
  OBVIOUS
<1>1. TypeOK' /\ Puts /\ Ends /\ wire \in Seq(Message)
  BY TypeStep, Steps DEF EndInv, TypeOK, Message
<1>2. Sent("final") => Sent("final")'
  <2>1. CASE UNCHANGED wire
    BY <2>1 DEF Sent
  <2>2. ASSUME NEW message \in Message, Put(message)
        PROVE  Sent("final") => Sent("final")'
    BY <1>1, <2>2, PutSent DEF Message
  <2>3. QED
    BY <1>1, <2>1, <2>2 DEF Puts, Message
<1>3. Put("final") => Sent("final")'
  BY <1>1, PutSent DEF Message
<1>4. QED
  BY <1>1, <1>2, <1>3 DEF EndInv, Ends

\* A response that has ended, with a client that is there and no failure of the
\* application's task, has ended its body.
THEOREM BodyEnded == Spec => []EndsCleanly
<1>1. Init => EndInv
  BY TypeInit DEF Init, EndInv
<1>2. EndInv => EndsCleanly
  BY DEF EndInv, EndsCleanly, TypeOK
<1>3. QED
  BY <1>1, <1>2, EndStep, PTL DEF Spec

-----------------------------------------------------------------------------
\* Where tasks start in order, the messages of a response have the shape the
\* protocol asks for: the three theorems about their order together.
THEOREM ShapeKept == ASSUME Ordered PROVE Spec => []StreamShape
<1>1. Spec => [](StartFirst /\ EventsBeforeFinal /\ FinalOnce)
  BY StartComesFirst, EventsComeFirst, EndedOnce, PTL
<1>2. StartFirst /\ EventsBeforeFinal /\ FinalOnce => StreamShape
  BY DEF StreamShape
<1>3. QED
  BY <1>1, <1>2, PTL

-----------------------------------------------------------------------------
(* The end of a FileResponse.                                               *)

\* Of the headers only the range matters: it is set by the first answer with one
\* part that is no list of parts.
HeaderInv ==
  /\ DOMAIN headers = {"status", "length", "range"}
  /\ (\A r \in Requests : ~partial[r]) => headers.range = NoRange

FileShape ==
  /\ DOMAIN phase = Requests /\ DOMAIN left = Requests /\ DOMAIN divided = Requests
  /\ DOMAIN sent = Requests
  /\ finals \in [Requests -> Nat] /\ cleaned \in [Requests -> {0, 1}]
  /\ partial \in [Requests -> BOOLEAN]

\* Where a request is, what it has cleaned up, told the client and has left to send:
\* one range, unless each has a header in front.
RequestEnd(r) ==
  /\ phase[r] \in {"idle", "ready", "announcing", "sending", "failed", "broken", "done"}
  /\ phase[r] \in {"idle", "ready"} => ~partial[r] /\ left[r] = <<>>
  /\ phase[r] \in {"idle", "ready", "announcing"} =>
       sent[r] = <<>> /\ finals[r] = 0 /\ cleaned[r] = 0
  /\ phase[r] = "announcing" =>
       /\ ~partial[r] => left[r] = <<>>
       /\ (partial[r] /\ Alone(r) /\ headers.range # NoRange) => \E x : left[r] = <<x>>
  /\ phase[r] = "sending" =>
       /\ ~Asked(r).head /\ cleaned[r] = 0
       /\ (Alone(r) /\ divided[r]) => finals[r] = 0
       /\ (Alone(r) /\ ~divided[r]) => \/ finals[r] = 1 /\ left[r] = <<>>
                                       \/ finals[r] = 0 /\ \E x : left[r] = <<x>>
  /\ phase[r] = "failed" => cleaned[r] = 0 /\ (Alone(r) => finals[r] <= 1)
  /\ phase[r] = "broken" => cleaned[r] = 1 /\ (Alone(r) => finals[r] <= 1)
  /\ phase[r] = "done" =>
       /\ cleaned[r] = 1
       /\ Alone(r) => finals[r] = IF Asked(r).head THEN 0 ELSE 1

FileIInv == HeaderInv /\ FileShape /\ \A r \in Requests : RequestEnd(r)

\* A list of one range, and the same with the range replaced.
LEMMA OneLeft ==
  ASSUME NEW x, NEW y
  PROVE  /\ <<x>> # <<>> /\ Tail(<<x>>) = <<>> /\ <<y>> \o Tail(<<x>>) = <<y>>
OBVIOUS

\* It holds at the beginning.
LEMMA FileStart ==
  ASSUME FileInit
  PROVE  FileIInv
<1>1. /\ headers = [status |-> 200, length |-> IF scenario.made THEN size ELSE Blank,
                    range |-> NoRange]
      /\ phase = [r \in Requests |-> "idle"]
      /\ partial = [r \in Requests |-> FALSE] /\ left = [r \in Requests |-> <<>>]
      /\ divided = [r \in Requests |-> FALSE] /\ sent = [r \in Requests |-> <<>>]
      /\ finals = [r \in Requests |-> 0] /\ cleaned = [r \in Requests |-> 0]
  BY DEF FileInit
<1>2. HeaderInv
  BY <1>1 DEF HeaderInv
<1>3. FileShape
  BY <1>1 DEF FileShape
<1>4. \A r \in Requests : RequestEnd(r)
  BY <1>1 DEF RequestEnd
<1>5. QED
  BY <1>2, <1>3, <1>4 DEF FileIInv

\* A request keeps its part of the invariant while another one takes a step: the
\* headers may get a range, but then the other was answered with it.
LEMMA OthersKeep ==
  ASSUME FileIInv, NEW q \in Requests, RequestEnd(q), scenario' = scenario,
         phase'[q] = phase[q], left'[q] = left[q], divided'[q] = divided[q],
         sent'[q] = sent[q], finals'[q] = finals[q], cleaned'[q] = cleaned[q],
         partial'[q] = partial[q],
         Alone(q)' => Alone(q) /\ headers'.range = headers.range
  PROVE  RequestEnd(q)'
<1>1. Asked(q)' = Asked(q)
  BY DEF Asked
<1>2. CASE Alone(q)'
  <2>1. Alone(q) /\ headers'.range = headers.range
    BY <1>2
  <2>2. QED
    BY <1>1, <1>2, <2>1 DEF RequestEnd
<1>3. CASE ~Alone(q)'
  BY <1>1, <1>3 DEF RequestEnd
<1>4. QED
  BY <1>2, <1>3

\* Setting what belongs to a request touches no other.
Sets(r) ==
  /\ DOMAIN phase' = Requests /\ DOMAIN left' = Requests /\ DOMAIN divided' = Requests
  /\ DOMAIN sent' = Requests
  /\ finals' \in [Requests -> Nat] /\ cleaned' \in [Requests -> {0, 1}]
  /\ partial' \in [Requests -> BOOLEAN] /\ scenario' = scenario
  /\ \A q \in Requests \ {r} :
       /\ phase'[q] = phase[q] /\ left'[q] = left[q] /\ divided'[q] = divided[q]
       /\ sent'[q] = sent[q] /\ finals'[q] = finals[q] /\ cleaned'[q] = cleaned[q]
       /\ partial'[q] = partial[q]

\* A step of one request keeps it, if it keeps that request's part.
LEMMA SetsKeep ==
  ASSUME FileIInv, NEW r \in Requests, Sets(r), RequestEnd(r)',
         DOMAIN headers' = DOMAIN headers, partial[r] => partial'[r],
         ~partial'[r] => headers'.range = headers.range
  PROVE  FileIInv'
<1>1. Requests' = Requests
  BY DEF Sets, Requests
<1>2. FileShape'
  BY <1>1 DEF Sets, FileShape
<1>3. HeaderInv'
  BY <1>1 DEF Sets, FileIInv, HeaderInv
<1>4. ASSUME NEW q \in Requests
      PROVE  RequestEnd(q)'
  <2>1. CASE q = r
    BY <2>1
  <2>2. CASE q # r
    <3>1. Alone(q)' => Alone(q) /\ headers'.range = headers.range
      BY <1>1, <2>2 DEF Alone, Sets, FileIInv, FileShape
    <3>2. QED
      BY <2>2, <3>1, OthersKeep DEF Sets, FileIInv
  <2>3. QED
    BY <2>1, <2>2
<1>5. QED
  BY <1>1, <1>2, <1>3, <1>4 DEF FileIInv

\* What the steps need of it.
LEMMA FileBasics ==
  ASSUME FileIInv
  PROVE  /\ HeaderInv /\ FileShape /\ \A r \in Requests : RequestEnd(r)
         /\ DOMAIN phase = Requests /\ DOMAIN left = Requests
         /\ DOMAIN divided = Requests /\ DOMAIN sent = Requests
         /\ finals \in [Requests -> Nat] /\ cleaned \in [Requests -> {0, 1}]
         /\ partial \in [Requests -> BOOLEAN]
BY DEF FileIInv, FileShape

\* set_stat_headers leaves the range as it is.
LEMMA LengthKeepsRange ==
  ASSUME FileIInv, NEW r \in Requests
  PROVE  /\ DOMAIN WithLength(r) = DOMAIN headers
         /\ WithLength(r).range = headers.range
BY DEF WithLength, FileIInv, HeaderInv

\* Changes of the file, and the beginning of a request.
LEMMA BeginKeeps ==
  ASSUME FileIInv, NEW r \in Requests, Begin(r)
  PROVE  FileIInv'
<1>1. /\ phase[r] = "idle" /\ phase'[r] \in {"ready", "failed"}
      /\ DOMAIN phase' = Requests /\ \A q \in Requests \ {r} : phase'[q] = phase[q]
      /\ UNCHANGED <<scenario, headers, partial, left, divided, sent, finals, cleaned>>
  BY FileBasics DEF Begin, plan
<1>2. Sets(r)
  BY <1>1, FileBasics DEF Sets
<1>3. RequestEnd(r)
  BY FileBasics
<1>4. RequestEnd(r)'
  BY <1>1, <1>3 DEF RequestEnd
<1>5. QED
  BY <1>1, <1>2, <1>4, SetsKeep

\* An answer: whole, in part or refused.
LEMMA AnswerKeeps ==
  ASSUME FileIInv, NEW r \in Requests, Answer(r)
  PROVE  FileIInv'
<1>1. /\ phase[r] = "ready" /\ ~partial[r] /\ left[r] = <<>>
      /\ sent[r] = <<>> /\ finals[r] = 0 /\ cleaned[r] = 0
  BY FileBasics DEF Answer, RequestEnd
<1>2. UNCHANGED <<scenario, divided, sent, finals, cleaned>>
  BY DEF Answer
<1>3. CASE AnswerWhole(r) \/ Refuse(r)
  <2>1. /\ headers' = WithLength(r) /\ UNCHANGED <<partial, left>>
        /\ phase'[r] \in {"announcing", "failed"}
        /\ DOMAIN phase' = Requests /\ \A q \in Requests \ {r} : phase'[q] = phase[q]
    BY <1>3, FileBasics DEF AnswerWhole, Refuse
  <2>2. Sets(r)
    BY <1>2, <2>1, FileBasics DEF Sets
  <2>3. RequestEnd(r)'
    BY <1>1, <1>2, <2>1 DEF RequestEnd
  <2>4. QED
    BY <2>1, <2>2, <2>3, <1>1, LengthKeepsRange, SetsKeep
<1>4. ASSUME NEW result, AnswerPart(r, result)
      PROVE  FileIInv'
  <2>1. /\ phase' = [phase EXCEPT ![r] = "announcing"]
        /\ partial' = [partial EXCEPT ![r] = TRUE]
        /\ left' = [left EXCEPT ![r] = IF InParts(r, result.ranges) THEN result.ranges
                                       ELSE <<Hull(result.ranges)>>]
    BY <1>4 DEF AnswerPart
  <2>2. /\ phase'[r] = "announcing" /\ partial'[r]
        /\ ~InParts(r, result.ranges) => left'[r] = <<Hull(result.ranges)>>
        /\ DOMAIN phase' = Requests /\ DOMAIN left' = Requests
        /\ partial' \in [Requests -> BOOLEAN]
        /\ \A q \in Requests \ {r} :
             phase'[q] = phase[q] /\ left'[q] = left[q] /\ partial'[q] = partial[q]
    BY <2>1, FileBasics
  <2>3. /\ DOMAIN headers' = DOMAIN headers
        /\ InParts(r, result.ranges) => headers'.range = headers.range
    <3>1. DOMAIN headers = {"status", "length", "range"}
      BY FileBasics DEF HeaderInv
    <3>2. CASE InParts(r, result.ranges)
      <4>1. headers' = [headers EXCEPT !.status = 206, !.length = result.size]
        BY <1>4, <3>2 DEF AnswerPart
      <4>2. QED
        BY <3>1, <4>1
    <3>3. CASE ~InParts(r, result.ranges)
      <4>1. PICK extent : headers' = [status |-> 206, range |-> Hull(result.ranges),
                                      length |-> extent]
        BY <1>4, <3>3 DEF AnswerPart
      <4>2. QED
        BY <3>1, <3>3, <4>1
    <3>4. QED
      BY <3>2, <3>3
  <2>4. Sets(r)
    BY <1>2, <2>2, FileBasics DEF Sets
  <2>5. RequestEnd(r)'
    <3>1. Alone(r)' => headers.range = NoRange
      <4>1. Alone(r)' => \A q \in Requests : ~partial[q]
        BY <1>1, <1>2, <2>2 DEF Alone, Requests
      <4>2. QED
        BY <4>1, FileBasics DEF HeaderInv
    <3>2. (Alone(r)' /\ headers'.range # NoRange) => \E x : left'[r] = <<x>>
      BY <2>2, <2>3, <3>1
    <3>3. QED
      BY <1>1, <1>2, <2>2, <3>2 DEF RequestEnd
  <2>6. QED
    BY <2>2, <2>3, <2>4, <2>5, SetsKeep
<1>5. QED
  BY <1>3, <1>4 DEF Answer

\* The ends: of the headers, of a file that the server sends, of a failure.
LEMMA EndsKeep ==
  ASSUME FileIInv, NEW r \in Requests,
         EndHeaders(r) \/ SendPath(r) \/ Finish(r) \/ Break(r)
  PROVE  FileIInv'
<1>1. RequestEnd(r)
  BY FileBasics
<1>2. UNCHANGED <<scenario, headers, partial, left, divided>>
  BY DEF EndHeaders, SendPath, Finish, Break, plan
<1>3. cleaned[r] = 0 /\ phase[r] \in {"announcing", "sending"}
  BY <1>1 DEF EndHeaders, SendPath, Finish, Break, RequestEnd
<1>4. /\ DOMAIN phase' = Requests /\ DOMAIN sent' = Requests
      /\ \A q \in Requests \ {r} :
           phase'[q] = phase[q] /\ sent'[q] = sent[q] /\ finals'[q] = finals[q]
           /\ cleaned'[q] = cleaned[q]
      /\ cleaned' \in [Requests -> {0, 1}] /\ finals' \in [Requests -> Nat]
      /\ EndHeaders(r) \/ SendPath(r) \/ Finish(r) => phase'[r] = "done" /\ cleaned'[r] = 1
      /\ Break(r) => /\ finals'[r] = finals[r] /\ sent'[r] = sent[r]
                     /\ \/ phase'[r] = "broken" /\ cleaned'[r] = 1
                        \/ phase'[r] = "failed" /\ cleaned'[r] = 0
      /\ EndHeaders(r) => finals'[r] = finals[r]
      /\ SendPath(r) => finals'[r] = 1
      /\ Finish(r) => finals'[r] = IF divided[r] THEN finals[r] + 1 ELSE finals[r]
  BY <1>3, FileBasics DEF EndHeaders, SendPath, Finish, Break, End
<1>5. Sets(r)
  BY <1>2, <1>4, FileBasics DEF Sets
<1>6. Alone(r)' = Alone(r) /\ Asked(r)' = Asked(r)
  BY <1>2 DEF Alone, Requests, Asked
<1>7. RequestEnd(r)'
  <2>1. CASE EndHeaders(r) \/ SendPath(r)
    <3>1. finals[r] = 0
      BY <1>1, <2>1 DEF RequestEnd, EndHeaders, SendPath
    <3>2. finals'[r] = IF Asked(r).head THEN 0 ELSE 1
      BY <1>4, <2>1, <3>1 DEF EndHeaders, SendPath
    <3>3. QED
      BY <1>4, <1>6, <2>1, <3>2 DEF RequestEnd
  <2>2. CASE Finish(r)
    <3>1. Alone(r) => finals'[r] = 1 /\ ~Asked(r).head
      BY <1>1, <1>4, <2>2, OneLeft DEF RequestEnd, Finish
    <3>2. QED
      BY <1>4, <1>6, <2>2, <3>1 DEF RequestEnd
  <2>3. CASE Break(r)
    <3>1. Alone(r) => finals'[r] <= 1
      BY <1>1, <1>3, <1>4, <2>3 DEF RequestEnd
    <3>2. QED
      BY <1>2, <1>3, <1>4, <1>6, <2>3, <3>1 DEF RequestEnd
  <2>4. QED
    BY <2>1, <2>2, <2>3
<1>8. QED
  BY <1>2, <1>5, <1>7, SetsKeep

\* The file is opened, or it is gone.
LEMMA OpenKeeps ==
  ASSUME FileIInv, NEW r \in Requests, Open(r)
  PROVE  FileIInv'
<1>1. /\ RequestEnd(r) /\ phase[r] = "announcing" /\ ~Asked(r).head
      /\ sent[r] = <<>> /\ finals[r] = 0 /\ cleaned[r] = 0
  BY FileBasics DEF Open, RequestEnd
<1>2. UNCHANGED <<scenario, headers, partial, sent, finals>>
  BY DEF Open
<1>3. PICK whole :
        /\ left' = [left EXCEPT ![r] = IF partial[r] THEN @ ELSE <<whole>>]
        /\ divided' = [divided EXCEPT ![r] = partial[r] /\ headers.range = NoRange]
  BY DEF Open
<1>4. /\ left'[r] = IF partial[r] THEN left[r] ELSE <<whole>>
      /\ divided'[r] <=> partial[r] /\ headers.range = NoRange
      /\ DOMAIN left' = Requests /\ DOMAIN divided' = Requests
      /\ \A q \in Requests \ {r} : left'[q] = left[q] /\ divided'[q] = divided[q]
  BY <1>3, FileBasics
<1>5. /\ DOMAIN phase' = Requests /\ cleaned' \in [Requests -> {0, 1}]
      /\ \A q \in Requests \ {r} : phase'[q] = phase[q] /\ cleaned'[q] = cleaned[q]
      /\ \/ phase'[r] = "sending" /\ cleaned'[r] = 0
         \/ phase'[r] = "broken" /\ cleaned'[r] = 1
  BY <1>1, FileBasics DEF Open, End
<1>6. Sets(r)
  BY <1>2, <1>4, <1>5, FileBasics DEF Sets
<1>7. Alone(r)' = Alone(r) /\ Asked(r)' = Asked(r)
  BY <1>2 DEF Alone, Requests, Asked
<1>8. Alone(r) /\ ~divided'[r] => \E x : left'[r] = <<x>>
  BY <1>1, <1>4 DEF RequestEnd
<1>9. RequestEnd(r)'
  BY <1>1, <1>2, <1>5, <1>7, <1>8 DEF RequestEnd
<1>10. QED
  BY <1>2, <1>6, <1>9, SetsKeep

\* A range begins, a chunk is sent.
LEMMA RangeKeeps ==
  ASSUME FileIInv, NEW r \in Requests, BeginRange(r) \/ SendChunk(r)
  PROVE  FileIInv'
<1>1. RequestEnd(r) /\ phase[r] = "sending" /\ left[r] # <<>>
  BY FileBasics DEF BeginRange, SendChunk
<1>2. UNCHANGED <<scenario, headers, phase, partial, divided, cleaned>>
  BY DEF BeginRange, SendChunk
<1>3. /\ DOMAIN sent' = Requests /\ \A q \in Requests \ {r} : sent'[q] = sent[q]
  BY FileBasics DEF BeginRange, SendChunk
<1>4. Alone(r)' = Alone(r) /\ Asked(r)' = Asked(r)
  BY <1>2 DEF Alone, Requests, Asked
<1>5. CASE BeginRange(r)
  <2>1. UNCHANGED <<left, finals>>
    BY <1>5 DEF BeginRange
  <2>2. Sets(r)
    BY <1>2, <1>3, <2>1, FileBasics DEF Sets
  <2>3. RequestEnd(r)'
    BY <1>1, <1>2, <1>4, <2>1 DEF RequestEnd
  <2>4. QED
    BY <1>2, <2>2, <2>3, SetsKeep
<1>6. CASE SendChunk(r)
  <2>1. PICK range : range = left[r][1]
    OBVIOUS
  <2>2. PICK more : more = (Extent(range) > ChunkSize)
    OBVIOUS
  <2>3. PICK next : next = [range EXCEPT !.start = @ + ChunkSize]
    OBVIOUS
  <2>4. /\ more \in BOOLEAN
        /\ left' = [left EXCEPT ![r] = IF more THEN <<next>> \o Tail(@) ELSE Tail(@)]
        /\ finals' = [finals EXCEPT ![r] = IF more \/ divided[r] THEN @ ELSE @ + 1]
    <3>1. more \in BOOLEAN
      BY <2>2
    <3>2. /\ left' = [left EXCEPT ![r] = IF more THEN <<next>> \o Tail(@) ELSE Tail(@)]
          /\ finals' = [finals EXCEPT ![r] = IF more \/ divided[r] THEN @ ELSE @ + 1]
      BY <1>6, <2>1, <2>2, <2>3 DEF SendChunk
    <3>3. QED
      BY <3>1, <3>2
  <2>5. /\ left'[r] = IF more THEN <<next>> \o Tail(left[r]) ELSE Tail(left[r])
        /\ finals'[r] = IF more \/ divided[r] THEN finals[r] ELSE finals[r] + 1
        /\ DOMAIN left' = Requests /\ finals' \in [Requests -> Nat]
        /\ \A q \in Requests \ {r} : left'[q] = left[q] /\ finals'[q] = finals[q]
    BY <2>4, FileBasics
  <2>6. Sets(r)
    BY <1>2, <1>3, <2>5, FileBasics DEF Sets
  <2>7. (Alone(r) /\ ~divided[r]) => \/ finals'[r] = 1 /\ left'[r] = <<>>
                                     \/ finals'[r] = 0 /\ \E x : left'[r] = <<x>>
    <3>1. SUFFICES ASSUME Alone(r), ~divided[r]
                   PROVE  \/ finals'[r] = 1 /\ left'[r] = <<>>
                          \/ finals'[r] = 0 /\ \E x : left'[r] = <<x>>
      OBVIOUS
    <3>2. PICK x : left[r] = <<x>> /\ finals[r] = 0
      BY <1>1, <3>1 DEF RequestEnd
    <3>3. QED
      BY <2>5, <3>1, <3>2, OneLeft
  <2>8. RequestEnd(r)'
    BY <1>1, <1>2, <1>4, <2>5, <2>7 DEF RequestEnd
  <2>9. QED
    BY <1>2, <2>6, <2>8, SetsKeep
<1>7. QED
  BY <1>5, <1>6

\* Every step keeps it.
LEMMA FileStep ==
  ASSUME FileIInv, [FileNext]_fileVars
  PROVE  FileIInv'
<1>1. CASE UNCHANGED fileVars \/ Change
  <2>1. UNCHANGED <<scenario, headers, phase, partial, left, divided, sent, finals, cleaned>>
    BY <1>1 DEF fileVars, plan, Change
  <2>2. Requests' = Requests
    BY <2>1 DEF Requests
  <2>3. HeaderInv' /\ FileShape'
    BY <2>1, <2>2, FileBasics DEF HeaderInv, FileShape
  <2>4. \A q \in Requests : RequestEnd(q)'
    <3>1. \A q \in Requests : Alone(q)' = Alone(q)
      BY <2>1, <2>2 DEF Alone
    <3>2. QED
      BY <2>1, <3>1, FileBasics, OthersKeep
  <2>5. QED
    BY <2>2, <2>3, <2>4 DEF FileIInv
<1>2. ASSUME NEW r \in Requests, Step(r) \/ Break(r)
      PROVE  FileIInv'
  BY <1>2, BeginKeeps, AnswerKeeps, EndsKeep, OpenKeeps, RangeKeeps DEF Step
<1>3. QED
  BY <1>1, <1>2 DEF FileNext

\* For every file, header and number of requests of one response object, whatever
\* happens to the file and to the connections: a response is cleaned up once if it
\* ends or breaks after its start was sent, with a part as with the whole, and not at
\* all before; its client is told the end once (responses.py:1240).
THEOREM FilesEnd == FileSpec => []EndsOnce
<1>1. FileIInv => EndsOnce
  <2> SUFFICES ASSUME FileIInv, NEW r \in Requests
               PROVE  /\ cleaned[r] = IF phase[r] \in {"broken", "done"} THEN 1 ELSE 0
                      /\ (Alone(r) /\ phase[r] = "done") => finals[r] = IF Asked(r).head THEN 0 ELSE 1
                      /\ finals[r] <= 1 \/ ~Alone(r)
    BY DEF EndsOnce
  <2>1. RequestEnd(r) /\ cleaned[r] \in {0, 1} /\ finals[r] \in Nat
    BY FileBasics
  <2>2. finals[r] <= 1 \/ ~Alone(r)
    BY <2>1 DEF RequestEnd
  <2>3. cleaned[r] = IF phase[r] \in {"broken", "done"} THEN 1 ELSE 0
    BY <2>1 DEF RequestEnd
  <2>4. QED
    BY <2>1, <2>2, <2>3 DEF RequestEnd
<1>2. QED
  BY <1>1, FileStart, FileStep, PTL DEF FileSpec


-----------------------------------------------------------------------------
(* Counting up to a number, and the two loops of parse_range_value.         *)

\* Induction, for a set of numbers.
LEMMA Induction ==
  ASSUME NEW S \in SUBSET Nat, 0 \in S, \A n \in S : n + 1 \in S
  PROVE  S = Nat
<1> DEFINE T == Nat \ S
<1> DEFINE R == {ss \in Nat \X Nat : ss[1] < ss[2]}
<1>1. R = OpToRel(<, Nat)
  BY DEF OpToRel
<1>2. IsWellFoundedOn(R, Nat)
  BY <1>1, NatLessThanWellFounded
<1> HIDE DEF R
<1>3. SUFFICES ASSUME T # {} PROVE FALSE
  OBVIOUS
<1>4. PICK x \in T : \A y \in T : ~(<<y, x>> \in R)
  BY <1>2, <1>3, WFMin
<1>5. x \in Nat \ {0} /\ x - 1 \in Nat
  OBVIOUS
<1>6. <<x - 1, x>> \in R
  <2>1. <<x - 1, x>> \in Nat \X Nat /\ <<x - 1, x>>[1] = x - 1 /\ <<x - 1, x>>[2] = x
    BY <1>5
  <2>2. x - 1 < x
    BY <1>5
  <2>3. QED
    BY <2>1, <2>2 DEF R
<1>7. x - 1 \in S
  BY <1>4, <1>5, <1>6
<1>8. (x - 1) + 1 = x
  BY <1>5
<1>9. QED
  BY <1>7, <1>8

\* The loop over the definitions: what the result is after each of them.
LEMMA InOrderLoop ==
  ASSUME NEW defs, NEW max, NEW strict, NEW N \in Nat
  PROVE  \E f : f = [n \in 0..N |->
                       IF n = 0 THEN NoneYet ELSE Checked(f[n - 1], defs[n], max, strict)]
<1> DEFINE Loop(f, n) == IF n = 0 THEN NoneYet ELSE Checked(f[n - 1], defs[n], max, strict)
<1> DEFINE S == {m \in Nat : \E f : f = [n \in 0..m |-> Loop(f, n)]}
<1>1. 0 \in S
  <2>1. [n \in 0..0 |-> NoneYet] = [n \in 0..0 |-> Loop([k \in 0..0 |-> NoneYet], n)]
    BY Z3
  <2>2. QED
    BY <2>1
<1>2. ASSUME NEW m \in S
      PROVE  m + 1 \in S
  <2>1. m \in Nat /\ m + 1 \in Nat /\ 0..m \subseteq 0..m + 1
    OBVIOUS
  <2>2. PICK f : f = [n \in 0..m |-> Loop(f, n)]
    OBVIOUS
  <2> DEFINE g == [n \in 0..m + 1 |-> IF n = m + 1 THEN Checked(f[m], defs[n], max, strict)
                                      ELSE f[n]]
  <2>3. ASSUME NEW n \in 0..m + 1
        PROVE  g[n] = Loop(g, n)
    <3>1. CASE n = m + 1
      <4>1. n # 0 /\ n - 1 = m /\ m \in 0..m + 1 /\ m # m + 1
        BY <2>1, <3>1
      <4>2. g[n - 1] = f[m] /\ g[n] = Checked(f[m], defs[n], max, strict)
        BY <3>1, <4>1
      <4>3. QED
        BY <4>1, <4>2
    <3>2. CASE n # m + 1
      <4>1. n \in 0..m /\ (n # 0 => n - 1 \in 0..m + 1 /\ n - 1 # m + 1)
        BY <2>1, <3>2
      <4>2. g[n] = f[n] /\ (n # 0 => g[n - 1] = f[n - 1])
        BY <3>2, <4>1
      <4>3. f[n] = Loop(f, n)
        BY <2>2, <4>1
      <4>4. QED
        BY <4>2, <4>3
    <3>3. QED
      BY <3>1, <3>2
  <2>4. g = [n \in 0..m + 1 |-> Loop(g, n)]
    BY <2>3
  <2>5. QED
    BY <2>1, <2>4
<1>3. S = Nat
  <2> HIDE DEF S
  <2>1. S \in SUBSET Nat
    BY DEF S
  <2>2. QED
    BY <1>1, <1>2, <2>1, Induction
<1>4. QED
  BY <1>3

\* InOrder is where that loop ends.
LEMMA InOrderSteps ==
  ASSUME NEW defs, NEW max, NEW strict, Len(defs) \in Nat
  PROVE  \E f : /\ f[0] = NoneYet
                /\ \A n \in 1..Len(defs) : f[n] = Checked(f[n - 1], defs[n], max, strict)
                /\ InOrder(defs, max, strict) = f[Len(defs)]
<1> DEFINE f == CHOOSE f : f = [n \in 0..Len(defs) |->
                       IF n = 0 THEN NoneYet ELSE Checked(f[n - 1], defs[n], max, strict)]
<1>1. f = [n \in 0..Len(defs) |->
                       IF n = 0 THEN NoneYet ELSE Checked(f[n - 1], defs[n], max, strict)]
  BY InOrderLoop
<1>2. InOrder(defs, max, strict) = f[Len(defs)]
  BY DEF InOrder
<1> HIDE DEF f
<1>3. f[0] = NoneYet
  BY <1>1
<1>4. \A n \in 1..Len(defs) : f[n] = Checked(f[n - 1], defs[n], max, strict)
  BY <1>1
<1>5. QED
  BY <1>2, <1>3, <1>4

-----------------------------------------------------------------------------
(* The bytes that a list of ranges covers.                                  *)

\* A range of a file whose last byte is max, and what a list of ranges covers.
Piece(max) == {x \in [start : Nat, stop : Nat] : x.start <= x.stop /\ x.stop <= max}
Covered(ranges) == UNION {ranges[i].start .. ranges[i].stop : i \in DOMAIN ranges}

\* A range is added to a list, or joined with its last one: the others stay.
LEMMA AddedShape ==
  ASSUME NEW max \in Int, NEW ranges \in Seq(Piece(max)), NEW r \in Piece(max)
  PROVE  LET s == Added(ranges, r) IN
         /\ s \in Seq(Piece(max)) /\ Len(s) \in Nat \ {0}
         /\ \A i \in 1..Len(s) - 1 : i \in DOMAIN ranges /\ s[i] = ranges[i]
         /\ IF Joins(ranges, r)
            THEN /\ Len(s) = Len(ranges)
                 /\ ranges[Len(s)].stop = r.start - 1
                 /\ s[Len(s)] = [start |-> ranges[Len(s)].start, stop |-> r.stop]
            ELSE Len(s) = Len(ranges) + 1 /\ s[Len(s)] = r
<1>1. /\ Len(ranges) \in Nat /\ DOMAIN ranges = 1..Len(ranges)
      /\ \A i \in 1..Len(ranges) : ranges[i] \in Piece(max)
  BY LenProperties
<1>2. CASE Joins(ranges, r)
  <2>1. ranges # <<>> /\ ranges[Len(ranges)].stop = r.start - 1 /\ Len(ranges) > 0
    BY <1>1, <1>2 DEF Joins, Last
  <2>2. PICK x : x = [start |-> ranges[Len(ranges)].start, stop |-> r.stop]
    OBVIOUS
  <2>3. x \in Piece(max)
    <3>1. ranges[Len(ranges)] \in Piece(max)
      BY <1>1, <2>1
    <3>2. QED
      BY <2>1, <2>2, <3>1 DEF Piece
  <2>4. PICK m \in Nat : m = Len(ranges) - 1
    <3>1. Len(ranges) - 1 \in Nat
      BY <1>1, <2>1
    <3>2. QED
      BY <3>1
  <2>5. PICK t : t = SubSeq(ranges, 1, m)
    OBVIOUS
  <2>6. t \in Seq(Piece(max)) /\ Len(t) = m /\ \A i \in 1..m : t[i] = ranges[i]
    <3>1. \A i \in 1..m : ranges[i] \in Piece(max)
      BY <1>1, <2>4
    <3>2. /\ t \in Seq(Piece(max)) /\ Len(t) = IF 1 <= m THEN m - 1 + 1 ELSE 0
          /\ \A i \in 1..m - 1 + 1 : t[i] = ranges[1 + i - 1]
      BY <2>5, <3>1, SubSeqProperties
    <3>3. Len(t) = m
      BY <3>2
    <3>4. ASSUME NEW i \in 1..m PROVE t[i] = ranges[i]
      <4>1. i \in 1..m - 1 + 1 /\ 1 + i - 1 = i
        OBVIOUS
      <4>2. QED
        BY <3>2, <4>1
    <3>5. QED
      BY <3>2, <3>3, <3>4
  <2>7. Added(ranges, r) = Append(t, x)
    BY <1>2, <2>2, <2>4, <2>5 DEF Added, Front, Last
  <2>8. /\ Append(t, x) \in Seq(Piece(max)) /\ Len(Append(t, x)) = m + 1
        /\ \A i \in 1..m : Append(t, x)[i] = t[i]
        /\ Append(t, x)[m + 1] = x
    BY <2>3, <2>6, AppendProperties
  <2>9. m + 1 = Len(ranges) /\ m + 1 \in Nat \ {0} /\ (m + 1) - 1 = m /\ 1..m \subseteq DOMAIN ranges
    BY <1>1, <2>4
  <2>10. QED
    BY <1>2, <2>1, <2>2, <2>6, <2>7, <2>8, <2>9
<1>3. CASE ~Joins(ranges, r)
  <2>1. Added(ranges, r) = Append(ranges, r)
    BY <1>3 DEF Added
  <2>2. /\ Append(ranges, r) \in Seq(Piece(max)) /\ Len(Append(ranges, r)) = Len(ranges) + 1
        /\ \A i \in 1..Len(ranges) : Append(ranges, r)[i] = ranges[i]
        /\ Append(ranges, r)[Len(ranges) + 1] = r
    BY <1>1, AppendProperties
  <2>3. QED
    BY <1>1, <1>3, <2>1, <2>2
<1>4. QED
  BY <1>2, <1>3

\* It adds what the range covers.
LEMMA AddedCovers ==
  ASSUME NEW max \in Int, NEW ranges \in Seq(Piece(max)), NEW r \in Piece(max)
  PROVE  Covered(Added(ranges, r)) = Covered(ranges) \cup (r.start .. r.stop)
<1>1. PICK s : s = Added(ranges, r)
  OBVIOUS
<1>2. /\ s \in Seq(Piece(max)) /\ Len(s) \in Nat \ {0}
      /\ \A i \in 1..Len(s) - 1 : i \in DOMAIN ranges /\ s[i] = ranges[i]
      /\ IF Joins(ranges, r)
         THEN /\ Len(s) = Len(ranges)
              /\ ranges[Len(s)].stop = r.start - 1
              /\ s[Len(s)] = [start |-> ranges[Len(s)].start, stop |-> r.stop]
         ELSE Len(s) = Len(ranges) + 1 /\ s[Len(s)] = r
  BY <1>1, AddedShape
<1>3. /\ DOMAIN s = 1..Len(s) /\ DOMAIN ranges = 1..Len(ranges) /\ Len(ranges) \in Nat
      /\ \A i \in DOMAIN ranges : ranges[i] \in Piece(max)
  BY <1>2, LenProperties
<1>4. Covered(s) = Covered([i \in 1..Len(s) - 1 |-> ranges[i]]) \cup (s[Len(s)].start .. s[Len(s)].stop)
  <2>1. PICK k \in Nat \ {0} : k = Len(s)
    BY <1>2
  <2>2. DOMAIN s = (1..Len(s) - 1) \cup {Len(s)}
    <3>1. 1..k = (1..k - 1) \cup {k}
      OBVIOUS
    <3>2. QED
      BY <1>3, <2>1, <3>1
  <2>3. \A i \in 1..Len(s) - 1 : s[i] = [j \in 1..Len(s) - 1 |-> ranges[j]][i]
    BY <1>2
  <2>4. QED
    BY <2>2, <2>3 DEF Covered
<1>5. CASE Joins(ranges, r)
  <2>1. Len(s) \in DOMAIN ranges /\ DOMAIN ranges = (1..Len(s) - 1) \cup {Len(s)}
    BY <1>2, <1>3, <1>5
  <2>2. ranges[Len(s)] \in Piece(max)
    BY <1>3, <2>1
  <2>3. (ranges[Len(s)].start .. r.stop)
          = (ranges[Len(s)].start .. ranges[Len(s)].stop) \cup (r.start .. r.stop)
    BY <1>2, <1>5, <2>2 DEF Piece
  <2>4. Covered(ranges) = Covered([i \in 1..Len(s) - 1 |-> ranges[i]])
                            \cup (ranges[Len(s)].start .. ranges[Len(s)].stop)
    BY <2>1 DEF Covered
  <2>5. s[Len(s)].start = ranges[Len(s)].start /\ s[Len(s)].stop = r.stop
    BY <1>2, <1>5
  <2>6. QED
    BY <1>1, <1>4, <2>3, <2>4, <2>5
<1>6. CASE ~Joins(ranges, r)
  <2>1. DOMAIN ranges = 1..Len(s) - 1
    BY <1>2, <1>3, <1>6
  <2>2. Covered(ranges) = Covered([i \in 1..Len(s) - 1 |-> ranges[i]])
    BY <2>1 DEF Covered
  <2>3. QED
    BY <1>1, <1>2, <1>4, <1>6, <2>2
<1>7. QED
  BY <1>5, <1>6

\* A definition that is accepted denotes a range of the file: the bytes it means.
LEMMA DenotedMeans ==
  ASSUME NEW max \in Int, max >= -1, NEW d \in Definitions, ~Malformed(d, max),
         ~(Denoted(d, max).start > max \/ Denoted(d, max).stop > max)
  PROVE  /\ Denoted(d, max) \in Piece(max)
         /\ Denoted(d, max).start .. Denoted(d, max).stop = MeantBy(d, max + 1)
<1>1. d.first \in Nat \cup {-1} /\ d.last \in Nat \cup {-1}
  BY DEF Definitions, Blank
<1>2. PICK r : r = Denoted(d, max)
  OBVIOUS
<1>3. /\ r = [start |-> r.start, stop |-> r.stop]
      /\ r.start = IF d.first = -1 THEN max - d.last ELSE d.first
      /\ r.stop = IF d.first = -1 \/ d.last = -1 THEN max ELSE d.last
  BY <1>2 DEF Denoted, Blank
<1>4. /\ ~(d.first = -1 /\ d.last = -1) /\ r.start <= r.stop /\ 0 <= r.start
      /\ r.start <= max /\ r.stop <= max /\ r.start \in Int /\ r.stop \in Int
  BY <1>1, <1>2, <1>3 DEF Malformed, Blank
<1>5. r \in Piece(max)
  BY <1>3, <1>4 DEF Piece
<1>6. \A b \in Int : b \in r.start .. r.stop <=> b \in MeantBy(d, max + 1)
  BY <1>1, <1>3, <1>4 DEF MeantBy, Blank
<1>7. r.start .. r.stop \subseteq Int /\ MeantBy(d, max + 1) \subseteq Int
  BY <1>4 DEF MeantBy
<1>8. r.start .. r.stop = MeantBy(d, max + 1)
  BY <1>6, <1>7
<1>9. QED
  BY <1>2, <1>5, <1>8

\* What is covered is in the file.
LEMMA CoveredInFile ==
  ASSUME NEW max \in Int, NEW ranges \in Seq(Piece(max))
  PROVE  Covered(ranges) \subseteq 0..max /\ IsFiniteSet(Covered(ranges))
<1>1. \A i \in DOMAIN ranges : ranges[i] \in Piece(max)
  BY LenProperties
<1>2. Covered(ranges) \subseteq 0..max
  BY <1>1 DEF Covered, Piece
<1>3. IsFiniteSet(0..max)
  BY FS_Interval
<1>4. QED
  BY <1>2, <1>3, FS_Subset

\* Ranges that neither overlap nor follow each other at once.
Gapped(ranges) == \A i, j \in DOMAIN ranges : i < j => ranges[i].stop + 1 < ranges[j].start

\* A range after the last one keeps a list gapped, and covers what was not covered.
LEMMA AddedGapped ==
  ASSUME NEW max \in Int, NEW ranges \in Seq(Piece(max)), NEW r \in Piece(max),
         Gapped(ranges), ranges # <<>> => Last(ranges).stop < r.start
  PROVE  /\ Gapped(Added(ranges, r))
         /\ Covered(ranges) \cap (r.start .. r.stop) = {}
<1>1. PICK s : s = Added(ranges, r)
  OBVIOUS
<1>2. /\ s \in Seq(Piece(max)) /\ Len(s) \in Nat \ {0}
      /\ \A i \in 1..Len(s) - 1 : i \in DOMAIN ranges /\ s[i] = ranges[i]
      /\ IF Joins(ranges, r)
         THEN /\ Len(s) = Len(ranges)
              /\ ranges[Len(s)].stop = r.start - 1
              /\ s[Len(s)] = [start |-> ranges[Len(s)].start, stop |-> r.stop]
         ELSE Len(s) = Len(ranges) + 1 /\ s[Len(s)] = r
  BY <1>1, AddedShape
<1>3. /\ DOMAIN s = 1..Len(s) /\ DOMAIN ranges = 1..Len(ranges) /\ Len(ranges) \in Nat
      /\ \A i \in DOMAIN ranges : ranges[i] \in Piece(max)
  BY <1>2, LenProperties
<1>4. \A i \in DOMAIN ranges :
        /\ ranges[i].start \in Nat /\ ranges[i].stop \in Nat /\ r.start \in Nat /\ r.stop \in Nat
        /\ ranges[i].start <= ranges[i].stop /\ r.start <= r.stop
  BY <1>3 DEF Piece
<1>5. \A i \in DOMAIN ranges : /\ ranges # <<>> /\ Len(ranges) \in DOMAIN ranges /\ i <= Len(ranges)
                               /\ i # Len(ranges) => i < Len(ranges)
  BY <1>3
<1>6. \A i \in DOMAIN ranges : /\ ranges[i].stop < r.start
                               /\ i < Len(ranges) => ranges[i].stop + 1 < r.start
  <2> SUFFICES ASSUME NEW i \in DOMAIN ranges
               PROVE  ranges[i].stop < r.start /\ (i < Len(ranges) => ranges[i].stop + 1 < r.start)
    OBVIOUS
  <2>1. ranges[Len(ranges)].stop < r.start
    BY <1>5 DEF Last
  <2>2. i < Len(ranges) => ranges[i].stop + 1 < ranges[Len(ranges)].start
    BY <1>5 DEF Gapped
  <2>3. QED
    BY <1>4, <1>5, <2>1, <2>2
<1>7. Covered(ranges) \cap (r.start .. r.stop) = {}
  BY <1>4, <1>6 DEF Covered
<1>8. \A i \in DOMAIN s : i \in Nat /\ i <= Len(s) /\ (i # Len(s) => i \in 1..Len(s) - 1)
  <2>1. PICK k \in Nat : k = Len(s)
    BY <1>2
  <2>2. \A i \in 1..k : i \in Nat /\ i <= k /\ (i # k => i \in 1..k - 1)
    OBVIOUS
  <2>3. QED
    BY <1>3, <2>1, <2>2
<1>9. ASSUME NEW i \in DOMAIN s, NEW j \in DOMAIN s, i < j
      PROVE  s[i].stop + 1 < s[j].start
  <2>1. i \in 1..Len(s) - 1 /\ i \in DOMAIN ranges /\ s[i] = ranges[i]
    <3>1. i # Len(s)
      BY <1>2, <1>9, <1>8
    <3>2. QED
      BY <1>2, <1>8, <3>1
  <2>2. CASE j # Len(s)
    <3>1. j \in DOMAIN ranges /\ s[j] = ranges[j]
      BY <1>2, <1>8, <2>2
    <3>2. QED
      BY <1>9, <2>1, <3>1 DEF Gapped
  <2>3. CASE j = Len(s) /\ Joins(ranges, r)
    <3>1. s[j].start = ranges[j].start /\ j \in DOMAIN ranges
      BY <1>2, <1>3, <2>3
    <3>2. QED
      BY <1>9, <2>1, <3>1 DEF Gapped
  <2>4. CASE j = Len(s) /\ ~Joins(ranges, r)
    <3>1. s[j].start = r.start
      BY <1>2, <2>4
    <3>2. ranges[Len(ranges)].stop # r.start - 1
      BY <1>5, <2>1, <2>4 DEF Joins, Last
    <3>3. ranges[i].stop + 1 < r.start
      BY <1>4, <1>5, <1>6, <2>1, <3>2
    <3>4. QED
      BY <2>1, <3>1, <3>3
  <2>5. QED
    BY <2>2, <2>3, <2>4
<1>10. QED
  BY <1>1, <1>7, <1>9 DEF Gapped

\* Ranges that do not overlap, but that the last byte may come again at the end.
Stepped(ranges, max) ==
  /\ \A j \in DOMAIN ranges : ranges[j].stop <= max
  /\ \A i, j \in DOMAIN ranges : i < j =>
       /\ ranges[i].start <= ranges[i].stop
       /\ ranges[i].stop < ranges[j].start \/ ranges[j].start = max

\* A range after the last one, or the last byte once again, keeps a list so.
LEMMA AddedStepped ==
  ASSUME NEW max \in Int, NEW ranges \in Seq(Piece(max)), NEW r \in Piece(max),
         Stepped(ranges, max),
         ranges # <<>> => (Last(ranges).stop < r.start \/ r.start = max)
  PROVE  Stepped(Added(ranges, r), max)
<1>1. PICK s : s = Added(ranges, r)
  OBVIOUS
<1>2. /\ s \in Seq(Piece(max)) /\ Len(s) \in Nat \ {0}
      /\ \A i \in 1..Len(s) - 1 : i \in DOMAIN ranges /\ s[i] = ranges[i]
      /\ IF Joins(ranges, r)
         THEN /\ Len(s) = Len(ranges)
              /\ ranges[Len(s)].stop = r.start - 1
              /\ s[Len(s)] = [start |-> ranges[Len(s)].start, stop |-> r.stop]
         ELSE Len(s) = Len(ranges) + 1 /\ s[Len(s)] = r
  BY <1>1, AddedShape
<1>3. PICK n \in Nat \ {0} : n = Len(s)
  BY <1>2
<1>4. /\ DOMAIN s = 1..n /\ DOMAIN ranges = 1..Len(ranges) /\ Len(ranges) \in Nat
      /\ \A i \in DOMAIN ranges : ranges[i] \in Piece(max)
      /\ \A i \in DOMAIN s : s[i] \in Piece(max)
  BY <1>2, <1>3, LenProperties
<1>5. /\ r.start \in Nat /\ r.stop \in Nat /\ r.start <= r.stop /\ r.stop <= max
      /\ \A i \in DOMAIN ranges :
           /\ ranges[i].start \in Nat /\ ranges[i].stop \in Nat
           /\ ranges[i].start <= ranges[i].stop /\ ranges[i].stop <= max
      /\ \A i \in DOMAIN s : s[i].start <= s[i].stop /\ s[i].stop <= max
  BY <1>4 DEF Piece
<1>6. ASSUME NEW i \in DOMAIN s, NEW j \in DOMAIN s, i < j
      PROVE  s[i].stop < s[j].start \/ s[j].start = max
  <2>1. i \in 1..n - 1 /\ i \in DOMAIN ranges /\ s[i] = ranges[i] /\ j <= n
    <3>1. i \in 1..n - 1 /\ j <= n
      BY <1>4, <1>6
    <3>2. QED
      BY <1>2, <1>3, <3>1
  <2>2. CASE j # n
    <3>1. j \in 1..n - 1
      BY <1>4, <2>2
    <3>2. j \in DOMAIN ranges /\ s[j] = ranges[j]
      BY <1>2, <1>3, <3>1
    <3>3. QED
      BY <1>6, <2>1, <3>2 DEF Stepped
  <2>3. CASE j = n /\ Joins(ranges, r)
    <3>1. n = Len(ranges) /\ s[n].start = ranges[n].start /\ n \in DOMAIN ranges
      BY <1>2, <1>3, <1>4, <2>3
    <3>2. QED
      BY <1>6, <2>1, <2>3, <3>1 DEF Stepped
  <2>4. CASE j = n /\ ~Joins(ranges, r)
    <3>1. s[j].start = r.start
      BY <1>2, <1>3, <2>4
    <3>2. PICK k \in Nat : k = Len(ranges) /\ n = k + 1
      BY <1>2, <1>3, <1>4, <2>4
    <3>3. k \in DOMAIN ranges /\ i <= k /\ ranges # <<>>
      <4>1. DOMAIN ranges = 1..k
        BY <1>4, <3>2
      <4>2. k \in 1..k /\ i <= k
        BY <2>1, <3>2
      <4>3. QED
        BY <4>1, <4>2
    <3>4. ranges[k].stop < r.start \/ r.start = max
      BY <3>2, <3>3 DEF Last
    <3>5. i < k => (ranges[i].stop < ranges[k].start \/ ranges[k].start = max)
      BY <2>1, <3>3 DEF Stepped
    <3>6. ranges[i].stop < r.start \/ r.start = max
      <4>1. CASE i = k
        BY <3>4, <4>1
      <4>2. CASE i < k
        BY <1>5, <2>1, <3>3, <3>4, <3>5, <4>2
      <4>3. QED
        BY <2>1, <3>2, <3>3, <4>1, <4>2
    <3>7. QED
      BY <2>1, <3>1, <3>6
  <2>5. QED
    BY <2>2, <2>3, <2>4
<1>7. QED
  BY <1>1, <1>5, <1>6 DEF Stepped

-----------------------------------------------------------------------------
(* What the first loop returns: the bytes that the definitions mean.        *)

\* What the first n definitions mean, of a file whose last byte is max.
Meaning(defs, n, max) == UNION {MeantBy(defs[k], max + 1) : k \in 1..n}

\* The result after n definitions, of the first loop.
InOrderInv(acc, n, defs, max, strict) ==
  /\ acc.verdict \in {"ok", "none", "over"}
  /\ acc.verdict = "ok" =>
       /\ acc.ranges \in Seq(Piece(max))
       /\ Len(acc.ranges) <= n /\ (n > 0 => acc.ranges # <<>>)
       /\ Covered(acc.ranges) = Meaning(defs, n, max)
       /\ strict => Gapped(acc.ranges) /\ acc.size = Cardinality(Covered(acc.ranges))

\* Before the first definition.
LEMMA NoneYetFacts ==
  /\ NoneYet.verdict = "ok" /\ NoneYet.size = 0 /\ NoneYet.ranges = <<>>
  /\ NoResult.verdict = "none"
  /\ \A extent, ranges : /\ Result("over", extent, ranges).verdict = "over"
                         /\ Result("ok", extent, ranges).verdict = "ok"
                         /\ Result("ok", extent, ranges).size = extent
                         /\ Result("ok", extent, ranges).ranges = ranges
BY DEF NoneYet, NoResult, Result

\* No definition means nothing.
LEMMA NothingCovered ==
  ASSUME NEW max \in Int, NEW none, none = <<>>
  PROVE  /\ none \in Seq(Piece(max)) /\ Len(none) = 0
         /\ Covered(none) = {} /\ Gapped(none) /\ Cardinality({}) = 0
<1>1. none \in Seq(Piece(max)) /\ Len(none) = 0 /\ DOMAIN none = {}
  OBVIOUS
<1>2. Covered(none) = {} /\ Gapped(none)
  BY <1>1 DEF Covered, Gapped
<1>3. QED
  BY <1>1, <1>2, FS_EmptySet

\* The invariant of the loop holds before the first definition.
LEMMA InOrderStart ==
  ASSUME NEW defs, NEW max \in Int, NEW strict
  PROVE  InOrderInv(NoneYet, 0, defs, max, strict)
<1>1. Meaning(defs, 0, max) = {}
  BY DEF Meaning
<1>2. /\ NoneYet.ranges \in Seq(Piece(max)) /\ Len(NoneYet.ranges) <= 0
      /\ Covered(NoneYet.ranges) = {} /\ Gapped(NoneYet.ranges)
      /\ NoneYet.size = Cardinality(Covered(NoneYet.ranges)) /\ NoneYet.verdict = "ok"
  <2>1. NoneYet.ranges = <<>> /\ NoneYet.size = 0 /\ NoneYet.verdict = "ok"
    BY NoneYetFacts
  <2>2. PICK none : none = NoneYet.ranges
    OBVIOUS
  <2>3. /\ none \in Seq(Piece(max)) /\ Len(none) = 0
        /\ Covered(none) = {} /\ Gapped(none) /\ Cardinality({}) = 0
    BY <2>1, <2>2, NothingCovered
  <2>4. QED
    BY <2>1, <2>2, <2>3
<1>3. QED
  BY <1>1, <1>2 DEF InOrderInv

\* A definition keeps it.
LEMMA InOrderKeeps ==
  ASSUME NEW defs \in Seq(Definitions), NEW max \in Int, max >= -1, NEW strict \in BOOLEAN,
         NEW n \in 1..Len(defs), NEW acc, InOrderInv(acc, n - 1, defs, max, strict)
  PROVE  InOrderInv(Checked(acc, defs[n], max, strict), n, defs, max, strict)
<1>1. PICK d : d = defs[n]
  OBVIOUS
<1>2. d \in Definitions /\ n \in Nat /\ n - 1 \in Nat /\ n > 0
  BY <1>1, LenProperties
<1>3. PICK r : r = Denoted(d, max)
  OBVIOUS
<1>4. PICK next : next = Checked(acc, d, max, strict)
  OBVIOUS
<1>5. CASE acc.verdict # "ok"
  <2>1. next = acc
    BY <1>4, <1>5 DEF Checked
  <2>2. QED
    BY <1>1, <1>4, <1>5, <2>1 DEF InOrderInv
<1>6. CASE acc.verdict = "ok" /\ (\/ Malformed(d, max) \/ r.start > max \/ r.stop > max
                                  \/ strict /\ acc.ranges # <<>> /\ r.start <= Last(acc.ranges).stop)
  <2>1. next \in {NoResult, Result("over", 0, <<>>)}
    BY <1>3, <1>4, <1>6 DEF Checked
  <2>2. next.verdict \in {"none", "over"}
    BY <2>1, NoneYetFacts
  <2>3. QED
    BY <1>1, <1>4, <2>2 DEF InOrderInv
<1>7. CASE /\ acc.verdict = "ok" /\ ~Malformed(d, max) /\ ~(r.start > max \/ r.stop > max)
           /\ ~(strict /\ acc.ranges # <<>> /\ r.start <= Last(acc.ranges).stop)
  <2>1. next = Result("ok", acc.size + Extent(r), Added(acc.ranges, r))
    BY <1>3, <1>4, <1>7 DEF Checked
  <2>2. next.verdict = "ok" /\ next.size = acc.size + Extent(r) /\ next.ranges = Added(acc.ranges, r)
    BY <2>1, NoneYetFacts
  <2>3. r \in Piece(max) /\ r.start .. r.stop = MeantBy(d, max + 1)
    BY <1>2, <1>3, <1>7, DenotedMeans
  <2>4. /\ acc.ranges \in Seq(Piece(max)) /\ Len(acc.ranges) <= n - 1
        /\ Covered(acc.ranges) = Meaning(defs, n - 1, max)
        /\ strict => Gapped(acc.ranges) /\ acc.size = Cardinality(Covered(acc.ranges))
    BY <1>7 DEF InOrderInv
  <2>5. PICK s : s = Added(acc.ranges, r)
    OBVIOUS
  <2>6. /\ s \in Seq(Piece(max)) /\ Len(s) \in Nat \ {0}
        /\ Len(s) = Len(acc.ranges) \/ Len(s) = Len(acc.ranges) + 1
    <3>1. PICK ranges : ranges = acc.ranges
      OBVIOUS
    <3>2. ranges \in Seq(Piece(max)) /\ s = Added(ranges, r)
      BY <2>4, <2>5, <3>1
    <3>3. /\ s \in Seq(Piece(max)) /\ Len(s) \in Nat \ {0}
          /\ IF Joins(ranges, r) THEN Len(s) = Len(ranges) ELSE Len(s) = Len(ranges) + 1
      BY <2>3, <3>2, AddedShape
    <3>4. QED
      BY <3>1, <3>3
  <2>7. Len(s) <= n /\ s # <<>>
    <3>1. Len(acc.ranges) \in Nat /\ Len(<<>>) = 0
      BY <2>4, LenProperties
    <3>2. QED
      BY <1>2, <2>4, <2>6, <3>1
  <2>8. Covered(s) = Meaning(defs, n, max)
    <3>1. 1..n = (1..n - 1) \cup {n}
      BY <1>2
    <3>2. Meaning(defs, n, max) = Meaning(defs, n - 1, max) \cup MeantBy(d, max + 1)
      BY <1>1, <3>1 DEF Meaning
    <3>3. QED
      BY <2>3, <2>4, <2>5, <3>2, AddedCovers
  <2>9. ASSUME strict
        PROVE  Gapped(s) /\ next.size = Cardinality(Covered(s))
    <3>1. acc.ranges # <<>> => Last(acc.ranges).stop < r.start
      <4>1. acc.ranges # <<>> => Last(acc.ranges) \in Piece(max)
        BY <2>4, LenProperties, EmptySeq DEF Last
      <4>2. QED
        BY <1>7, <2>3, <2>9, <4>1 DEF Piece
    <3>2. Gapped(s) /\ Covered(acc.ranges) \cap (r.start .. r.stop) = {}
      BY <2>3, <2>4, <2>5, <2>9, <3>1, AddedGapped
    <3>3. r.start \in Nat /\ r.stop \in Nat /\ r.start <= r.stop
      BY <2>3 DEF Piece
    <3>4. IsFiniteSet(r.start .. r.stop) /\ Cardinality(r.start .. r.stop) = Extent(r)
      <4>1. /\ IsFiniteSet(r.start .. r.stop)
            /\ Cardinality(r.start .. r.stop)
                 = IF r.start > r.stop THEN 0 ELSE r.stop - r.start + 1
        <5>1. r.start \in Int /\ r.stop \in Int
          BY <3>3
        <5>2. QED
          BY <5>1, FS_Interval
      <4>2. QED
        BY <3>3, <4>1 DEF Extent
    <3>5. IsFiniteSet(Covered(acc.ranges))
      BY <2>4, CoveredInFile
    <3>6. Cardinality(Covered(acc.ranges) \cup (r.start .. r.stop))
            = Cardinality(Covered(acc.ranges)) + Cardinality(r.start .. r.stop) - Cardinality({})
      <4>1. PICK A, B : A = Covered(acc.ranges) /\ B = r.start .. r.stop
        OBVIOUS
      <4>2. IsFiniteSet(A) /\ IsFiniteSet(B) /\ A \cap B = {}
        BY <3>2, <3>4, <3>5, <4>1
      <4>3. Cardinality(A \cup B) = Cardinality(A) + Cardinality(B) - Cardinality(A \cap B)
        BY <4>2, FS_Union
      <4>4. QED
        BY <4>1, <4>2, <4>3
    <3>7. Cardinality({}) = 0 /\ Cardinality(Covered(acc.ranges)) \in Nat /\ Extent(r) \in Int
      BY <3>3, <3>5, FS_EmptySet, FS_CardinalityType DEF Extent
    <3>8. Covered(s) = Covered(acc.ranges) \cup (r.start .. r.stop)
      BY <2>3, <2>4, <2>5, AddedCovers
    <3>9. next.size = Cardinality(Covered(acc.ranges)) + Extent(r)
      BY <2>2, <2>4, <2>9
    <3>10. QED
      BY <3>2, <3>4, <3>6, <3>7, <3>8, <3>9
  <2>10. QED
    BY <1>1, <1>2, <1>4, <2>2, <2>5, <2>6, <2>7, <2>8, <2>9 DEF InOrderInv
<1>8. QED
  BY <1>5, <1>6, <1>7

\* So it holds at the end.
LEMMA InOrderMeans ==
  ASSUME NEW defs \in Seq(Definitions), NEW max \in Int, max >= -1, NEW strict \in BOOLEAN
  PROVE  InOrderInv(InOrder(defs, max, strict), Len(defs), defs, max, strict)
<1>1. Len(defs) \in Nat
  BY LenProperties
<1>2. PICK f : /\ f[0] = NoneYet
               /\ \A n \in 1..Len(defs) : f[n] = Checked(f[n - 1], defs[n], max, strict)
               /\ InOrder(defs, max, strict) = f[Len(defs)]
  BY <1>1, InOrderSteps
<1> DEFINE S == {n \in Nat : n <= Len(defs) => InOrderInv(f[n], n, defs, max, strict)}
<1>3. 0 \in S
  BY <1>2, InOrderStart
<1>4. ASSUME NEW n \in S PROVE n + 1 \in S
  <2>1. n \in Nat /\ n + 1 \in Nat /\ (n + 1) - 1 = n
    OBVIOUS
  <2>2. SUFFICES ASSUME n + 1 <= Len(defs) PROVE InOrderInv(f[n + 1], n + 1, defs, max, strict)
    BY <2>1
  <2>3. n + 1 \in 1..Len(defs) /\ n <= Len(defs)
    BY <1>1, <2>1, <2>2
  <2>4. InOrderInv(f[n], n, defs, max, strict)
    BY <2>3
  <2>5. f[n + 1] = Checked(f[n], defs[n + 1], max, strict)
    BY <1>2, <2>1, <2>3
  <2>6. QED
    BY <2>1, <2>3, <2>4, <2>5, InOrderKeeps
<1>5. S = Nat
  <2> HIDE DEF S
  <2>1. S \in SUBSET Nat
    BY DEF S
  <2>2. QED
    BY <1>3, <1>4, <2>1, Induction
<1>6. QED
  BY <1>1, <1>2, <1>5

-----------------------------------------------------------------------------
(* list.sort(): the ranges by their start, each of them once.               *)

\* Where a range is put: before the ones that are greater, and before the equals
\* that came later.
Precedes(ranges, j, i) == Before(ranges[j], ranges[i]) \/ (ranges[j] = ranges[i] /\ j <= i)

\* Precedes is a total order of the indices.
LEMMA PrecedesOrders ==
  ASSUME NEW max \in Int, NEW ranges \in Seq(Piece(max))
  PROVE  \A i, j, k \in DOMAIN ranges :
           /\ Precedes(ranges, i, i)
           /\ Precedes(ranges, i, j) \/ Precedes(ranges, j, i)
           /\ Precedes(ranges, i, j) /\ Precedes(ranges, j, i) => i = j
           /\ Precedes(ranges, i, j) /\ Precedes(ranges, j, k) => Precedes(ranges, i, k)
           /\ Precedes(ranges, i, j) => ranges[i].start <= ranges[j].start
<1>1. /\ DOMAIN ranges \subseteq Nat
      /\ \A i \in DOMAIN ranges : /\ ranges[i].start \in Nat /\ ranges[i].stop \in Nat
                                  /\ ranges[i] = [start |-> ranges[i].start, stop |-> ranges[i].stop]
  <2>1. Len(ranges) \in Nat /\ DOMAIN ranges = 1..Len(ranges)
    BY LenProperties
  <2>2. \A i \in DOMAIN ranges : ranges[i] \in Piece(max)
    BY LenProperties
  <2>3. QED
    BY <2>1, <2>2 DEF Piece
<1>2. TAKE i, j, k \in DOMAIN ranges
<1>3. PICK a, b, c, d, e, f \in Nat : /\ a = ranges[i].start /\ b = ranges[i].stop
                                      /\ c = ranges[j].start /\ d = ranges[j].stop
                                      /\ e = ranges[k].start /\ f = ranges[k].stop
  BY <1>1
<1>4. /\ ranges[i] = ranges[j] <=> (a = c /\ b = d)
      /\ ranges[j] = ranges[k] <=> (c = e /\ d = f)
      /\ ranges[i] = ranges[k] <=> (a = e /\ b = f)
  BY <1>1, <1>3
<1>5. i \in Nat /\ j \in Nat /\ k \in Nat
  BY <1>1
<1>6. /\ Precedes(ranges, i, j) <=> (a < c \/ (a = c /\ b < d) \/ (a = c /\ b = d /\ i <= j))
      /\ Precedes(ranges, j, i) <=> (c < a \/ (c = a /\ d < b) \/ (a = c /\ b = d /\ j <= i))
      /\ Precedes(ranges, j, k) <=> (c < e \/ (c = e /\ d < f) \/ (c = e /\ d = f /\ j <= k))
      /\ Precedes(ranges, i, k) <=> (a < e \/ (a = e /\ b < f) \/ (a = e /\ b = f /\ i <= k))
      /\ Precedes(ranges, i, i)
  BY <1>3, <1>4, <1>5 DEF Precedes, Before
<1>7. QED
  BY <1>3, <1>5, <1>6

\* The place of a range is a number of the list, and no other range has it.
LEMMA PlaceFacts ==
  ASSUME NEW max \in Int, NEW ranges \in Seq(Piece(max))
  PROVE  /\ \A i \in DOMAIN ranges : Place(ranges, i) \in 1..Len(ranges)
         /\ \A i, j \in DOMAIN ranges :
              (i # j /\ Precedes(ranges, i, j)) => Place(ranges, i) < Place(ranges, j)
<1> DEFINE Down(i) == {j \in DOMAIN ranges : Precedes(ranges, j, i)}
<1>1. \A i : Place(ranges, i) = Cardinality(Down(i))
  BY DEF Place, Precedes
<1>2. /\ DOMAIN ranges = 1..Len(ranges) /\ Len(ranges) \in Nat
      /\ IsFiniteSet(DOMAIN ranges) /\ Cardinality(DOMAIN ranges) = Len(ranges)
  <2>1. PICK n \in Nat : n = Len(ranges)
    BY LenProperties
  <2>2. IsFiniteSet(1..n) /\ Cardinality(1..n) = IF 1 > n THEN 0 ELSE n - 1 + 1
    BY FS_Interval
  <2>3. Cardinality(1..n) = n
    BY <2>2
  <2>4. DOMAIN ranges = 1..n
    BY <2>1, LenProperties
  <2>5. QED
    BY <2>1, <2>2, <2>3, <2>4
<1>3. \A i : /\ IsFiniteSet(Down(i)) /\ Cardinality(Down(i)) <= Len(ranges)
             /\ Cardinality(Down(i)) \in Nat
  BY <1>2, FS_Subset, FS_CardinalityType
<1>4. ASSUME NEW i \in DOMAIN ranges
      PROVE  Place(ranges, i) \in 1..Len(ranges)
  <2>1. i \in Down(i)
    BY PrecedesOrders
  <2>2. Cardinality(Down(i)) # 0
    <3>1. Down(i) # {}
      BY <2>1
    <3>2. QED
      BY <1>3, <3>1, FS_EmptySet
  <2>3. PICK c \in Nat : c = Place(ranges, i)
    BY <1>1, <1>3
  <2>4. PICK n \in Nat : n = Len(ranges)
    BY <1>2
  <2>5. c # 0 /\ c <= n
    BY <1>1, <1>3, <2>2, <2>3, <2>4
  <2>6. c \in 1..n
    BY <2>5
  <2>7. QED
    BY <2>3, <2>4, <2>6
<1>5. ASSUME NEW i \in DOMAIN ranges, NEW j \in DOMAIN ranges, i # j, Precedes(ranges, i, j)
      PROVE  Place(ranges, i) < Place(ranges, j)
  <2>1. Down(i) \subseteq Down(j)
    <3> SUFFICES ASSUME NEW k \in DOMAIN ranges, Precedes(ranges, k, i)
                 PROVE  Precedes(ranges, k, j)
      OBVIOUS
    <3>1. QED
      BY <1>5, PrecedesOrders
  <2>2. j \in Down(j) /\ j \notin Down(i)
    BY <1>5, PrecedesOrders
  <2>3. PICK A, B : A = Down(i) /\ B = Down(j)
    OBVIOUS
  <2>4. IsFiniteSet(B) /\ A \subseteq B /\ A # B /\ Cardinality(A) \in Nat /\ Cardinality(B) \in Nat
    BY <1>3, <2>1, <2>2, <2>3
  <2>5. Cardinality(A) <= Cardinality(B) /\ Cardinality(A) # Cardinality(B)
    BY <2>4, FS_Subset
  <2>6. QED
    BY <1>1, <2>3, <2>4, <2>5
<1>6. QED
  BY <1>4, <1>5

\* Every place is taken.
LEMMA PlacesTaken ==
  ASSUME NEW max \in Int, NEW ranges \in Seq(Piece(max))
  PROVE  \A k \in 1..Len(ranges) : \E i \in DOMAIN ranges : Place(ranges, i) = k
<1> DEFINE f == [i \in DOMAIN ranges |-> Place(ranges, i)]
<1>1. DOMAIN ranges = 1..Len(ranges) /\ IsFiniteSet(1..Len(ranges))
  <2>1. Len(ranges) \in Int /\ DOMAIN ranges = 1..Len(ranges)
    BY LenProperties
  <2>2. QED
    BY <2>1, FS_Interval
<1>2. f \in [DOMAIN ranges -> 1..Len(ranges)]
  BY PlaceFacts
<1>3. ASSUME NEW i \in DOMAIN ranges, NEW j \in DOMAIN ranges, f[i] = f[j]
      PROVE  i = j
  <2>1. SUFFICES ASSUME i # j PROVE FALSE
    OBVIOUS
  <2>2. Place(ranges, i) = Place(ranges, j)
    BY <1>3
  <2>3. Place(ranges, i) \in Int /\ Place(ranges, j) \in Int
    BY PlaceFacts
  <2>4. Place(ranges, i) < Place(ranges, j) \/ Place(ranges, j) < Place(ranges, i)
    BY <2>1, PlaceFacts, PrecedesOrders
  <2>5. QED
    BY <2>2, <2>3, <2>4
<1>4. f \in Injection(DOMAIN ranges, 1..Len(ranges))
  BY <1>2, <1>3 DEF Injection, IsInjective
<1>5. f \in Surjection(DOMAIN ranges, 1..Len(ranges))
  <2> HIDE DEF f
  <2>1. PICK S : S = 1..Len(ranges)
    OBVIOUS
  <2>2. IsFiniteSet(S) /\ f \in Injection(S, S) /\ DOMAIN ranges = S
    BY <1>1, <1>4, <2>1
  <2>3. Cardinality(S) = Cardinality(S) <=> f \in Surjection(S, S)
    BY <2>2, FS_Injection
  <2>4. QED
    BY <2>1, <2>2, <2>3
<1>6. QED
  BY <1>5 DEF Surjection

\* Sorting keeps every range, and puts them in ascending order of their start.
LEMMA SortedOrders ==
  ASSUME NEW max \in Int, NEW ranges \in Seq(Piece(max)), NEW s, s = Sorted(ranges)
  PROVE  /\ s \in Seq(Piece(max)) /\ Len(s) = Len(ranges)
         /\ Covered(s) = Covered(ranges)
         /\ \A k, l \in DOMAIN s : k < l => s[k].start <= s[l].start
<1> DEFINE I(k) == CHOOSE i \in DOMAIN ranges : Place(ranges, i) = k
<1>1. /\ DOMAIN ranges = 1..Len(ranges) /\ Len(ranges) \in Nat
      /\ \A i \in DOMAIN ranges : ranges[i] \in Piece(max)
  BY LenProperties
<1>2. s = [k \in 1..Len(ranges) |-> ranges[I(k)]]
  BY <1>1 DEF Sorted
<1>3. \A k \in 1..Len(ranges) : I(k) \in DOMAIN ranges /\ Place(ranges, I(k)) = k
  BY PlacesTaken
<1> HIDE DEF I
<1>4. s \in Seq(Piece(max)) /\ Len(s) = Len(ranges) /\ DOMAIN s = 1..Len(ranges)
  <2>1. \A k \in 1..Len(ranges) : ranges[I(k)] \in Piece(max)
    BY <1>1, <1>3
  <2>2. s \in [1..Len(ranges) -> Piece(max)]
    BY <1>2, <2>1
  <2>3. QED
    BY <1>1, <2>2, LenProperties
<1>5. Covered(s) = Covered(ranges)
  <2>1. \A i \in DOMAIN ranges : /\ Place(ranges, i) \in 1..Len(ranges)
                                 /\ I(Place(ranges, i)) = i
    <3> SUFFICES ASSUME NEW i \in DOMAIN ranges
                 PROVE  Place(ranges, i) \in 1..Len(ranges) /\ I(Place(ranges, i)) = i
      OBVIOUS
    <3>1. PICK k \in 1..Len(ranges) : k = Place(ranges, i)
      BY PlaceFacts
    <3>2. PICK j \in DOMAIN ranges : j = I(k) /\ Place(ranges, j) = k
      BY <1>3
    <3>3. i = j
      <4>1. Precedes(ranges, i, j) \/ Precedes(ranges, j, i)
        BY PrecedesOrders
      <4>2. i # j => k < k
        BY <3>1, <3>2, <4>1, PlaceFacts
      <4>3. QED
        BY <4>2
    <3>4. QED
      BY <3>1, <3>2, <3>3
  <2>2. \A b : b \in Covered(s) <=> b \in Covered(ranges)
    <3>1. ASSUME NEW b \in Covered(s) PROVE b \in Covered(ranges)
      <4>1. PICK k \in 1..Len(ranges) : b \in s[k].start .. s[k].stop
        BY <1>4 DEF Covered
      <4>2. s[k] = ranges[I(k)] /\ I(k) \in DOMAIN ranges
        BY <1>2, <1>3
      <4>3. QED
        BY <4>1, <4>2 DEF Covered
    <3>2. ASSUME NEW b \in Covered(ranges) PROVE b \in Covered(s)
      <4>1. PICK i \in DOMAIN ranges : b \in ranges[i].start .. ranges[i].stop
        BY DEF Covered
      <4>2. PICK k \in DOMAIN s : s[k] = ranges[i]
        BY <1>2, <1>4, <2>1
      <4>3. QED
        BY <4>1, <4>2 DEF Covered
    <3>3. QED
      BY <3>1, <3>2
  <2>3. QED
    BY <2>2
<1>6. ASSUME NEW k \in DOMAIN s, NEW l \in DOMAIN s, k < l
      PROVE  s[k].start <= s[l].start
  <2>1. PICK i \in DOMAIN ranges : i = I(k) /\ Place(ranges, i) = k
    BY <1>3, <1>4
  <2>2. PICK j \in DOMAIN ranges : j = I(l) /\ Place(ranges, j) = l
    BY <1>3, <1>4
  <2>3. k \in Nat /\ l \in Nat
    BY <1>1, <1>4
  <2>4. i # j /\ ~Precedes(ranges, j, i)
    <3>1. i # j
      BY <1>6, <2>1, <2>2, <2>3
    <3>2. Precedes(ranges, j, i) => l < k
      BY <2>1, <2>2, <3>1, PlaceFacts
    <3>3. QED
      BY <1>6, <2>3, <3>1, <3>2
  <2>5. ranges[i].start <= ranges[j].start
    BY <2>4, PrecedesOrders
  <2>6. s[k] = ranges[i] /\ s[l] = ranges[j]
    BY <1>2, <1>4, <2>1, <2>2
  <2>7. QED
    BY <2>5, <2>6
<1>7. QED
  BY <1>4, <1>5, <1>6

-----------------------------------------------------------------------------
(* What the second loop returns: the same bytes, in ascending order.        *)

\* The loop over the sorted ranges.
LEMMA AscendingLoop ==
  ASSUME NEW sorted, NEW max, NEW N \in Nat
  PROVE  \E f : f = [n \in 0..N |-> IF n = 0 THEN NoneYet ELSE Cut(f[n - 1], sorted[n], max)]
<1> DEFINE Loop(f, n) == IF n = 0 THEN NoneYet ELSE Cut(f[n - 1], sorted[n], max)
<1> DEFINE S == {m \in Nat : \E f : f = [n \in 0..m |-> Loop(f, n)]}
<1>1. 0 \in S
  <2>1. [n \in 0..0 |-> NoneYet] = [n \in 0..0 |-> Loop([k \in 0..0 |-> NoneYet], n)]
    BY Z3
  <2>2. QED
    BY <2>1
<1>2. ASSUME NEW m \in S
      PROVE  m + 1 \in S
  <2>1. m \in Nat /\ m + 1 \in Nat /\ 0..m \subseteq 0..m + 1
    OBVIOUS
  <2>2. PICK f : f = [n \in 0..m |-> Loop(f, n)]
    OBVIOUS
  <2> DEFINE g == [n \in 0..m + 1 |-> IF n = m + 1 THEN Cut(f[m], sorted[n], max) ELSE f[n]]
  <2>3. ASSUME NEW n \in 0..m + 1
        PROVE  g[n] = Loop(g, n)
    <3>1. CASE n = m + 1
      <4>1. n # 0 /\ n - 1 = m /\ m \in 0..m + 1 /\ m # m + 1
        BY <2>1, <3>1
      <4>2. g[n - 1] = f[m] /\ g[n] = Cut(f[m], sorted[n], max)
        BY <3>1, <4>1
      <4>3. QED
        BY <4>1, <4>2
    <3>2. CASE n # m + 1
      <4>1. n \in 0..m /\ (n # 0 => n - 1 \in 0..m + 1 /\ n - 1 # m + 1)
        BY <2>1, <3>2
      <4>2. g[n] = f[n] /\ (n # 0 => g[n - 1] = f[n - 1])
        BY <3>2, <4>1
      <4>3. f[n] = Loop(f, n)
        BY <2>2, <4>1
      <4>4. QED
        BY <4>2, <4>3
    <3>3. QED
      BY <3>1, <3>2
  <2>4. g = [n \in 0..m + 1 |-> Loop(g, n)]
    BY <2>3
  <2>5. QED
    BY <2>1, <2>4
<1>3. S = Nat
  <2> HIDE DEF S
  <2>1. S \in SUBSET Nat
    BY DEF S
  <2>2. QED
    BY <1>1, <1>2, <2>1, Induction
<1>4. QED
  BY <1>3

\* Ascending is where that loop ends.
LEMMA AscendingSteps ==
  ASSUME NEW ranges, NEW max, Len(ranges) \in Nat, NEW sorted, sorted = Sorted(ranges)
  PROVE  \E f : /\ f[0] = NoneYet
                /\ \A n \in 1..Len(ranges) : f[n] = Cut(f[n - 1], sorted[n], max)
                /\ Ascending(ranges, max) = f[Len(ranges)]
<1> DEFINE f == CHOOSE f : f = [n \in 0..Len(ranges) |->
                       IF n = 0 THEN NoneYet ELSE Cut(f[n - 1], sorted[n], max)]
<1>1. f = [n \in 0..Len(ranges) |-> IF n = 0 THEN NoneYet ELSE Cut(f[n - 1], sorted[n], max)]
  BY AscendingLoop
<1>2. Ascending(ranges, max) = f[Len(ranges)]
  BY DEF Ascending
<1> HIDE DEF f
<1>3. f[0] = NoneYet
  BY <1>1
<1>4. \A n \in 1..Len(ranges) : f[n] = Cut(f[n - 1], sorted[n], max)
  BY <1>1
<1>5. QED
  BY <1>2, <1>3, <1>4

\* The result after the first n of the sorted ranges: all that they cover, and
\* without a gap from the last of them on.
Overall(ranges) == ranges[1].start .. ranges[Len(ranges)].stop
AscendingInv(acc, n, sorted, max) ==
  /\ acc.verdict = "ok"
  /\ acc.ranges \in Seq(Piece(max))
  /\ n = 0 => acc.ranges = <<>>
  /\ Covered(acc.ranges) = UNION {sorted[k].start .. sorted[k].stop : k \in 1..n}
  /\ n > 0 => /\ acc.ranges # <<>>
              /\ sorted[n].start .. acc.ranges[Len(acc.ranges)].stop \subseteq Covered(acc.ranges)
              /\ Covered(acc.ranges) \subseteq Overall(acc.ranges)
  /\ Stepped(acc.ranges, max)

\* What joining or appending a range does to the first and the last of them.
LEMMA AddedEnds ==
  ASSUME NEW max \in Int, NEW ranges \in Seq(Piece(max)), NEW r \in Piece(max),
         NEW s, s = Added(ranges, r)
  PROVE  /\ s[Len(s)].stop = r.stop
         /\ ranges = <<>> => s[1].start = r.start
         /\ ranges # <<>> => s[1].start = ranges[1].start
<1>1. /\ s \in Seq(Piece(max)) /\ Len(s) \in Nat \ {0}
      /\ \A i \in 1..Len(s) - 1 : i \in DOMAIN ranges /\ s[i] = ranges[i]
      /\ IF Joins(ranges, r)
         THEN /\ Len(s) = Len(ranges)
              /\ ranges[Len(s)].stop = r.start - 1
              /\ s[Len(s)] = [start |-> ranges[Len(s)].start, stop |-> r.stop]
         ELSE Len(s) = Len(ranges) + 1 /\ s[Len(s)] = r
  BY AddedShape
<1>2. PICK n \in Nat \ {0} : n = Len(s)
  BY <1>1
<1>3. n # 1 => 1 \in 1..n - 1
  OBVIOUS
<1>4. ranges = <<>> <=> Len(ranges) = 0
  BY EmptySeq
<1>5. Joins(ranges, r) => ranges # <<>>
  BY DEF Joins
<1>6. Len(ranges) \in Nat
  BY LenProperties
<1>7. CASE n = 1
  BY <1>1, <1>2, <1>4, <1>5, <1>6, <1>7
<1>8. CASE n # 1
  <2>1. s[1] = ranges[1] /\ ranges # <<>>
    BY <1>1, <1>2, <1>3, <1>4, <1>6, <1>8
  <2>2. QED
    BY <1>1, <2>1
<1>9. QED
  BY <1>7, <1>8

\* A range, cut where it overlaps the last one, keeps the invariant.
LEMMA CutKeeps ==
  ASSUME NEW max \in Int, NEW sorted \in Seq(Piece(max)),
         \A k, l \in DOMAIN sorted : k < l => sorted[k].start <= sorted[l].start,
         NEW n \in 1..Len(sorted), NEW acc, AscendingInv(acc, n - 1, sorted, max)
  PROVE  AscendingInv(Cut(acc, sorted[n], max), n, sorted, max)
<1>1. PICK range : range = sorted[n]
  OBVIOUS
<1>2. /\ range \in Piece(max) /\ n \in Nat /\ n - 1 \in Nat /\ n > 0
      /\ range.start \in Nat /\ range.stop \in Nat /\ range.start <= range.stop
      /\ range.stop <= max
  <2>1. range \in Piece(max) /\ n \in Nat /\ n - 1 \in Nat /\ n > 0
    BY <1>1, LenProperties
  <2>2. QED
    BY <2>1 DEF Piece
<1>3. PICK ranges : ranges = acc.ranges
  OBVIOUS
<1>4. /\ ranges \in Seq(Piece(max)) /\ acc.verdict = "ok"
      /\ Covered(ranges) = UNION {sorted[k].start .. sorted[k].stop : k \in 1..n - 1}
      /\ n - 1 = 0 <=> ranges = <<>>
      /\ n - 1 > 0 => /\ sorted[n - 1].start .. ranges[Len(ranges)].stop \subseteq Covered(ranges)
                      /\ Covered(ranges) \subseteq Overall(ranges)
      /\ Stepped(ranges, max)
  BY <1>2, <1>3 DEF AscendingInv
<1>5. PICK before \in Nat : before = Len(ranges)
  BY <1>4, LenProperties
<1>6. ranges # <<>> => /\ n - 1 > 0 /\ before > 0
                       /\ ranges[1] \in Piece(max) /\ ranges[before] \in Piece(max)
                       /\ sorted[n - 1].start <= range.start
  <2> SUFFICES ASSUME ranges # <<>>
               PROVE  /\ n - 1 > 0 /\ before > 0
                      /\ ranges[1] \in Piece(max) /\ ranges[before] \in Piece(max)
                      /\ sorted[n - 1].start <= range.start
    OBVIOUS
  <2>1. n - 1 # 0 /\ before # 0
    BY <1>4, <1>5, EmptySeq
  <2>2. 1 \in 1..before /\ before \in 1..before /\ n - 1 < n
    BY <1>2, <1>5, <2>1
  <2>3. DOMAIN ranges = 1..before /\ \A i \in DOMAIN ranges : ranges[i] \in Piece(max)
    BY <1>4, <1>5, LenProperties
  <2>4. n - 1 \in DOMAIN sorted /\ n \in DOMAIN sorted
    <3>1. DOMAIN sorted = 1..Len(sorted) /\ Len(sorted) \in Nat
      BY LenProperties
    <3>2. QED
      BY <1>2, <2>1, <3>1
  <2>5. QED
    BY <1>1, <1>2, <2>1, <2>2, <2>3, <2>4
<1>7. PICK last : last = IF ranges = <<>> THEN -1 ELSE ranges[before].stop
  OBVIOUS
<1>8. /\ last \in Int /\ -1 <= last /\ (ranges # <<>> => last \in Nat /\ last <= max)
      /\ ranges # <<>> => Last(ranges).stop = last
  BY <1>5, <1>6, <1>7 DEF Piece, Last
<1>9. PICK start : start = IF ranges # <<>> /\ range.start <= last
                           THEN (IF last + 1 < max THEN last + 1 ELSE max)
                           ELSE range.start
  OBVIOUS
<1>10. start \in Nat /\ start <= max /\ range.start <= start
  BY <1>2, <1>8, <1>9
<1>11. PICK r : r = [start |-> start, stop |-> range.stop]
  OBVIOUS
<1>12. Cut(acc, range, max) = IF r.stop < r.start THEN acc
         ELSE Result("ok", IF Joins(ranges, r) THEN acc.size ELSE acc.size + Extent(r),
                     Added(ranges, r))
  <2>1. ranges # <<>> => Min({last + 1, max}) = IF last + 1 < max THEN last + 1 ELSE max
    <3> SUFFICES ASSUME ranges # <<>>
                 PROVE  Min({last + 1, max}) = IF last + 1 < max THEN last + 1 ELSE max
      OBVIOUS
    <3>1. PICK a \in Int : a = last + 1
      BY <1>8
    <3>2. Min({a, max}) = IF a < max THEN a ELSE max
      BY DEF Min
    <3>3. QED
      BY <3>1, <3>2
  <2>2. (ranges # <<>> /\ range.start <= last) =>
          [start |-> Min({Last(ranges).stop + 1, max}), stop |-> range.stop] = r
    BY <1>8, <1>9, <1>11, <2>1
  <2>3. ~(ranges # <<>> /\ range.start <= last) => range = r
    BY <1>2, <1>9, <1>11 DEF Piece
  <2>4. PICK x : x = IF ranges # <<>> /\ range.start <= Last(ranges).stop
                     THEN [start |-> Min({Last(ranges).stop + 1, max}), stop |-> range.stop]
                     ELSE range
    OBVIOUS
  <2>5. x = r
    BY <1>8, <2>2, <2>3, <2>4
  <2>6. QED
    BY <1>3, <2>4, <2>5 DEF Cut
<1>13. UNION {sorted[k].start .. sorted[k].stop : k \in 1..n}
         = Covered(ranges) \cup (range.start .. range.stop)
  <2>1. 1..n = (1..n - 1) \cup {n}
    BY <1>2
  <2>2. QED
    BY <1>1, <1>4, <2>1
<1>14. ranges # <<>> => \A b \in Int : range.start <= b /\ b <= last => b \in Covered(ranges)
  <2> SUFFICES ASSUME ranges # <<>>, NEW b \in Int, range.start <= b, b <= last
               PROVE  b \in Covered(ranges)
    OBVIOUS
  <2>1. PICK m : m = n - 1
    OBVIOUS
  <2>2. sorted[m].start \in Nat
    <3>1. m \in DOMAIN sorted
      <4>1. DOMAIN sorted = 1..Len(sorted) /\ Len(sorted) \in Nat
        BY LenProperties
      <4>2. QED
        BY <1>2, <1>6, <2>1, <4>1
    <3>2. QED
      BY <3>1, LenProperties DEF Piece
  <2>3. b \in sorted[m].start .. last
    BY <1>2, <1>6, <1>8, <2>1, <2>2
  <2>4. QED
    BY <1>4, <1>5, <1>6, <1>7, <2>1, <2>3
<1>15. CASE r.stop < r.start
  <2>1. range.stop < start
    BY <1>11, <1>15
  <2>2. ranges # <<>> /\ range.start <= last /\ range.stop <= last
    BY <1>2, <1>8, <1>9, <1>10, <2>1
  <2>3. range.start .. range.stop \subseteq Covered(ranges)
    BY <1>2, <1>8, <1>14, <2>2
  <2>4. range.start .. ranges[Len(ranges)].stop \subseteq Covered(ranges)
    BY <1>2, <1>5, <1>7, <1>8, <1>14, <2>2
  <2>5. Cut(acc, range, max) = acc
    BY <1>12, <1>15
  <2>6. UNION {sorted[k].start .. sorted[k].stop : k \in 1..n} = Covered(ranges)
    BY <1>13, <2>3
  <2>7. n # 0
    BY <1>2
  <2>8. AscendingInv(acc, n, sorted, max)
    BY <1>1, <1>3, <1>4, <1>6, <2>2, <2>4, <2>6, <2>7 DEF AscendingInv
  <2>9. QED
    BY <1>1, <2>5, <2>8
<1>16. CASE ~(r.stop < r.start)
  <2>1. /\ r \in Piece(max) /\ start <= range.stop /\ r.start = start /\ r.stop = range.stop
    BY <1>2, <1>10, <1>11, <1>16 DEF Piece
  <2>2. PICK s : s = Added(ranges, r)
    OBVIOUS
  <2>3. /\ s \in Seq(Piece(max)) /\ Len(s) \in Nat \ {0}
    <3>1. LET t == Added(ranges, r) IN t \in Seq(Piece(max)) /\ Len(t) \in Nat \ {0}
      BY <1>4, <2>1, AddedShape
    <3>2. QED
      BY <2>2, <3>1
  <2>4. PICK next : next = Cut(acc, range, max)
    OBVIOUS
  <2>5. next.verdict = "ok" /\ next.ranges = s
    <3>1. \E extent : next = Result("ok", extent, s)
      BY <1>12, <1>16, <2>2, <2>4
    <3>2. QED
      BY <3>1, NoneYetFacts
  <2>6. Covered(s) = Covered(ranges) \cup (start .. range.stop)
    BY <1>4, <2>1, <2>2, AddedCovers
  <2>7. /\ s[Len(s)].stop = range.stop
        /\ ranges = <<>> => s[1].start = start
        /\ ranges # <<>> => s[1].start = ranges[1].start
    <3>1. /\ s[Len(s)].stop = r.stop
          /\ ranges = <<>> => s[1].start = r.start
          /\ ranges # <<>> => s[1].start = ranges[1].start
      <4>1. ranges \in Seq(Piece(max)) /\ r \in Piece(max)
        BY <1>4, <2>1
      <4>2. s[Len(s)].stop = r.stop
        BY <2>2, <4>1, AddedEnds
      <4>3. ranges = <<>> => s[1].start = r.start
        BY <2>2, <4>1, AddedEnds
      <4>4. ranges # <<>> => s[1].start = ranges[1].start
        BY <2>2, <4>1, AddedEnds
      <4>5. QED
        BY <4>2, <4>3, <4>4
    <3>2. QED
      BY <2>1, <3>1
  <2>8. \A b \in Int : range.start <= b /\ b < start => b \in Covered(ranges)
    BY <1>2, <1>8, <1>9, <1>14
  <2>9. Covered(s) = Covered(ranges) \cup (range.start .. range.stop)
    <3>1. \A b \in range.start .. range.stop : b \in Covered(ranges) \cup (start .. range.stop)
      BY <1>2, <1>10, <2>8
    <3>2. start .. range.stop \subseteq range.start .. range.stop
      BY <1>2, <1>10
    <3>3. QED
      BY <2>6, <3>1, <3>2
  <2>10. range.start .. s[Len(s)].stop \subseteq Covered(s)
    BY <2>7, <2>9
  <2>11. Covered(s) \subseteq s[1].start .. range.stop
    <3>1. CASE ranges = <<>>
      <4>1. Covered(ranges) = {}
        BY <3>1, <1>4, NothingCovered
      <4>2. QED
        BY <2>6, <2>7, <3>1, <4>1
    <3>2. CASE ranges # <<>>
      <4>1. Covered(ranges) \subseteq ranges[1].start .. last
        BY <1>4, <1>5, <1>6, <1>7, <3>2 DEF Overall
      <4>2. ranges[1].start \in Nat /\ ranges[before].stop \in Covered(ranges)
        <5>1. before \in DOMAIN ranges
          BY <1>4, <1>5, <1>6, <3>2, LenProperties
        <5>2. ranges[before].stop \in ranges[before].start .. ranges[before].stop
          BY <1>6, <3>2 DEF Piece
        <5>3. QED
          BY <1>6, <3>2, <5>1, <5>2 DEF Covered, Piece
      <4>3. ranges[1].start <= last
        BY <1>7, <1>8, <3>2, <4>1, <4>2
      <4>4. last <= start
        BY <1>2, <1>8, <1>9, <3>2
      <4>5. ranges[1].start .. last \subseteq ranges[1].start .. range.stop
        BY <1>2, <1>8, <1>10, <2>1, <3>2, <4>2, <4>4
      <4>6. start .. range.stop \subseteq ranges[1].start .. range.stop
        BY <1>2, <1>8, <1>10, <3>2, <4>2, <4>3, <4>4
      <4>7. QED
        BY <2>6, <2>7, <3>2, <4>1, <4>5, <4>6
    <3>3. QED
      BY <3>1, <3>2
  <2>12. s # <<>> /\ n # 0
    BY <1>2, <2>3, EmptySeq
  <2>13. Stepped(s, max)
    <3>1. ranges # <<>> => (Last(ranges).stop < r.start \/ r.start = max)
      BY <1>2, <1>8, <1>9, <2>1
    <3>2. QED
      BY <1>4, <2>1, <2>2, <3>1, AddedStepped
  <2>14. AscendingInv(next, n, sorted, max)
    BY <1>1, <1>13, <2>3, <2>5, <2>7, <2>9, <2>10, <2>11, <2>12, <2>13 DEF AscendingInv, Overall
  <2>15. QED
    BY <1>1, <2>4, <2>14
<1>17. QED
  BY <1>15, <1>16

\* So the second loop covers what the ranges cover, and reaches from end to end.
LEMMA AscendingMeans ==
  ASSUME NEW max \in Int, NEW ranges \in Seq(Piece(max)), ranges # <<>>,
         NEW acc, acc = Ascending(ranges, max)
  PROVE  /\ acc.verdict = "ok" /\ acc.ranges \in Seq(Piece(max)) /\ acc.ranges # <<>>
         /\ Covered(acc.ranges) = Covered(ranges)
         /\ Covered(acc.ranges) \subseteq Overall(acc.ranges)
         /\ Stepped(acc.ranges, max)
<1>1. PICK s : s = Sorted(ranges)
  OBVIOUS
<1>2. /\ s \in Seq(Piece(max)) /\ Len(s) = Len(ranges)
      /\ Covered(s) = Covered(ranges)
      /\ \A k, l \in DOMAIN s : k < l => s[k].start <= s[l].start
  BY <1>1, SortedOrders
<1>3. Len(ranges) \in Nat /\ Len(ranges) # 0 /\ DOMAIN s = 1..Len(ranges)
  BY <1>2, LenProperties, EmptySeq
<1>4. PICK f : /\ f[0] = NoneYet
               /\ \A n \in 1..Len(ranges) : f[n] = Cut(f[n - 1], s[n], max)
               /\ acc = f[Len(ranges)]
  BY <1>1, <1>3, AscendingSteps
<1> DEFINE S == {n \in Nat : n <= Len(ranges) => AscendingInv(f[n], n, s, max)}
<1>5. 0 \in S
  <2>1. f[0].verdict = "ok" /\ f[0].ranges = <<>>
    BY <1>4, NoneYetFacts
  <2>2. PICK none : none = f[0].ranges
    OBVIOUS
  <2>3. none \in Seq(Piece(max)) /\ Covered(none) = {} /\ Stepped(none, max)
    BY <2>1, <2>2, NothingCovered DEF Stepped
  <2>4. UNION {s[k].start .. s[k].stop : k \in 1..0} = {}
    OBVIOUS
  <2>5. AscendingInv(f[0], 0, s, max)
    BY <2>1, <2>2, <2>3, <2>4 DEF AscendingInv
  <2>6. QED
    BY <2>5
<1>6. ASSUME NEW n \in S PROVE n + 1 \in S
  <2>1. n \in Nat /\ n + 1 \in Nat /\ (n + 1) - 1 = n
    OBVIOUS
  <2>2. SUFFICES ASSUME n + 1 <= Len(ranges) PROVE AscendingInv(f[n + 1], n + 1, s, max)
    BY <2>1
  <2>3. n + 1 \in 1..Len(s) /\ n + 1 \in 1..Len(ranges) /\ n <= Len(ranges)
    BY <1>2, <1>3, <2>1, <2>2
  <2>4. AscendingInv(f[n], n, s, max)
    BY <2>3
  <2>5. f[n + 1] = Cut(f[n], s[n + 1], max)
    BY <1>4, <2>1, <2>3
  <2>6. QED
    BY <1>2, <2>1, <2>3, <2>4, <2>5, CutKeeps
<1>7. S = Nat
  <2> HIDE DEF S
  <2>1. S \in SUBSET Nat
    BY DEF S
  <2>2. QED
    BY <1>5, <1>6, <2>1, Induction
<1>8. AscendingInv(acc, Len(ranges), s, max) /\ Len(ranges) > 0
  BY <1>3, <1>4, <1>7
<1>9. Covered(s) = UNION {s[k].start .. s[k].stop : k \in 1..Len(ranges)}
  BY <1>3 DEF Covered
<1>10. QED
  BY <1>2, <1>8, <1>9 DEF AscendingInv

-----------------------------------------------------------------------------
(* What parse_range_value returns.                                          *)

\* The bytes that a sequence of definitions means, of a file of n bytes.
AllOf(defs, n) == UNION {MeantBy(d, n) : d \in ToSet(defs)}

\* All the definitions.
LEMMA MeaningIsAll ==
  ASSUME NEW defs \in Seq(Definitions), NEW max \in Int
  PROVE  Meaning(defs, Len(defs), max) = AllOf(defs, max + 1)
<1>1. DOMAIN defs = 1..Len(defs)
  BY LenProperties
<1>2. ToSet(defs) = {defs[k] : k \in 1..Len(defs)}
  BY <1>1 DEF ToSet
<1>3. QED
  BY <1>2 DEF Meaning, AllOf

\* What parse_range_value returns, if anything: ranges of the file that cover just
\* the bytes that were asked for.
LEMMA ParsedMeans ==
  ASSUME scenario \in Scenarios,
         NEW defs \in Seq(Definitions), NEW max \in Int, max >= -1,
         NEW result, result = Parsed(defs, max), result.verdict = "ok"
  PROVE  /\ result.ranges \in Seq(Piece(max)) /\ result.ranges # <<>>
         /\ Covered(result.ranges) = AllOf(defs, max + 1)
         /\ scenario.mode = "strict" => /\ Gapped(result.ranges)
                                        /\ result.size = Cardinality(Covered(result.ranges))
                                        /\ Len(result.ranges) <= Len(defs)
         /\ scenario.mode # "strict" => /\ Covered(result.ranges) \subseteq Overall(result.ranges)
                                        /\ Stepped(result.ranges, max)
<1>1. PICK strict \in BOOLEAN : strict = (scenario.mode = "strict")
  OBVIOUS
<1>2. PICK first : first = InOrder(Allowed(defs), max, strict)
  OBVIOUS
<1>3. /\ ~(defs = <<>> \/ (first.verdict = "ok" /\ TooMany(defs)))
      /\ result = IF first.verdict = "ok" /\ scenario.mode # "strict"
                  THEN Ascending(first.ranges, max) ELSE first
  <2>1. result = IF defs = <<>> \/ (first.verdict = "ok" /\ TooMany(defs)) THEN NoResult
                 ELSE IF first.verdict = "ok" /\ scenario.mode # "strict"
                      THEN Ascending(first.ranges, max) ELSE first
    BY <1>1, <1>2 DEF Parsed
  <2>2. result # NoResult
    BY NoneYetFacts
  <2>3. QED
    BY <2>1, <2>2
<1>4. first.verdict = "ok"
  BY <1>3
<1>5. Allowed(defs) = defs
  BY <1>3, <1>4 DEF Allowed
<1>6. Len(defs) \in Nat /\ Len(defs) > 0
  BY <1>3, LenProperties, EmptySeq
<1>7. PICK ranges : ranges = first.ranges
  OBVIOUS
<1>8. /\ ranges \in Seq(Piece(max)) /\ ranges # <<>> /\ Len(ranges) <= Len(defs)
      /\ Covered(ranges) = AllOf(defs, max + 1)
      /\ strict => Gapped(ranges) /\ first.size = Cardinality(Covered(ranges))
  <2>1. InOrderInv(first, Len(defs), defs, max, strict)
    BY <1>2, <1>5, InOrderMeans
  <2>2. Covered(ranges) = Meaning(defs, Len(defs), max)
    BY <1>4, <1>7, <2>1 DEF InOrderInv
  <2>3. QED
    BY <1>4, <1>6, <1>7, <2>1, <2>2, MeaningIsAll DEF InOrderInv
<1>9. CASE scenario.mode = "strict"
  BY <1>1, <1>3, <1>7, <1>8, <1>9
<1>10. CASE scenario.mode # "strict"
  <2>1. result = Ascending(ranges, max)
    BY <1>3, <1>4, <1>7, <1>10
  <2>2. /\ result.ranges \in Seq(Piece(max)) /\ result.ranges # <<>>
        /\ Covered(result.ranges) = Covered(ranges)
        /\ Covered(result.ranges) \subseteq Overall(result.ranges)
        /\ Stepped(result.ranges, max)
    <3>1. ranges \in Seq(Piece(max)) /\ ranges # <<>>
      BY <1>8
    <3>2. QED
      BY <2>1, <3>1, AscendingMeans
  <2>3. QED
    BY <1>8, <1>10, <2>2
<1>11. QED
  BY <1>9, <1>10

\* A range that the file has is not refused.
LEMMA OneRange ==
  ASSUME scenario \in Scenarios, NEW max \in Int, max >= -1,
         NEW a \in 0..max, NEW b \in 0..max, a <= b,
         NEW d, d = [first |-> a, last |-> b], NEW defs, defs = <<d>>
  PROVE  Parsed(defs, max).verdict = "ok"
<1>1. /\ d \in Definitions /\ defs \in Seq(Definitions)
      /\ Len(defs) = 1 /\ defs[1] = d /\ defs # <<>>
  BY DEF Definitions
<1>2. ~TooMany(defs)
  BY <1>1, FileAssumption DEF TooMany
<1>3. Allowed(defs) = defs
  BY <1>2 DEF Allowed
<1>4. PICK strict \in BOOLEAN : strict = (scenario.mode = "strict")
  OBVIOUS
<1>5. PICK first : first = InOrder(defs, max, strict)
  OBVIOUS
<1>6. first.verdict = "ok"
  <2>1. PICK f : /\ f[0] = NoneYet
                 /\ \A n \in 1..Len(defs) : f[n] = Checked(f[n - 1], defs[n], max, strict)
                 /\ first = f[Len(defs)]
    BY <1>1, <1>5, InOrderSteps
  <2>2. first = Checked(NoneYet, d, max, strict)
    <3>1. 1 \in 1..1 /\ 1 - 1 = 0
      OBVIOUS
    <3>2. QED
      BY <1>1, <2>1, <3>1
  <2>3. a # Blank /\ b # Blank /\ a \in Int /\ b \in Int /\ 0 <= a /\ a <= max /\ b <= max
    BY DEF Blank
  <2>4. /\ Denoted(d, max).start = a /\ Denoted(d, max).stop = b
        /\ d.first # Blank /\ d.last # Blank
    BY <2>3 DEF Denoted
  <2>5. ~Malformed(d, max) /\ ~(Denoted(d, max).start > max \/ Denoted(d, max).stop > max)
    BY <2>3, <2>4 DEF Malformed
  <2>6. PICK extent, ranges : first = Result("ok", extent, ranges)
    BY <2>2, <2>5, NoneYetFacts DEF Checked
  <2>7. QED
    BY <2>6, NoneYetFacts
<1>7. PICK result : result = Parsed(defs, max)
  OBVIOUS
<1>8. result = IF scenario.mode # "strict" THEN Ascending(first.ranges, max) ELSE first
  BY <1>1, <1>2, <1>3, <1>4, <1>5, <1>6, <1>7 DEF Parsed
<1>9. scenario.mode # "strict" => result.verdict = "ok"
  <2>1. InOrderInv(first, Len(defs), defs, max, strict)
    BY <1>1, <1>5, InOrderMeans
  <2>2. PICK ranges : ranges = first.ranges
    OBVIOUS
  <2>3. ranges \in Seq(Piece(max)) /\ ranges # <<>>
    BY <1>1, <1>6, <2>1, <2>2 DEF InOrderInv
  <2>4. Ascending(ranges, max).verdict = "ok"
    BY <2>3, AscendingMeans
  <2>5. QED
    BY <1>8, <2>2, <2>4
<1>10. QED
  BY <1>6, <1>7, <1>8, <1>9

-----------------------------------------------------------------------------
(* Sending the bytes of a plan: what was sent, and what is left.            *)

\* A range that is left of what is to be sent: it may be empty.
Stretch == {x \in [start : Nat, stop : Int] : x.start <= x.stop + 1}

\* The bytes of the file in what was sent, and their order.
Bytes(s) == {s[i] : i \in {j \in DOMAIN s : s[j] # PartHeader}}
Rising(s) == \A i, j \in DOMAIN s :
  (s[i] # PartHeader /\ s[j] # PartHeader /\ i < j) => s[i] < s[j]

\* Each part begins behind a header.
Parted(s, m) == \A i \in DOMAIN s : s[i] \in PartsOf(m) <=> (i > 1 /\ s[i - 1] = PartHeader)
HeaderLast(s) == s # <<>> /\ s[Len(s)] = PartHeader

\* The bytes m are being sent: those in s were, the ranges l are left, and if one
\* has begun the file is read from a on.
Underway(m, l, a, s) ==
  /\ l \in Seq(Stretch) /\ Covered(l) \subseteq m
  /\ s \in Seq(Nat \cup {PartHeader}) /\ Bytes(s) \subseteq m
  /\ a # Blank => l # <<>> /\ a \in Nat /\ a <= l[1].start /\ a .. l[1].stop \subseteq m

\* In ascending order.
InRow(l, a, s) ==
  /\ Rising(s) /\ Gapped(l)
  /\ \A b \in Bytes(s) : /\ a = Blank => \A j \in DOMAIN l : b < l[j].start
                         /\ a # Blank => b < a

\* Without a loss.
Exact(m, l, a, s) == Bytes(s) \cup Covered(l) = m /\ (a # Blank => a = l[1].start)

\* Each part behind a header.
Parting(m, l, a, s) ==
  /\ \A j \in DOMAIN l : l[j].start <= l[j].stop
  /\ \A j \in DOMAIN l : (j > 1 \/ a = Blank) => l[j].start \in PartsOf(m)
  /\ Parted(s, m)
  /\ a = Blank => ~HeaderLast(s)
  /\ a # Blank => (l[1].start \in PartsOf(m) <=> HeaderLast(s))

\* The first range of a list, and the others.
LEMMA Leftover ==
  ASSUME NEW l \in Seq(Stretch), l # <<>>, NEW t, t = Tail(l)
  PROVE  /\ l[1] \in Stretch /\ 1 \in DOMAIN l /\ t \in Seq(Stretch)
         /\ \A j \in DOMAIN t : j \in Nat /\ j >= 1 /\ j + 1 \in DOMAIN l /\ t[j] = l[j + 1]
         /\ Covered(l) = (l[1].start .. l[1].stop) \cup Covered(t)
<1>1. /\ Len(l) \in Nat /\ Len(l) # 0 /\ DOMAIN l = 1..Len(l)
      /\ \A j \in 1..Len(l) : l[j] \in Stretch
  BY LenProperties, EmptySeq
<1>2. PICK n \in Nat \ {0} : n = Len(l)
  BY <1>1
<1>3. 1 \in 1..n
  OBVIOUS
<1>4. t \in Seq(Stretch) /\ Len(t) = n - 1 /\ \A j \in 1..n - 1 : t[j] = l[j + 1]
  BY <1>2, HeadTailProperties
<1>5. DOMAIN t = 1..n - 1
  BY <1>4, LenProperties
<1>6. \A j \in 1..n - 1 : j \in Nat /\ j >= 1 /\ j + 1 \in 1..n
  OBVIOUS
<1>7. Covered(l) = (l[1].start .. l[1].stop) \cup Covered(t)
  <2>1. \A j \in 1..n : j = 1 \/ (j - 1 \in 1..n - 1 /\ (j - 1) + 1 = j)
    OBVIOUS
  <2>2. ASSUME NEW b \in Covered(l) PROVE b \in (l[1].start .. l[1].stop) \cup Covered(t)
    <3>1. PICK j \in 1..n : b \in l[j].start .. l[j].stop
      BY <1>1, <1>2 DEF Covered
    <3>2. CASE j = 1
      BY <3>1, <3>2
    <3>3. CASE j # 1
      <4>1. PICK k \in 1..n - 1 : k = j - 1 /\ k + 1 = j
        BY <2>1, <3>3
      <4>2. t[k] = l[j]
        BY <1>4, <4>1
      <4>3. QED
        BY <1>5, <3>1, <4>2 DEF Covered
    <3>4. QED
      BY <3>2, <3>3
  <2>3. l[1].start .. l[1].stop \subseteq Covered(l)
    BY <1>1, <1>2, <1>3 DEF Covered
  <2>4. ASSUME NEW b \in Covered(t) PROVE b \in Covered(l)
    <3>1. PICK k \in 1..n - 1 : b \in t[k].start .. t[k].stop
      BY <1>5 DEF Covered
    <3>2. t[k] = l[k + 1] /\ k + 1 \in DOMAIN l
      BY <1>1, <1>2, <1>4, <1>6
    <3>3. QED
      BY <3>1, <3>2 DEF Covered
  <2>5. QED
    BY <2>2, <2>3, <2>4
<1>8. QED
  BY <1>1, <1>2, <1>3, <1>4, <1>5, <1>6, <1>7

\* The first range is replaced by its rest.
Shorter(l, x) == <<x>> \o Tail(l)

\* The list that begins with the rest of a range.
LEMMA Shortened ==
  ASSUME NEW l \in Seq(Stretch), l # <<>>, NEW x \in Stretch, NEW u, u = Shorter(l, x)
  PROVE  /\ u \in Seq(Stretch) /\ u # <<>> /\ DOMAIN u = DOMAIN l
         /\ u[1].start = x.start /\ u[1].stop = x.stop
         /\ \A j \in DOMAIN u : j # 1 => u[j] = l[j]
         /\ Covered(u) = (x.start .. x.stop) \cup Covered(Tail(l))
<1>1. PICK n \in Nat \ {0} : n = Len(l)
  BY LenProperties, EmptySeq
<1>2. PICK t : t = Tail(l)
  OBVIOUS
<1>3. t \in Seq(Stretch) /\ Len(t) = n - 1 /\ \A j \in 1..n - 1 : t[j] = l[j + 1]
  BY <1>1, <1>2, HeadTailProperties
<1>4. PICK one : one = <<x>>
  OBVIOUS
<1>5. one \in Seq(Stretch) /\ Len(one) = 1 /\ one[1] = x
  BY <1>4
<1>6. /\ u \in Seq(Stretch) /\ Len(u) = 1 + (n - 1)
      /\ \A i \in 1..1 + (n - 1) : u[i] = IF i <= 1 THEN one[i] ELSE t[i - 1]
  BY <1>2, <1>3, <1>4, <1>5, ConcatProperties DEF Shorter
<1>7. Len(u) = n /\ DOMAIN u = 1..n /\ DOMAIN l = 1..n
  BY <1>1, <1>6, LenProperties
<1>8. u[1] = x
  BY <1>5, <1>6
<1>9. ASSUME NEW j \in 1..n, j # 1 PROVE u[j] = l[j]
  <2>1. j \in 1..1 + (n - 1) /\ ~(j <= 1) /\ j - 1 \in 1..n - 1 /\ (j - 1) + 1 = j
    BY <1>9
  <2>2. QED
    BY <1>3, <1>6, <2>1
<1>10. u # <<>>
  BY <1>6, <1>7, EmptySeq
<1>11. Covered(u) = (u[1].start .. u[1].stop) \cup Covered(Tail(u))
  BY <1>6, <1>10, Leftover
<1>12. Tail(u) = t
  <2>1. Tail(u) \in Seq(Stretch) /\ Len(Tail(u)) = n - 1 /\ \A j \in 1..n - 1 : Tail(u)[j] = u[j + 1]
    BY <1>6, <1>7, <1>10, HeadTailProperties
  <2>2. \A j \in 1..n - 1 : Tail(u)[j] = t[j]
    <3> SUFFICES ASSUME NEW j \in 1..n - 1 PROVE Tail(u)[j] = t[j]
      OBVIOUS
    <3>1. j + 1 \in 1..n /\ j + 1 # 1
      OBVIOUS
    <3>2. QED
      BY <1>3, <1>9, <2>1, <3>1
  <2>3. QED
    BY <1>3, <2>1, <2>2, SeqEqual
<1>13. QED
  BY <1>2, <1>6, <1>7, <1>8, <1>9, <1>10, <1>11, <1>12

Sendable == Nat \cup {PartHeader}

\* What was sent, and c bytes from a on.
With(s, a, c) == s \o [i \in 1..c |-> a + i - 1]

\* The sequence t is s, of length n, and a chunk of c bytes from a on.
Extends(t, s, n, a, c) ==
  /\ n \in Nat /\ t \in Seq(Sendable) /\ Len(t) = n + c
  /\ DOMAIN s = 1..n /\ DOMAIN t = 1..n + c
  /\ \A i \in 1..n : t[i] = s[i] /\ s[i] \in Sendable
  /\ \A i \in 1..n + c : i > n => t[i] = a + (i - n) - 1

\* What a chunk adds to what was sent.
LEMMA ChunkShape ==
  ASSUME NEW s \in Seq(Sendable), NEW a \in Nat, NEW c \in Nat,
         NEW t, t = With(s, a, c)
  PROVE  Extends(t, s, Len(s), a, c)
<1>1. PICK n : n = Len(s)
  OBVIOUS
<1>2. n \in Nat /\ DOMAIN s = 1..n /\ \A i \in 1..n : s[i] \in Sendable
  BY <1>1, LenProperties
<1>3. PICK chunk : chunk = [i \in 1..c |-> a + i - 1]
  OBVIOUS
<1>4. chunk \in Seq(Sendable) /\ Len(chunk) = c /\ \A i \in 1..c : chunk[i] = a + i - 1
  <2>1. \A i \in 1..c : a + i - 1 \in Nat
    OBVIOUS
  <2>2. chunk \in [1..c -> Sendable]
    BY <1>3, <2>1 DEF Sendable
  <2>3. chunk \in Seq(Sendable)
    BY <2>2, SeqDef
  <2>4. DOMAIN chunk = 1..c /\ DOMAIN chunk = 1..Len(chunk) /\ Len(chunk) \in Nat
    BY <2>2, <2>3, LenProperties
  <2>5. Len(chunk) = c
    BY <2>4
  <2>6. QED
    BY <1>3, <2>3, <2>5
<1>5. /\ t \in Seq(Sendable) /\ Len(t) = n + c
      /\ \A i \in 1..n + c : t[i] = IF i <= n THEN s[i] ELSE chunk[i - n]
  <2>1. t = s \o chunk
    BY <1>3 DEF With
  <2>2. /\ t \in Seq(Sendable) /\ Len(t) = Len(s) + Len(chunk)
        /\ \A i \in 1..Len(s) + Len(chunk) : t[i] = IF i <= Len(s) THEN s[i] ELSE chunk[i - Len(s)]
    <3>1. PICK u : u = chunk
      OBVIOUS
    <3>2. u \in Seq(Sendable) /\ t = s \o u
      BY <1>4, <2>1, <3>1
    <3>3. t \in Seq(Sendable) /\ Len(t) = Len(s) + Len(u)
      BY <3>2, ConcatProperties
    <3>4. \A i \in 1..Len(s) + Len(u) : t[i] = IF i <= Len(s) THEN s[i] ELSE u[i - Len(s)]
      BY <3>2, ConcatProperties
    <3>5. QED
      BY <3>1, <3>3, <3>4
  <2>3. QED
    BY <1>1, <1>4, <2>2
<1>6. DOMAIN t = 1..n + c
  BY <1>5, LenProperties
<1>7. \A i \in 1..n : i \in 1..n + c /\ i <= n
  BY <1>2
<1>8. \A i \in 1..n + c : i > n => ~(i <= n) /\ i - n \in 1..c
  BY <1>2
<1>9. QED
  BY <1>1, <1>2, <1>4, <1>5, <1>6, <1>7, <1>8 DEF Extends

\* Its bytes.
LEMMA ChunkBytes ==
  ASSUME NEW s \in Seq(Sendable), NEW a \in Nat, NEW c \in Nat,
         NEW t, t = With(s, a, c)
  PROVE  Bytes(t) = Bytes(s) \cup (a .. a + c - 1)
<1>1. PICK n : n = Len(s)
  OBVIOUS
<1>2. /\ n \in Nat /\ DOMAIN s = 1..n /\ DOMAIN t = 1..n + c
      /\ \A i \in 1..n : t[i] = s[i]
      /\ \A i \in 1..n + c : i > n => t[i] = a + (i - n) - 1
  <2>1. Extends(t, s, n, a, c)
    BY <1>1, ChunkShape
  <2>2. QED
    BY <2>1 DEF Extends
<1>3. ASSUME NEW b \in Bytes(t) PROVE b \in Bytes(s) \cup (a .. a + c - 1)
  <2>1. PICK i \in 1..n + c : b = t[i] /\ t[i] # PartHeader
    BY <1>2 DEF Bytes
  <2>2. CASE i <= n
    <3>1. i \in 1..n
      BY <2>2, <1>2
    <3>2. QED
      BY <1>2, <2>1, <3>1 DEF Bytes
  <2>3. CASE i > n
    <3>1. b = a + (i - n) - 1
      BY <1>2, <2>1, <2>3
    <3>2. b \in a .. a + c - 1
      BY <1>2, <2>3, <3>1
    <3>3. QED
      BY <3>2
  <2>4. QED
    BY <1>2, <2>2, <2>3
<1>4. ASSUME NEW b \in Bytes(s) PROVE b \in Bytes(t)
  <2>1. PICK i \in 1..n : b = s[i] /\ s[i] # PartHeader
    BY <1>2 DEF Bytes
  <2>2. i \in 1..n + c
    BY <1>2
  <2>3. QED
    BY <1>2, <2>1, <2>2 DEF Bytes
<1>5. ASSUME NEW b \in a .. a + c - 1 PROVE b \in Bytes(t)
  <2>1. PICK i : i = n + (b - a) + 1
    OBVIOUS
  <2>2. i \in 1..n + c /\ i > n /\ a + (i - n) - 1 = b /\ b # -1
    BY <1>2, <2>1
  <2>3. t[i] = b /\ t[i] # PartHeader
    BY <1>2, <2>2 DEF PartHeader
  <2>4. QED
    BY <1>2, <2>2, <2>3 DEF Bytes
<1>6. QED
  BY <1>3, <1>4, <1>5

\* Less than the one is less than the other.
LEMMA Between ==
  ASSUME NEW x \in Int, NEW a \in Int, NEW y \in Int, x < a, a <= y
  PROVE  x < y
OBVIOUS

\* A chunk after all that was sent keeps the order.
LEMMA ChunkRises ==
  ASSUME NEW s \in Seq(Sendable), NEW a \in Nat, NEW c \in Nat,
         NEW t, t = With(s, a, c),
         Rising(s), \A b \in Bytes(s) : b < a
  PROVE  Rising(t)
<1>1. PICK n : n = Len(s)
  OBVIOUS
<1>2. /\ n \in Nat /\ DOMAIN s = 1..n /\ DOMAIN t = 1..n + c
      /\ \A i \in 1..n : t[i] = s[i] /\ s[i] \in Sendable
      /\ \A i \in 1..n + c : i > n => t[i] = a + (i - n) - 1
  <2>1. Extends(t, s, n, a, c)
    BY <1>1, ChunkShape
  <2>2. QED
    BY <2>1 DEF Extends
<1>3. SUFFICES ASSUME NEW i \in 1..n + c, NEW j \in 1..n + c,
                      t[i] # PartHeader, t[j] # PartHeader, i < j
               PROVE  t[i] < t[j]
  BY <1>2 DEF Rising
<1>4. CASE j <= n
  <2>1. i \in 1..n /\ j \in 1..n
    BY <1>2, <1>3, <1>4
  <2>2. QED
    BY <1>2, <1>3, <2>1 DEF Rising
<1>5. CASE i <= n /\ j > n
  <2>1. i \in 1..n
    BY <1>2, <1>5
  <2>2. t[i] \in Bytes(s) /\ t[i] \in Nat
    BY <1>2, <1>3, <2>1 DEF Bytes, Sendable
  <2>3. t[i] < a
    BY <2>2
  <2>4. PICK x \in Nat : x = t[i]
    BY <2>2
  <2>5. a + (j - n) - 1 \in Int /\ a <= a + (j - n) - 1
    BY <1>2, <1>5
  <2>6. PICK y \in Int : y = t[j] /\ a <= y
    BY <1>2, <1>5, <2>5
  <2>7. x < a /\ x \in Int /\ a \in Int
    <3>1. x < a
      BY <2>3, <2>4, Zenon
    <3>2. QED
      BY <3>1
  <2>8. x < y
    <3>1. a <= y /\ y \in Int
      BY <2>6
    <3>2. QED
      BY <2>7, <3>1, Between, Zenon
  <2>9. QED
    BY <2>4, <2>6, <2>8, Zenon
<1>6. CASE i > n
  <2>1. t[i] = a + (i - n) - 1 /\ t[j] = a + (j - n) - 1
    BY <1>2, <1>3, <1>6
  <2>2. QED
    BY <1>2, <1>3, <2>1
<1>7. QED
  BY <1>2, <1>4, <1>5, <1>6

\* A chunk begins a part just if a header was sent last.
LEMMA ChunkParted ==
  ASSUME NEW s \in Seq(Sendable), NEW a \in Nat, NEW c \in Nat \ {0},
         NEW t, t = With(s, a, c),
         NEW m \in SUBSET Nat, Parted(s, m), a .. a + c - 1 \subseteq m,
         a \in PartsOf(m) <=> HeaderLast(s)
  PROVE  Parted(t, m) /\ ~HeaderLast(t)
<1>1. PICK n : n = Len(s)
  OBVIOUS
<1>2. /\ n \in Nat /\ DOMAIN s = 1..n /\ DOMAIN t = 1..n + c /\ Len(t) = n + c
      /\ \A i \in 1..n : t[i] = s[i] /\ s[i] \in Sendable
      /\ \A i \in 1..n + c : i > n => t[i] = a + (i - n) - 1
  <2>1. Extends(t, s, n, a, c)
    BY <1>1, ChunkShape
  <2>2. QED
    BY <2>1 DEF Extends
<1>3. ASSUME NEW i \in 1..n + c
      PROVE  t[i] \in PartsOf(m) <=> (i > 1 /\ t[i - 1] = PartHeader)
  <2>1. CASE i <= n
    <3>1. i \in 1..n /\ (i > 1 => i - 1 \in 1..n)
      BY <1>2, <2>1
    <3>2. QED
      BY <1>2, <3>1 DEF Parted
  <2>2. CASE i = n + 1
    <3>1. t[i] = a
      <4>1. i > n /\ a + (i - n) - 1 = a
        BY <1>2, <2>2
      <4>2. QED
        BY <1>2, <4>1
    <3>2. HeaderLast(s) <=> (i > 1 /\ t[i - 1] = PartHeader)
      <4>1. s # <<>> <=> i > 1
        <5>1. s = <<>> <=> n = 0
          BY <1>1, EmptySeq
        <5>2. QED
          BY <1>2, <2>2, <5>1
      <4>2. i > 1 => i - 1 = n /\ n \in 1..n
        BY <1>2, <2>2
      <4>3. QED
        BY <1>1, <1>2, <4>1, <4>2 DEF HeaderLast
    <3>3. QED
      BY <3>1, <3>2
  <2>3. CASE i > n + 1
    <3>1. PICK k \in Nat : k = i - n - 1 /\ k > 0 /\ k <= c - 1
      <4>1. i - n - 1 \in Nat /\ i - n - 1 > 0 /\ i - n - 1 <= c - 1
        BY <1>2, <2>3
      <4>2. QED
        BY <4>1
    <3>2. t[i] = a + k /\ t[i - 1] = a + k - 1
      <4>1. i > n /\ i - 1 > n /\ i - 1 \in 1..n + c
        BY <1>2, <2>3
      <4>2. t[i] = a + (i - n) - 1 /\ t[i - 1] = a + ((i - 1) - n) - 1
        BY <1>2, <4>1
      <4>3. QED
        BY <1>2, <3>1, <4>2
    <3>3. a + k - 1 \in m /\ a + k - 1 # -1
      <4>1. a + k - 1 \in a .. a + c - 1 /\ a + k - 1 # -1
        BY <3>1
      <4>2. QED
        BY <4>1
    <3>4. PICK v \in Int : v = a + k /\ v - 1 = a + k - 1
      <4>1. a + k \in Int /\ (a + k) - 1 = a + k - 1
        BY <3>1
      <4>2. QED
        BY <4>1
    <3>5. v \notin PartsOf(m) /\ v - 1 # PartHeader
      BY <3>3, <3>4 DEF PartsOf, PartHeader
    <3>6. QED
      BY <3>2, <3>4, <3>5
  <2>4. QED
    BY <1>2, <2>1, <2>2, <2>3
<1>4. t[Len(t)] # PartHeader
  <2>1. n + c \in 1..n + c /\ n + c > n /\ a + ((n + c) - n) - 1 # -1
    BY <1>2
  <2>2. QED
    BY <1>2, <2>1 DEF PartHeader
<1>5. QED
  BY <1>2, <1>3, <1>4 DEF Parted, HeaderLast

\* A part header is added to what was sent.
LEMMA HeaderSent ==
  ASSUME NEW s \in Seq(Sendable), NEW t, t = Append(s, PartHeader)
  PROVE  /\ t \in Seq(Sendable) /\ Bytes(t) = Bytes(s) /\ HeaderLast(t)
         /\ Rising(s) => Rising(t)
         /\ \A m \in SUBSET Nat : (Parted(s, m) /\ ~HeaderLast(s)) => Parted(t, m)
<1>1. PICK n \in Nat : n = Len(s)
  BY LenProperties
<1>2. PICK h : h = PartHeader
  OBVIOUS
<1>3. h \in Sendable /\ h = -1 /\ h \notin Nat
  BY <1>2 DEF Sendable, PartHeader
<1>4. /\ t \in Seq(Sendable) /\ Len(t) = n + 1 /\ DOMAIN s = 1..n /\ DOMAIN t = 1..n + 1
      /\ \A i \in 1..n : t[i] = s[i]
      /\ t[n + 1] = h
  <2>1. /\ t \in Seq(Sendable) /\ Len(t) = n + 1
        /\ \A i \in 1..n : t[i] = s[i]
        /\ t[n + 1] = h
    BY <1>1, <1>2, <1>3, AppendProperties
  <2>2. QED
    BY <1>1, <2>1, LenProperties
<1>5. \A i \in 1..n + 1 : (i \in 1..n \/ i = n + 1) /\ (i \in 1..n => i \in 1..n + 1)
  OBVIOUS
<1>6. {i \in DOMAIN t : t[i] # h} = {i \in DOMAIN s : s[i] # h}
  BY <1>4, <1>5
<1>7. Bytes(t) = Bytes(s)
  BY <1>2, <1>4, <1>6 DEF Bytes
<1>8. Rising(s) => Rising(t)
  BY <1>2, <1>4, <1>5 DEF Rising
<1>9. HeaderLast(t)
  BY <1>2, <1>4, EmptySeq DEF HeaderLast
<1>10. ASSUME NEW m \in SUBSET Nat, Parted(s, m), ~HeaderLast(s)
       PROVE  Parted(t, m)
  <2> SUFFICES ASSUME NEW i \in 1..n + 1
               PROVE  t[i] \in PartsOf(m) <=> (i > 1 /\ t[i - 1] = h)
    BY <1>2, <1>4 DEF Parted
  <2>1. CASE i \in 1..n
    <3>1. i > 1 => i - 1 \in 1..n
      BY <2>1
    <3>2. QED
      BY <1>2, <1>4, <1>10, <2>1, <3>1 DEF Parted
  <2>2. CASE i = n + 1
    <3>1. t[i] \notin PartsOf(m)
      BY <1>3, <1>4, <2>2 DEF PartsOf
    <3>2. s = <<>> <=> n = 0
      BY <1>1, EmptySeq
    <3>3. ASSUME i > 1 PROVE t[i - 1] # h
      <4>1. i - 1 = n /\ n \in 1..n /\ n # 0
        BY <2>2, <3>3
      <4>2. s[n] # h
        BY <1>1, <1>2, <1>10, <3>2, <4>1 DEF HeaderLast
      <4>3. QED
        BY <1>4, <4>1, <4>2
    <3>4. QED
      BY <3>1, <3>3
  <2>3. QED
    BY <1>5, <2>1, <2>2
<1>11. QED
  BY <1>4, <1>7, <1>8, <1>9, <1>10

-----------------------------------------------------------------------------
(* A chunk is read and sent.                                                *)

\* A chunk of c bytes is read at a, which may be less than was asked for.
Reads(l, a, s, c, l2, a2, s2) ==
  /\ l # <<>> /\ a # Blank /\ c \in Nat /\ c <= ChunkSize /\ c <= Extent(l[1])
  /\ s2 = With(s, a, c)
  /\ Extent(l[1]) > ChunkSize =>
       l2 = Shorter(l, [l[1] EXCEPT !.start = @ + ChunkSize]) /\ a2 = a + c
  /\ ~(Extent(l[1]) > ChunkSize) => l2 = Tail(l) /\ a2 = Blank

ReadAt(m, x, a, s, c, s2) ==
  /\ x.start \in Nat /\ x.stop \in Int /\ x.start <= x.stop + 1 /\ x \in Stretch
  /\ a \in Nat /\ a <= x.start /\ c \in Nat /\ c <= ChunkSize /\ c <= Extent(x)
  /\ ChunkSize \in Nat /\ ChunkSize > 0 /\ a + c <= x.stop + 1
  /\ a .. a + c - 1 \subseteq a .. x.stop /\ a .. a + c - 1 \subseteq m
  /\ s2 = With(s, a, c) /\ s \in Seq(Sendable)

\* A chunk that is read is within the range.
LEMMA ReadFrom ==
  ASSUME NEW m \in SUBSET Nat, NEW l, NEW a, NEW s, NEW c, NEW l2, NEW a2, NEW s2,
         Underway(m, l, a, s), Reads(l, a, s, c, l2, a2, s2)
  PROVE  ReadAt(m, l[1], a, s, c, s2)
<1> DEFINE x == l[1]
<1>1. l \in Seq(Stretch) /\ l # <<>> /\ a # Blank
  BY DEF Underway, Reads
<1>2. x \in Stretch
  BY <1>1, Leftover
<1>3. x.start \in Nat /\ x.stop \in Int /\ x.start <= x.stop + 1
  BY <1>2 DEF Stretch
<1>4. /\ a \in Nat /\ a <= x.start /\ a .. x.stop \subseteq m
      /\ c \in Nat /\ c <= ChunkSize /\ c <= Extent(x)
  BY <1>1 DEF Underway, Reads
<1>5. a + c <= x.stop + 1
  BY <1>3, <1>4 DEF Extent
<1>6. a .. a + c - 1 \subseteq a .. x.stop
  BY <1>3, <1>4, <1>5
<1>7. ChunkSize \in Nat /\ ChunkSize > 0
  BY FileAssumption
<1>8. s2 = With(s, a, c) /\ s \in Seq(Sendable)
  BY DEF Reads, Underway, Sendable
<1>9. QED
  BY <1>2, <1>3, <1>4, <1>5, <1>6, <1>7, <1>8 DEF ReadAt

Leaves(l, x, a, c, l2, a2) ==
         /\ l \in Seq(Stretch) /\ l2 \in Seq(Stretch) /\ 1 \in DOMAIN l
         /\ Covered(l) = (x.start .. x.stop) \cup Covered(Tail(l))
         /\ Extent(x) > ChunkSize =>
              /\ a2 = a + c /\ a2 # Blank /\ l2 # <<>> /\ DOMAIN l2 = DOMAIN l
              /\ x.start + ChunkSize <= x.stop
              /\ l2[1].start = x.start + ChunkSize /\ l2[1].stop = x.stop
              /\ \A j \in DOMAIN l2 : j # 1 => l2[j] = l[j]
              /\ Covered(l2) = (x.start + ChunkSize .. x.stop) \cup Covered(Tail(l))
         /\ ~(Extent(x) > ChunkSize) =>
              /\ a2 = Blank /\ l2 = Tail(l)
              /\ \A j \in DOMAIN l2 : /\ j \in Nat /\ j >= 1 /\ j + 1 \in DOMAIN l
                                      /\ l2[j] = l[j + 1]

\* What a read leaves of the ranges.
LEMMA ReadLeaves ==
  ASSUME NEW m \in SUBSET Nat, NEW l, NEW a, NEW s, NEW c, NEW l2, NEW a2, NEW s2,
         Underway(m, l, a, s), Reads(l, a, s, c, l2, a2, s2)
  PROVE  Leaves(l, l[1], a, c, l2, a2)
<1>1. PICK x : x = l[1]
  OBVIOUS
<1>2. l \in Seq(Stretch) /\ l # <<>>
  BY DEF Underway, Reads
<1>3. PICK t : t = Tail(l)
  OBVIOUS
<1>4. /\ x \in Stretch /\ 1 \in DOMAIN l /\ t \in Seq(Stretch)
      /\ \A j \in DOMAIN t : j \in Nat /\ j >= 1 /\ j + 1 \in DOMAIN l /\ t[j] = l[j + 1]
      /\ Covered(l) = (x.start .. x.stop) \cup Covered(t)
  BY <1>1, <1>2, <1>3, Leftover
<1>5. /\ x.start \in Nat /\ x.stop \in Int /\ ChunkSize \in Nat /\ a \in Nat /\ c \in Nat
  <2>1. ReadAt(m, x, a, s, c, s2)
    BY <1>1, ReadFrom
  <2>2. QED
    BY <2>1 DEF ReadAt
<1>6. CASE Extent(x) > ChunkSize
  <2>1. PICK y : y = [x EXCEPT !.start = @ + ChunkSize]
    OBVIOUS
  <2>2. l2 = Shorter(l, y) /\ a2 = a + c
    BY <1>1, <1>6, <2>1 DEF Reads
  <2>3. x.start + ChunkSize <= x.stop /\ x.start + ChunkSize \in Nat
    BY <1>5, <1>6 DEF Extent
  <2>4. y \in Stretch /\ y.start = x.start + ChunkSize /\ y.stop = x.stop
    <3>1. PICK from, to : x = [start |-> from, stop |-> to]
      BY <1>4 DEF Stretch
    <3>2. y = [start |-> from + ChunkSize, stop |-> to]
      BY <2>1, <3>1
    <3>3. QED
      BY <1>5, <2>3, <3>1, <3>2 DEF Stretch
  <2>5. /\ l2 \in Seq(Stretch) /\ l2 # <<>> /\ DOMAIN l2 = DOMAIN l
        /\ l2[1].start = y.start /\ l2[1].stop = y.stop
        /\ \A j \in DOMAIN l2 : j # 1 => l2[j] = l[j]
        /\ Covered(l2) = (y.start .. y.stop) \cup Covered(Tail(l))
    <3>1. y \in Stretch /\ l2 = Shorter(l, y)
      BY <2>2, <2>4
    <3>2. l \in Seq(Stretch) /\ l # <<>>
      BY <1>2
    <3>3. /\ l2 \in Seq(Stretch) /\ l2 # <<>>
          /\ l2[1].start = y.start /\ l2[1].stop = y.stop
      <4>1. l2 \in Seq(Stretch)
        BY <3>1, <3>2, Shortened
      <4>2. l2 # <<>>
        BY <3>1, <3>2, Shortened
      <4>3. l2[1].start = y.start /\ l2[1].stop = y.stop
        <5>1. PICK z : z = l2[1]
          OBVIOUS
        <5>2. z.start = y.start
          BY <3>1, <3>2, <5>1, Shortened
        <5>3. z.stop = y.stop
          BY <3>1, <3>2, <5>1, Shortened
        <5>4. QED
          BY <5>1, <5>2, <5>3
      <4>4. QED
        BY <4>1, <4>2, <4>3
    <3>4. DOMAIN l2 = DOMAIN l
      BY <3>1, <3>2, Shortened
    <3>5. \A j \in DOMAIN l2 : j # 1 => l2[j] = l[j]
      BY <3>1, <3>2, Shortened
    <3>6. Covered(l2) = (y.start .. y.stop) \cup Covered(Tail(l))
      BY <3>1, <3>2, Shortened
    <3>7. QED
      BY <3>3, <3>4, <3>5, <3>6
  <2>6. a2 # Blank
    BY <1>5, <2>2 DEF Blank
  <2>7. QED
    BY <1>1, <1>2, <1>3, <1>4, <1>6, <2>2, <2>3, <2>4, <2>5, <2>6 DEF Leaves
<1>7. CASE ~(Extent(x) > ChunkSize)
  <2>1. l2 = t /\ a2 = Blank
    BY <1>1, <1>3, <1>7 DEF Reads
  <2>2. QED
    BY <1>1, <1>2, <1>3, <1>4, <1>7, <2>1 DEF Leaves
<1>8. QED
  BY <1>6, <1>7

\* What it adds to the bytes that were sent.
LEMMA ReadBytes ==
  ASSUME NEW m \in SUBSET Nat, NEW l, NEW a, NEW s, NEW c, NEW l2, NEW a2, NEW s2,
         Underway(m, l, a, s), Reads(l, a, s, c, l2, a2, s2)
  PROVE  Bytes(s2) = Bytes(s) \cup (a .. a + c - 1)
<1>1. ReadAt(m, l[1], a, s, c, s2)
  BY ReadFrom
<1>2. a \in Nat /\ c \in Nat /\ s \in Seq(Sendable) /\ s2 = With(s, a, c)
  BY <1>1 DEF ReadAt
<1>3. PICK k \in Nat : k = c
  BY <1>2
<1>4. PICK b \in Nat : b = a
  BY <1>2
<1>5. s2 = With(s, b, k) /\ s \in Seq(Sendable)
  BY <1>2, <1>3, <1>4
<1>6. Bytes(s2) = Bytes(s) \cup (b .. b + k - 1)
  BY <1>5, ChunkBytes
<1>7. QED
  BY <1>3, <1>4, <1>6

\* All that is sent or left is still meant.
LEMMA ReadUnderway ==
  ASSUME NEW m \in SUBSET Nat, NEW l, NEW a, NEW s, NEW c, NEW l2, NEW a2, NEW s2,
         Underway(m, l, a, s), Reads(l, a, s, c, l2, a2, s2)
  PROVE  Underway(m, l2, a2, s2)
<1>1. PICK x : x = l[1]
  OBVIOUS
<1>2. /\ x.start \in Nat /\ x.stop \in Int /\ x.start <= x.stop + 1
      /\ a \in Nat /\ a <= x.start /\ c \in Nat /\ c <= ChunkSize
      /\ ChunkSize \in Nat /\ a .. a + c - 1 \subseteq m
      /\ s2 = With(s, a, c) /\ s \in Seq(Sendable)
  <2>1. ReadAt(m, x, a, s, c, s2)
    BY <1>1, ReadFrom
  <2>2. QED
    BY <2>1 DEF ReadAt
<1>3. s2 \in Seq(Sendable)
  <2>1. Extends(s2, s, Len(s), a, c)
    BY <1>2, ChunkShape
  <2>2. QED
    BY <2>1 DEF Extends
<1>4. Bytes(s2) = Bytes(s) \cup (a .. a + c - 1)
  BY ReadBytes
<1>5. /\ Bytes(s) \subseteq m /\ Covered(l) \subseteq m /\ a .. x.stop \subseteq m
  BY <1>1 DEF Underway, Reads
<1>6. Leaves(l, x, a, c, l2, a2)
  BY <1>1, ReadLeaves
<1>7. l2 \in Seq(Stretch) /\ Covered(l) = (x.start .. x.stop) \cup Covered(Tail(l))
  BY <1>6 DEF Leaves
<1>8. CASE Extent(x) > ChunkSize
  <2>1. /\ a2 = a + c /\ l2 # <<>> /\ l2[1].start = x.start + ChunkSize /\ l2[1].stop = x.stop
        /\ Covered(l2) = (x.start + ChunkSize .. x.stop) \cup Covered(Tail(l))
    BY <1>8, <1>6 DEF Leaves
  <2>2. x.start + ChunkSize .. x.stop \subseteq x.start .. x.stop
    BY <1>2
  <2>3. a + c \in Nat /\ a + c <= x.start + ChunkSize /\ a + c .. x.stop \subseteq a .. x.stop
    BY <1>2
  <2>4. QED
    BY <1>3, <1>4, <1>2, <1>5, <1>7, <2>1, <2>2, <2>3 DEF Underway, Sendable
<1>9. CASE ~(Extent(x) > ChunkSize)
  <2>1. a2 = Blank /\ l2 = Tail(l)
    BY <1>9, <1>6 DEF Leaves
  <2>2. QED
    BY <1>3, <1>4, <1>2, <1>5, <1>7, <2>1 DEF Underway, Sendable
<1>10. QED
  BY <1>8, <1>9

\* The order is kept, even if less was read than was asked for.
LEMMA ReadInRow ==
  ASSUME NEW m \in SUBSET Nat, NEW l, NEW a, NEW s, NEW c, NEW l2, NEW a2, NEW s2,
         Underway(m, l, a, s), Reads(l, a, s, c, l2, a2, s2), InRow(l, a, s)
  PROVE  InRow(l2, a2, s2)
<1>1. PICK x : x = l[1]
  OBVIOUS
<1>2. /\ x.start \in Nat /\ x.stop \in Int /\ x.start <= x.stop + 1
      /\ a \in Nat /\ a <= x.start /\ c \in Nat /\ c <= ChunkSize /\ ChunkSize \in Nat
      /\ a + c <= x.stop + 1
      /\ s2 = With(s, a, c) /\ s \in Seq(Sendable)
  <2>1. ReadAt(m, x, a, s, c, s2)
    BY <1>1, ReadFrom
  <2>2. QED
    BY <2>1 DEF ReadAt
<1>3. Leaves(l, x, a, c, l2, a2)
  BY <1>1, ReadLeaves
<1>4. Rising(s) /\ Gapped(l) /\ (\A b \in Bytes(s) : b < a) /\ a # Blank
  BY DEF InRow, Reads
<1>5. Rising(s2)
  BY <1>2, <1>4, ChunkRises
<1>6. ASSUME NEW b \in Bytes(s2)
      PROVE  b \in Int /\ b < a + c /\ b <= x.stop
  <2>1. b \in Bytes(s) \/ b \in a .. a + c - 1
    <3>1. Bytes(s2) = Bytes(s) \cup (a .. a + c - 1)
      BY ReadBytes
    <3>2. QED
      BY <3>1
  <2>2. b \in Bytes(s) => b \in Nat
    BY DEF Underway
  <2>3. b \in Bytes(s) => b < a
    BY <1>4
  <2>4. QED
    BY <1>2, <2>1, <2>2, <2>3
<1>7. /\ l \in Seq(Stretch) /\ 1 \in DOMAIN l
      /\ \A j \in DOMAIN l : j \in Nat /\ l[j].start \in Nat /\ l[j].stop \in Int
  <2>1. l \in Seq(Stretch) /\ 1 \in DOMAIN l
    BY <1>3 DEF Leaves
  <2>2. DOMAIN l \subseteq Nat /\ \A j \in DOMAIN l : l[j] \in Stretch
    BY <2>1, LenProperties
  <2>3. QED
    BY <2>1, <2>2 DEF Stretch
<1>8. CASE Extent(x) > ChunkSize
  <2>1. /\ a2 = a + c /\ a2 # Blank /\ DOMAIN l2 = DOMAIN l
        /\ l2[1].stop = x.stop
        /\ \A j \in DOMAIN l2 : j # 1 => l2[j] = l[j]
    BY <1>8, <1>3 DEF Leaves
  <2>2. ASSUME NEW i \in DOMAIN l2, NEW j \in DOMAIN l2, i < j
        PROVE  l2[i].stop + 1 < l2[j].start
    <3>1. l[i].stop + 1 < l[j].start
      BY <1>4, <2>1, <2>2 DEF Gapped
    <3>2. l2[i].stop = l[i].stop
      BY <1>1, <2>1
    <3>3. j # 1
      <4>1. i \in 1..Len(l) /\ j \in Nat
        BY <1>7, <2>1, LenProperties
      <4>2. QED
        BY <2>2, <4>1
    <3>4. QED
      BY <2>1, <3>1, <3>2, <3>3
  <2>3. QED
    BY <1>5, <1>6, <2>1, <2>2 DEF InRow, Gapped
<1>9. CASE ~(Extent(x) > ChunkSize)
  <2>1. /\ a2 = Blank
        /\ \A j \in DOMAIN l2 : j \in Nat /\ j >= 1 /\ j + 1 \in DOMAIN l /\ l2[j] = l[j + 1]
    BY <1>9, <1>3 DEF Leaves
  <2>2. ASSUME NEW i \in DOMAIN l2, NEW j \in DOMAIN l2, i < j
        PROVE  l2[i].stop + 1 < l2[j].start
    <3>1. i + 1 < j + 1
      BY <2>1, <2>2
    <3>2. l[i + 1].stop + 1 < l[j + 1].start
      BY <1>4, <2>1, <3>1 DEF Gapped
    <3>3. QED
      BY <2>1, <3>2
  <2>3. ASSUME NEW b \in Bytes(s2), NEW j \in DOMAIN l2
        PROVE  b < l2[j].start
    <3>1. j + 1 \in DOMAIN l /\ 1 < j + 1 /\ l2[j] = l[j + 1]
      BY <2>1
    <3>2. x.stop + 1 < l[j + 1].start
      BY <1>1, <1>4, <1>7, <3>1 DEF Gapped
    <3>3. PICK y \in Nat : y = l[j + 1].start
      BY <1>7, <3>1
    <3>4. b < y
      <4>1. b \in Int /\ b <= x.stop /\ x.stop + 1 < y
        BY <1>6, <3>2, <3>3
      <4>2. QED
        BY <1>2, <4>1
    <3>5. QED
      BY <3>1, <3>3, <3>4, Zenon
  <2>4. QED
    BY <1>5, <2>1, <2>2, <2>3 DEF InRow, Gapped
<1>10. QED
  BY <1>8, <1>9

\* Nothing is lost if all was read that was asked for.
LEMMA ReadExact ==
  ASSUME NEW m \in SUBSET Nat, NEW l, NEW a, NEW s, NEW c, NEW l2, NEW a2, NEW s2,
         Underway(m, l, a, s), Reads(l, a, s, c, l2, a2, s2), Exact(m, l, a, s),
         c = ChunkSize \/ c = Extent(l[1])
  PROVE  Exact(m, l2, a2, s2)
<1>1. PICK x : x = l[1]
  OBVIOUS
<1>2. /\ x.start \in Nat /\ x.stop \in Int /\ x.start <= x.stop + 1
      /\ c \in Nat /\ c <= ChunkSize /\ c <= Extent(x) /\ ChunkSize \in Nat
  <2>1. ReadAt(m, x, a, s, c, s2)
    BY <1>1, ReadFrom
  <2>2. QED
    BY <2>1 DEF ReadAt
<1>3. a = x.start /\ Bytes(s) \cup Covered(l) = m
  BY <1>1 DEF Exact, Reads
<1>4. Leaves(l, x, a, c, l2, a2)
  BY <1>1, ReadLeaves
<1>5. Covered(l) = (x.start .. x.stop) \cup Covered(Tail(l))
  BY <1>4 DEF Leaves
<1>6. Bytes(s2) = Bytes(s) \cup (x.start .. x.start + c - 1)
  <2>1. Bytes(s2) = Bytes(s) \cup (a .. a + c - 1)
    BY ReadBytes
  <2>2. QED
    BY <1>3, <2>1
<1>7. CASE Extent(x) > ChunkSize
  <2>1. /\ a2 = a + c /\ l2[1].start = x.start + ChunkSize
        /\ Covered(l2) = (x.start + ChunkSize .. x.stop) \cup Covered(Tail(l))
    BY <1>4, <1>7 DEF Leaves
  <2>2. c = ChunkSize
    BY <1>1, <1>2, <1>7 DEF Extent
  <2>3. x.start .. x.stop
          = (x.start .. x.start + c - 1) \cup (x.start + ChunkSize .. x.stop)
    BY <1>2, <1>7, <2>2 DEF Extent
  <2>4. Bytes(s2) \cup Covered(l2) = m
    BY <1>3, <1>5, <1>6, <2>1, <2>3
  <2>5. QED
    BY <1>3, <2>1, <2>2, <2>4 DEF Exact
<1>8. CASE ~(Extent(x) > ChunkSize)
  <2>1. a2 = Blank /\ l2 = Tail(l)
    BY <1>4, <1>8 DEF Leaves
  <2>2. x.start .. x.stop = x.start .. x.start + c - 1
    <3>1. c = Extent(x)
      BY <1>1, <1>2, <1>8 DEF Extent
    <3>2. x.start + c - 1 = x.stop
      BY <1>2, <3>1 DEF Extent
    <3>3. QED
      BY <3>2
  <2>3. Bytes(s2) \cup Covered(l2) = m
    BY <1>3, <1>5, <1>6, <2>1, <2>2
  <2>4. QED
    BY <2>1, <2>3 DEF Exact
<1>9. QED
  BY <1>7, <1>8

\* Nor does a part begin without a header.
LEMMA ReadParting ==
  ASSUME NEW m \in SUBSET Nat, NEW l, NEW a, NEW s, NEW c, NEW l2, NEW a2, NEW s2,
         Underway(m, l, a, s), Reads(l, a, s, c, l2, a2, s2), Exact(m, l, a, s),
         Parting(m, l, a, s), c = ChunkSize \/ c = Extent(l[1])
  PROVE  Parting(m, l2, a2, s2)
<1>1. PICK x : x = l[1]
  OBVIOUS
<1>2. ReadAt(m, x, a, s, c, s2)
  BY <1>1, ReadFrom
<1>3. /\ x.start \in Nat /\ x.stop \in Int
      /\ c \in Nat /\ c <= ChunkSize /\ c <= Extent(x) /\ ChunkSize \in Nat /\ ChunkSize > 0
      /\ a \in Nat /\ a .. a + c - 1 \subseteq m /\ s \in Seq(Sendable) /\ s2 = With(s, a, c)
  BY <1>2 DEF ReadAt
<1>4. Leaves(l, x, a, c, l2, a2)
  BY <1>1, ReadLeaves
<1>5. a = x.start /\ a # Blank
  BY <1>1 DEF Exact, Reads
<1>6. x.start <= x.stop
  <2>1. 1 \in DOMAIN l
    BY <1>4 DEF Leaves
  <2>2. QED
    BY <1>1, <2>1 DEF Parting
<1>7. c > 0
  BY <1>1, <1>3, <1>6 DEF Extent
<1>8. Parted(s2, m) /\ ~HeaderLast(s2)
  <2>1. Parted(s, m) /\ (a \in PartsOf(m) <=> HeaderLast(s))
    BY <1>1, <1>5 DEF Parting
  <2>2. PICK k \in Nat \ {0} : k = c
    BY <1>3, <1>7
  <2>3. a .. a + k - 1 \subseteq m /\ s2 = With(s, a, k)
    BY <1>3, <2>2
  <2>4. QED
    BY <1>3, <2>1, <2>2, <2>3, ChunkParted
<1>9. CASE Extent(x) > ChunkSize
  <2>1. /\ a2 # Blank /\ DOMAIN l2 = DOMAIN l
        /\ x.start + ChunkSize <= x.stop
        /\ l2[1].start = x.start + ChunkSize /\ l2[1].stop = x.stop
        /\ \A j \in DOMAIN l2 : j # 1 => l2[j] = l[j]
    BY <1>4, <1>9 DEF Leaves
  <2>2. \A j \in DOMAIN l2 : l2[j].start <= l2[j].stop
    BY <2>1 DEF Parting
  <2>3. \A j \in DOMAIN l2 : j > 1 => l2[j].start \in PartsOf(m)
    BY <2>1 DEF Parting
  <2>4. c = ChunkSize
    BY <1>1, <1>3, <1>9 DEF Extent
  <2>5. PICK v \in Int : v = x.start + ChunkSize
    BY <1>3
  <2>6. v - 1 \in m
    <3>1. v - 1 \in a .. a + c - 1
      BY <1>3, <1>5, <2>4, <2>5
    <3>2. QED
      BY <1>3, <3>1
  <2>7. v \notin PartsOf(m)
    BY <2>6 DEF PartsOf
  <2>8. QED
    BY <1>8, <2>1, <2>2, <2>3, <2>5, <2>7 DEF Parting
<1>10. CASE ~(Extent(x) > ChunkSize)
  <2>1. /\ a2 = Blank
        /\ \A j \in DOMAIN l2 : j \in Nat /\ j >= 1 /\ j + 1 \in DOMAIN l /\ l2[j] = l[j + 1]
    BY <1>4, <1>10 DEF Leaves
  <2>2. \A j \in DOMAIN l2 : j + 1 > 1
    BY <2>1
  <2>3. \A j \in DOMAIN l2 : l2[j].start <= l2[j].stop /\ l2[j].start \in PartsOf(m)
    BY <2>1, <2>2 DEF Parting
  <2>4. QED
    BY <1>8, <2>1, <2>3 DEF Parting
<1>11. QED
  BY <1>9, <1>10

\* A range begins.
LEMMA StartsUnderway ==
  ASSUME NEW m \in SUBSET Nat, NEW l, NEW s, l # <<>>,
         Underway(m, l, Blank, s), NEW a2, a2 = l[1].start,
         NEW s2, s2 = s \/ s2 = Append(s, PartHeader)
  PROVE  /\ Underway(m, l, a2, s2) /\ a2 # Blank
         /\ InRow(l, Blank, s) => InRow(l, a2, s2)
         /\ Exact(m, l, Blank, s) => Exact(m, l, a2, s2)
         /\ (Parting(m, l, Blank, s) /\ s2 = Append(s, PartHeader)) => Parting(m, l, a2, s2)
<1>1. /\ l \in Seq(Stretch) /\ Covered(l) \subseteq m
      /\ s \in Seq(Sendable) /\ Bytes(s) \subseteq m
  BY DEF Underway, Sendable
<1>2. PICK x : x = l[1]
  OBVIOUS
<1>3. x \in Stretch /\ 1 \in DOMAIN l /\ Covered(l) = (x.start .. x.stop) \cup Covered(Tail(l))
  BY <1>1, <1>2, Leftover
<1>4. a2 \in Nat /\ a2 = x.start /\ a2 # Blank /\ a2 <= x.start
  BY <1>2, <1>3 DEF Stretch, Blank
<1>5. /\ s2 \in Seq(Sendable) /\ Bytes(s2) = Bytes(s) /\ (Rising(s) => Rising(s2))
      /\ s2 = Append(s, PartHeader) => /\ HeaderLast(s2)
                                       /\ (Parted(s, m) /\ ~HeaderLast(s)) => Parted(s2, m)
  <2>1. CASE s2 = Append(s, PartHeader)
    BY <1>1, <2>1, HeaderSent
  <2>2. CASE s2 # Append(s, PartHeader)
    BY <1>1, <2>2
  <2>3. QED
    BY <2>1, <2>2
<1>6. a2 .. x.stop \subseteq m
  BY <1>1, <1>3, <1>4
<1>7. Underway(m, l, a2, s2)
  BY <1>1, <1>2, <1>4, <1>5, <1>6 DEF Underway, Sendable
<1>8. InRow(l, Blank, s) => InRow(l, a2, s2)
  BY <1>2, <1>3, <1>4, <1>5 DEF InRow
<1>9. Exact(m, l, Blank, s) => Exact(m, l, a2, s2)
  BY <1>5 DEF Exact
<1>10. (Parting(m, l, Blank, s) /\ s2 = Append(s, PartHeader)) => Parting(m, l, a2, s2)
  BY <1>3, <1>4, <1>5 DEF Parting
<1>11. QED
  BY <1>4, <1>7, <1>8, <1>9, <1>10

-----------------------------------------------------------------------------
(* Where the file is left behind, when it is positioned only if need be.    *)

\* The next range is read from its start.
Settled(l, last) == l # <<>> => (last.stop = l[1].start => last.at = l[1].start)

\* After a range that is followed by no other at once it is.
LEMMA ReadSettles ==
  ASSUME NEW m \in SUBSET Nat, NEW l, NEW a, NEW s, NEW c, NEW l2, NEW a2, NEW s2,
         Underway(m, l, a, s), Reads(l, a, s, c, l2, a2, s2), Gapped(l), a2 = Blank,
         NEW last, ~(Extent(l[1]) > ChunkSize) => last.stop = l[1].stop
  PROVE  Settled(l2, last)
<1>1. PICK x : x = l[1]
  OBVIOUS
<1>2. Leaves(l, x, a, c, l2, a2)
  BY <1>1, ReadLeaves
<1>3. ~(Extent(x) > ChunkSize)
  BY <1>2 DEF Leaves
<1>4. /\ l \in Seq(Stretch) /\ l2 \in Seq(Stretch) /\ 1 \in DOMAIN l
      /\ \A j \in DOMAIN l2 : j \in Nat /\ j >= 1 /\ j + 1 \in DOMAIN l /\ l2[j] = l[j + 1]
  BY <1>2, <1>3 DEF Leaves
<1>5. SUFFICES ASSUME l2 # <<>> PROVE last.stop # l2[1].start
  BY DEF Settled
<1>6. 1 \in DOMAIN l2
  BY <1>4, <1>5, Leftover
<1>7. PICK y : y = l[2]
  OBVIOUS
<1>8. 2 \in DOMAIN l /\ l2[1] = y
  BY <1>4, <1>6, <1>7
<1>9. x.stop + 1 < y.start
  BY <1>1, <1>4, <1>7, <1>8 DEF Gapped
<1>10. x.stop \in Int /\ y.start \in Nat
  <2>1. x \in Stretch /\ y \in Stretch
    BY <1>1, <1>4, <1>7, <1>8, LenProperties
  <2>2. QED
    BY <2>1 DEF Stretch
<1>11. x.stop # y.start
  BY <1>9, <1>10
<1>12. QED
  BY <1>1, <1>3, <1>8, <1>11

\* The last byte of the file may be planned again, when it was read: then the file is
\* left at its end, and nothing is read.
Follows(l, s, last, top) ==
  l # <<>> =>
    \/ Bytes(s) = {} /\ Settled(l, last)
    \/ /\ last.stop \in Bytes(s) /\ last.at = last.stop + 1
       /\ \A b \in Bytes(s) : b <= last.stop
       /\ last.stop < l[1].start \/ l[1].start = top

InStep(l, a, s, last, top) ==
  /\ Rising(s) /\ Stepped(l, top)
  /\ a = Blank => Follows(l, s, last, top)
  /\ a # Blank => \A b \in Bytes(s) : b < a

Spent(l, a, s, top) ==
  /\ l # <<>> /\ a # Blank /\ a = top + 1 /\ l[1].start = top /\ top \in Bytes(s)
  /\ Rising(s) /\ Stepped(l, top)

\* The bytes m are being sent without a loss, in ascending order.
Steady(m, l, a, s, last, top) ==
  \/ Underway(m, l, a, s) /\ Exact(m, l, a, s) /\ InStep(l, a, s, last, top)
  \/ Underway(m, l, Blank, s) /\ Exact(m, l, Blank, s) /\ Spent(l, a, s, top)

\* What it says of what was sent.
LEMMA SteadyMeans ==
  ASSUME NEW m, NEW l, NEW a, NEW s, NEW last, NEW top, Steady(m, l, a, s, last, top)
  PROVE  DOMAIN s \subseteq Nat /\ Bytes(s) \subseteq m /\ Rising(s)
<1>1. s \in Seq(Sendable) /\ Bytes(s) \subseteq m
  BY DEF Steady, Underway, Sendable
<1>2. DOMAIN s \subseteq Nat
  BY <1>1, LenProperties
<1>3. Rising(s)
  BY DEF Steady, InStep, Spent
<1>4. QED
  BY <1>1, <1>2, <1>3

\* What is left after the first range.
LEMMA SteppedTail ==
  ASSUME NEW l \in Seq(Stretch), l # <<>>, NEW top, Stepped(l, top), NEW t, t = Tail(l)
  PROVE  /\ Stepped(t, top) /\ l[1].stop <= top
         /\ t # <<>> => /\ l[1].start <= l[1].stop
                        /\ l[1].stop < t[1].start \/ t[1].start = top
<1>1. /\ 1 \in DOMAIN l /\ t \in Seq(Stretch)
      /\ \A j \in DOMAIN t : j \in Nat /\ j >= 1 /\ j + 1 \in DOMAIN l /\ t[j] = l[j + 1]
  BY Leftover
<1>2. \A j \in DOMAIN t : t[j].stop <= top
  BY <1>1 DEF Stepped
<1>3. ASSUME NEW i \in DOMAIN t, NEW j \in DOMAIN t, i < j
      PROVE  t[i].start <= t[i].stop /\ (t[i].stop < t[j].start \/ t[j].start = top)
  <2>1. i + 1 < j + 1 /\ i + 1 \in DOMAIN l /\ j + 1 \in DOMAIN l
    BY <1>1, <1>3
  <2>2. QED
    BY <1>1, <2>1 DEF Stepped
<1>4. ASSUME t # <<>>
      PROVE  l[1].start <= l[1].stop /\ (l[1].stop < t[1].start \/ t[1].start = top)
  <2>1. 1 \in DOMAIN t
    BY <1>1, <1>4, Leftover
  <2>2. 2 \in DOMAIN l /\ t[1] = l[2]
    BY <1>1, <2>1
  <2>3. QED
    BY <1>1, <2>2 DEF Stepped
<1>5. QED
  BY <1>1, <1>2, <1>3, <1>4 DEF Stepped

\* A range begins.
LEMMA SteadyBegins ==
  ASSUME NEW m \in SUBSET Nat, NEW top \in Int, m \subseteq 0 .. top,
         NEW l, NEW s, NEW last, l # <<>>, Steady(m, l, Blank, s, last, top),
         NEW a2, a2 = Position(last, l[1]), NEW s2, s2 = s \/ s2 = Append(s, PartHeader)
  PROVE  Steady(m, l, a2, s2, last, top)
<1>1. /\ Underway(m, l, Blank, s) /\ Exact(m, l, Blank, s) /\ Rising(s) /\ Stepped(l, top)
      /\ Follows(l, s, last, top)
  BY DEF Steady, InStep, Spent
<1>2. PICK x : x = l[1]
  OBVIOUS
<1>3. l \in Seq(Stretch) /\ s \in Seq(Sendable) /\ Bytes(s) \subseteq m
  BY <1>1 DEF Underway, Sendable
<1>4. x.start \in Nat
  <2>1. x \in Stretch
    BY <1>2, <1>3, Leftover
  <2>2. QED
    BY <2>1 DEF Stretch
<1>5. s2 \in Seq(Sendable) /\ Bytes(s2) = Bytes(s) /\ Rising(s2)
  <2>1. CASE s2 = Append(s, PartHeader)
    BY <1>1, <1>3, <2>1, HeaderSent
  <2>2. CASE s2 = s
    BY <1>1, <1>3, <2>2
  <2>3. QED
    BY <2>1, <2>2
<1>6. a2 = IF last.stop = x.start THEN last.at ELSE x.start
  BY <1>2 DEF Position
<1>7. CASE a2 = x.start /\ \A b \in Bytes(s) : b < a2
  <2>1. Underway(m, l, a2, s2) /\ Exact(m, l, a2, s2) /\ a2 # Blank
    <3>1. a2 = l[1].start
      BY <1>2, <1>7
    <3>2. Underway(m, l, a2, s2)
      BY <1>1, <3>1, StartsUnderway
    <3>3. Exact(m, l, a2, s2)
      BY <1>1, <3>1, StartsUnderway
    <3>4. a2 # Blank
      BY <1>4, <1>7 DEF Blank
    <3>5. QED
      BY <3>2, <3>3, <3>4
  <2>2. InStep(l, a2, s2, last, top)
    BY <1>1, <1>5, <1>7, <2>1 DEF InStep
  <2>3. QED
    BY <2>1, <2>2 DEF Steady
<1>8. CASE ~(a2 = x.start /\ \A b \in Bytes(s) : b < a2)
  <2>1. Bytes(s) # {}
    <3>1. Bytes(s) = {} => Settled(l, last)
      BY <1>1 DEF Follows
    <3>2. Bytes(s) = {} => a2 = x.start
      BY <1>2, <1>6, <3>1 DEF Settled
    <3>3. QED
      BY <1>8, <3>2
  <2>2. /\ last.stop \in Bytes(s) /\ last.at = last.stop + 1
        /\ \A b \in Bytes(s) : b <= last.stop
        /\ last.stop < x.start \/ x.start = top
    BY <1>1, <1>2, <2>1 DEF Follows
  <2>3. last.stop \in Nat /\ last.stop <= top
    <3>1. PICK z : z = last.stop
      OBVIOUS
    <3>2. z \in m
      BY <1>3, <2>2, <3>1
    <3>3. z \in 0 .. top
      BY <3>2
    <3>4. QED
      BY <3>1, <3>3
  <2>4. \A b \in Bytes(s) : b \in Nat
    BY <1>3
  <2>5. last.stop = x.start
    BY <1>4, <1>6, <1>8, <2>2, <2>3, <2>4
  <2>6. x.start = top /\ a2 = top + 1 /\ a2 # Blank /\ top \in Bytes(s)
    BY <1>4, <1>6, <2>2, <2>3, <2>5 DEF Blank
  <2>7. Spent(l, a2, s2, top)
    BY <1>1, <1>2, <1>5, <2>6 DEF Spent
  <2>8. Underway(m, l, Blank, s2) /\ Exact(m, l, Blank, s2)
    BY <1>1, <1>5 DEF Underway, Exact, Sendable
  <2>9. QED
    BY <2>7, <2>8 DEF Steady
<1>9. QED
  BY <1>7, <1>8

\* A chunk is read of a range that was not read before.
LEMMA FreshReads ==
  ASSUME NEW m \in SUBSET Nat, NEW top \in Int, m \subseteq 0 .. top,
         NEW l, NEW a, NEW s, NEW c, NEW l2, NEW a2, NEW s2, NEW last, NEW last2,
         Underway(m, l, a, s), Exact(m, l, a, s), InStep(l, a, s, last, top),
         Reads(l, a, s, c, l2, a2, s2), c = ChunkSize \/ c = Extent(l[1]),
         ~(Extent(l[1]) > ChunkSize) => last2 = [stop |-> l[1].stop, at |-> a + c]
  PROVE  InStep(l2, a2, s2, last2, top)
<1>1. PICK x : x = l[1]
  OBVIOUS
<1>2. /\ x.start \in Nat /\ x.stop \in Int /\ x.start <= x.stop + 1
      /\ a \in Nat /\ a <= x.start /\ c \in Nat /\ c <= ChunkSize /\ ChunkSize \in Nat
      /\ c <= Extent(x) /\ s2 = With(s, a, c) /\ s \in Seq(Sendable)
  <2>1. ReadAt(m, x, a, s, c, s2)
    BY <1>1, ReadFrom
  <2>2. QED
    BY <2>1 DEF ReadAt
<1>3. Leaves(l, x, a, c, l2, a2)
  BY <1>1, ReadLeaves
<1>4. /\ a # Blank /\ a = x.start /\ Rising(s) /\ Stepped(l, top)
      /\ \A b \in Bytes(s) : b < a
  BY <1>1 DEF InStep, Reads, Exact
<1>5. Rising(s2)
  BY <1>2, <1>4, ChunkRises
<1>6. Bytes(s2) = Bytes(s) \cup (a .. a + c - 1) /\ \A b \in Bytes(s) : b \in Nat
  <2>1. Bytes(s2) = Bytes(s) \cup (a .. a + c - 1)
    BY ReadBytes
  <2>2. QED
    BY <2>1 DEF Underway
<1>7. \A b \in Bytes(s2) : b \in Int /\ b < a + c
  BY <1>2, <1>4, <1>6
<1>8. l \in Seq(Stretch) /\ 1 \in DOMAIN l /\ l # <<>>
  BY <1>3 DEF Leaves, Reads
<1>9. CASE Extent(x) > ChunkSize
  <2>1. /\ a2 = a + c /\ a2 # Blank /\ DOMAIN l2 = DOMAIN l
        /\ x.start + ChunkSize <= x.stop
        /\ l2[1].start = x.start + ChunkSize /\ l2[1].stop = x.stop
        /\ \A j \in DOMAIN l2 : j # 1 => l2[j] = l[j]
    BY <1>9, <1>3 DEF Leaves
  <2>2. \A j \in DOMAIN l2 : l2[j].stop = l[j].stop
    BY <1>1, <2>1
  <2>3. ASSUME NEW i \in DOMAIN l2, NEW j \in DOMAIN l2, i < j
        PROVE  l2[i].start <= l2[i].stop /\ (l2[i].stop < l2[j].start \/ l2[j].start = top)
    <3>1. l[i].start <= l[i].stop /\ (l[i].stop < l[j].start \/ l[j].start = top)
      BY <1>4, <2>1, <2>3 DEF Stepped
    <3>2. j # 1
      <4>1. i \in 1..Len(l) /\ j \in Nat
        <5>1. DOMAIN l = 1..Len(l) /\ Len(l) \in Nat
          BY <1>8, LenProperties
        <5>2. QED
          BY <2>1, <2>3, <5>1
      <4>2. QED
        BY <2>3, <4>1
    <3>3. l2[j] = l[j] /\ l2[i].stop = l[i].stop
      BY <2>1, <2>2, <3>2
    <3>4. l2[i].start <= l2[i].stop
      BY <2>1, <3>1
    <3>5. QED
      BY <3>1, <3>3, <3>4
  <2>4. Stepped(l2, top)
    BY <1>4, <2>1, <2>2, <2>3 DEF Stepped
  <2>5. QED
    BY <1>5, <1>7, <2>1, <2>4 DEF InStep
<1>10. CASE ~(Extent(x) > ChunkSize)
  <2>1. a2 = Blank /\ l2 = Tail(l) /\ last2 = [stop |-> x.stop, at |-> a + c]
    BY <1>1, <1>3, <1>10 DEF Leaves
  <2>2. c = Extent(x) /\ a + c = x.stop + 1
    <3>1. PICK e \in Int : e = Extent(x) /\ e = x.stop - x.start + 1
      BY <1>2 DEF Extent
    <3>2. c <= e /\ ~(e > ChunkSize) /\ (c = ChunkSize \/ c = e)
      BY <1>1, <1>2, <1>10, <3>1
    <3>3. c = e
      BY <1>2, <3>2
    <3>4. QED
      BY <1>2, <1>4, <3>1, <3>3
  <2>3. last2.stop = x.stop /\ last2.at = x.stop + 1
    BY <2>1, <2>2
  <2>4. /\ Stepped(l2, top) /\ x.stop <= top
        /\ l2 # <<>> => x.start <= x.stop /\ (x.stop < l2[1].start \/ l2[1].start = top)
    <3>1. Stepped(l2, top)
      BY <1>4, <1>8, <2>1, SteppedTail
    <3>2. x.stop <= top
      BY <1>1, <1>4, <1>8, SteppedTail
    <3>3. l2 # <<>> => x.start <= x.stop /\ (x.stop < l2[1].start \/ l2[1].start = top)
      BY <1>1, <1>4, <1>8, <2>1, SteppedTail
    <3>4. QED
      BY <3>1, <3>2, <3>3
  <2>5. \A b \in Bytes(s2) : b <= x.stop
    BY <1>2, <1>7, <2>2
  <2>6. l2 # <<>> => x.stop \in Bytes(s2)
    <3>1. x.start <= x.stop => x.stop \in a .. a + c - 1
      BY <1>2, <1>4, <2>2
    <3>2. QED
      BY <1>6, <2>4, <3>1
  <2>7. Follows(l2, s2, last2, top)
    BY <2>3, <2>4, <2>5, <2>6 DEF Follows
  <2>8. QED
    BY <1>5, <2>1, <2>4, <2>7 DEF InStep
<1>11. QED
  BY <1>9, <1>10

\* Of one that was, nothing is read.
LEMMA SpentReads ==
  ASSUME NEW m \in SUBSET Nat, NEW top \in Int, m \subseteq 0 .. top,
         NEW l, NEW a, NEW s, NEW l2, NEW a2, NEW s2, NEW last2,
         Underway(m, l, Blank, s), Exact(m, l, Blank, s), Spent(l, a, s, top),
         Reads(l, a, s, 0, l2, a2, s2),
         ~(Extent(l[1]) > ChunkSize) => last2 = [stop |-> l[1].stop, at |-> a]
  PROVE  Steady(m, l2, a2, s2, last2, top)
<1>1. PICK x : x = l[1]
  OBVIOUS
<1>2. PICK t : t = Tail(l)
  OBVIOUS
<1>3. /\ l \in Seq(Stretch) /\ l # <<>> /\ s \in Seq(Sendable)
      /\ Bytes(s) \subseteq m /\ Covered(l) \subseteq m /\ Bytes(s) \cup Covered(l) = m
      /\ a = top + 1 /\ x.start = top /\ top \in Bytes(s) /\ Rising(s) /\ Stepped(l, top)
  BY <1>1 DEF Underway, Exact, Spent, Sendable
<1>4. /\ x \in Stretch /\ t \in Seq(Stretch)
      /\ Covered(l) = (x.start .. x.stop) \cup Covered(t)
  BY <1>1, <1>2, <1>3, Leftover
<1>5. /\ Stepped(t, top) /\ x.stop <= top
      /\ t # <<>> => x.start <= x.stop /\ (x.stop < t[1].start \/ t[1].start = top)
  <2>1. Stepped(t, top)
    BY <1>2, <1>3, SteppedTail
  <2>2. x.stop <= top
    BY <1>1, <1>3, SteppedTail
  <2>3. t # <<>> => x.start <= x.stop /\ (x.stop < t[1].start \/ t[1].start = top)
    BY <1>1, <1>2, <1>3, SteppedTail
  <2>4. QED
    BY <2>1, <2>2, <2>3
<1>6. x.start \in Nat /\ x.stop \in Int /\ top \in Nat /\ a \in Nat
  BY <1>3, <1>4 DEF Stretch
<1>7. ~(Extent(x) > ChunkSize)
  <2>1. ChunkSize \in Nat \ {0}
    BY FileAssumption
  <2>2. QED
    BY <1>3, <1>5, <1>6, <2>1 DEF Extent
<1>8. l2 = t /\ a2 = Blank /\ s2 = With(s, a, 0) /\ last2 = [stop |-> x.stop, at |-> a]
  BY <1>1, <1>2, <1>7 DEF Reads
<1>9. s2 \in Seq(Sendable) /\ Bytes(s2) = Bytes(s) /\ Rising(s2)
  <2>1. PICK none \in Nat : none = 0
    OBVIOUS
  <2>2. s2 = With(s, a, none)
    BY <1>8, <2>1
  <2>3. Extends(s2, s, Len(s), a, none)
    BY <1>3, <1>6, <2>2, ChunkShape
  <2>4. s2 \in Seq(Sendable)
    BY <2>3 DEF Extends
  <2>5. Bytes(s2) = Bytes(s) \cup (a .. a + none - 1)
    BY <1>3, <1>6, <2>2, ChunkBytes
  <2>6. a .. a + none - 1 = {}
    BY <1>6, <2>1
  <2>7. \A b \in Bytes(s) : b < a
    BY <1>3, <1>6
  <2>8. Rising(s2)
    BY <1>3, <1>6, <2>2, <2>7, ChunkRises
  <2>9. QED
    BY <2>4, <2>5, <2>6, <2>8
<1>10. Underway(m, l2, a2, s2)
  BY <1>3, <1>4, <1>8, <1>9 DEF Underway, Sendable
<1>11. Exact(m, l2, a2, s2)
  <2>1. x.start .. x.stop \subseteq Bytes(s)
    BY <1>3, <1>5, <1>6
  <2>2. QED
    BY <1>3, <1>4, <1>8, <1>9, <2>1 DEF Exact
<1>12. Follows(l2, s2, last2, top)
  <2>1. last2.stop = x.stop /\ last2.at = top + 1
    BY <1>3, <1>8
  <2>2. \A b \in Bytes(s2) : b <= top
    BY <1>3, <1>9
  <2>3. l2 # <<>> => x.stop = top
    BY <1>3, <1>5, <1>6, <1>8
  <2>4. QED
    BY <1>3, <1>5, <1>8, <1>9, <2>1, <2>2, <2>3 DEF Follows
<1>13. QED
  BY <1>5, <1>8, <1>9, <1>10, <1>11, <1>12 DEF Steady, InStep

\* A chunk is read, as far as the file goes.
LEMMA SteadyReads ==
  ASSUME NEW m \in SUBSET Nat, NEW top \in Int, m \subseteq 0 .. top,
         NEW l, NEW a, NEW s, NEW c, NEW l2, NEW a2, NEW s2, NEW last, NEW last2,
         Steady(m, l, a, s, last, top), Reads(l, a, s, c, l2, a2, s2),
         a + Extent(l[1]) <= top + 1 => (c = ChunkSize \/ c = Extent(l[1])),
         a = top + 1 => c = 0,
         ~(Extent(l[1]) > ChunkSize) => last2 = [stop |-> l[1].stop, at |-> a + c]
  PROVE  Steady(m, l2, a2, s2, last2, top)
<1>1. CASE Underway(m, l, a, s) /\ Exact(m, l, a, s) /\ InStep(l, a, s, last, top)
  <2>1. PICK x : x = l[1]
    OBVIOUS
  <2>2. ReadAt(m, x, a, s, c, s2)
    BY <1>1, <2>1, ReadFrom
  <2>3. x.start \in Nat /\ x.stop \in Int /\ a \in Nat
    BY <2>2 DEF ReadAt
  <2>4. a = x.start /\ l \in Seq(Stretch) /\ l # <<>> /\ Stepped(l, top)
    BY <1>1, <2>1 DEF Exact, Reads, Underway, InStep
  <2>5. x.stop <= top
    BY <2>1, <2>4, SteppedTail
  <2>6. c = ChunkSize \/ c = Extent(l[1])
    <3>1. a + Extent(x) <= top + 1
      BY <2>3, <2>4, <2>5 DEF Extent
    <3>2. QED
      BY <2>1, <3>1
  <2>7. Underway(m, l2, a2, s2)
    BY <1>1, ReadUnderway
  <2>8. Exact(m, l2, a2, s2)
    BY <1>1, <2>6, ReadExact
  <2>9. InStep(l2, a2, s2, last2, top)
    BY <1>1, <2>6, FreshReads
  <2>10. QED
    BY <2>7, <2>8, <2>9 DEF Steady
<1>2. CASE Underway(m, l, Blank, s) /\ Exact(m, l, Blank, s) /\ Spent(l, a, s, top)
  <2>1. a = top + 1 /\ c = 0
    BY <1>2 DEF Spent
  <2>2. Reads(l, a, s, 0, l2, a2, s2)
    BY <2>1
  <2>3. ~(Extent(l[1]) > ChunkSize) => last2 = [stop |-> l[1].stop, at |-> a]
    <3>1. a + c = a
      BY <2>1
    <3>2. QED
      BY <3>1
  <2>4. QED
    BY <1>2, <2>2, <2>3, SpentReads
<1>3. QED
  BY <1>1, <1>2 DEF Steady

-----------------------------------------------------------------------------
(* A plan, before anything was sent.                                        *)

\* Nothing was sent yet.
LEMMA NothingSent ==
  ASSUME NEW s, s = <<>>
  PROVE  /\ s \in Seq(Sendable) /\ DOMAIN s \subseteq Nat
         /\ Bytes(s) = {} /\ Rising(s) /\ ~HeaderLast(s)
         /\ \A m : Parted(s, m)
<1>1. s \in Seq(Sendable) /\ DOMAIN s = {}
  OBVIOUS
<1>2. QED
  BY <1>1 DEF Bytes, Rising, HeaderLast, Parted

\* All that is meant is planned, and nothing was sent.
LEMMA Planned ==
  ASSUME NEW l \in Seq(Stretch), NEW m, m = Covered(l), NEW s, s = <<>>
  PROVE  /\ Underway(m, l, Blank, s) /\ Exact(m, l, Blank, s)
         /\ Gapped(l) => InRow(l, Blank, s)
         /\ (Gapped(l) /\ \A j \in DOMAIN l : l[j].start <= l[j].stop) => Parting(m, l, Blank, s)
<1>1. /\ s \in Seq(Sendable) /\ Bytes(s) = {} /\ Rising(s) /\ ~HeaderLast(s) /\ Parted(s, m)
  BY NothingSent
<1>2. Underway(m, l, Blank, s)
  BY <1>1 DEF Underway, Sendable
<1>3. Exact(m, l, Blank, s)
  BY <1>1 DEF Exact
<1>4. Gapped(l) => InRow(l, Blank, s)
  BY <1>1 DEF InRow
<1>5. ASSUME Gapped(l), \A j \in DOMAIN l : l[j].start <= l[j].stop
      PROVE  Parting(m, l, Blank, s)
  <2>1. \A j \in DOMAIN l : j \in Nat /\ l[j].start \in Nat /\ l[j].stop \in Int
    <3>1. DOMAIN l \subseteq Nat /\ \A j \in DOMAIN l : l[j] \in Stretch
      BY LenProperties
    <3>2. QED
      BY <3>1 DEF Stretch
  <2>2. ASSUME NEW j \in DOMAIN l
        PROVE  l[j].start \in PartsOf(m)
    <3>1. l[j].start \in m
      BY <1>5, <2>1 DEF Covered
    <3>2. ASSUME NEW i \in DOMAIN l, l[j].start - 1 \in l[i].start .. l[i].stop
          PROVE  FALSE
      <4>1. PICK a, c \in Nat : a = l[i].start /\ c = l[j].start
        BY <2>1
      <4>2. PICK b, d \in Int : b = l[i].stop /\ d = l[j].stop
        BY <2>1
      <4>3. a <= c - 1 /\ c - 1 <= b /\ c <= d
        BY <1>5, <3>2, <4>1, <4>2
      <4>4. i < j => b + 1 < c
        BY <1>5, <4>1, <4>2 DEF Gapped
      <4>5. j < i => d + 1 < a
        BY <1>5, <4>1, <4>2 DEF Gapped
      <4>6. i = j => a = c
        BY <4>1
      <4>7. i < j \/ j < i \/ i = j
        BY <2>1
      <4>8. QED
        BY <4>3, <4>4, <4>5, <4>6, <4>7
    <3>3. l[j].start - 1 \notin m
      BY <3>2 DEF Covered
    <3>4. QED
      BY <3>1, <3>3 DEF PartsOf
  <2>3. QED
    BY <1>1, <1>5, <2>2 DEF Parting
<1>6. QED
  BY <1>2, <1>3, <1>4, <1>5

\* So it is when the file has just been opened.
LEMMA SteadyPlanned ==
  ASSUME NEW l \in Seq(Stretch), NEW m, m = Covered(l), NEW s, s = <<>>,
         NEW top, Stepped(l, top), NEW last, last = FirstByte
  PROVE  Settled(l, last) /\ Steady(m, l, Blank, s, last, top)
<1>1. Underway(m, l, Blank, s) /\ Exact(m, l, Blank, s)
  BY Planned
<1>2. Rising(s) /\ Bytes(s) = {}
  BY NothingSent
<1>3. Settled(l, last)
  BY DEF Settled, FirstByte
<1>4. InStep(l, Blank, s, last, top)
  BY <1>2, <1>3 DEF InStep, Follows
<1>5. QED
  BY <1>1, <1>3, <1>4 DEF Steady

\* A plan of one range.
LEMMA OneStretch ==
  ASSUME NEW x \in Stretch, NEW l, l = <<x>>
  PROVE  /\ l \in Seq(Stretch) /\ Covered(l) = x.start .. x.stop /\ Gapped(l)
         /\ \A j \in DOMAIN l : l[j] = x
<1>1. l \in Seq(Stretch) /\ DOMAIN l = {1} /\ l[1] = x
  OBVIOUS
<1>2. Gapped(l)
  BY <1>1 DEF Gapped
<1>3. Covered(l) = x.start .. x.stop
  <2>1. Covered(l) = UNION {l[i].start .. l[i].stop : i \in {1}}
    BY <1>1 DEF Covered
  <2>2. QED
    BY <1>1, <2>1
<1>4. QED
  BY <1>1, <1>2, <1>3

\* It has no other range to overlap with.
LEMMA OneStepped ==
  ASSUME NEW x, NEW l, l = <<x>>, NEW top, x.stop <= top
  PROVE  Stepped(l, top)
<1>1. DOMAIN l = {1} /\ l[1] = x
  OBVIOUS
<1>2. QED
  BY <1>1 DEF Stepped

\* Ranges of a file are ranges to send.
LEMMA PiecesStretch ==
  ASSUME NEW max \in Int, NEW l \in Seq(Piece(max))
  PROVE  l \in Seq(Stretch) /\ \A j \in DOMAIN l : l[j] \in Piece(max) /\ l[j].start <= l[j].stop
<1>1. Piece(max) \subseteq Stretch
  BY DEF Piece, Stretch
<1>2. l \in Seq(Stretch)
  BY <1>1, SeqMonotonic
<1>3. \A j \in DOMAIN l : l[j] \in Piece(max)
  BY LenProperties
<1>4. QED
  BY <1>2, <1>3 DEF Piece

\* A hull that holds all that is covered, and reaches to its ends.
LEMMA HullMeans ==
  ASSUME NEW max \in Int, NEW l \in Seq(Piece(max)), l # <<>>, NEW h, h = Hull(l)
  PROVE  /\ h.start = l[1].start /\ h.stop = l[Len(l)].stop /\ h \in [start : Nat, stop : Nat]
         /\ h.start \in Covered(l) /\ h.stop \in Covered(l)
         /\ Covered(l) \subseteq Overall(l) =>
              h \in Piece(max) /\ Min(Covered(l)) .. Max(Covered(l)) = h.start .. h.stop
         /\ Len(l) <= 1 => h \in Piece(max) /\ Covered(l) = h.start .. h.stop /\ h = l[1]
<1>1. PICK n \in Nat : n = Len(l) /\ n > 0 /\ DOMAIN l = 1..n
  BY LenProperties, EmptySeq
<1>2. 1 \in DOMAIN l /\ n \in DOMAIN l
  BY <1>1
<1>3. PICK x, y : x = l[1] /\ y = l[n]
  OBVIOUS
<1>4. x \in Piece(max) /\ y \in Piece(max)
  BY <1>2, <1>3, PiecesStretch
<1>5. /\ x.start \in Nat /\ x.stop \in Nat /\ y.start \in Nat /\ y.stop \in Nat
      /\ x.start <= x.stop /\ y.start <= y.stop /\ y.stop <= max /\ x.stop <= max
  BY <1>4 DEF Piece
<1>6. h = [start |-> x.start, stop |-> y.stop]
  BY <1>1, <1>3 DEF Hull, Last
<1>7. h.start = x.start /\ h.stop = y.stop /\ h \in [start : Nat, stop : Nat]
  BY <1>5, <1>6
<1>8. h.start \in Covered(l) /\ h.stop \in Covered(l)
  BY <1>2, <1>3, <1>5, <1>7 DEF Covered
<1>9. ASSUME Covered(l) \subseteq Overall(l)
      PROVE  h \in Piece(max) /\ Min(Covered(l)) .. Max(Covered(l)) = h.start .. h.stop
  <2>1. PICK c : c = Covered(l)
    OBVIOUS
  <2>2. PICK a, b \in Nat : a = h.start /\ b = h.stop
    BY <1>5, <1>7
  <2>3. a \in c /\ b \in c /\ c \subseteq a .. b
    BY <1>1, <1>3, <1>7, <1>8, <1>9, <2>1, <2>2 DEF Overall
  <2>4. Min(c) = a
    <3>1. \A z \in c : a <= z
      BY <2>3
    <3>2. \A z \in c : (\A w \in c : z <= w) => z = a
      BY <2>2, <2>3
    <3>3. QED
      BY <2>3, <3>1, <3>2 DEF Min
  <2>5. Max(c) = b
    <3>1. \A z \in c : b >= z
      BY <2>3
    <3>2. \A z \in c : (\A w \in c : z >= w) => z = b
      BY <2>2, <2>3
    <3>3. QED
      BY <2>3, <3>1, <3>2 DEF Max
  <2>6. a <= b
    BY <2>2, <2>3
  <2>7. h \in Piece(max)
    BY <1>5, <1>7, <2>2, <2>6 DEF Piece
  <2>8. QED
    BY <2>1, <2>2, <2>4, <2>5, <2>7
<1>10. ASSUME Len(l) <= 1
       PROVE  h \in Piece(max) /\ Covered(l) = h.start .. h.stop /\ h = l[1]
  <2>1. n = 1 /\ DOMAIN l = {1}
    BY <1>1, <1>10
  <2>2. y = x /\ h = x
    BY <1>3, <1>4, <1>6, <2>1 DEF Piece
  <2>3. Covered(l) = x.start .. x.stop
    BY <1>3, <2>1 DEF Covered
  <2>4. QED
    BY <1>3, <1>4, <2>2, <2>3
<1>11. QED
  BY <1>1, <1>3, <1>7, <1>8, <1>9, <1>10

-----------------------------------------------------------------------------
(* What holds of a request of which no other has spoilt the headers.        *)

NoPart == \A q \in Requests : ~partial[q]

\* The length in the headers is that of the file, until an answer with a part.
LengthInv ==
  NoPart => /\ headers.length \in Nat \cup {Blank}
            /\ changes = 0 => headers.length \in {Blank, size}

FileWorld ==
  /\ scenario \in Scenarios /\ size \in Nat /\ changes \in Nat /\ (changes = 0 => present)
  /\ DOMAIN seen = Requests /\ DOMAIN announced = Requests /\ DOMAIN at = Requests
  /\ DOMAIN behind = Requests

\* What is meant is being sent: in order, without a loss, if the file has not changed,
\* and in parts.
InOrderSent(r, parts) ==
  /\ Underway(Meant(r), left[r], at[r], sent[r])
  /\ InRow(left[r], at[r], sent[r])
  /\ at[r] = Blank => Settled(left[r], behind[r])
  /\ changes = 0 => Exact(Meant(r), left[r], at[r], sent[r])
  /\ (changes = 0 /\ scenario.mode = "strict" /\ parts) =>
       Parting(Meant(r), left[r], at[r], sent[r])

\* Of an order that is not enforced nothing is said once the file has changed: a byte
\* that it got since may be sent where the last one is asked for again.
OnItsWay(r, parts) ==
  IF scenario.mode # "lenient" THEN InOrderSent(r, parts)
  ELSE changes = 0 =>
         Steady(Meant(r), left[r], at[r], sent[r], behind[r], seen[r] - 1)

Told == scenario.mode # "lenient" \/ changes = 0

\* What the headers of an answer promise.
Promised(r) ==
  /\ partial[r] =>
       /\ Meant(r) \subseteq 0 .. seen[r] - 1
       /\ scenario.mode = "strict" => announced[r].length = Cardinality(Meant(r))
       /\ announced[r].range # NoRange =>
            Meant(r) = announced[r].range.start .. announced[r].range.stop
  /\ (~partial[r] /\ (phase[r] \in {"announcing", "sending", "done"} \/ sent[r] # <<>>)) =>
       headers.length = seen[r] /\ announced[r].length = seen[r]

OneRangeIsServed(r) ==
  \A first, last \in 0 .. seen[r] - 1 :
    (first <= last /\ Asked(r).range = <<[first |-> first, last |-> last]>>) => partial[r]

\* A request of which no other has spoilt the headers, from its beginning to its end.
Delivery(r) ==
  /\ seen[r] \in Nat /\ (changes = 0 => seen[r] = size)
  /\ phase[r] \in {"idle", "ready", "announcing"} =>
       at[r] = Blank /\ ~divided[r] /\ behind[r] = FirstByte
  /\ Promised(r)
  /\ (phase[r] = "announcing" /\ partial[r]) => OnItsWay(r, TRUE)
  /\ phase[r] = "sending" => OnItsWay(r, divided[r])
  /\ Told => DOMAIN sent[r] \subseteq Nat
  /\ (Told /\ (partial[r] \/ ~scenario.pathsend)) =>
       Bytes(sent[r]) \subseteq Meant(r) /\ Rising(sent[r])
  /\ (changes = 0 /\ phase[r] = "done" /\ ~Asked(r).head) =>
       /\ Bytes(sent[r]) = Meant(r) /\ Rising(sent[r])
       /\ (scenario.mode = "strict" /\ divided[r]) => Parted(sent[r], Meant(r))
  /\ (changes = 0 /\ phase[r] \notin {"idle", "ready"} /\ ~Asked(r).head) => OneRangeIsServed(r)

DeliveryInv == FileWorld /\ LengthInv /\ \A r \in Requests : Alone(r) => Delivery(r)

\* What a request means depends on nothing else.
LEMMA MeantKept ==
  ASSUME NEW r \in Requests, scenario' = scenario, seen'[r] = seen[r], partial'[r] = partial[r]
  PROVE  Meant(r)' = Meant(r) /\ Asked(r)' = Asked(r)
<1>1. Asked(r)' = Asked(r)
  BY DEF Asked
<1>2. QED
  BY <1>1 DEF Meant

\* What it means, by cases.
LEMMA MeantIs ==
  ASSUME NEW r
  PROVE  /\ ~partial[r] => Meant(r) = 0 .. seen[r] - 1
         /\ (partial[r] /\ scenario.mode = "single") =>
              Meant(r) = Min(AllOf(Asked(r).range, seen[r])) .. Max(AllOf(Asked(r).range, seen[r]))
         /\ (partial[r] /\ scenario.mode # "single") => Meant(r) = AllOf(Asked(r).range, seen[r])
BY DEF Meant, AllOf

\* What stays of a request keeps its part, whatever becomes of the file.
LEMMA DeliveryKept ==
  ASSUME NEW r \in Requests, Delivery(r), scenario' = scenario,
         seen'[r] = seen[r], phase'[r] = phase[r], announced'[r] = announced[r],
         partial'[r] = partial[r], left'[r] = left[r], divided'[r] = divided[r],
         at'[r] = at[r], behind'[r] = behind[r], sent'[r] = sent[r],
         changes' = 0 => changes = 0 /\ size' = size,
         (~partial[r] /\ headers.length \in Nat) => headers'.length = headers.length
  PROVE  Delivery(r)'
<1>1. Meant(r)' = Meant(r) /\ Asked(r)' = Asked(r)
  BY MeantKept
<1>2. Promised(r)'
  <2>1. ~partial[r] /\ headers.length = seen[r] => headers'.length = headers.length
    BY DEF Delivery
  <2>2. QED
    BY <1>1, <2>1 DEF Promised, Delivery
<1>3. \A parts : OnItsWay(r, parts) => OnItsWay(r, parts)'
  <2>1. \A parts : InOrderSent(r, parts) => InOrderSent(r, parts)'
    BY <1>1 DEF InOrderSent
  <2>2. QED
    BY <1>1, <2>1 DEF OnItsWay
<1>4. OneRangeIsServed(r) => OneRangeIsServed(r)'
  BY <1>1 DEF OneRangeIsServed
<1>5. (phase[r] = "announcing" /\ partial[r]) => OnItsWay(r, TRUE)'
  BY <1>3 DEF Delivery
<1>6. phase[r] = "sending" => OnItsWay(r, divided[r])'
  BY <1>3 DEF Delivery
<1>7. Told' => Told
  BY DEF Told
<1>8. QED
  BY <1>1, <1>2, <1>4, <1>5, <1>6, <1>7 DEF Delivery

\* A step of one request: the others keep their parts.
SetsMore(r) ==
  /\ Sets(r) /\ size' = size /\ changes' = changes /\ present' = present
  /\ DOMAIN seen' = Requests /\ DOMAIN announced' = Requests /\ DOMAIN at' = Requests
  /\ DOMAIN behind' = Requests
  /\ partial[r] => partial'[r]
  /\ (~partial'[r] /\ headers.length \in Nat) => headers'.length = headers.length
  /\ \A q \in Requests \ {r} :
       /\ seen'[q] = seen[q] /\ announced'[q] = announced[q] /\ at'[q] = at[q]
       /\ behind'[q] = behind[q]

\* So a step of one request keeps the invariant, if it keeps that request's part.
LEMMA DeliverySteps ==
  ASSUME FileIInv, DeliveryInv, NEW r \in Requests, SetsMore(r), LengthInv',
         Alone(r) => Delivery(r)'
  PROVE  DeliveryInv'
<1>1. Requests' = Requests /\ scenario' = scenario
  BY DEF SetsMore, Sets, Requests
<1>2. FileWorld'
  BY <1>1 DEF FileWorld, SetsMore, DeliveryInv
<1>3. \A q \in Requests : partial[q] => partial'[q]
  BY DEF SetsMore, Sets
<1>4. \A q \in Requests : Alone(q)' => Alone(q)
  BY <1>1, <1>3 DEF Alone
<1>5. ASSUME NEW q \in Requests, Alone(q)'
      PROVE  Delivery(q)'
  <2>1. Alone(q) /\ Delivery(q)
    BY <1>4, <1>5 DEF DeliveryInv
  <2>2. CASE q = r
    BY <2>1, <2>2
  <2>3. CASE q # r
    <3>1. ~partial'[r]
      BY <1>1, <1>5, <2>3 DEF Alone
    <3>2. headers.length \in Nat => headers'.length = headers.length
      BY <3>1 DEF SetsMore
    <3>3. /\ seen'[q] = seen[q] /\ phase'[q] = phase[q] /\ announced'[q] = announced[q]
          /\ partial'[q] = partial[q] /\ left'[q] = left[q] /\ divided'[q] = divided[q]
          /\ at'[q] = at[q] /\ sent'[q] = sent[q] /\ size' = size /\ changes' = changes
          /\ behind'[q] = behind[q]
      BY <2>3 DEF SetsMore, Sets
    <3>4. QED
      BY <1>1, <2>1, <3>2, <3>3, DeliveryKept
  <2>4. QED
    BY <2>2, <2>3
<1>6. QED
  BY <1>1, <1>2, <1>5 DEF DeliveryInv

\* The headers stay, so does what is said about them.
LEMMA LengthStays ==
  ASSUME FileIInv, DeliveryInv, NEW r \in Requests, SetsMore(r),
         headers' = headers \/ ~NoPart'
  PROVE  LengthInv'
<1>1. Requests' = Requests
  BY DEF SetsMore, Sets, Requests
<1>2. \A q \in Requests : partial[q] => partial'[q]
  BY DEF SetsMore, Sets
<1>3. NoPart' => NoPart
  BY <1>1, <1>2 DEF NoPart
<1>4. size' = size /\ changes' = changes
  BY DEF SetsMore
<1>5. QED
  BY <1>3, <1>4 DEF LengthInv, DeliveryInv

\* What the steps need of the two invariants.
LEMMA DeliveryBasics ==
  ASSUME FileIInv, DeliveryInv, NEW r \in Requests
  PROVE  /\ scenario \in Scenarios /\ size \in Nat /\ changes \in Nat /\ (changes = 0 => present)
         /\ DOMAIN seen = Requests /\ DOMAIN announced = Requests /\ DOMAIN at = Requests
         /\ DOMAIN behind = Requests
         /\ DOMAIN phase = Requests /\ DOMAIN left = Requests
         /\ DOMAIN divided = Requests /\ DOMAIN sent = Requests
         /\ finals \in [Requests -> Nat] /\ cleaned \in [Requests -> {0, 1}]
         /\ partial \in [Requests -> BOOLEAN]
         /\ RequestEnd(r) /\ (Alone(r) => Delivery(r)) /\ LengthInv /\ HeaderInv
BY FileBasics DEF DeliveryInv, FileWorld

\* The size that is announced.
LEMMA LengthTaken ==
  ASSUME FileIInv, DeliveryInv, NEW r \in Requests, Alone(r), ~partial[r]
  PROVE  /\ NoPart /\ WithLength(r).length \in Nat
         /\ WithLength(r).length = IF headers.length = Blank THEN seen[r] ELSE headers.length
         /\ headers.length \in Nat => WithLength(r).length = headers.length
         /\ changes = 0 => WithLength(r).length = size
<1>1. NoPart
  BY DEF NoPart, Alone
<1>2. Delivery(r) /\ LengthInv
  BY DeliveryBasics
<1>3. headers.length \in Nat \cup {Blank} /\ (changes = 0 => headers.length \in {Blank, size})
  BY <1>1, <1>2 DEF LengthInv
<1>4. seen[r] \in Nat /\ (changes = 0 => seen[r] = size)
  BY <1>2 DEF Delivery
<1>5. WithLength(r).length = IF headers.length = Blank THEN seen[r] ELSE headers.length
  BY FileBasics DEF WithLength, HeaderInv
<1>6. Blank \notin Nat
  BY DEF Blank
<1>7. QED
  BY <1>1, <1>3, <1>4, <1>5, <1>6

-----------------------------------------------------------------------------
(* The steps of a request keep it so.                                       *)

\* It holds at the beginning.
LEMMA DeliveryStart ==
  ASSUME FileInit
  PROVE  DeliveryInv
<1>1. /\ scenario \in Scenarios /\ size \in 0 .. MaxSize /\ present = TRUE /\ changes = 0
      /\ headers = [status |-> 200, length |-> IF scenario.made THEN size ELSE Blank,
                    range |-> NoRange]
      /\ phase = [r \in Requests |-> "idle"] /\ seen = [r \in Requests |-> size]
      /\ announced = [r \in Requests |-> headers]
      /\ partial = [r \in Requests |-> FALSE] /\ divided = [r \in Requests |-> FALSE]
      /\ at = [r \in Requests |-> Blank] /\ sent = [r \in Requests |-> <<>>]
      /\ behind = [r \in Requests |-> FirstByte]
  BY DEF FileInit
<1>2. size \in Nat
  BY <1>1, FileAssumption
<1>3. FileWorld
  BY <1>1, <1>2 DEF FileWorld
<1>4. LengthInv
  <2>1. headers.length = IF scenario.made THEN size ELSE Blank
    BY <1>1
  <2>2. headers.length \in {Blank, size}
    BY <2>1
  <2>3. QED
    BY <1>2, <2>2 DEF LengthInv
<1>5. ASSUME NEW r \in Requests
      PROVE  Delivery(r)
  <2>1. /\ phase[r] = "idle" /\ seen[r] = size /\ ~partial[r] /\ ~divided[r]
        /\ at[r] = Blank /\ sent[r] = <<>> /\ behind[r] = FirstByte
    BY <1>1
  <2>2. PICK s : s = sent[r]
    OBVIOUS
  <2>3. Bytes(s) = {} /\ Rising(s) /\ DOMAIN s \subseteq Nat
    BY <2>1, <2>2, NothingSent
  <2>4. Promised(r)
    BY <2>1 DEF Promised
  <2>5. QED
    BY <1>1, <1>2, <2>1, <2>2, <2>3, <2>4 DEF Delivery
<1>6. QED
  BY <1>3, <1>4, <1>5 DEF DeliveryInv

\* A request begins: the file is looked at.
LEMMA BeginDelivers ==
  ASSUME FileIInv, DeliveryInv, NEW r \in Requests, Begin(r)
  PROVE  DeliveryInv'
<1>1. /\ phase[r] = "idle" /\ phase'[r] \in {"ready", "failed"}
      /\ ~(scenario.made \/ present) <=> phase'[r] = "failed"
      /\ DOMAIN phase' = Requests /\ \A q \in Requests \ {r} : phase'[q] = phase[q]
      /\ DOMAIN seen' = Requests /\ \A q \in Requests \ {r} : seen'[q] = seen[q]
      /\ seen'[r] \in {seen[r], size}
      /\ UNCHANGED <<scenario, size, present, changes, headers, announced, partial, left, divided,
                     at, behind, sent, finals, cleaned>>
  BY DeliveryBasics DEF Begin, plan, file
<1>2. SetsMore(r)
  <2>1. Sets(r)
    BY <1>1, FileBasics DEF Sets
  <2>2. QED
    BY <1>1, <2>1, DeliveryBasics DEF SetsMore
<1>3. LengthInv'
  BY <1>1, <1>2, LengthStays
<1>4. ASSUME Alone(r) PROVE Delivery(r)'
  <2>1. /\ Delivery(r) /\ RequestEnd(r) /\ size \in Nat /\ (changes = 0 => present)
    BY <1>4, DeliveryBasics
  <2>2. ~partial[r] /\ sent[r] = <<>> /\ at[r] = Blank /\ ~divided[r] /\ behind[r] = FirstByte
    BY <1>1, <2>1 DEF RequestEnd, Delivery
  <2>3. PICK s : s = sent[r]
    OBVIOUS
  <2>4. Bytes(s) = {} /\ Rising(s) /\ DOMAIN s \subseteq Nat
    BY <2>2, <2>3, NothingSent
  <2>5. seen'[r] \in Nat /\ (changes' = 0 => seen'[r] = size')
    BY <1>1, <2>1 DEF Delivery
  <2>6. changes = 0 => phase'[r] = "ready"
    BY <1>1, <2>1
  <2>7. Promised(r)'
    BY <1>1, <2>2 DEF Promised
  <2>8. QED
    BY <1>1, <2>2, <2>3, <2>4, <2>5, <2>6, <2>7 DEF Delivery
<1>5. QED
  BY <1>2, <1>3, <1>4, DeliverySteps

\* An answer without a part: the whole file, or a refusal.
LEMMA WholeDelivers ==
  ASSUME FileIInv, DeliveryInv, NEW r \in Requests, Answer(r),
         AnswerWhole(r) \/ Refuse(r),
         ~Asked(r).head => Parsed(Asked(r).range, WithLength(r).length - 1).verdict # "ok"
  PROVE  DeliveryInv'
<1>1. /\ phase[r] = "ready" /\ phase'[r] \in {"announcing", "failed"}
      /\ DOMAIN phase' = Requests /\ \A q \in Requests \ {r} : phase'[q] = phase[q]
      /\ headers' = WithLength(r)
      /\ DOMAIN announced' = Requests /\ \A q \in Requests \ {r} : announced'[q] = announced[q]
      /\ phase'[r] = "announcing" => announced'[r] = headers'
      /\ UNCHANGED <<partial, left>>
  BY DeliveryBasics DEF AnswerWhole, Refuse, Answer
<1>2. /\ DOMAIN seen' = Requests /\ \A q \in Requests \ {r} : seen'[q] = seen[q]
      /\ seen'[r] = WithLength(r).length
      /\ UNCHANGED <<scenario, size, present, changes, divided, at, behind, sent, finals,
                     cleaned>>
  BY DeliveryBasics DEF Answer, file
<1>3. /\ RequestEnd(r) /\ ~partial[r] /\ sent[r] = <<>>
  BY <1>1, DeliveryBasics DEF RequestEnd
<1>4. headers.length \in Nat => headers'.length = headers.length
  <2>1. WithLength(r).length = IF headers.length = Blank THEN seen[r] ELSE headers.length
    BY FileBasics DEF WithLength, HeaderInv
  <2>2. Blank \notin Nat
    BY DEF Blank
  <2>3. QED
    BY <1>1, <2>1, <2>2
<1>5. SetsMore(r)
  <2>1. Sets(r)
    BY <1>1, <1>2, FileBasics DEF Sets
  <2>2. QED
    BY <1>1, <1>2, <1>4, <2>1, DeliveryBasics DEF SetsMore
<1>6. LengthInv'
  <2> SUFFICES ASSUME NoPart'
               PROVE  /\ headers'.length \in Nat
                      /\ changes' = 0 => headers'.length = size'
    BY DEF LengthInv
  <2>1. Alone(r)
    <3>1. Requests' = Requests
      BY <1>2 DEF Requests
    <3>2. QED
      BY <1>1, <3>1 DEF NoPart, Alone
  <2>2. QED
    BY <1>1, <1>2, <1>3, <2>1, LengthTaken
<1>7. ASSUME Alone(r) PROVE Delivery(r)'
  <2>1. PICK n : n = WithLength(r).length
    OBVIOUS
  <2>2. n \in Nat /\ (changes = 0 => n = size)
    BY <1>3, <1>7, <2>1, LengthTaken
  <2>3. Delivery(r)
    BY <1>7, DeliveryBasics
  <2>4. at[r] = Blank /\ ~divided[r] /\ behind[r] = FirstByte
    BY <1>1, <2>3 DEF Delivery
  <2>5. PICK s : s = sent[r]
    OBVIOUS
  <2>6. Bytes(s) = {} /\ Rising(s) /\ DOMAIN s \subseteq Nat
    BY <1>3, <2>5, NothingSent
  <2>7. Promised(r)'
    <3>1. phase'[r] \in {"announcing", "sending", "done"} \/ sent'[r] # <<>> =>
            headers'.length = n /\ announced'[r].length = n
      BY <1>1, <1>2, <1>3, <2>1
    <3>2. seen'[r] = n /\ ~partial'[r]
      BY <1>1, <1>2, <1>3, <2>1
    <3>3. QED
      BY <3>1, <3>2 DEF Promised
  <2>8. Asked(r)' = Asked(r) /\ (~Asked(r).head => OneRangeIsServed(r)')
    <3>1. Asked(r)' = Asked(r)
      BY <1>2 DEF Asked
    <3>2. ASSUME ~Asked(r).head, NEW a \in 0 .. n - 1, NEW b \in 0 .. n - 1, a <= b,
                 Asked(r).range = <<[first |-> a, last |-> b]>>
          PROVE  FALSE
      <4>1. PICK max \in Int : max = n - 1
        BY <2>2
      <4>2. max >= -1 /\ a \in 0 .. max /\ b \in 0 .. max
        BY <2>2, <4>1
      <4>3. PICK d : d = [first |-> a, last |-> b]
        OBVIOUS
      <4>4. PICK defs : defs = <<d>> /\ defs = Asked(r).range
        BY <3>2, <4>3
      <4>5. scenario \in Scenarios
        BY DeliveryBasics
      <4>6. Parsed(defs, max).verdict = "ok"
        BY <3>2, <4>2, <4>3, <4>4, <4>5, OneRange
      <4>7. QED
        BY <2>1, <3>2, <4>1, <4>4, <4>6
    <3>3. ~Asked(r).head => OneRangeIsServed(r)'
      BY <1>2, <2>1, <3>1, <3>2 DEF OneRangeIsServed
    <3>4. QED
      BY <3>1, <3>3
  <2>9. seen'[r] \in Nat /\ (changes' = 0 => seen'[r] = size')
    BY <1>2, <2>1, <2>2
  <2>10. QED
    BY <1>1, <1>2, <1>3, <2>4, <2>5, <2>6, <2>7, <2>8, <2>9 DEF Delivery
<1>8. QED
  BY <1>5, <1>6, <1>7, DeliverySteps

\* What an answer with a part means to send, of a file of n bytes.
Intended(r, n) ==
  IF scenario.mode = "single"
  THEN Min(AllOf(Asked(r).range, n)) .. Max(AllOf(Asked(r).range, n))
  ELSE AllOf(Asked(r).range, n)

Taken(r, result) ==
  IF InParts(r, result.ranges) THEN result.ranges ELSE <<Hull(result.ranges)>>

\* The ranges l are a plan for the bytes m.
PlanFor(l, m, n) ==
  /\ l \in Seq(Stretch) /\ Covered(l) = m /\ m \subseteq 0 .. n - 1
  /\ scenario.mode # "lenient" => Gapped(l)
  /\ scenario.mode = "strict" => \A j \in DOMAIN l : l[j].start <= l[j].stop
  /\ scenario.mode = "lenient" => Stepped(l, n - 1)

\* The ranges that an answer takes are a plan for what it means.
LEMMA PartPlan ==
  ASSUME FileIInv, DeliveryInv, NEW r \in Requests, NEW n \in Nat, NEW result,
         result = Parsed(Asked(r).range, n - 1), result.verdict = "ok"
  PROVE  /\ PlanFor(Taken(r, result), Intended(r, n), n)
         /\ scenario.mode = "strict" => result.size = Cardinality(Intended(r, n))
         /\ (scenario.mode = "strict" /\ ~InParts(r, result.ranges)) => ~(Len(result.ranges) > 1)
         /\ ~InParts(r, result.ranges) =>
              Intended(r, n) = Hull(result.ranges).start .. Hull(result.ranges).stop
<1>1. PICK max \in Int : max = n - 1 /\ max >= -1 /\ max + 1 = n
  OBVIOUS
<1>2. PICK defs : defs = Asked(r).range
  OBVIOUS
<1>3. scenario \in Scenarios
  BY DeliveryBasics
<1>4. defs \in Seq(Definitions) /\ scenario.mode \in {"strict", "lenient", "single"}
  BY <1>2, <1>3, FileAssumption DEF Asked, Requests
<1>5. result = Parsed(defs, max)
  BY <1>1, <1>2
<1>6. PICK ranges : ranges = result.ranges
  OBVIOUS
<1>7. /\ ranges \in Seq(Piece(max)) /\ ranges # <<>>
      /\ Covered(ranges) = AllOf(defs, max + 1)
      /\ scenario.mode = "strict" => /\ Gapped(ranges)
                                     /\ result.size = Cardinality(Covered(ranges))
                                     /\ Len(ranges) <= Len(defs)
      /\ scenario.mode # "strict" => /\ Covered(ranges) \subseteq Overall(ranges)
                                     /\ Stepped(ranges, max)
  BY <1>1, <1>3, <1>4, <1>5, <1>6, ParsedMeans
<1>8. PICK all : all = AllOf(Asked(r).range, n)
  OBVIOUS
<1>9. all = Covered(ranges)
  BY <1>1, <1>2, <1>7, <1>8
<1>10. all \subseteq 0 .. max
  BY <1>7, <1>9, CoveredInFile
<1>11. PICK m : m = Intended(r, n)
  OBVIOUS
<1>12. m = IF scenario.mode = "single" THEN Min(all) .. Max(all) ELSE all
  BY <1>8, <1>11 DEF Intended
<1>13. PICK h : h = Hull(ranges)
  OBVIOUS
<1>14. Len(ranges) \in Nat
  BY <1>7, LenProperties
<1>15. CASE InParts(r, ranges)
  <2>1. scenario.mode # "single"
    BY <1>15 DEF InParts
  <2>2. m = Covered(ranges)
    BY <1>9, <1>12, <2>1
  <2>3. ranges \in Seq(Stretch) /\ \A j \in DOMAIN ranges : ranges[j].start <= ranges[j].stop
    BY <1>7, PiecesStretch
  <2>4. PlanFor(ranges, m, n)
    BY <1>1, <1>4, <1>7, <1>9, <1>10, <2>1, <2>2, <2>3 DEF PlanFor
  <2>5. Taken(r, result) = ranges
    BY <1>6, <1>15 DEF Taken
  <2>6. QED
    BY <1>6, <1>7, <1>11, <1>15, <2>2, <2>4, <2>5
<1>16. CASE ~InParts(r, ranges)
  <2>1. scenario.mode # "single" => Len(ranges) <= 1
    <3>1. ASSUME scenario.mode = "strict" PROVE Len(ranges) <= 1
      <4>1. ~(Len(defs) > 1)
        BY <1>2, <1>16, <3>1 DEF InParts
      <4>2. Len(defs) \in Nat
        BY <1>4, LenProperties
      <4>3. QED
        BY <1>7, <1>14, <3>1, <4>1, <4>2
    <3>2. ASSUME scenario.mode = "lenient" PROVE Len(ranges) <= 1
      <4>1. ~(Len(ranges) > 1)
        BY <1>16, <3>2 DEF InParts
      <4>2. QED
        BY <1>14, <4>1
    <3>3. QED
      BY <1>4, <3>1, <3>2
  <2>2. h \in Piece(max) /\ m = h.start .. h.stop
    <3>1. CASE scenario.mode = "single"
      <4>1. Covered(ranges) \subseteq Overall(ranges)
        BY <1>7, <3>1
      <4>2. h \in Piece(max) /\ Min(Covered(ranges)) .. Max(Covered(ranges)) = h.start .. h.stop
        BY <1>7, <1>13, <4>1, HullMeans
      <4>3. QED
        BY <1>9, <1>12, <3>1, <4>2
    <3>2. CASE scenario.mode # "single"
      <4>1. h \in Piece(max) /\ Covered(ranges) = h.start .. h.stop
        BY <1>7, <1>13, <2>1, <3>2, HullMeans
      <4>2. QED
        BY <1>9, <1>12, <3>2, <4>1
    <3>3. QED
      BY <3>1, <3>2
  <2>3. h \in Stretch /\ h.start <= h.stop /\ h.stop <= max /\ h.start \in Nat /\ h.stop \in Nat
    BY <2>2 DEF Piece, Stretch
  <2>4. PICK l : l = <<h>>
    OBVIOUS
  <2>5. /\ l \in Seq(Stretch) /\ Covered(l) = h.start .. h.stop /\ Gapped(l)
        /\ \A j \in DOMAIN l : l[j] = h
    BY <2>3, <2>4, OneStretch
  <2>6. m \subseteq 0 .. n - 1
    BY <1>1, <2>2, <2>3
  <2>7. PlanFor(l, m, n)
    <3>1. Stepped(l, n - 1)
      BY <1>1, <2>3, <2>4, OneStepped
    <3>2. QED
      BY <2>2, <2>3, <2>5, <2>6, <3>1 DEF PlanFor
  <2>8. Taken(r, result) = l
    BY <1>6, <1>13, <1>16, <2>4 DEF Taken
  <2>9. scenario.mode = "strict" => ~(Len(ranges) > 1) /\ result.size = Cardinality(m)
    <3>1. scenario.mode = "strict" => m = Covered(ranges)
      BY <1>9, <1>12
    <3>2. scenario.mode = "strict" => ~(Len(ranges) > 1)
      BY <1>14, <2>1
    <3>3. QED
      BY <1>7, <2>1, <3>1, <3>2
  <2>10. QED
    BY <1>6, <1>11, <1>13, <1>16, <2>2, <2>7, <2>8, <2>9
<1>17. QED
  BY <1>15, <1>16

\* What is planned is on its way, when nothing was sent.
LEMMA PlanStarts ==
  ASSUME NEW l, NEW m, NEW n, NEW s, s = <<>>, PlanFor(l, m, n), NEW last, last = FirstByte
  PROVE  /\ Underway(m, l, Blank, s) /\ Exact(m, l, Blank, s) /\ Settled(l, last)
         /\ scenario.mode # "lenient" => InRow(l, Blank, s)
         /\ scenario.mode = "strict" => Parting(m, l, Blank, s)
         /\ scenario.mode = "lenient" => Steady(m, l, Blank, s, last, n - 1)
<1>1. l \in Seq(Stretch) /\ m = Covered(l)
  BY DEF PlanFor
<1>2. /\ Underway(m, l, Blank, s) /\ Exact(m, l, Blank, s)
      /\ Gapped(l) => InRow(l, Blank, s)
      /\ (Gapped(l) /\ \A j \in DOMAIN l : l[j].start <= l[j].stop) => Parting(m, l, Blank, s)
  BY <1>1, Planned
<1>3. Settled(l, last)
  BY DEF Settled, FirstByte
<1>4. PICK top : top = n - 1
  OBVIOUS
<1>5. scenario.mode = "lenient" => Steady(m, l, Blank, s, last, top)
  <2>1. scenario.mode = "lenient" => Stepped(l, top)
    BY <1>4 DEF PlanFor
  <2>2. QED
    BY <1>1, <2>1, SteadyPlanned
<1>6. QED
  BY <1>2, <1>3, <1>4, <1>5 DEF PlanFor

\* An answer with a part: its headers promise what is planned.
LEMMA PartDelivers ==
  ASSUME FileIInv, DeliveryInv, NEW r \in Requests, Answer(r), ~Asked(r).head,
         NEW result, result = Parsed(Asked(r).range, WithLength(r).length - 1),
         result.verdict = "ok", AnswerPart(r, result)
  PROVE  DeliveryInv'
<1>1. /\ phase[r] = "ready" /\ phase'[r] = "announcing"
      /\ DOMAIN phase' = Requests /\ \A q \in Requests \ {r} : phase'[q] = phase[q]
      /\ left'[r] = Taken(r, result)
      /\ DOMAIN left' = Requests /\ \A q \in Requests \ {r} : left'[q] = left[q]
      /\ partial'[r] = TRUE /\ partial' \in [Requests -> BOOLEAN]
      /\ \A q \in Requests \ {r} : partial'[q] = partial[q]
      /\ announced'[r] = headers'
      /\ DOMAIN announced' = Requests /\ \A q \in Requests \ {r} : announced'[q] = announced[q]
  BY DeliveryBasics DEF AnswerPart, Answer, Taken
<1>2. /\ DOMAIN seen' = Requests /\ \A q \in Requests \ {r} : seen'[q] = seen[q]
      /\ seen'[r] = WithLength(r).length
      /\ UNCHANGED <<scenario, size, present, changes, divided, at, behind, sent, finals,
                     cleaned>>
  BY DeliveryBasics DEF Answer, file
<1>3. RequestEnd(r) /\ ~partial[r] /\ sent[r] = <<>>
  BY <1>1, DeliveryBasics DEF RequestEnd
<1>4. SetsMore(r)
  <2>1. Sets(r)
    BY <1>1, <1>2, FileBasics DEF Sets
  <2>2. QED
    BY <1>1, <1>2, <2>1, DeliveryBasics DEF SetsMore
<1>5. LengthInv'
  <2>1. Requests' = Requests
    BY <1>2 DEF Requests
  <2>2. ~NoPart'
    BY <1>1, <2>1 DEF NoPart
  <2>3. QED
    BY <1>4, <2>2, LengthStays
<1>6. ASSUME Alone(r) PROVE Delivery(r)'
  <2>1. PICK n : n = WithLength(r).length
    OBVIOUS
  <2>2. n \in Nat /\ (changes = 0 => n = size) /\ NoPart
    BY <1>3, <1>6, <2>1, LengthTaken
  <2>3. Delivery(r) /\ headers.range = NoRange /\ DOMAIN headers = {"status", "length", "range"}
    BY <1>6, <2>2, DeliveryBasics DEF NoPart, HeaderInv
  <2>4. at[r] = Blank /\ ~divided[r] /\ behind[r] = FirstByte
    BY <1>1, <2>3 DEF Delivery
  <2>5. PICK s : s = sent[r]
    OBVIOUS
  <2>6. Bytes(s) = {} /\ Rising(s) /\ DOMAIN s \subseteq Nat
    BY <1>3, <2>5, NothingSent
  <2>7. PICK m : m = Intended(r, n)
    OBVIOUS
  <2>8. Meant(r)' = m
    BY <1>1, <1>2, <2>1, <2>7 DEF Meant, Intended, AllOf, Asked
  <2>9. PICK l : l = Taken(r, result)
    OBVIOUS
  <2>10. /\ PlanFor(l, m, n)
         /\ scenario.mode = "strict" => result.size = Cardinality(m)
         /\ (scenario.mode = "strict" /\ ~InParts(r, result.ranges)) => ~(Len(result.ranges) > 1)
         /\ ~InParts(r, result.ranges) =>
              m = Hull(result.ranges).start .. Hull(result.ranges).stop
    <3>1. result = Parsed(Asked(r).range, n - 1)
      BY <2>1
    <3>2. PlanFor(Taken(r, result), Intended(r, n), n)
      BY <2>2, <3>1, PartPlan
    <3>3. scenario.mode = "strict" => result.size = Cardinality(Intended(r, n))
      BY <2>2, <3>1, PartPlan
    <3>4. (scenario.mode = "strict" /\ ~InParts(r, result.ranges)) => ~(Len(result.ranges) > 1)
      BY <2>2, <3>1, PartPlan
    <3>5. ~InParts(r, result.ranges) =>
              Intended(r, n) = Hull(result.ranges).start .. Hull(result.ranges).stop
      BY <2>2, <3>1, PartPlan
    <3>6. QED
      BY <2>7, <2>9, <3>2, <3>3, <3>4, <3>5
  <2>11. PICK last : last = behind[r]
    OBVIOUS
  <2>12. OnItsWay(r, TRUE)'
    <3>1. last = FirstByte /\ s = <<>>
      BY <1>3, <2>4, <2>5, <2>11
    <3>2. /\ Underway(m, l, Blank, s) /\ Exact(m, l, Blank, s) /\ Settled(l, last)
          /\ scenario.mode # "lenient" => InRow(l, Blank, s)
          /\ scenario.mode = "strict" => Parting(m, l, Blank, s)
          /\ scenario.mode = "lenient" => Steady(m, l, Blank, s, last, n - 1)
      BY <2>10, <3>1, PlanStarts
    <3>3. /\ Meant(r)' = m /\ left'[r] = l /\ at'[r] = Blank /\ sent'[r] = s
          /\ behind'[r] = last /\ seen'[r] = n /\ scenario' = scenario
      BY <1>1, <1>2, <2>1, <2>4, <2>5, <2>8, <2>9, <2>11
    <3>4. QED
      BY <3>2, <3>3 DEF OnItsWay, InOrderSent
  <2>13. /\ InParts(r, result.ranges) => headers'.range = NoRange /\ headers'.length = result.size
         /\ ~InParts(r, result.ranges) =>
              /\ headers'.range = Hull(result.ranges)
              /\ ~(Len(result.ranges) > 1) => headers'.length = result.size
    BY <2>3 DEF AnswerPart
  <2>14. Promised(r)'
    <3>1. scenario.mode = "strict" => headers'.length = Cardinality(m)
      BY <2>10, <2>13
    <3>2. headers'.range # NoRange => m = headers'.range.start .. headers'.range.stop
      BY <2>10, <2>13
    <3>3. m \subseteq 0 .. n - 1
      BY <2>10 DEF PlanFor
    <3>4. seen'[r] = n /\ announced'[r] = headers' /\ partial'[r] /\ scenario' = scenario
      BY <1>1, <1>2, <2>1
    <3>5. QED
      BY <2>8, <3>1, <3>2, <3>3, <3>4 DEF Promised
  <2>15. OneRangeIsServed(r)'
    BY <1>1 DEF OneRangeIsServed
  <2>16. seen'[r] \in Nat /\ (changes' = 0 => seen'[r] = size')
    BY <1>2, <2>1, <2>2
  <2>17. QED
    BY <1>1, <1>2, <1>3, <2>4, <2>5, <2>6, <2>8, <2>12, <2>14, <2>15, <2>16 DEF Delivery
<1>7. QED
  BY <1>4, <1>5, <1>6, DeliverySteps

\* An answer, of either kind.
LEMMA AnswerDelivers ==
  ASSUME FileIInv, DeliveryInv, NEW r \in Requests, Answer(r)
  PROVE  DeliveryInv'
<1>1. PICK result : /\ result = IF Asked(r).head THEN NoResult
                                ELSE Parsed(Asked(r).range, WithLength(r).length - 1)
                    /\ \/ result.verdict = "none" /\ AnswerWhole(r)
                       \/ result.verdict = "over" /\ Refuse(r)
                       \/ result.verdict = "ok" /\ AnswerPart(r, result)
  BY DEF Answer
<1>2. CASE result.verdict = "ok"
  <2>1. AnswerPart(r, result)
    BY <1>1, <1>2
  <2>2. ~Asked(r).head
    BY <1>1, <1>2 DEF NoResult, Result
  <2>3. QED
    BY <1>1, <1>2, <2>1, <2>2, PartDelivers
<1>3. CASE result.verdict # "ok"
  BY <1>1, <1>3, WholeDelivers
<1>4. QED
  BY <1>2, <1>3

\* A step of a request that was answered.
Runs(r) ==
  /\ Sets(r) /\ partial' = partial
  /\ UNCHANGED <<scenario, size, present, changes, headers, seen, announced>>
  /\ DOMAIN at' = Requests /\ \A q \in Requests \ {r} : at'[q] = at[q]
  /\ DOMAIN behind' = Requests /\ \A q \in Requests \ {r} : behind'[q] = behind[q]
  /\ phase[r] \in {"announcing", "sending"}
  /\ phase'[r] \in {"sending", "failed", "broken", "done"}

\* What it comes to.
Goes(r) ==
  /\ phase[r] = "sending" => OnItsWay(r, divided[r])
  /\ Told => DOMAIN sent[r] \subseteq Nat
  /\ (Told /\ (partial[r] \/ ~scenario.pathsend)) =>
       Bytes(sent[r]) \subseteq Meant(r) /\ Rising(sent[r])
  /\ (changes = 0 /\ phase[r] = "done" /\ ~Asked(r).head) =>
       /\ Bytes(sent[r]) = Meant(r) /\ Rising(sent[r])
       /\ (scenario.mode = "strict" /\ divided[r]) => Parted(sent[r], Meant(r))

\* Such a step keeps the invariant, if this is what it comes to.
LEMMA RunDelivers ==
  ASSUME FileIInv, DeliveryInv, NEW r \in Requests, Runs(r), Alone(r) => Goes(r)'
  PROVE  DeliveryInv'
<1>1. SetsMore(r)
  <2>1. DOMAIN seen' = Requests /\ DOMAIN announced' = Requests
    BY DeliveryBasics DEF Runs
  <2>2. QED
    BY <2>1 DEF SetsMore, Runs
<1>2. LengthInv'
  BY <1>1, LengthStays DEF Runs
<1>3. ASSUME Alone(r) PROVE Delivery(r)'
  <2>1. Delivery(r) /\ Goes(r)'
    BY <1>3, DeliveryBasics
  <2>2. /\ scenario' = scenario /\ seen' = seen /\ partial' = partial /\ size' = size
        /\ changes' = changes /\ headers' = headers /\ announced' = announced
        /\ phase[r] \in {"announcing", "sending"}
        /\ phase'[r] \in {"sending", "failed", "broken", "done"}
    BY DEF Runs
  <2>3. Meant(r)' = Meant(r) /\ Asked(r)' = Asked(r)
    BY <2>2, MeantKept
  <2>4. Promised(r)'
    BY <2>1, <2>2, <2>3 DEF Promised, Delivery
  <2>5. (changes' = 0 /\ ~Asked(r)'.head) => OneRangeIsServed(r)'
    BY <2>1, <2>2, <2>3 DEF OneRangeIsServed, Delivery
  <2>6. seen'[r] \in Nat /\ (changes' = 0 => seen'[r] = size')
    BY <2>1, <2>2 DEF Delivery
  <2>7. QED
    BY <2>1, <2>2, <2>4, <2>5, <2>6 DEF Delivery, Goes
<1>4. QED
  BY <1>1, <1>2, <1>3, DeliverySteps

\* What is known of a request that runs.
LEMMA RunBasics ==
  ASSUME FileIInv, DeliveryInv, NEW r \in Requests, Runs(r), Alone(r)
  PROVE  /\ Delivery(r) /\ RequestEnd(r) /\ Promised(r)
         /\ Meant(r)' = Meant(r) /\ Asked(r)' = Asked(r)
         /\ seen[r] \in Nat /\ (changes = 0 => seen[r] = size) /\ size \in Nat
         /\ ~partial[r] => Meant(r) = 0 .. seen[r] - 1 /\ headers.length = seen[r]
         /\ Meant(r) \subseteq 0 .. seen[r] - 1
         /\ phase[r] = "announcing" =>
              sent[r] = <<>> /\ at[r] = Blank /\ ~divided[r] /\ behind[r] = FirstByte
<1>1. Delivery(r) /\ RequestEnd(r) /\ size \in Nat
  BY DeliveryBasics
<1>2. Promised(r)
  BY <1>1 DEF Delivery
<1>3. Meant(r)' = Meant(r) /\ Asked(r)' = Asked(r)
  BY MeantKept DEF Runs
<1>4. seen[r] \in Nat /\ (changes = 0 => seen[r] = size)
  BY <1>1 DEF Delivery
<1>5. ~partial[r] => Meant(r) = 0 .. seen[r] - 1 /\ headers.length = seen[r]
  <2>1. ~partial[r] => Meant(r) = 0 .. seen[r] - 1
    BY MeantIs
  <2>2. ~partial[r] => headers.length = seen[r]
    BY <1>2 DEF Promised, Runs
  <2>3. QED
    BY <2>1, <2>2
<1>6. Meant(r) \subseteq 0 .. seen[r] - 1
  BY <1>2, <1>5 DEF Promised
<1>7. phase[r] = "announcing" =>
        sent[r] = <<>> /\ at[r] = Blank /\ ~divided[r] /\ behind[r] = FirstByte
  BY <1>1 DEF Delivery, RequestEnd
<1>8. QED
  BY <1>1, <1>2, <1>3, <1>4, <1>5, <1>6, <1>7

\* The end of the headers, of the body, or a failure.
LEMMA EndsDeliver ==
  ASSUME FileIInv, DeliveryInv, NEW r \in Requests, EndHeaders(r) \/ Break(r) \/ Finish(r)
  PROVE  DeliveryInv'
<1>1. /\ UNCHANGED <<scenario, size, present, changes, headers, seen, announced, partial, left,
                     divided, at, behind, sent>>
      /\ phase[r] \in {"announcing", "sending"}
      /\ EndHeaders(r) => phase[r] = "announcing" /\ Asked(r).head
      /\ Finish(r) => phase[r] = "sending" /\ left[r] = <<>>
  BY DEF EndHeaders, Break, Finish, file, plan
<1>2. cleaned[r] = 0
  BY <1>1, DeliveryBasics DEF RequestEnd
<1>3. /\ DOMAIN phase' = Requests /\ \A q \in Requests \ {r} : phase'[q] = phase[q]
      /\ finals' \in [Requests -> Nat] /\ cleaned' \in [Requests -> {0, 1}]
      /\ \A q \in Requests \ {r} : finals'[q] = finals[q] /\ cleaned'[q] = cleaned[q]
      /\ phase'[r] \in {"failed", "broken", "done"}
      /\ Break(r) => phase'[r] # "done"
  <2>1. finals' \in [Requests -> Nat] /\ \A q \in Requests \ {r} : finals'[q] = finals[q]
    BY DeliveryBasics DEF EndHeaders, Break, Finish
  <2>2. \/ cleaned' = [cleaned EXCEPT ![r] = @ + 1]
        \/ cleaned' = cleaned
    BY DEF EndHeaders, Break, Finish, End
  <2>3. cleaned' \in [Requests -> {0, 1}] /\ \A q \in Requests \ {r} : cleaned'[q] = cleaned[q]
    BY <1>2, <2>2, FileBasics
  <2>4. \E how \in {"failed", "broken", "done"} :
          phase' = [phase EXCEPT ![r] = how] /\ (Break(r) => how # "done")
    BY DEF EndHeaders, Break, Finish, End
  <2>5. QED
    BY <2>1, <2>3, <2>4, FileBasics
<1>4. Runs(r)
  <2>1. Sets(r)
    BY <1>1, <1>3, FileBasics DEF Sets
  <2>2. QED
    BY <1>1, <1>3, <2>1, DeliveryBasics DEF Runs
<1>5. ASSUME Alone(r) PROVE Goes(r)'
  <2>1. Delivery(r) /\ Meant(r)' = Meant(r) /\ Asked(r)' = Asked(r)
    BY <1>4, <1>5, RunBasics
  <2>2. ASSUME Finish(r), changes = 0
        PROVE  /\ Bytes(sent[r]) = Meant(r) /\ Rising(sent[r])
               /\ (scenario.mode = "strict" /\ divided[r]) => Parted(sent[r], Meant(r))
    <3>1. OnItsWay(r, divided[r]) /\ left[r] = <<>>
      BY <1>1, <2>1, <2>2 DEF Delivery
    <3>2. PICK none : none = left[r] /\ none = <<>>
      BY <3>1
    <3>3. Covered(none) = {}
      BY <3>2 DEF Covered
    <3>4. Exact(Meant(r), none, at[r], sent[r]) /\ Rising(sent[r])
      <4>1. CASE scenario.mode # "lenient"
        BY <2>2, <3>1, <3>2, <4>1 DEF OnItsWay, InOrderSent, InRow
      <4>2. CASE scenario.mode = "lenient"
        <5>1. Steady(Meant(r), none, at[r], sent[r], behind[r], seen[r] - 1)
          BY <2>2, <3>1, <3>2, <4>2 DEF OnItsWay
        <5>2. QED
          BY <3>2, <5>1 DEF Steady, InStep, Spent
      <4>3. QED
        BY <4>1, <4>2
    <3>5. Bytes(sent[r]) \cup Covered(none) = Meant(r)
      BY <3>4 DEF Exact
    <3>6. (scenario.mode = "strict" /\ divided[r]) => Parted(sent[r], Meant(r))
      BY <2>2, <3>1 DEF OnItsWay, InOrderSent, Parting
    <3>7. QED
      BY <3>3, <3>4, <3>5, <3>6
  <2>3. /\ Told => DOMAIN sent[r] \subseteq Nat
        /\ (Told /\ (partial[r] \/ ~scenario.pathsend)) =>
             Bytes(sent[r]) \subseteq Meant(r) /\ Rising(sent[r])
    BY <2>1 DEF Delivery
  <2>4. Told' = Told
    BY <1>1 DEF Told
  <2>5. QED
    BY <1>1, <1>3, <2>1, <2>2, <2>3, <2>4 DEF Goes
<1>6. QED
  BY <1>4, <1>5, RunDelivers

\* The server sends the file: from its first byte to its last, now.
LEMMA PathBytes ==
  ASSUME NEW n \in Nat, NEW s, s = [i \in 1..n |-> i - 1]
  PROVE  Bytes(s) = 0 .. n - 1 /\ Rising(s) /\ DOMAIN s \subseteq Nat
<1>1. DOMAIN s = 1..n /\ \A i \in 1..n : s[i] = i - 1 /\ s[i] # PartHeader
  BY DEF PartHeader
<1>2. Rising(s)
  BY <1>1 DEF Rising
<1>3. Bytes(s) \subseteq 0 .. n - 1
  BY <1>1 DEF Bytes
<1>4. ASSUME NEW b \in 0 .. n - 1
      PROVE  b \in Bytes(s)
  <2>1. b + 1 \in 1..n /\ (b + 1) - 1 = b
    OBVIOUS
  <2>2. PICK i : i = b + 1 /\ i \in 1..n
    BY <2>1
  <2>3. s[i] = b /\ s[i] # PartHeader
    BY <1>1, <2>2
  <2>4. QED
    BY <1>1, <2>2, <2>3 DEF Bytes
<1>5. QED
  <2>1. DOMAIN s \subseteq Nat
    BY <1>1
  <2>2. QED
    BY <1>2, <1>3, <1>4, <2>1

\* The server sends the file: nothing is said of that, unless it has not changed.
LEMMA PathDelivers ==
  ASSUME FileIInv, DeliveryInv, NEW r \in Requests, SendPath(r)
  PROVE  DeliveryInv'
<1>1. /\ UNCHANGED <<scenario, size, present, changes, headers, seen, announced, partial, left,
                     divided, at, behind>>
      /\ phase[r] = "announcing" /\ ~Asked(r).head /\ ~partial[r] /\ scenario.pathsend
  BY DEF SendPath, file, plan
<1>2. cleaned[r] = 0
  BY <1>1, DeliveryBasics DEF RequestEnd
<1>3. PICK s : s = [i \in 1..size |-> i - 1]
  OBVIOUS
<1>4. /\ DOMAIN phase' = Requests /\ \A q \in Requests \ {r} : phase'[q] = phase[q]
      /\ finals' \in [Requests -> Nat] /\ cleaned' \in [Requests -> {0, 1}]
      /\ \A q \in Requests \ {r} : finals'[q] = finals[q] /\ cleaned'[q] = cleaned[q]
      /\ phase'[r] = "done" /\ sent'[r] = s
      /\ DOMAIN sent' = Requests /\ \A q \in Requests \ {r} : sent'[q] = sent[q]
  BY <1>2, <1>3, DeliveryBasics DEF SendPath, End
<1>5. Runs(r)
  <2>1. Sets(r)
    BY <1>1, <1>4, FileBasics DEF Sets
  <2>2. QED
    BY <1>1, <1>4, <2>1, DeliveryBasics DEF Runs
<1>6. ASSUME Alone(r) PROVE Goes(r)'
  <2>1. /\ Meant(r)' = Meant(r) /\ size \in Nat /\ ~divided[r]
        /\ Meant(r) = 0 .. seen[r] - 1 /\ (changes = 0 => seen[r] = size)
    BY <1>1, <1>5, <1>6, RunBasics
  <2>2. Bytes(s) = 0 .. size - 1 /\ Rising(s) /\ DOMAIN s \subseteq Nat
    BY <1>3, <2>1, PathBytes
  <2>3. QED
    BY <1>1, <1>4, <2>1, <2>2 DEF Goes
<1>7. QED
  BY <1>5, <1>6, RunDelivers

\* The whole of a file of n bytes is planned.
LEMMA WholePlanned ==
  ASSUME NEW n \in Nat, NEW x, x = [start |-> 0, stop |-> n - 1], NEW l, l = <<x>>,
         NEW s, s = <<>>, NEW last, last = FirstByte
  PROVE  /\ Underway(0 .. n - 1, l, Blank, s) /\ InRow(l, Blank, s)
         /\ Exact(0 .. n - 1, l, Blank, s) /\ Settled(l, last)
         /\ Steady(0 .. n - 1, l, Blank, s, last, n - 1)
<1>1. x \in Stretch /\ x.start = 0 /\ x.stop = n - 1
  BY DEF Stretch
<1>2. l \in Seq(Stretch) /\ Covered(l) = x.start .. x.stop /\ Gapped(l)
  BY <1>1, OneStretch
<1>3. PICK m : m = Covered(l)
  OBVIOUS
<1>4. /\ Underway(m, l, Blank, s) /\ InRow(l, Blank, s) /\ Exact(m, l, Blank, s)
      /\ Settled(l, last) /\ Steady(m, l, Blank, s, last, n - 1)
  <2>1. Underway(m, l, Blank, s) /\ InRow(l, Blank, s) /\ Exact(m, l, Blank, s)
    BY <1>2, <1>3, Planned
  <2>2. PICK top \in Int : top = n - 1
    OBVIOUS
  <2>3. Stepped(l, top)
    BY <1>1, <2>2, OneStepped
  <2>4. Settled(l, last) /\ Steady(m, l, Blank, s, last, top)
    BY <1>2, <1>3, <2>3, SteadyPlanned
  <2>5. QED
    BY <2>1, <2>2, <2>4
<1>5. m = 0 .. n - 1
  BY <1>1, <1>2, <1>3
<1>6. QED
  BY <1>4, <1>5

\* The file is opened: the plan is the one announced, or the whole file.
LEMMA OpenDelivers ==
  ASSUME FileIInv, DeliveryInv, NEW r \in Requests, Open(r)
  PROVE  DeliveryInv'
<1>1. /\ UNCHANGED <<scenario, size, present, changes, headers, seen, announced, partial, at,
                     behind, sent, finals>>
      /\ phase[r] = "announcing" /\ ~Asked(r).head /\ (partial[r] \/ ~scenario.pathsend)
  BY DEF Open, file
<1>2. cleaned[r] = 0
  BY <1>1, DeliveryBasics DEF RequestEnd
<1>3. PICK x : x = [start |-> 0, stop |-> headers.length - 1]
  OBVIOUS
<1>4. /\ left'[r] = IF partial[r] THEN left[r] ELSE <<x>>
      /\ DOMAIN left' = Requests /\ \A q \in Requests \ {r} : left'[q] = left[q]
      /\ divided'[r] => partial[r]
      /\ DOMAIN divided' = Requests /\ \A q \in Requests \ {r} : divided'[q] = divided[q]
  <2>1. left' = [left EXCEPT ![r] = IF partial[r] THEN @ ELSE <<x>>]
    BY <1>3 DEF Open
  <2>2. divided' = [divided EXCEPT ![r] = partial[r] /\ headers.range = NoRange]
    BY DEF Open
  <2>3. QED
    BY <2>1, <2>2, FileBasics
<1>5. /\ DOMAIN phase' = Requests /\ cleaned' \in [Requests -> {0, 1}]
      /\ \A q \in Requests \ {r} : phase'[q] = phase[q] /\ cleaned'[q] = cleaned[q]
      /\ phase'[r] \in {"sending", "broken"}
  BY <1>1, <1>2, FileBasics DEF Open, End
<1>6. Runs(r)
  <2>1. Sets(r)
    BY <1>1, <1>4, <1>5, FileBasics DEF Sets
  <2>2. QED
    BY <1>1, <1>5, <2>1, DeliveryBasics DEF Runs
<1>7. ASSUME Alone(r) PROVE Goes(r)'
  <2>1. /\ Delivery(r) /\ Meant(r)' = Meant(r) /\ sent[r] = <<>> /\ at[r] = Blank
        /\ behind[r] = FirstByte
        /\ ~partial[r] => Meant(r) = 0 .. seen[r] - 1 /\ headers.length = seen[r]
        /\ seen[r] \in Nat
    BY <1>1, <1>6, <1>7, RunBasics
  <2>2. OnItsWay(r, divided[r])'
    <3>1. CASE partial[r]
      <4>1. OnItsWay(r, TRUE) /\ left'[r] = left[r]
        BY <1>1, <1>4, <2>1, <3>1 DEF Delivery
      <4>2. ASSUME scenario.mode # "lenient"
            PROVE  InOrderSent(r, divided[r])'
        <5>1. InOrderSent(r, TRUE)
          BY <4>1, <4>2 DEF OnItsWay
        <5>2. QED
          BY <1>1, <2>1, <4>1, <5>1 DEF InOrderSent
      <4>3. QED
        BY <1>1, <2>1, <4>1, <4>2 DEF OnItsWay
    <3>2. CASE ~partial[r]
      <4>1. PICK n \in Nat : n = seen[r]
        BY <2>1
      <4>2. PICK l : l = <<x>>
        OBVIOUS
      <4>3. PICK s : s = sent[r]
        OBVIOUS
      <4>4. x = [start |-> 0, stop |-> n - 1]
        BY <1>3, <2>1, <3>2, <4>1
      <4>5. PICK last : last = FirstByte
        OBVIOUS
      <4>6. /\ Underway(0 .. n - 1, l, Blank, s) /\ InRow(l, Blank, s)
            /\ Exact(0 .. n - 1, l, Blank, s) /\ Settled(l, last)
            /\ Steady(0 .. n - 1, l, Blank, s, last, n - 1)
        BY <2>1, <4>2, <4>3, <4>4, <4>5, WholePlanned
      <4>7. left'[r] = l /\ at'[r] = Blank /\ sent'[r] = s /\ Meant(r)' = 0 .. n - 1
            /\ ~divided'[r] /\ behind'[r] = last /\ seen'[r] = n
        BY <1>1, <1>4, <2>1, <3>2, <4>1, <4>2, <4>3, <4>5
      <4>8. QED
        BY <4>6, <4>7 DEF OnItsWay, InOrderSent
    <3>3. QED
      BY <3>1, <3>2
  <2>3. PICK s : s = sent[r]
    OBVIOUS
  <2>4. Bytes(s) = {} /\ Rising(s) /\ DOMAIN s \subseteq Nat
    BY <2>1, <2>3, NothingSent
  <2>5. QED
    BY <1>1, <1>5, <2>2, <2>3, <2>4 DEF Goes
<1>8. QED
  BY <1>6, <1>7, RunDelivers

\* A range begins, behind its header if there are parts.
LEMMA RangeBegins ==
  ASSUME FileIInv, DeliveryInv, NEW r \in Requests, BeginRange(r)
  PROVE  DeliveryInv'
<1>1. /\ UNCHANGED <<scenario, size, present, changes, headers, phase, seen, announced, partial,
                     left, divided, behind, finals, cleaned>>
      /\ phase[r] = "sending" /\ left[r] # <<>> /\ at[r] = Blank
  BY DEF BeginRange, file
<1>2. /\ at'[r] = Position(behind[r], left[r][1])
      /\ DOMAIN at' = Requests /\ \A q \in Requests \ {r} : at'[q] = at[q]
      /\ sent'[r] = IF divided[r] THEN Append(sent[r], PartHeader) ELSE sent[r]
      /\ DOMAIN sent' = Requests /\ \A q \in Requests \ {r} : sent'[q] = sent[q]
  BY DeliveryBasics DEF BeginRange
<1>3. Runs(r)
  <2>1. Sets(r)
    BY <1>1, <1>2, FileBasics DEF Sets
  <2>2. QED
    BY <1>1, <1>2, <2>1, DeliveryBasics DEF Runs
<1>4. ASSUME Alone(r) PROVE Goes(r)'
  <2>1. Delivery(r) /\ Meant(r)' = Meant(r) /\ Meant(r) \subseteq 0 .. seen[r] - 1
    BY <1>3, <1>4, RunBasics
  <2>2. OnItsWay(r, divided[r])
    BY <1>1, <2>1 DEF Delivery
  <2>3. PICK m : m = Meant(r)
    OBVIOUS
  <2>4. m \in SUBSET Nat
    BY <2>1, <2>3
  <2>5. PICK l : l = left[r]
    OBVIOUS
  <2>6. PICK s : s = sent[r]
    OBVIOUS
  <2>7. PICK a2 : a2 = at'[r]
    OBVIOUS
  <2>8. PICK s2 : s2 = sent'[r]
    OBVIOUS
  <2>9. PICK last : last = behind[r]
    OBVIOUS
  <2>10. a2 = Position(last, l[1])
    BY <1>2, <2>5, <2>7, <2>9
  <2>11. /\ s2 = s \/ s2 = Append(s, PartHeader)
         /\ divided[r] => s2 = Append(s, PartHeader)
    BY <1>2, <2>6, <2>8
  <2>12. /\ Meant(r)' = m /\ left'[r] = l /\ at'[r] = a2 /\ sent'[r] = s2
         /\ behind'[r] = last /\ phase'[r] = "sending"
    BY <1>1, <2>1, <2>3, <2>5, <2>7, <2>8, <2>9
  <2>13. CASE scenario.mode # "lenient"
    <3>1. /\ l # <<>> /\ Underway(m, l, Blank, s) /\ InRow(l, Blank, s) /\ Settled(l, last)
          /\ changes = 0 => Exact(m, l, Blank, s)
          /\ (changes = 0 /\ scenario.mode = "strict" /\ divided[r]) => Parting(m, l, Blank, s)
      BY <1>1, <2>2, <2>3, <2>5, <2>6, <2>9, <2>13 DEF OnItsWay, InOrderSent
    <3>2. a2 = l[1].start
      BY <2>10, <3>1 DEF Settled, Position
    <3>3. /\ Underway(m, l, a2, s2) /\ a2 # Blank
          /\ InRow(l, Blank, s) => InRow(l, a2, s2)
          /\ Exact(m, l, Blank, s) => Exact(m, l, a2, s2)
          /\ (Parting(m, l, Blank, s) /\ s2 = Append(s, PartHeader)) => Parting(m, l, a2, s2)
      BY <2>4, <2>11, <3>1, <3>2, StartsUnderway
    <3>4. OnItsWay(r, divided[r])'
      BY <1>1, <2>11, <2>12, <2>13, <3>1, <3>3 DEF OnItsWay, InOrderSent
    <3>5. DOMAIN s2 \subseteq Nat
      BY <3>3, LenProperties DEF Underway
    <3>6. Bytes(s2) \subseteq m /\ Rising(s2)
      BY <3>1, <3>3 DEF Underway, InRow
    <3>7. QED
      BY <2>12, <3>4, <3>5, <3>6 DEF Goes
  <2>14. CASE scenario.mode = "lenient" /\ changes = 0
    <3>1. PICK top \in Int : top = seen[r] - 1
      BY <2>1 DEF Delivery
    <3>2. m \subseteq 0 .. top
      BY <2>1, <2>3, <3>1
    <3>3. l # <<>> /\ Steady(m, l, Blank, s, last, top)
      BY <1>1, <2>2, <2>3, <2>5, <2>6, <2>9, <2>14, <3>1 DEF OnItsWay
    <3>4. Steady(m, l, a2, s2, last, top)
      BY <2>4, <2>10, <2>11, <3>2, <3>3, SteadyBegins
    <3>5. OnItsWay(r, divided[r])'
      BY <1>1, <2>12, <2>14, <3>1, <3>4 DEF OnItsWay
    <3>6. DOMAIN s2 \subseteq Nat /\ Bytes(s2) \subseteq m /\ Rising(s2)
      BY <3>4, SteadyMeans
    <3>7. QED
      BY <2>12, <3>5, <3>6 DEF Goes
  <2>15. CASE scenario.mode = "lenient" /\ changes # 0
    BY <1>1, <2>12, <2>15 DEF Goes, Told, OnItsWay
  <2>16. QED
    BY <2>13, <2>14, <2>15
<1>5. QED
  BY <1>3, <1>4, RunDelivers

\* How much is read: a chunk, or what is left of the range, as far as the file goes.
LEMMA CountOf ==
  ASSUME NEW x, Extent(x) \in Nat, NEW a \in Nat, NEW n \in Nat,
         NEW c, c = Min({Count(x), IF a < n THEN n - a ELSE 0})
  PROVE  /\ c \in Nat /\ c <= ChunkSize /\ c <= Extent(x)
         /\ (Extent(x) = 0 \/ a + Extent(x) <= n) => c = ChunkSize \/ c = Extent(x)
         /\ a >= n => c = 0
<1>1. PICK e \in Nat : e = Extent(x)
  OBVIOUS
<1>2. ChunkSize \in Nat \ {0}
  BY FileAssumption
<1>3. PICK k \in Nat : k = IF a < n THEN n - a ELSE 0
  OBVIOUS
<1>4. \A i, j \in Int : Min({i, j}) = IF i <= j THEN i ELSE j
  <2> TAKE i, j \in Int
  <2>1. CASE i <= j
    BY <2>1 DEF Min
  <2>2. CASE ~(i <= j)
    BY <2>2 DEF Min
  <2>3. QED
    BY <2>1, <2>2
<1>5. Count(x) = IF ChunkSize <= e THEN ChunkSize ELSE e
  BY <1>1, <1>2, <1>4 DEF Count
<1>6. PICK d \in Nat : d = Count(x) /\ (d = ChunkSize \/ d = e) /\ d <= ChunkSize /\ d <= e
  BY <1>2, <1>5
<1>7. c = IF d <= k THEN d ELSE k
  BY <1>3, <1>4, <1>6
<1>8. (e = 0 \/ a + e <= n) => d <= k
  BY <1>3, <1>6
<1>9. c \in Nat /\ c <= d /\ ((e = 0 \/ a + e <= n) => c = d)
  BY <1>3, <1>6, <1>7, <1>8
<1>10. c <= ChunkSize /\ c <= e
  BY <1>2, <1>6, <1>9
<1>11. a >= n => c = 0
  BY <1>3, <1>6, <1>7
<1>12. QED
  BY <1>1, <1>6, <1>9, <1>10, <1>11

\* A chunk is sent.
LEMMA ChunkDelivers ==
  ASSUME FileIInv, DeliveryInv, NEW r \in Requests, SendChunk(r)
  PROVE  DeliveryInv'
<1>1. /\ UNCHANGED <<scenario, size, present, changes, headers, phase, seen, announced, partial,
                     divided, cleaned>>
      /\ phase[r] = "sending" /\ left[r] # <<>> /\ at[r] # Blank
  BY DEF SendChunk, file
<1>2. PICK x : x = left[r][1]
  OBVIOUS
<1>3. PICK more \in BOOLEAN : more <=> Extent(x) > ChunkSize
  OBVIOUS
<1>4. PICK c : c = Min({Count(x), IF at[r] < size THEN size - at[r] ELSE 0})
  OBVIOUS
<1>5. PICK next : next = [x EXCEPT !.start = @ + ChunkSize]
  OBVIOUS
<1>6. /\ sent' = [sent EXCEPT ![r] = @ \o [i \in 1..c |-> at[r] + i - 1]]
      /\ left' = [left EXCEPT ![r] = IF more THEN <<next>> \o Tail(@) ELSE Tail(@)]
      /\ at' = [at EXCEPT ![r] = IF more THEN @ + c ELSE Blank]
      /\ finals' = [finals EXCEPT ![r] = IF more \/ divided[r] THEN @ ELSE @ + 1]
      /\ behind' = [behind EXCEPT ![r] = IF more THEN @ ELSE [stop |-> x.stop, at |-> at[r] + c]]
  <2>1. left[r][1] = x /\ (Extent(left[r][1]) > ChunkSize) = more
    BY <1>2, <1>3
  <2>2. sent' = [sent EXCEPT ![r] = @ \o [i \in 1..c |-> at[r] + i - 1]]
    BY <1>2, <1>4 DEF SendChunk
  <2>3. left' = [left EXCEPT ![r] = IF more THEN <<next>> \o Tail(@) ELSE Tail(@)]
    BY <1>5, <2>1 DEF SendChunk
  <2>4. at' = [at EXCEPT ![r] = IF more THEN @ + c ELSE Blank]
    BY <1>4, <2>1 DEF SendChunk
  <2>5. finals' = [finals EXCEPT ![r] = IF more \/ divided[r] THEN @ ELSE @ + 1]
    BY <2>1 DEF SendChunk
  <2>6. behind' = [behind EXCEPT ![r] = IF more THEN @ ELSE [stop |-> x.stop, at |-> at[r] + c]]
    BY <1>4, <2>1 DEF SendChunk
  <2>7. QED
    BY <2>2, <2>3, <2>4, <2>5, <2>6
<1>7. /\ sent'[r] = With(sent[r], at[r], c)
      /\ left'[r] = IF more THEN Shorter(left[r], next) ELSE Tail(left[r])
      /\ at'[r] = IF more THEN at[r] + c ELSE Blank
      /\ ~more => behind'[r] = [stop |-> x.stop, at |-> at[r] + c]
      /\ DOMAIN behind' = Requests /\ \A q \in Requests \ {r} : behind'[q] = behind[q]
      /\ DOMAIN sent' = Requests /\ DOMAIN left' = Requests /\ DOMAIN at' = Requests
      /\ finals' \in [Requests -> Nat]
      /\ \A q \in Requests \ {r} : /\ sent'[q] = sent[q] /\ left'[q] = left[q]
                                   /\ at'[q] = at[q] /\ finals'[q] = finals[q]
  <2>1. /\ sent'[r] = With(sent[r], at[r], c)
        /\ DOMAIN sent' = Requests /\ \A q \in Requests \ {r} : sent'[q] = sent[q]
    BY <1>6, FileBasics DEF With
  <2>2. /\ left'[r] = IF more THEN Shorter(left[r], next) ELSE Tail(left[r])
        /\ DOMAIN left' = Requests /\ \A q \in Requests \ {r} : left'[q] = left[q]
    BY <1>6, FileBasics DEF Shorter
  <2>3. /\ at'[r] = IF more THEN at[r] + c ELSE Blank
        /\ DOMAIN at' = Requests /\ \A q \in Requests \ {r} : at'[q] = at[q]
    BY <1>6, DeliveryBasics
  <2>4. finals' \in [Requests -> Nat] /\ \A q \in Requests \ {r} : finals'[q] = finals[q]
    BY <1>6, FileBasics
  <2>5. /\ ~more => behind'[r] = [stop |-> x.stop, at |-> at[r] + c]
        /\ DOMAIN behind' = Requests /\ \A q \in Requests \ {r} : behind'[q] = behind[q]
    BY <1>6, DeliveryBasics
  <2>6. QED
    BY <2>1, <2>2, <2>3, <2>4, <2>5
<1>8. Runs(r)
  <2>1. Sets(r)
    BY <1>1, <1>7, FileBasics DEF Sets
  <2>2. QED
    BY <1>1, <1>7, <2>1, DeliveryBasics DEF Runs
<1>9. ASSUME Alone(r) PROVE Goes(r)'
  <2>1. /\ Delivery(r) /\ Meant(r)' = Meant(r) /\ Meant(r) \subseteq 0 .. seen[r] - 1
        /\ seen[r] \in Nat /\ size \in Nat /\ (changes = 0 => seen[r] = size)
    BY <1>8, <1>9, RunBasics
  <2>2. OnItsWay(r, divided[r])
    BY <1>1, <2>1 DEF Delivery
  <2>3. PICK m \in SUBSET Nat : m = Meant(r)
    BY <2>1
  <2>4. PICK l : l = left[r]
    OBVIOUS
  <2>5. PICK s : s = sent[r]
    OBVIOUS
  <2>6. PICK a : a = at[r]
    OBVIOUS
  <2>7. PICK l2 : l2 = left'[r]
    OBVIOUS
  <2>8. PICK a2 : a2 = at'[r]
    OBVIOUS
  <2>9. PICK s2 : s2 = sent'[r]
    OBVIOUS
  <2>10. PICK last, last2 : last = behind[r] /\ last2 = behind'[r]
    OBVIOUS
  <2>11. /\ Meant(r)' = m /\ left'[r] = l2 /\ at'[r] = a2 /\ sent'[r] = s2
         /\ behind'[r] = last2 /\ phase'[r] = "sending" /\ seen'[r] = seen[r]
    BY <1>1, <2>1, <2>3, <2>7, <2>8, <2>9, <2>10
  <2>12. l # <<>> /\ a # Blank /\ x = l[1]
    BY <1>1, <1>2, <2>4, <2>6
  <2>13. s2 = With(s, a, c)
    BY <1>7, <2>5, <2>6, <2>9
  <2>14. /\ more => l2 = Shorter(l, [l[1] EXCEPT !.start = @ + ChunkSize]) /\ a2 = a + c
         /\ ~more => l2 = Tail(l) /\ a2 = Blank
         /\ ~more => last2 = [stop |-> l[1].stop, at |-> a + c]
    BY <1>2, <1>5, <1>7, <2>4, <2>6, <2>7, <2>8, <2>10
  <2>15. ASSUME l \in Seq(Stretch), a \in Nat
         PROVE  /\ x \in Stretch /\ Extent(x) \in Nat /\ Extent(x) = x.stop - x.start + 1
                /\ x.start \in Nat /\ x.stop \in Int
                /\ Covered(l) = (x.start .. x.stop) \cup Covered(Tail(l))
                /\ c \in Nat /\ c <= ChunkSize /\ c <= Extent(x)
                /\ (Extent(x) = 0 \/ a + Extent(x) <= size) => c = ChunkSize \/ c = Extent(x)
                /\ a >= size => c = 0
                /\ Reads(l, a, s, c, l2, a2, s2)
    <3>1. PICK t : t = Tail(l)
      OBVIOUS
    <3>2. x \in Stretch /\ Covered(l) = (x.start .. x.stop) \cup Covered(t)
      BY <2>12, <2>15, <3>1, Leftover
    <3>3. x.start \in Nat /\ x.stop \in Int /\ Extent(x) \in Nat
          /\ Extent(x) = x.stop - x.start + 1
      BY <3>2 DEF Stretch, Extent
    <3>4. /\ c \in Nat /\ c <= ChunkSize /\ c <= Extent(x)
          /\ (Extent(x) = 0 \/ a + Extent(x) <= size) => c = ChunkSize \/ c = Extent(x)
          /\ a >= size => c = 0
      <4>1. PICK n \in Nat : n = size
        BY <2>1
      <4>2. c = Min({Count(x), IF a < n THEN n - a ELSE 0})
        BY <1>4, <2>6, <4>1
      <4>3. /\ c \in Nat /\ c <= ChunkSize /\ c <= Extent(x)
            /\ (Extent(x) = 0 \/ a + Extent(x) <= n) => c = ChunkSize \/ c = Extent(x)
            /\ a >= n => c = 0
        BY <2>15, <3>3, <4>1, <4>2, CountOf
      <4>4. QED
        BY <4>1, <4>3
    <3>5. Reads(l, a, s, c, l2, a2, s2)
      BY <1>3, <2>12, <2>13, <2>14, <3>4 DEF Reads
    <3>6. QED
      BY <3>1, <3>2, <3>3, <3>4, <3>5
  <2>16. CASE scenario.mode # "lenient"
    <3>1. /\ Underway(m, l, a, s) /\ InRow(l, a, s)
          /\ changes = 0 => Exact(m, l, a, s)
          /\ (changes = 0 /\ scenario.mode = "strict" /\ divided[r]) => Parting(m, l, a, s)
      BY <1>1, <2>2, <2>3, <2>4, <2>5, <2>6, <2>16 DEF OnItsWay, InOrderSent
    <3>2. l \in Seq(Stretch) /\ a \in Nat /\ Covered(l) \subseteq m /\ Gapped(l)
      BY <2>12, <3>1 DEF Underway, InRow
    <3>3. Reads(l, a, s, c, l2, a2, s2)
      BY <2>15, <3>2
    <3>4. changes = 0 => (c = ChunkSize \/ c = Extent(l[1]))
      <4> SUFFICES ASSUME changes = 0
                   PROVE  c = ChunkSize \/ c = Extent(x)
        BY <2>12
      <4>1. a = x.start
        BY <2>12, <3>1 DEF Exact
      <4>2. /\ Extent(x) \in Nat /\ Extent(x) = x.stop - x.start + 1
            /\ x.start \in Nat /\ x.stop \in Int
            /\ Covered(l) = (x.start .. x.stop) \cup Covered(Tail(l))
            /\ (Extent(x) = 0 \/ a + Extent(x) <= size) => c = ChunkSize \/ c = Extent(x)
        BY <2>15, <3>2
      <4>3. CASE Extent(x) = 0
        BY <4>2, <4>3
      <4>4. CASE Extent(x) # 0
        <5>1. x.stop \in x.start .. x.stop
          BY <4>2, <4>4
        <5>2. x.stop \in 0 .. size - 1
          BY <2>1, <2>3, <3>2, <4>2, <5>1
        <5>3. a + Extent(x) <= size
          BY <2>1, <4>1, <4>2, <5>2
        <5>4. QED
          BY <4>2, <5>3
      <4>5. QED
        BY <4>3, <4>4
    <3>5. Underway(m, l2, a2, s2)
      BY <3>1, <3>3, ReadUnderway
    <3>6. InRow(l2, a2, s2)
      BY <3>1, <3>3, ReadInRow
    <3>7. changes = 0 => Exact(m, l2, a2, s2)
      BY <3>1, <3>3, <3>4, ReadExact
    <3>8. (changes = 0 /\ scenario.mode = "strict" /\ divided[r]) => Parting(m, l2, a2, s2)
      BY <3>1, <3>3, <3>4, ReadParting
    <3>9. a2 = Blank => Settled(l2, last2)
      <4>1. ~(Extent(l[1]) > ChunkSize) => last2.stop = l[1].stop
        BY <1>3, <2>12, <2>14
      <4>2. QED
        BY <3>1, <3>2, <3>3, <4>1, ReadSettles
    <3>10. OnItsWay(r, divided[r])'
      BY <1>1, <2>11, <2>16, <3>5, <3>6, <3>7, <3>8, <3>9 DEF OnItsWay, InOrderSent
    <3>11. DOMAIN s2 \subseteq Nat
      BY <3>5, LenProperties DEF Underway
    <3>12. Bytes(s2) \subseteq m /\ Rising(s2)
      BY <3>5, <3>6 DEF Underway, InRow
    <3>13. QED
      BY <2>11, <3>10, <3>11, <3>12 DEF Goes
  <2>17. CASE scenario.mode = "lenient" /\ changes = 0
    <3>1. PICK top \in Int : top = seen[r] - 1
      BY <2>1
    <3>2. m \subseteq 0 .. top /\ size = top + 1
      BY <2>1, <2>3, <2>17, <3>1
    <3>3. Steady(m, l, a, s, last, top)
      BY <1>1, <2>2, <2>3, <2>4, <2>5, <2>6, <2>10, <2>17, <3>1 DEF OnItsWay
    <3>4. l \in Seq(Stretch) /\ a \in Nat
      BY <2>1, <2>12, <3>1, <3>3 DEF Steady, Underway, Spent
    <3>5. /\ Extent(x) \in Nat /\ Reads(l, a, s, c, l2, a2, s2)
          /\ a + Extent(x) <= size => (c = ChunkSize \/ c = Extent(x))
          /\ a >= size => c = 0
      BY <2>15, <3>4
    <3>6. /\ a + Extent(l[1]) <= top + 1 => (c = ChunkSize \/ c = Extent(l[1]))
          /\ a = top + 1 => c = 0
      BY <2>12, <3>2, <3>5
    <3>7. ~(Extent(l[1]) > ChunkSize) => last2 = [stop |-> l[1].stop, at |-> a + c]
      BY <1>3, <2>12, <2>14
    <3>8. Steady(m, l2, a2, s2, last2, top)
      BY <3>2, <3>3, <3>5, <3>6, <3>7, SteadyReads
    <3>9. OnItsWay(r, divided[r])'
      BY <1>1, <2>11, <2>17, <3>1, <3>8 DEF OnItsWay
    <3>10. DOMAIN s2 \subseteq Nat /\ Bytes(s2) \subseteq m /\ Rising(s2)
      BY <3>8, SteadyMeans
    <3>11. QED
      BY <2>11, <3>9, <3>10 DEF Goes
  <2>18. CASE scenario.mode = "lenient" /\ changes # 0
    BY <1>1, <2>11, <2>18 DEF Goes, Told, OnItsWay
  <2>19. QED
    BY <2>16, <2>17, <2>18
<1>10. QED
  BY <1>8, <1>9, RunDelivers

-----------------------------------------------------------------------------
(* What was asked for, and nothing else.                                    *)

\* Every step keeps the invariant.
LEMMA DeliveryStep ==
  ASSUME FileIInv, DeliveryInv, [FileNext]_fileVars
  PROVE  DeliveryInv'
<1>1. CASE UNCHANGED fileVars \/ Change
  <2>1. /\ UNCHANGED <<scenario, headers, phase, seen, announced, partial, left, divided, at,
                       behind, sent, finals, cleaned>>
        /\ changes' \in Nat /\ size' \in Nat
        /\ changes' = 0 => changes = 0 /\ size' = size /\ present' = present
    <3>1. changes \in Nat /\ size \in Nat
      BY DEF DeliveryInv, FileWorld
    <3>2. CASE UNCHANGED fileVars
      BY <3>1, <3>2 DEF fileVars, file, plan
    <3>3. CASE Change
      <4>1. changes' = changes + 1 /\ (size' \in 0 .. MaxSize \/ size' = size)
        BY <3>3 DEF Change
      <4>2. changes' \in Nat /\ changes' # 0
        BY <3>1, <4>1
      <4>3. size' \in Nat
        BY <3>1, <4>1, FileAssumption
      <4>4. QED
        BY <3>3, <4>2, <4>3 DEF Change, plan
    <3>4. QED
      BY <1>1, <3>2, <3>3
  <2>2. Requests' = Requests
    BY <2>1 DEF Requests
  <2>3. FileWorld'
    BY <2>1, <2>2 DEF DeliveryInv, FileWorld
  <2>4. LengthInv'
    BY <2>1, <2>2 DEF DeliveryInv, LengthInv, NoPart
  <2>5. ASSUME NEW r \in Requests, Alone(r)'
        PROVE  Delivery(r)'
    <3>1. Alone(r)
      BY <2>1, <2>2, <2>5 DEF Alone
    <3>2. Delivery(r)
      BY <3>1 DEF DeliveryInv
    <3>3. /\ changes' = 0 => changes = 0 /\ size' = size
          /\ (~partial[r] /\ headers.length \in Nat) => headers'.length = headers.length
      BY <2>1
    <3>4. /\ scenario' = scenario /\ seen'[r] = seen[r] /\ phase'[r] = phase[r]
          /\ announced'[r] = announced[r] /\ partial'[r] = partial[r] /\ left'[r] = left[r]
          /\ divided'[r] = divided[r] /\ at'[r] = at[r] /\ sent'[r] = sent[r]
          /\ behind'[r] = behind[r]
      BY <2>1
    <3>5. QED
      BY <3>2, <3>3, <3>4, DeliveryKept
  <2>6. QED
    BY <2>2, <2>3, <2>4, <2>5 DEF DeliveryInv
<1>2. ASSUME NEW r \in Requests, Step(r) \/ Break(r)
      PROVE  DeliveryInv'
  <2>1. CASE Begin(r)
    BY <2>1, BeginDelivers
  <2>2. CASE Answer(r)
    BY <2>2, AnswerDelivers
  <2>3. CASE EndHeaders(r) \/ Break(r) \/ Finish(r)
    BY <2>3, EndsDeliver
  <2>4. CASE SendPath(r)
    BY <2>4, PathDelivers
  <2>5. CASE Open(r)
    BY <2>5, OpenDelivers
  <2>6. CASE BeginRange(r)
    BY <2>6, RangeBegins
  <2>7. CASE SendChunk(r)
    BY <2>7, ChunkDelivers
  <2>8. QED
    BY <1>2, <2>1, <2>2, <2>3, <2>4, <2>5, <2>6, <2>7 DEF Step
<1>3. QED
  BY <1>1, <1>2 DEF FileNext

\* What the invariant says of the bytes is what the properties say.
LEMMA SameBytes ==
  ASSUME NEW r
  PROVE  /\ BytesOf(r) = Bytes(sent[r])
         /\ Rising(sent[r]) <=> InAscendingOrder(r)
BY DEF BytesOf, BytesAt, Bytes, Rising, InAscendingOrder

\* Bytes in ascending order are at most as many as there are to choose from.
LEMMA NoMoreBytes ==
  ASSUME NEW r, InAscendingOrder(r), DOMAIN sent[r] \subseteq Nat,
         NEW m, BytesOf(r) \subseteq m, m \subseteq Nat, IsFiniteSet(m)
  PROVE  Cardinality(BytesAt(r)) <= Cardinality(m)
<1>1. PICK s : s = sent[r]
  OBVIOUS
<1>2. PICK places : places = BytesAt(r)
  OBVIOUS
<1>3. places \subseteq Nat /\ \A i \in places : s[i] \in m
  BY <1>1, <1>2 DEF BytesAt, BytesOf
<1>4. \A i, j \in places : i < j => s[i] < s[j]
  BY <1>1, <1>2 DEF InAscendingOrder
<1>5. PICK f : f = [i \in places |-> s[i]]
  OBVIOUS
<1>6. ASSUME NEW i \in places, NEW j \in places, s[i] = s[j]
      PROVE  i = j
  <2>1. s[i] \in Nat /\ s[j] \in Nat /\ i \in Nat /\ j \in Nat
    BY <1>3
  <2>2. ~(s[i] < s[j]) /\ ~(s[j] < s[i])
    BY <1>6, <2>1
  <2>3. ~(i < j) /\ ~(j < i)
    BY <1>4, <2>2
  <2>4. QED
    BY <2>1, <2>3
<1>7. f \in [places -> m] /\ \A i, j \in places : f[i] = f[j] => i = j
  BY <1>3, <1>5, <1>6
<1>8. f \in Injection(places, m)
  BY <1>7 DEF Injection, IsInjective
<1>9. QED
  BY <1>2, <1>8, FS_Injection

\* All that was asked for was sent.
Complete(r) ==
  /\ BytesOf(r) = Meant(r) /\ InAscendingOrder(r)
  /\ scenario.mode = "strict" => announced[r].length = Cardinality(Meant(r))
  /\ (scenario.mode = "strict" /\ divided[r]) =>
       \A i \in DOMAIN sent[r] :
         sent[r][i] \in PartsOf(Meant(r)) <=> (i > 1 /\ sent[r][i - 1] = PartHeader)

\* The invariant implies the properties.
LEMMA DeliveryMeans ==
  ASSUME FileIInv, DeliveryInv
  PROVE  AsRequested /\ NothingElse
<1>1. ASSUME changes = 0, NEW r \in Requests, Alone(r)
      PROVE  /\ (phase[r] = "done" /\ ~Asked(r).head) => Complete(r)
             /\ (announced[r].range # NoRange /\ partial[r]) =>
                  Meant(r) = announced[r].range.start .. announced[r].range.stop
             /\ (phase[r] \notin {"idle", "ready"} /\ ~Asked(r).head) => OneRangeIsServed(r)
  <2>1. Delivery(r) /\ Promised(r)
    BY <1>1 DEF DeliveryInv, Delivery
  <2>2. ASSUME phase[r] = "done", ~Asked(r).head
        PROVE  /\ BytesOf(r) = Meant(r) /\ InAscendingOrder(r)
               /\ (scenario.mode = "strict" /\ divided[r]) => Parted(sent[r], Meant(r))
    BY <1>1, <2>1, <2>2, SameBytes DEF Delivery
  <2>3. ASSUME phase[r] = "done", scenario.mode = "strict"
        PROVE  announced[r].length = Cardinality(Meant(r))
    <3>1. CASE partial[r]
      BY <2>1, <2>3, <3>1 DEF Promised
    <3>2. CASE ~partial[r]
      <4>1. Meant(r) = 0 .. seen[r] - 1 /\ announced[r].length = seen[r]
        BY <2>1, <2>3, <3>2, MeantIs DEF Promised
      <4>2. PICK n \in Nat : n = seen[r]
        BY <2>1 DEF Delivery
      <4>3. Cardinality(0 .. n - 1) = n
        BY FS_Interval
      <4>4. QED
        BY <4>1, <4>2, <4>3
    <3>3. QED
      BY <3>1, <3>2
  <2>4. (announced[r].range # NoRange /\ partial[r]) =>
          Meant(r) = announced[r].range.start .. announced[r].range.stop
    BY <2>1 DEF Promised
  <2>5. (phase[r] \notin {"idle", "ready"} /\ ~Asked(r).head) => OneRangeIsServed(r)
    BY <1>1, <2>1 DEF Delivery
  <2>6. Parted(sent[r], Meant(r)) =>
          \A i \in DOMAIN sent[r] :
            sent[r][i] \in PartsOf(Meant(r)) <=> (i > 1 /\ sent[r][i - 1] = PartHeader)
    BY DEF Parted
  <2>7. ASSUME phase[r] = "done", ~Asked(r).head
        PROVE  Complete(r)
    <3>1. /\ BytesOf(r) = Meant(r) /\ InAscendingOrder(r)
          /\ (scenario.mode = "strict" /\ divided[r]) => Parted(sent[r], Meant(r))
      BY <2>2, <2>7
    <3>2. scenario.mode = "strict" => announced[r].length = Cardinality(Meant(r))
      BY <2>3, <2>7
    <3>3. QED
      BY <2>6, <3>1, <3>2 DEF Complete
  <2>8. QED
    BY <2>4, <2>5, <2>7
<1>2. AsRequested
  BY <1>1 DEF AsRequested, OneRangeIsServed, Complete
<1>3. ASSUME scenario.mode # "lenient", NEW r \in Requests, Alone(r), sent[r] # <<>>,
             partial[r] \/ ~scenario.pathsend
      PROVE  /\ scenario.mode = "strict" => Cardinality(BytesAt(r)) <= announced[r].length
             /\ InAscendingOrder(r)
             /\ partial[r] => BytesOf(r) \subseteq Meant(r)
  <2>1. Delivery(r) /\ Promised(r)
    BY <1>3 DEF DeliveryInv, Delivery
  <2>2. BytesOf(r) \subseteq Meant(r) /\ InAscendingOrder(r) /\ DOMAIN sent[r] \subseteq Nat
    BY <1>3, <2>1, SameBytes DEF Delivery, Told
  <2>3. PICK n \in Nat : n = seen[r]
    BY <2>1 DEF Delivery
  <2>4. PICK m : m = Meant(r)
    OBVIOUS
  <2>5. /\ m \subseteq 0 .. n - 1
        /\ ~partial[r] => m = 0 .. n - 1 /\ announced[r].length = n
    BY <1>3, <2>1, <2>3, <2>4, MeantIs DEF Promised
  <2>6. IsFiniteSet(0 .. n - 1) /\ Cardinality(0 .. n - 1) = n
    BY FS_Interval
  <2>7. IsFiniteSet(m) /\ m \subseteq Nat
    <3>1. PICK all : all = 0 .. n - 1
      OBVIOUS
    <3>2. IsFiniteSet(all) /\ m \in SUBSET all
      BY <2>5, <2>6, <3>1
    <3>3. IsFiniteSet(m)
      BY <3>2, FS_Subset
    <3>4. m \subseteq Nat
      BY <2>5
    <3>5. QED
      BY <3>3, <3>4
  <2>8. Cardinality(BytesAt(r)) <= Cardinality(m)
    BY <2>2, <2>4, <2>7, NoMoreBytes
  <2>9. scenario.mode = "strict" => announced[r].length = Cardinality(m)
    BY <2>1, <2>4, <2>5, <2>6 DEF Promised
  <2>10. QED
    BY <2>2, <2>4, <2>8, <2>9
<1>4. NothingElse
  BY <1>3 DEF NothingElse
<1>5. QED
  BY <1>2, <1>4

\* What holds of every request of a response, from its beginning to its end.
THEOREM FileDelivers == FileSpec => [](FileIInv /\ DeliveryInv)
<1>1. FileInit => FileIInv /\ DeliveryInv
  BY FileStart, DeliveryStart
<1>2. FileIInv /\ DeliveryInv /\ [FileNext]_fileVars => (FileIInv /\ DeliveryInv)'
  BY FileStep, DeliveryStep
<1>3. QED
  BY <1>1, <1>2, PTL DEF FileSpec

\* A file that does not change is answered with the bytes that were asked for, as
\* many as announced, in ascending order, none of them twice and each part behind a
\* header; a request for one range that the file has is answered with it.
THEOREM FilesAsRequested == FileSpec => []AsRequested
<1>1. FileIInv /\ DeliveryInv => AsRequested
  BY DeliveryMeans
<1>2. QED
  BY <1>1, FileDelivers, PTL

\* Whatever becomes of the file while it is sent, nothing is sent but what was asked
\* for, nothing twice and never more than announced.
THEOREM FilesNothingElse == FileSpec => []NothingElse
<1>1. FileIInv /\ DeliveryInv => NothingElse
  BY DeliveryMeans
<1>2. QED
  BY <1>1, FileDelivers, PTL

=============================================================================
