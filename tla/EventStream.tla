---------------------------- MODULE EventStream ----------------------------
(***************************************************************************)
(* An EventStreamResponse answering one request: the task group of its     *)
(* __call__ runs the stream of events, the pings, a task that waits for    *)
(* the client to disconnect and, if the application gave one, a task of    *)
(* its own (data_sender_callable).                                         *)
(*                                                                         *)
(* The server gets a message when send is called; the call may last, while *)
(* the client does not read, and is then a point where other tasks run and *)
(* where a task is cancelled.                                              *)
(***************************************************************************)
EXTENDS Naturals, Sequences

CONSTANTS
  Ordered,     \* tasks of a group start in the order they were given to it
  MaxEvents,   \* bound on the events of the source
  MaxPings     \* bound on the pings

ASSUME EventStreamAssumption ==
  /\ Ordered \in BOOLEAN
  /\ MaxEvents \in Nat /\ MaxPings \in Nat

VARIABLES
  stream,     \* run_stream
  ping,       \* _ping
  listener,   \* _listen_for_disconnect
  sender,     \* data_sender_callable
  active,     \* the flag of the response
  cancelled,  \* the cancel scope of the task group is cancelled
  failed,     \* a task of the group raised
  wire,       \* the messages the server got
  outcome,    \* how the call ended
  gone,       \* history: the client has disconnected
  timedOut    \* history: the send timeout has passed

tasks == <<stream, ping, listener, sender>>
vars == <<tasks, active, cancelled, failed, wire, outcome, gone, timedOut>>

\* "source": waits for the next event.  "expired": a timeout passed there.
\* "ended": about to send the last body, in the finally clause.
StreamStates == {"new", "starting", "source", "sending", "expired", "expiring",
                 "ended", "ending", "grace", "done"}
PingStates == {"new", "sending", "sleeping", "done"}
ListenerStates == {"receiving", "handler", "done"}

Init ==
  /\ stream = "new"
  /\ ping \in {"new", "done"}          \* "done": a ping interval of 0
  /\ listener = "receiving"
  /\ sender \in {"running", "done"}    \* "done": none was given
  /\ active = TRUE
  /\ cancelled = FALSE
  /\ failed = FALSE
  /\ wire = <<>>
  /\ outcome = "running"
  /\ gone = FALSE
  /\ timedOut = FALSE

Put(message) == wire' = Append(wire, message)
Sent(message) == \E i \in DOMAIN wire : wire[i] = message
Number(message) ==
  LET count[n \in 0 .. Len(wire)] ==
        IF n = 0 THEN 0 ELSE count[n - 1] + (IF wire[n] = message THEN 1 ELSE 0)
  IN  count[Len(wire)]

-----------------------------------------------------------------------------
(* The stream of events.                                                    *)

SendStart ==
  /\ stream = "new"
  /\ Put("start")
  /\ stream' = "starting"
  /\ UNCHANGED <<ping, listener, sender, active, cancelled, failed, outcome,
                 gone, timedOut>>

\* send returns, and the stream waits for an event.
StreamResume ==
  /\ stream \in {"starting", "sending"}
  /\ stream' = "source"
  /\ UNCHANGED <<ping, listener, sender, active, cancelled, failed, wire,
                 outcome, gone, timedOut>>

SendEvent ==
  /\ stream = "source"
  /\ Number("event") < MaxEvents
  /\ Put("event")
  /\ stream' = "sending"
  /\ UNCHANGED <<ping, listener, sender, active, cancelled, failed, outcome,
                 gone, timedOut>>

\* The source has no more events, or it raises.
SourceEnds ==
  /\ stream = "source"
  /\ stream' = "ended"
  /\ failed' \in {failed, TRUE}
  /\ UNCHANGED <<ping, listener, sender, active, cancelled, wire, outcome,
                 gone, timedOut>>

\* The send timeout passes while the stream waits for the source, or the source
\* raises a TimeoutError itself.
SourceTimeout ==
  /\ stream = "source"
  /\ stream' = "expired"
  /\ active' = FALSE
  /\ timedOut' = TRUE
  /\ UNCHANGED <<ping, listener, sender, cancelled, failed, wire, outcome, gone>>

SendExpired ==
  /\ stream = "expired"
  /\ Ordered => ping # "new"
  /\ Put("final")
  /\ stream' = "expiring"
  /\ UNCHANGED <<ping, listener, sender, active, cancelled, failed, outcome,
                 gone, timedOut>>
\* Mutant: the loop goes on after the timeout.
RaiseExpiredNever ==
  /\ stream = "expiring"
  /\ stream' = "source"
  /\ UNCHANGED <<ping, listener, sender, active, cancelled, failed, wire,
                 outcome, gone, timedOut>>

\* TimeoutError, through the finally clause.
RaiseExpired ==
  /\ stream = "expiring"
  /\ stream' = "ended"
  /\ failed' = TRUE
  /\ UNCHANGED <<ping, listener, sender, active, cancelled, wire, outcome, gone,
                 timedOut>>
\* Mutant: sending is outside the clause that ends the body.
SendTimeoutRaises ==
  /\ stream = "sending"
  /\ stream' = "done"
  /\ failed' = TRUE
  /\ cancelled' = TRUE
  /\ timedOut' = TRUE
  /\ UNCHANGED <<ping, listener, sender, active, wire, outcome, gone>>

\* The send timeout passes while an event is sent.
SendTimeout ==
  /\ stream = "sending"
  /\ stream' = "ended"
  /\ failed' = TRUE
  /\ timedOut' = TRUE
  /\ UNCHANGED <<ping, listener, sender, active, cancelled, wire, outcome, gone>>

\* The lock before it lets the other tasks start.
SendFinal ==
  /\ stream = "ended"
  /\ Ordered => ping # "new"
  /\ Put("final")
  /\ stream' = "ending"
  /\ UNCHANGED <<ping, listener, sender, active, cancelled, failed, outcome,
                 gone, timedOut>>

\* The stream is over; an exception that passes skips the grace window.
StreamEnds ==
  /\ stream = "ending"
  /\ active' = FALSE
  /\ IF failed
     THEN stream' = "done" /\ cancelled' = TRUE
     ELSE stream' = "grace" /\ UNCHANGED cancelled
  /\ UNCHANGED <<ping, listener, sender, failed, wire, outcome, gone, timedOut>>

GraceEnds ==
  /\ stream = "grace"
  /\ stream' = "done"
  /\ cancelled' = TRUE
  /\ UNCHANGED <<ping, listener, sender, active, failed, wire, outcome, gone,
                 timedOut>>

\* Cancelled where it waits: the locks of the clauses that would send the last
\* body are points of cancellation too, so it is not sent any more.
StreamCancelled ==
  /\ cancelled
  /\ stream \notin {"new", "done"}
  /\ stream' = "done"
  /\ active' = IF stream = "source" THEN FALSE ELSE active
  /\ UNCHANGED <<ping, listener, sender, cancelled, failed, wire, outcome, gone,
                 timedOut>>

-----------------------------------------------------------------------------
(* Pings.                                                                   *)

FirstPing ==
  /\ ping = "new"
  /\ Ordered => stream # "new"
  /\ Put("ping")
  /\ ping' = "sending"
  /\ UNCHANGED <<stream, listener, sender, active, cancelled, failed, outcome,
                 gone, timedOut>>

PingResume ==
  /\ ping = "sending"
  /\ ping' = IF active THEN "sleeping" ELSE "done"
  /\ UNCHANGED <<stream, listener, sender, active, cancelled, failed, wire,
                 outcome, gone, timedOut>>

PingWakes ==
  /\ ping = "sleeping"
  /\ IF active
     THEN /\ Number("ping") < MaxPings
          /\ Put("ping")
          /\ ping' = "sending"
     ELSE ping' = "done" /\ UNCHANGED wire
  /\ UNCHANGED <<stream, listener, sender, active, cancelled, failed, outcome,
                 gone, timedOut>>

\* Cancelled, or a timeout of its own send, which it ignores.
PingEnds ==
  /\ \/ cancelled /\ ping \in {"sending", "sleeping"}
     \/ ping = "sending"
  /\ ping' = "done"
  /\ UNCHANGED <<stream, listener, sender, active, cancelled, failed, wire,
                 outcome, gone, timedOut>>

-----------------------------------------------------------------------------
(* The client disconnects.                                                  *)

Disconnect ==
  /\ listener = "receiving"
  /\ gone' = TRUE
  /\ active' = FALSE
  /\ listener' = "handler"
  /\ UNCHANGED <<stream, ping, sender, cancelled, failed, wire, outcome,
                 timedOut>>
\* Mutant: the task that sees the disconnect has no cancel scope.
HandlerEndsAlone ==
  /\ listener = "handler"
  /\ listener' = "done"
  /\ UNCHANGED <<stream, ping, sender, active, cancelled, failed, wire, outcome,
                 gone, timedOut>>

\* The handler of the application has run, whatever it raised.
HandlerEnds ==
  /\ listener = "handler"
  /\ listener' = "done"
  /\ cancelled' = TRUE
  /\ UNCHANGED <<stream, ping, sender, active, failed, wire, outcome, gone,
                 timedOut>>

\* Another message of the client, when the response is not active any more.
ListenerStops ==
  /\ listener = "receiving" /\ ~active
  /\ listener' = "done"
  /\ UNCHANGED <<stream, ping, sender, active, cancelled, failed, wire, outcome,
                 gone, timedOut>>

ListenerCancelled ==
  /\ cancelled
  /\ listener # "done"
  /\ listener' = "done"
  /\ UNCHANGED <<stream, ping, sender, active, cancelled, failed, wire, outcome,
                 gone, timedOut>>

-----------------------------------------------------------------------------
(* The task of the application, and the end of the group.                   *)

SenderEnds ==
  /\ sender = "running"
  /\ sender' = "done"
  /\ UNCHANGED <<stream, ping, listener, active, cancelled, failed, wire,
                 outcome, gone, timedOut>>

SenderFails ==
  /\ sender = "running"
  /\ sender' = "failed"
  /\ failed' = TRUE
  /\ cancelled' = TRUE
  /\ UNCHANGED <<stream, ping, listener, active, wire, outcome, gone, timedOut>>

SenderCancelled ==
  /\ cancelled
  /\ sender = "running"
  /\ sender' = "done"
  /\ UNCHANGED <<stream, ping, listener, active, cancelled, failed, wire,
                 outcome, gone, timedOut>>

\* All tasks are done.  After an exception there is no background task.
Join ==
  /\ outcome = "running"
  /\ stream = "done" /\ ping = "done" /\ listener = "done"
  /\ sender \in {"done", "failed"}
  /\ outcome' = IF failed THEN "raised" ELSE "returned"
  /\ UNCHANGED <<tasks, active, cancelled, failed, wire, gone, timedOut>>

Done == outcome # "running" /\ UNCHANGED vars

Next ==
  \/ SendStart \/ StreamResume \/ SendEvent \/ SourceEnds \/ SourceTimeout
  \/ SendExpired \/ RaiseExpired \/ SendTimeout \/ SendFinal \/ StreamEnds
  \/ GraceEnds \/ StreamCancelled
  \/ FirstPing \/ PingResume \/ PingWakes \/ PingEnds
  \/ Disconnect \/ HandlerEnds \/ ListenerStops \/ ListenerCancelled
  \/ SenderEnds \/ SenderFails \/ SenderCancelled
  \/ Join \/ Done

Spec == Init /\ [][Next]_vars

\* Tasks start, a cancelled task is resumed, the handler of the application
\* returns.  Nothing is assumed of the source, of the client or of the task of
\* the application: each of them may keep its task waiting for ever.
FairSpec ==
  /\ Spec
  /\ WF_vars(SendStart) /\ WF_vars(FirstPing)
  /\ WF_vars(StreamCancelled) /\ WF_vars(cancelled /\ PingEnds)
  /\ WF_vars(ListenerCancelled) /\ WF_vars(SenderCancelled)
  /\ WF_vars(HandlerEnds)
  /\ WF_vars(Join)

-----------------------------------------------------------------------------
TypeOK ==
  /\ stream \in StreamStates
  /\ ping \in PingStates
  /\ listener \in ListenerStates
  /\ sender \in {"running", "failed", "done"}
  /\ {active, cancelled, failed, gone, timedOut} \subseteq BOOLEAN
  /\ wire \in Seq({"start", "event", "ping", "final"})
  /\ outcome \in {"running", "returned", "raised"}
  /\ outcome # "running" => /\ stream = "done" /\ ping = "done"
                            /\ listener = "done" /\ sender # "running"

\* The response starts with its headers, whatever is sent first.
StartFirst == \A i \in DOMAIN wire : wire[i] = "start" <=> i = 1

\* No event follows the end of the body.
EventsBeforeFinal ==
  \A i, j \in DOMAIN wire : wire[i] = "final" /\ wire[j] = "event" => j < i

\* The body of a client that is there is ended, by the stream's finally clause,
\* unless a task of the application fails.
EndsCleanly ==
  outcome # "running" /\ ~gone /\ sender # "failed" => Sent("final")

\* It is ended once, unless the source let the send timeout pass.
FinalOnce ==
  \A i, j \in DOMAIN wire : wire[i] = "final" /\ wire[j] = "final" => i = j \/ timedOut

\* The messages of a response have the shape the protocol asks for, although its
\* tasks send at their own pace (responses.py:754, 786, 812).
StreamShape == StartFirst /\ EventsBeforeFinal /\ FinalOnce

\* A client that disconnects ends the response, even if the source, the send
\* or the task of the application would wait for ever.
DisconnectEnds == gone ~> outcome # "running"
=============================================================================
