----------------------- MODULE WebSocketSessionProofs -----------------------
(***************************************************************************)
(* What a WebSocket connection puts on the wire, for any number of tasks,  *)
(* messages and cleanup callbacks and any choice of handlers.  The state   *)
(* of a WebSocket object tells what it has sent, one task at most closes   *)
(* it, and the layers around the endpoint send nothing before it is over   *)
(* and nothing more than once, unless a hook between them raises.          *)
(***************************************************************************)
EXTENDS WebSocketSession, SequenceTheorems, TLAPS

MessageTypes == {"accept", "send", "close"}
Senders == Sockets \cup {"route", "include", "router", "app"}
Messages == [type : MessageTypes, by : Senders]
Places == {"idle", "connecting", "receiving", "reading", "closing", "raised"}
Inbox == {"connect", "receive", "disconnect"}

\* Where calls of a WebSocket happen.
Calling == {"dependencies", "endpoint", "handler"}

\* TypeOK with names for its sets.
Counts == 0 .. MaxCleanups
Outcomes == Kinds \cup {"none"}
Typed ==
  /\ site \in Sites /\ phase \in Phases /\ failure \in Outcomes
  /\ clientState \in [Sockets -> States]
  /\ applicationState \in [Sockets -> States]
  /\ registered \in [Sockets -> Counts]
  /\ at \in [Tasks -> Places]
  /\ on \in [Tasks -> Sockets]
  /\ raised \in [Tasks -> Outcomes]
  /\ cleaned \in [Tasks -> Counts]
  /\ inbox \in Seq(Inbox)
  /\ wire \in Seq(Messages)
  /\ left \in BOOLEAN /\ lost \in BOOLEAN
  /\ ran \in [Sockets -> Seq(1 .. MaxCleanups)]
  /\ broken \subseteq {"include", "router"}
  /\ phase \notin Calling => AllIdle

LEMMA TypedOK == TypeOK <=> Typed
BY DEF TypeOK, Typed, Counts, Outcomes, Places, Inbox, Messages, MessageTypes,
       Senders, Calling

\* Tasks talk to the client only where the dependencies, the endpoint and the
\* handler run, and there is one task where the handler runs.
TaskInv ==
  /\ phase \notin Calling => AllIdle
  /\ phase = "handler" => \A t \in Tasks \ {Main} : at[t] = "idle"

LEMMA CallPhase ==
  ASSUME TaskInv, NEW t \in Tasks, Call(t)
  PROVE  phase \in Calling
<1>1. CASE at[t] # "idle"
  BY <1>1 DEF TaskInv, AllIdle
<1>2. CASE at[t] = "idle"
  BY <1>2 DEF Call, Uses, Send, Receive, AcceptWaits, Accept, AddCleanup, Close,
              Connected, Received, Cleanup, CloseReturns, Catch, Leaves, Calling
<1>3. QED
  BY <1>1, <1>2

-----------------------------------------------------------------------------
(* What a call that sends may come to.                                      *)

Refused(t) ==
  /\ UNCHANGED <<applicationState, wire, lost>>
  /\ at' = [at EXCEPT ![t] = "raised"]
Spoken(t, s, type, place) ==
  /\ Permitted(s, type)
  /\ applicationState' = [applicationState EXCEPT ![s] =
                            IF type = "close" THEN "DISCONNECTED" ELSE "CONNECTED"]
  /\ \/ /\ wire' = Append(wire, [type |-> type, by |-> s])
        /\ lost' = lost
        /\ at' = [at EXCEPT ![t] = place]
     \/ /\ UNCHANGED wire
        /\ lost' = TRUE
        /\ at' = [at EXCEPT ![t] = "raised"]

LEMMA TransmitCases ==
  ASSUME NEW t, NEW s, NEW type, NEW place, Transmit(t, s, type, place)
  PROVE  Refused(t) \/ Spoken(t, s, type, place)
BY DEF Transmit, Sends, SendFails, Put, Goes, Raises, Refused, Spoken

LEMMA TransmitType ==
  ASSUME Typed, NEW t \in Tasks, NEW s \in Sockets, NEW type \in MessageTypes,
         NEW place \in {"idle", "closing"}, Transmit(t, s, type, place)
  PROVE  /\ applicationState' \in [Sockets -> States]
         /\ at' \in [Tasks -> Places]
         /\ raised' \in [Tasks -> Outcomes]
         /\ wire' \in Seq(Messages)
         /\ lost' \in BOOLEAN
         /\ \A u \in Tasks \ {t} : at'[u] = at[u]
<1>1. raised' \in [Tasks -> Outcomes]
  BY DEF Transmit, Goes, Raises, Typed, Outcomes, Kinds
<1>2. [type |-> type, by |-> s] \in Messages
  BY DEF Messages, Senders
<1>3. {"raised", place} \subseteq Places
  BY DEF Places
<1>4. CASE Refused(t)
  BY <1>1, <1>3, <1>4 DEF Refused, Typed
<1>5. CASE Spoken(t, s, type, place)
  <2>1. wire' \in Seq(Messages) /\ lost' \in BOOLEAN
    <3>1. CASE wire' = Append(wire, [type |-> type, by |-> s]) /\ lost' = lost
      BY <1>2, <3>1, AppendProperties DEF Typed
    <3>2. CASE UNCHANGED wire /\ lost' = TRUE
      BY <3>2 DEF Typed
    <3>3. QED
      BY <1>5, <3>1, <3>2 DEF Spoken
  <2>2. applicationState' \in [Sockets -> States]
    BY <1>5 DEF Spoken, Typed, States
  <2>3. at' \in [Tasks -> Places] /\ \A u \in Tasks \ {t} : at'[u] = at[u]
    BY <1>3, <1>5 DEF Spoken, Typed
  <2>4. QED
    BY <1>1, <2>1, <2>2, <2>3
<1>6. QED
  BY <1>4, <1>5, TransmitCases

-----------------------------------------------------------------------------
(* Types.                                                                   *)

TypeInv == Typed /\ TaskInv

LEMMA TypeInit == Init => TypeInv
<1> SUFFICES ASSUME Init PROVE TypeInv
  OBVIOUS
<1>1. /\ inbox \in Seq(Inbox) /\ wire \in Seq(Messages)
      /\ <<>> \in Seq(1 .. MaxCleanups)
  BY EmptySeq DEF Init, Inbox
<1>2. AllIdle
  BY DEF Init, AllIdle
<1>3. Typed
  <2>1. /\ site \in Sites /\ phase \in Phases /\ failure \in Outcomes
        /\ left \in BOOLEAN /\ lost \in BOOLEAN /\ broken \subseteq {"include", "router"}
    BY DEF Init, Phases, Outcomes
  <2>2. /\ clientState \in [Sockets -> States]
        /\ applicationState \in [Sockets -> States]
        /\ ran \in [Sockets -> Seq(1 .. MaxCleanups)]
    BY <1>1 DEF Init, States
  <2>3. /\ registered \in [Sockets -> Counts]
        /\ cleaned \in [Tasks -> Counts]
    BY WebSocketAssumption DEF Init, Counts
  <2>4. /\ at \in [Tasks -> Places]
        /\ on \in [Tasks -> Sockets]
        /\ raised \in [Tasks -> Outcomes]
    BY DEF Init, Places, Sockets, Outcomes
  <2>5. QED
    BY <1>1, <1>2, <2>1, <2>2, <2>3, <2>4 DEF Typed
<1>4. QED
  BY <1>2, <1>3 DEF Init, TypeInv, TaskInv

\* Calls, but for an exception that leaves the dependencies or the endpoint,
\* and what the handler does: the phase stays.
LEMMA CallType ==
  ASSUME TypeInv, NEW t \in Tasks, Call(t), \A kind \in Kinds : ~Leaves(t, kind)
  PROVE  TypeInv' /\ phase' = phase
<1> USE DEF layers, sockets, calls, client, TypeInv
<1>0. phase \in {"dependencies", "endpoint", "handler"}
  BY CallPhase DEF Calling
<1>1. {"idle", "connecting", "receiving", "reading", "closing", "raised"}
        \subseteq Places
  BY DEF Places
<1>2. (Head(inbox) \in Inbox /\ Tail(inbox) \in Seq(Inbox)) \/ inbox = <<>>
  BY HeadTailProperties DEF Typed
<1> DEFINE Rest == /\ UNCHANGED <<site, phase, failure, broken, left>>
                   /\ \A u \in Tasks \ {t} : at'[u] = at[u]
                   /\ clientState' \in [Sockets -> States]
                   /\ applicationState' \in [Sockets -> States]
                   /\ registered' \in [Sockets -> Counts]
                   /\ at' \in [Tasks -> Places]
                   /\ on' \in [Tasks -> Sockets]
                   /\ raised' \in [Tasks -> Outcomes]
                   /\ cleaned' \in [Tasks -> Counts]
                   /\ inbox' \in Seq(Inbox) /\ wire' \in Seq(Messages)
                   /\ lost' \in BOOLEAN
                   /\ ran' \in [Sockets -> Seq(1 .. MaxCleanups)]
<1>3. ASSUME NEW s \in Sockets, NEW type \in MessageTypes, Send(t, s, type)
      PROVE  Rest
  BY <1>3, TransmitType DEF Send, Typed
<1>4. ASSUME NEW s \in Sockets, NEW place \in {"receiving", "reading"},
             Receive(t, s, place)
      PROVE  Rest
  <2>1. {place, "raised"} \subseteq Places /\ {"none", "other"} \subseteq Outcomes
    BY <1>1 DEF Outcomes, Kinds
  <2>2. CASE Raises(t, "other") /\ UNCHANGED on
    BY <1>4, <2>1, <2>2 DEF Receive, Raises, Typed
  <2>3. CASE Goes(t, place) /\ on' = [on EXCEPT ![t] = s]
    BY <1>4, <2>1, <2>3 DEF Receive, Goes, Typed
  <2>4. QED
    BY <1>4, <2>2, <2>3 DEF Receive
<1>5. ASSUME NEW s \in Sockets, AcceptWaits(t, s)
      PROVE  Rest
  BY <1>1, <1>5 DEF AcceptWaits, Goes, Typed, Outcomes
<1>6. ASSUME NEW s \in Sockets, Accept(t, s)
      PROVE  Rest
  BY <1>6, TransmitType DEF Accept, Typed, States, MessageTypes
<1>7. ASSUME NEW s \in Sockets, AddCleanup(t, s)
      PROVE  Rest
  <2>1. /\ registered' = [registered EXCEPT ![s] = @ + 1]
        /\ registered[s] + 1 \in Counts
    BY <1>7, WebSocketAssumption DEF AddCleanup, Typed, Counts, Sockets
  <2>2. registered' \in [Sockets -> Counts]
    BY <2>1 DEF Typed
  <2>3. QED
    BY <1>7, <2>2 DEF AddCleanup, Typed
<1>8. ASSUME NEW s \in Sockets, Close(t, s)
      PROVE  Rest
  BY <1>8, TransmitType, WebSocketAssumption
  DEF Close, Typed, MessageTypes, Counts
<1>9. ASSUME Connected(t) PROVE Rest
  <2>1. on[t] \in Sockets /\ inbox' \in Seq(Inbox)
    BY <1>2, <1>9 DEF Connected, Typed
  <2>2. CASE Head(inbox) = "connect"
    <3>1. /\ clientState' = [clientState EXCEPT ![on[t]] = "CONNECTED"]
          /\ Transmit(t, on[t], "accept", "idle")
          /\ UNCHANGED <<site, phase, failure, broken, registered, on, cleaned, left, ran>>
      BY <1>9, <2>2 DEF Connected
    <3>2. clientState' \in [Sockets -> States]
      BY <2>1, <3>1 DEF Typed, States
    <3>3. QED
      BY <2>1, <3>1, <3>2, TransmitType DEF Typed, MessageTypes
  <2>3. CASE Head(inbox) # "connect"
    <3>1. "other" \in Outcomes
      BY DEF Outcomes, Kinds
    <3>2. QED
      BY <1>1, <1>9, <2>1, <2>3, <3>1 DEF Connected, Raises, Typed
  <2>4. QED
    BY <2>2, <2>3
<1>10. ASSUME Received(t) PROVE Rest
  <2>1. inbox' \in Seq(Inbox)
    BY <1>2, <1>10 DEF Received, Typed
  <2>2. clientState' \in [Sockets -> States]
    BY <1>10 DEF Received, Typed, States
  <2>3. at' \in [Tasks -> Places] /\ \A u \in Tasks \ {t} : at'[u] = at[u]
    BY <1>1, <1>10 DEF Received, Goes, Raises, Typed
  <2>4. raised' \in [Tasks -> Outcomes]
    <3>1. {"none", "disconnect", "other"} \subseteq Outcomes
      BY DEF Outcomes, Kinds
    <3>2. PICK kind \in Outcomes : raised' = [raised EXCEPT ![t] = kind]
      BY <1>10, <3>1 DEF Received, Goes, Raises
    <3>3. QED
      BY <3>2 DEF Typed
  <2>5. QED
    BY <1>10, <2>1, <2>2, <2>3, <2>4 DEF Received, Typed
<1>11. ASSUME Cleanup(t) PROVE Rest
  <2>1. cleaned[t] + 1 \in 1 .. MaxCleanups
    BY <1>11, WebSocketAssumption DEF Cleanup, Typed, Counts
  <2>2. ran' \in [Sockets -> Seq(1 .. MaxCleanups)]
    <3>1. on[t] \in Sockets /\ ran[on[t]] \in Seq(1 .. MaxCleanups)
      BY DEF Typed
    <3>2. Append(ran[on[t]], cleaned[t] + 1) \in Seq(1 .. MaxCleanups)
      BY <2>1, <3>1, AppendProperties
    <3>3. QED
      BY <1>11, <3>1, <3>2 DEF Cleanup, Typed
  <2>3. cleaned' \in [Tasks -> Counts]
    BY <1>11, <2>1 DEF Cleanup, Typed, Counts
  <2>4. "other" \in Outcomes
    BY DEF Outcomes, Kinds
  <2>5. QED
    <3>1. \/ UNCHANGED <<at, raised>>
          \/ /\ at' = [at EXCEPT ![t] = "raised"]
             /\ raised' = [raised EXCEPT ![t] = "other"]
      BY <1>11 DEF Cleanup, Raises
    <3>2. /\ at' \in [Tasks -> Places] /\ raised' \in [Tasks -> Outcomes]
          /\ \A u \in Tasks \ {t} : at'[u] = at[u]
      BY <1>1, <2>4, <3>1 DEF Typed
    <3>3. QED
      BY <1>11, <2>2, <2>3, <3>2 DEF Cleanup, Typed
<1>12. ASSUME CloseReturns(t) \/ Catch(t) PROVE Rest
  <2>1. 0 \in Counts /\ "none" \in Outcomes
    BY WebSocketAssumption DEF Counts, Outcomes
  <2>2. QED
    <3>1. /\ Goes(t, "idle") /\ cleaned' = [cleaned EXCEPT ![t] = 0]
          /\ UNCHANGED <<layers, sockets, on, client, wire, lost, ran>>
      BY <1>12 DEF CloseReturns, Catch
    <3>2. QED
      BY <1>1, <2>1, <3>1 DEF Goes, Typed
<1>13. Rest
  <2>1. \/ \E s \in Sockets :
             \/ \E type \in MessageTypes : Send(t, s, type)
             \/ \E place \in {"receiving", "reading"} : Receive(t, s, place)
             \/ AcceptWaits(t, s) \/ Accept(t, s) \/ AddCleanup(t, s) \/ Close(t, s)
        \/ Connected(t) \/ Received(t) \/ Cleanup(t) \/ CloseReturns(t) \/ Catch(t)
    BY DEF Call, MessageTypes
  <2>2. QED
    BY <1>3, <1>4, <1>5, <1>6, <1>7, <1>8, <1>9, <1>10, <1>11, <1>12, <2>1
<1>14. Typed'
  BY <1>0, <1>13 DEF Typed, Calling
<1>15. at[t] = "idle" => phase # "handler"
  <2>1. CASE at[t] = "idle"
    BY <2>1 DEF Call, Uses, Send, Receive, AcceptWaits, Accept, AddCleanup,
                Close, Connected, Received, Cleanup, CloseReturns, Catch
  <2>2. QED
    BY <2>1
<1>16. QED
  <2>1. phase' = phase /\ phase' \in Calling
    BY <1>0, <1>13 DEF Calling
  <2>2. phase = "handler" => t = Main
    BY <1>15 DEF TaskInv
  <2>3. QED
    BY <1>13, <1>14, <2>1, <2>2 DEF TaskInv

\* An exception leaves the dependencies or the endpoint, and everything the
\* layers do.
LEMMA LayerType ==
  ASSUME TypeInv,
         Layer \/ \E t \in Tasks, kind \in Kinds : Leaves(t, kind)
  PROVE  TypeInv'
<1> USE DEF layers, sockets, calls, client, TypeInv
<1>1. {"idle", "closing", "raised"} \subseteq Places
  BY DEF Places
<1>2. /\ 0 \in Counts /\ Kinds \subseteq Outcomes
      /\ {"http", "other"} \subseteq Kinds /\ "none" \in Outcomes
      /\ Main \in Tasks /\ "session" \in Sockets
  BY WebSocketAssumption DEF Counts, Outcomes, Kinds, Sockets
<1>3. ASSUME phase' \in Phases, failure' \in Outcomes, site' = site,
             broken' \subseteq {"include", "router"},
             UNCHANGED <<sockets, client, wire, lost, ran>>,
             Cancel \/ (AllIdle /\ UNCHANGED calls)
      PROVE  TypeInv'
  <2>1. AllIdle'
    BY <1>3 DEF Cancel, AllIdle
  <2>2. /\ at' \in [Tasks -> Places] /\ on' \in [Tasks -> Sockets]
        /\ raised' \in [Tasks -> Outcomes] /\ cleaned' \in [Tasks -> Counts]
    BY <1>1, <1>2, <1>3 DEF Cancel, Typed
  <2>3. Typed'
    BY <1>3, <2>1, <2>2 DEF Typed
  <2>4. QED
    BY <2>1, <2>3 DEF TaskInv, AllIdle
<1>4. phase \notin Calling => AllIdle
  BY DEF TaskInv
<1>5. ASSUME NEW t \in Tasks, NEW kind \in Kinds, Leaves(t, kind)
      PROVE  TypeInv'
  BY <1>2, <1>3, <1>5 DEF Leaves, Phases, Typed
<1>6. CASE \/ Match \/ NoMatch \/ HooksRun \/ DependenciesResolved
           \/ EndpointReturns \/ \E kind \in HookKinds : HookFails(kind)
  <2>1. CASE DependenciesResolved \/ EndpointReturns
    BY <1>3, <2>1 DEF DependenciesResolved, EndpointReturns, Phases, Typed
  <2>2. CASE Match \/ NoMatch \/ HooksRun
    <3>1. phase \notin Calling
      BY <2>2 DEF Match, NoMatch,
          HooksRun, RouterHooks, IncludeHooks, RouteHooks, Calling
    <3>2. phase' \in Phases /\ failure' \in Outcomes
      <4>1. CASE Match
        BY <4>1 DEF Match, Phases, Typed
      <4>2. CASE NoMatch
        BY <1>2, <4>2 DEF NoMatch, Unanswered, Phases, Typed
      <4>3. CASE HooksRun
        BY <1>2, <4>3 DEF
            HooksRun, RouterHooks, IncludeHooks, RouteHooks, Unanswered, Outward,
            Phases, Typed
      <4>4. QED
        BY <2>2, <4>1, <4>2, <4>3
    <3>3. UNCHANGED <<site, broken, sockets, calls, client, wire, lost, ran>>
      BY <2>2 DEF Match, NoMatch, HooksRun
    <3>4. QED
      BY <1>3, <1>4, <3>1, <3>2, <3>3 DEF Typed
  <2>3. ASSUME NEW kind \in HookKinds, HookFails(kind)
        PROVE  TypeInv'
    <3>1. phase \notin Calling
      BY <2>3 DEF HookFails, Calling
    <3>2. phase' \in Phases /\ broken' \subseteq {"include", "router"}
      BY <2>3 DEF HookFails, Phases, Typed
    <3>3. failure' \in Outcomes
      BY <1>2, <2>3, WebSocketAssumption DEF HookFails
    <3>4. QED
      BY <1>3, <1>4, <2>3, <3>1, <3>2, <3>3 DEF HookFails
  <2>4. QED
    BY <1>6, <2>1, <2>2, <2>3
<1>7. CASE HandlerIdle
  <2>1. AllIdle
    BY <1>7 DEF HandlerIdle, TaskInv, AllIdle
  <2>2. QED
    BY <1>3, <1>7, <2>1 DEF HandlerIdle, Phases, Typed
<1>8. CASE HandlerCloses
  <2>1. /\ Transmit(Main, "session", "close", "closing")
        /\ on' = [on EXCEPT ![Main] = "session"]
        /\ cleaned' = [cleaned EXCEPT ![Main] = 0]
        /\ UNCHANGED <<site, phase, failure, broken, clientState, registered, inbox,
                       left, ran>>
        /\ phase = "handler"
    BY <1>8 DEF HandlerCloses
  <2>2. /\ applicationState' \in [Sockets -> States]
        /\ at' \in [Tasks -> Places] /\ raised' \in [Tasks -> Outcomes]
        /\ wire' \in Seq(Messages) /\ lost' \in BOOLEAN
        /\ \A u \in Tasks \ {Main} : at'[u] = at[u]
    BY <1>2, <2>1, TransmitType DEF MessageTypes
  <2>3. on' \in [Tasks -> Sockets] /\ cleaned' \in [Tasks -> Counts]
    BY <1>2, <2>1 DEF Typed
  <2>4. Typed'
    BY <2>1, <2>2, <2>3 DEF Typed, Calling
  <2>5. QED
    BY <2>1, <2>2, <2>4 DEF TaskInv, Calling
<1>9. CASE HandlerReturns
  BY <1>3, <1>9 DEF HandlerReturns, Phases, Typed
<1>10. CASE HandlerRaises
  <2>1. raised[Main] \in Outcomes
    BY <1>2 DEF Typed
  <2>2. QED
    BY <1>3, <1>10, <2>1 DEF HandlerRaises, Phases, Typed
<1>11. CASE ClauseCloses \/ NotFound \/ AppHandles \/ AppRaises
  <2>1. AllIdle
    <3>1. phase \notin Calling
      BY <1>11 DEF ClauseCloses, NotFound, AppHandles, AppRaises, Calling
    <3>2. QED
      BY <1>4, <3>1
  <2>2. phase' \in Phases /\ failure' \in Outcomes
    BY <1>2, <1>11
    DEF ClauseCloses, Outward, NotFound, AppHandles, AppRaises, Phases, Typed
  <2>3. UNCHANGED <<site, broken, sockets, calls, client, ran>>
    BY <1>11 DEF ClauseCloses, NotFound, AppHandles, AppRaises
  <2>4. wire' \in Seq(Messages) /\ lost' \in BOOLEAN
    <3>1. \A by \in {"route", "include", "router", "app"} :
            [type |-> "close", by |-> by] \in Messages
      BY DEF Messages, MessageTypes, Senders
    <3>2. \/ \E by \in {"route", "include", "router", "app"} :
               wire' = Append(wire, [type |-> "close", by |-> by]) /\ lost' = lost
          \/ wire' = wire /\ lost' \in BOOLEAN
      BY <1>11 DEF ClauseCloses, NotFound, AppHandles, AppRaises, Sends, Put,
                   SendFails, Typed
    <3>3. \A m \in Messages : Append(wire, m) \in Seq(Messages)
      BY AppendProperties DEF Typed
    <3>4. QED
      BY <3>1, <3>2, <3>3 DEF Typed
  <2>5. AllIdle'
    BY <2>1, <2>3 DEF AllIdle
  <2>6. Typed'
    BY <2>2, <2>3, <2>4, <2>5 DEF Typed
  <2>7. QED
    BY <2>5, <2>6 DEF TaskInv, AllIdle
<1>12. QED
  BY <1>5, <1>6, <1>7, <1>8, <1>9, <1>10, <1>11 DEF Layer

LEMMA TypeStep == TypeInv /\ [Next]_vars => TypeInv'
<1> SUFFICES ASSUME TypeInv, [Next]_vars PROVE TypeInv'
  OBVIOUS
<1>1. CASE UNCHANGED vars \/ Stopped
  BY <1>1 DEF Stopped, vars, layers, sockets, calls, client, TypeInv, Typed,
              TaskInv, AllIdle
<1>2. CASE ClientSends \/ ClientLeaves
  <2>1. inbox' \in Seq(Inbox)
    <3>1. {"receive", "disconnect"} \subseteq Inbox
      BY DEF Inbox
    <3>2. \A m \in Inbox : Append(inbox, m) \in Seq(Inbox)
      BY AppendProperties DEF TypeInv, Typed
    <3>3. QED
      BY <1>2, <3>1, <3>2 DEF ClientSends, ClientLeaves
  <2>2. QED
    BY <1>2, <2>1 DEF ClientSends, ClientLeaves, layers, sockets, calls, TypeInv,
                      Typed, TaskInv, AllIdle
<1>3. CASE Layer \/ \E t \in Tasks, kind \in Kinds : Leaves(t, kind)
  BY <1>3, LayerType
<1>4. ASSUME NEW t \in Tasks, Call(t), \A kind \in Kinds : ~Leaves(t, kind)
      PROVE  TypeInv'
  BY <1>4, CallType
<1>5. QED
  BY <1>1, <1>2, <1>3, <1>4 DEF Next

\* Every reachable state of a connection has its type.
THEOREM TypeCorrect == Spec => []TypeOK
<1>1. TypeInv => TypeOK
  BY TypedOK DEF TypeInv
<1>2. QED
  BY <1>1, TypeInit, TypeStep, PTL DEF Spec

-----------------------------------------------------------------------------
(* What a step does to the wire.                                            *)

Layers == {"route", "include", "router", "app"}
Quiet == UNCHANGED <<wire, applicationState, lost>>
Speaks ==
  /\ phase \in Calling /\ UNCHANGED <<phase, site, broken>>
  /\ \E t \in Tasks, s \in Sockets, type \in MessageTypes,
        place \in {"idle", "closing"} : Spoken(t, s, type, place)
\* Where a layer speaks, and what follows.
Turn(by) ==
  \/ by = "route" /\ phase = "route" /\ phase' \in {"leaving", "departing"}
  \/ by = "include" /\ phase = "include" /\ phase' = "departing"
  \/ by = "router" /\ phase = "default" /\ phase' = "departing" /\ site = "router"
  \/ by = "app" /\ phase = "app" /\ phase' = "returned" /\ site # "router"
LayerSpeaks ==
  /\ UNCHANGED <<site, broken, applicationState, lost>>
  /\ \E by \in Layers : /\ Turn(by)
                        /\ wire' = Append(wire, [type |-> "close", by |-> by])
LayerFails == UNCHANGED <<wire, applicationState>> /\ lost'

LEMMA WireCases ==
  ASSUME TypeInv, [Next]_vars
  PROVE  Quiet \/ Speaks \/ LayerSpeaks \/ LayerFails
<1> USE DEF layers, sockets, calls, client
<1>1. CASE UNCHANGED vars \/ Stopped \/ ClientSends \/ ClientLeaves
  BY <1>1 DEF vars, Stopped, ClientSends, ClientLeaves, Quiet
<1>2. ASSUME NEW t \in Tasks, NEW s \in Sockets, NEW type \in MessageTypes,
             NEW place \in {"idle", "closing"}, Transmit(t, s, type, place),
             phase \in Calling, UNCHANGED layers
      PROVE  Quiet \/ Speaks
  BY <1>2, TransmitCases DEF Refused, Quiet, Speaks
<1>3. ASSUME NEW t \in Tasks, Call(t)
      PROVE  Quiet \/ Speaks
  <2>1. phase \in Calling
    BY <1>3, CallPhase DEF TypeInv
  <2>2. \/ UNCHANGED <<wire, applicationState, lost>>
        \/ /\ UNCHANGED layers
           /\ \E s \in Sockets, type \in MessageTypes, place \in {"idle", "closing"} :
                Transmit(t, s, type, place)
    <3>1. CASE \E s \in Sockets : \/ \E type \in MessageTypes : Send(t, s, type)
                                  \/ Accept(t, s) \/ Close(t, s)
      BY <3>1 DEF Send, Accept, Close, MessageTypes
    <3>2. CASE Connected(t)
      <4>1. on[t] \in Sockets
        BY DEF TypeInv, Typed
      <4>2. QED
        BY <3>2, <4>1 DEF Connected, MessageTypes
    <3>3. CASE \/ \E s \in Sockets : \/ AcceptWaits(t, s) \/ AddCleanup(t, s)
                                     \/ \E place \in {"receiving", "reading"} :
                                          Receive(t, s, place)
               \/ Received(t) \/ Cleanup(t) \/ CloseReturns(t) \/ Catch(t)
               \/ \E kind \in Kinds : Leaves(t, kind)
      BY <3>3 DEF AcceptWaits, AddCleanup, Receive, Received, Cleanup,
                  CloseReturns, Catch, Leaves
    <3>4. QED
      BY <1>3, <3>1, <3>2, <3>3 DEF Call, MessageTypes
  <2>3. QED
    BY <1>2, <2>1, <2>2 DEF Quiet
<1>4. CASE HandlerCloses
  <2>1. Main \in Tasks /\ "session" \in Sockets /\ "close" \in MessageTypes
    BY WebSocketAssumption DEF Sockets, MessageTypes
  <2>2. /\ Transmit(Main, "session", "close", "closing")
        /\ phase \in Calling /\ UNCHANGED layers
    BY <1>4 DEF HandlerCloses, Calling
  <2>3. QED
    BY <1>2, <2>1, <2>2
<1>5. CASE ClauseCloses \/ NotFound \/ AppHandles
  <2>1. CASE ClauseCloses
    BY <2>1 DEF ClauseCloses, Outward, Sends, Put, SendFails, LayerSpeaks, Turn, Layers,
                LayerFails
  <2>2. CASE NotFound
    BY <2>2 DEF NotFound, Sends, Put, SendFails, Quiet, LayerSpeaks, Turn, Layers,
                LayerFails
  <2>3. CASE AppHandles
    BY <2>3 DEF AppHandles, HasHandler, Sends, Put, SendFails, Quiet, LayerSpeaks, Turn,
                Layers, LayerFails
  <2>4. QED
    BY <1>5, <2>1, <2>2, <2>3
<1>6. CASE Layer /\ ~HandlerCloses /\ ~(ClauseCloses \/ NotFound \/ AppHandles)
  <2>1. UNCHANGED <<wire, applicationState, lost>>
    BY <1>6 DEF Layer, Match, NoMatch,
        HooksRun, RouterHooks, IncludeHooks, RouteHooks, DependenciesResolved,
       EndpointReturns, HookFails, HandlerIdle, HandlerReturns, HandlerRaises,
       AppRaises
  <2>2. QED
    BY <2>1 DEF Quiet
<1>7. QED
  BY <1>1, <1>3, <1>4, <1>5, <1>6 DEF Next

\* One more message on the wire.
LEMMA AppendFacts ==
  ASSUME Typed, NEW m, wire' = Append(wire, m)
  PROVE  /\ Len(wire) \in Nat /\ DOMAIN wire = 1 .. Len(wire)
         /\ Len(wire') = Len(wire) + 1 /\ DOMAIN wire' = 1 .. Len(wire) + 1
         /\ \A i \in DOMAIN wire : wire'[i] = wire[i]
         /\ wire'[Len(wire) + 1] = m
BY DEF Typed

-----------------------------------------------------------------------------
(* The order of messages.                                                   *)

Accepted(s) == \E k \in DOMAIN wire : wire[k] = [type |-> "accept", by |-> s]
Closed(s) == \E k \in DOMAIN wire : wire[k] = [type |-> "close", by |-> s]

\* The state of a WebSocket tells what it has sent.
WireInv ==
  \A s \in Sockets :
    /\ applicationState[s] = "CONNECTING" =>
         \A i \in DOMAIN wire : wire[i].by # s
    /\ applicationState[s] = "CONNECTED" =>
         /\ \A i \in DOMAIN wire : wire[i].by = s => wire[i].type # "close"
         /\ lost \/ Accepted(s)

\* The phase and the hooks that raised tell which layers have spoken.
SaidBefore(by) ==
  /\ phase \in {"leaving", "include", "departing", "app", "returned", "raised"}
  /\ phase \in {"leaving", "include"} => by = "route"
  /\ phase = "include" => "include" \in broken
  /\ phase \in {"departing", "app"} /\ site # "router" => by \in {"route", "include"}
  /\ phase = "app" /\ site # "router" =>
       "router" \in broken \/ (by = "route" /\ "include" \in broken)
LayerInv ==
  \A i \in DOMAIN wire : wire[i].by \notin Sockets => SaidBefore(wire[i].by)

OrderInv == WireInv /\ LayerInv /\ OwnOrder /\ LayersLast

LEMMA OrderInit == Init => OrderInv
BY DEF Init, OrderInv, WireInv, LayerInv, OwnOrder, LayersLast

\* A step that says nothing: the phase goes outward as the hooks tell.
LEMMA SaidStays ==
  ASSUME TypeInv, [Next]_vars, NEW by, SaidBefore(by),
         ~(Speaks \/ LayerSpeaks)
  PROVE  SaidBefore(by)'
<1> USE DEF layers, SaidBefore
<1>1. phase \notin Calling
  BY DEF Calling
<1>2. \A t \in Tasks : ~Call(t)
  BY <1>1, CallPhase DEF TypeInv
<1>3. CASE UNCHANGED vars \/ Stopped \/ ClientSends \/ ClientLeaves
  BY <1>3 DEF vars, Stopped, ClientSends, ClientLeaves
<1>4. CASE HooksRun \/ \E kind \in HookKinds : HookFails(kind)
  <2>1. CASE HooksRun
    BY <2>1 DEF HooksRun, RouterHooks, IncludeHooks, RouteHooks
  <2>2. CASE \E kind \in HookKinds : HookFails(kind)
    BY <2>2 DEF HookFails
  <2>3. QED
    BY <1>4, <2>1, <2>2
<1>5. CASE ClauseCloses
  <2>1. /\ phase = "include" /\ phase' \in {"departing", "app"}
        /\ UNCHANGED <<site, broken>>
    BY <1>5 DEF ClauseCloses, Outward
  <2>2. QED
    BY <2>1
<1>6. CASE AppHandles \/ AppRaises
  BY <1>6 DEF AppHandles, AppRaises
<1>7. CASE \/ Match \/ NoMatch \/ DependenciesResolved \/ EndpointReturns \/ HandlerIdle
           \/ HandlerCloses \/ HandlerReturns \/ HandlerRaises \/ NotFound
  BY <1>7 DEF Match, NoMatch, DependenciesResolved, EndpointReturns, HandlerIdle,
              HandlerCloses, HandlerReturns, HandlerRaises, NotFound
<1>8. QED
  BY <1>2, <1>3, <1>4, <1>5, <1>6, <1>7 DEF Next, Layer

\* A message of a sender that has closed nothing before, and that is no accept
\* unless it is its first.
LEMMA OrderAppend ==
  ASSUME Typed, OwnOrder, NEW type, NEW by,
         wire' = Append(wire, [type |-> type, by |-> by]), lost' = lost,
         \A i \in DOMAIN wire : wire[i].by = by =>
           wire[i].type # "close" /\ type # "accept",
         type = "send" => lost \/ Accepted(by)
  PROVE  OwnOrder'
<1> DEFINE n == Len(wire) + 1
           m == [type |-> type, by |-> by]
<1>1. /\ Len(wire) \in Nat /\ DOMAIN wire = 1 .. Len(wire)
      /\ DOMAIN wire' = 1 .. n
      /\ \A i \in DOMAIN wire : wire'[i] = wire[i]
      /\ wire'[n] = m
  BY AppendFacts
<1>2. m.type = type /\ m.by = by
  OBVIOUS
<1> HIDE DEF m
<1>3. ASSUME NEW i \in 1 .. n, NEW j \in 1 .. n, i < j, wire'[i].by = wire'[j].by
      PROVE  wire'[i].type # "close" /\ wire'[j].type # "accept"
  <2>1. i \in DOMAIN wire
    BY <1>1, <1>3
  <2>2. CASE j \in DOMAIN wire
    BY <1>1, <1>3, <2>1, <2>2 DEF OwnOrder
  <2>3. CASE j = n
    BY <1>1, <1>2, <1>3, <2>1, <2>3
  <2>4. QED
    BY <1>1, <2>2, <2>3
<1>4. ASSUME NEW j \in 1 .. n, wire'[j].type = "send"
      PROVE  lost' \/ \E k \in 1 .. j : wire'[k] = [type |-> "accept", by |-> wire'[j].by]
  <2>1. CASE j \in DOMAIN wire
    <3>1. lost \/ \E k \in 1 .. j : wire[k] = [type |-> "accept", by |-> wire[j].by]
      BY <1>1, <1>4, <2>1 DEF OwnOrder
    <3>2. 1 .. j \subseteq DOMAIN wire
      BY <1>1, <2>1
    <3>3. QED
      BY <1>1, <2>1, <3>1, <3>2
  <2>2. CASE j = n
    <3>1. lost \/ \E k \in DOMAIN wire : wire[k] = [type |-> "accept", by |-> by]
      BY <1>1, <1>2, <1>4, <2>2 DEF Accepted
    <3>2. DOMAIN wire \subseteq 1 .. j
      BY <1>1, <2>2
    <3>3. QED
      BY <1>1, <1>2, <2>2, <3>1, <3>2
  <2>3. QED
    BY <1>1, <2>1, <2>2
<1>5. QED
  BY <1>1, <1>3, <1>4 DEF OwnOrder

\* But for a hook that raises, nothing changes who has.
LEMMA BrokenStays ==
  ASSUME TypeInv, [Next]_vars, ~\E kind \in HookKinds : HookFails(kind)
  PROVE  broken' = broken
<1> USE DEF layers
<1>1. ASSUME NEW t \in Tasks, Call(t)
      PROVE  broken' = broken
  BY <1>1 DEF Call, Send, Receive, AcceptWaits, Accept, AddCleanup, Close, Connected,
              Received, Cleanup, CloseReturns, Catch, Leaves
<1>2. CASE Layer
  BY <1>2 DEF Layer, Match, NoMatch,
      HooksRun, RouterHooks, IncludeHooks, RouteHooks, DependenciesResolved,
      EndpointReturns,
              HandlerIdle, HandlerCloses, HandlerReturns, HandlerRaises, ClauseCloses,
              NotFound, AppHandles, AppRaises
<1>3. QED
  BY <1>1, <1>2 DEF Next, vars, Stopped, ClientSends, ClientLeaves

LEMMA OrderStep == TypeInv /\ OrderInv /\ [Next]_vars => OrderInv'
<1> SUFFICES ASSUME TypeInv, OrderInv, [Next]_vars PROVE OrderInv'
  OBVIOUS
<1>0. Typed
  BY DEF TypeInv
<1>a. ASSUME wire' = wire
      PROVE  LayerInv' /\ LayersLast'
  <2>1. broken \subseteq broken'
    <3>1. CASE \E kind \in HookKinds : HookFails(kind)
      BY <3>1 DEF HookFails
    <3>2. CASE ~\E kind \in HookKinds : HookFails(kind)
      BY <3>2, BrokenStays
    <3>3. QED
      BY <3>1, <3>2
  <2>2. LayersLast'
    BY <1>a, <2>1 DEF OrderInv, LayersLast
  <2>3. ASSUME NEW i \in DOMAIN wire, wire[i].by \notin Sockets
        PROVE  SaidBefore(wire[i].by)'
    <3>a. PICK by : by = wire[i].by
      OBVIOUS
    <3>1. SaidBefore(by)
      BY <2>3, <3>a DEF OrderInv, LayerInv
    <3>2. ~Speaks
      BY <3>1 DEF SaidBefore, Speaks, Calling
    <3>3. ~LayerSpeaks
      <4>1. ASSUME NEW m, wire' = Append(wire, m)
            PROVE  FALSE
        <5>1. Len(wire) \in Nat /\ Len(wire') = Len(wire) + 1
          BY <1>0, <4>1, AppendFacts
        <5>2. QED
          BY <1>a, <5>1
      <4>2. QED
        BY <4>1 DEF LayerSpeaks
    <3>4. QED
      <4>1. SaidBefore(by)'
        BY <3>1, <3>2, <3>3, SaidStays
      <4>2. by = wire'[i].by
        BY <1>a, <3>a
      <4>3. QED
        BY <1>a, <3>a, <4>1 DEF SaidBefore
  <2>4. QED
    BY <1>a, <2>2, <2>3 DEF LayerInv
<1>1. CASE Quiet
  <2>1. UNCHANGED <<wire, applicationState, lost>> /\ (LayerInv' /\ LayersLast')
    BY <1>1, <1>a DEF Quiet
  <2>2. QED
    BY <2>1 DEF OrderInv, WireInv, OwnOrder, Accepted
<1>2. CASE LayerFails
  <2>1. UNCHANGED <<wire, applicationState>> /\ lost' /\ (LayerInv' /\ LayersLast')
    BY <1>2, <1>a DEF LayerFails
  <2>2. QED
    BY <2>1 DEF OrderInv, WireInv, OwnOrder
<1>3. CASE Speaks
  <2>1. PICK t \in Tasks, s \in Sockets, type \in MessageTypes,
             place \in {"idle", "closing"} : Spoken(t, s, type, place)
    BY <1>3 DEF Speaks
  <2>2. \A i \in DOMAIN wire : wire[i].by \in Sockets
    BY <1>3 DEF Speaks, Calling, OrderInv, LayerInv, SaidBefore
  <2>3. \A i \in DOMAIN wire : wire[i].by = s =>
          wire[i].type # "close" /\ type # "accept"
    BY <2>1 DEF Spoken, Permitted, OrderInv, WireInv
  <2>4. type = "send" => lost \/ Accepted(s)
    BY <2>1 DEF Spoken, Permitted, OrderInv, WireInv
  <2>5. /\ applicationState[s] # "DISCONNECTED"
        /\ applicationState'[s] = IF type = "close" THEN "DISCONNECTED" ELSE "CONNECTED"
        /\ \A r \in Sockets \ {s} : applicationState'[r] = applicationState[r]
    BY <1>0, <2>1 DEF Spoken, Permitted, Typed
  <2>6. type # "close" => type = "accept" \/ lost \/ Accepted(s)
    BY <2>4 DEF MessageTypes
  <2>7. CASE wire' = wire /\ lost' = TRUE
    <3>1. WireInv' /\ OwnOrder'
      BY <2>3, <2>5, <2>7 DEF OrderInv, WireInv, OwnOrder
    <3>2. LayerInv' /\ LayersLast'
      BY <1>a, <2>7
    <3>3. QED
      BY <3>1, <3>2 DEF OrderInv
  <2>8. CASE wire' = Append(wire, [type |-> type, by |-> s]) /\ lost' = lost
    <3>1. /\ Len(wire) \in Nat /\ DOMAIN wire = 1 .. Len(wire)
          /\ DOMAIN wire' = 1 .. Len(wire) + 1
          /\ \A i \in DOMAIN wire : wire'[i] = wire[i]
          /\ wire'[Len(wire) + 1] = [type |-> type, by |-> s]
      BY <1>0, <2>8, AppendFacts
    <3>2. /\ wire'[Len(wire) + 1].type = type /\ wire'[Len(wire) + 1].by = s
      BY <3>1
    <3>3. OwnOrder'
      BY <1>0, <2>3, <2>4, <2>8, OrderAppend DEF OrderInv
    <3>4. \A i \in DOMAIN wire' : wire'[i].by \in Sockets
      BY <2>2, <3>1, <3>2
    <3>5. \A r \in Sockets : Accepted(r) => Accepted(r)'
      BY <3>1 DEF Accepted
    <3>6. type = "accept" => Accepted(s)'
      BY <3>1 DEF Accepted
    <3>7. WireInv'
      <4>1. ASSUME NEW r \in Sockets \ {s}
            PROVE  /\ applicationState'[r] = "CONNECTING" =>
                        \A i \in DOMAIN wire' : wire'[i].by # r
                   /\ applicationState'[r] = "CONNECTED" =>
                        /\ \A i \in DOMAIN wire' :
                             wire'[i].by = r => wire'[i].type # "close"
                        /\ lost' \/ Accepted(r)'
        BY <2>5, <2>8, <3>1, <3>2, <3>5 DEF OrderInv, WireInv
      <4>2. applicationState'[s] # "CONNECTING"
        BY <2>5
      <4>3. applicationState'[s] = "CONNECTED" =>
              /\ \A i \in DOMAIN wire' : wire'[i].by = s => wire'[i].type # "close"
              /\ lost' \/ Accepted(s)'
        BY <2>3, <2>5, <2>6, <2>8, <3>1, <3>2, <3>5, <3>6
      <4>4. QED
        BY <4>1, <4>2, <4>3 DEF WireInv
    <3>8. LayersLast' /\ LayerInv'
      BY <3>4 DEF LayersLast, LayerInv
    <3>9. QED
      BY <3>3, <3>7, <3>8 DEF OrderInv
  <2>9. QED
    BY <2>1, <2>7, <2>8 DEF Spoken
<1>4. CASE LayerSpeaks
  <2>1. PICK by \in Layers : /\ Turn(by)
                             /\ wire' = Append(wire, [type |-> "close", by |-> by])
    BY <1>4 DEF LayerSpeaks
  <2>2. by \notin Sockets
    BY DEF Sockets, Layers
  <2>3. UNCHANGED <<site, broken, applicationState, lost>>
    BY <1>4 DEF LayerSpeaks
  <2>4. \A i \in DOMAIN wire : wire[i].by \notin Sockets =>
          /\ by \in {"include", "app"} /\ SaidBefore(wire[i].by)
          /\ wire[i].by # by
    BY <2>1 DEF Turn, OrderInv, LayerInv, SaidBefore
  <2>5. /\ Len(wire) \in Nat /\ DOMAIN wire = 1 .. Len(wire)
        /\ Len(wire') = Len(wire) + 1 /\ DOMAIN wire' = 1 .. Len(wire) + 1
        /\ \A i \in DOMAIN wire : wire'[i] = wire[i]
        /\ wire'[Len(wire) + 1].by = by
    BY <1>0, <2>1, AppendFacts
  <2>6. OwnOrder'
    <3>1. \A i \in DOMAIN wire : wire[i].by # by
      BY <2>2, <2>4
    <3>2. QED
      BY <1>0, <2>1, <2>3, <3>1, OrderAppend DEF OrderInv
  <2>7. LayersLast'
    <3>1. ASSUME NEW i \in DOMAIN wire, wire[i].by \notin Sockets
          PROVE  \E layer \in broken : /\ Depth[wire[i].by] < Depth[layer]
                                       /\ Depth[layer] <= Depth[by]
      <4>1. CASE by = "include"
        BY <2>1, <2>4, <3>1, <4>1 DEF Turn, SaidBefore, Depth
      <4>2. CASE by = "app"
        BY <2>1, <2>4, <3>1, <4>2 DEF Turn, SaidBefore, Depth
      <4>3. QED
        BY <2>4, <3>1, <4>1, <4>2
    <3>2. ASSUME NEW i \in DOMAIN wire', NEW j \in DOMAIN wire', i < j,
                 wire'[i].by \notin Sockets
          PROVE  /\ wire'[j].by \notin Sockets
                 /\ \E layer \in broken' : /\ Depth[wire'[i].by] < Depth[layer]
                                           /\ Depth[layer] <= Depth[wire'[j].by]
      <4>1. i \in DOMAIN wire /\ wire'[i] = wire[i]
        BY <2>5, <3>2
      <4>2. CASE j \in DOMAIN wire
        BY <2>3, <2>5, <3>2, <4>1, <4>2 DEF OrderInv, LayersLast
      <4>3. CASE j = Len(wire) + 1
        BY <2>2, <2>3, <2>5, <3>1, <3>2, <4>1, <4>3
      <4>4. QED
        BY <2>5, <4>2, <4>3
    <3>3. QED
      BY <3>2 DEF LayersLast
  <2>8. WireInv'
    BY <2>2, <2>3, <2>5 DEF OrderInv, WireInv, Accepted
  <2>9. LayerInv'
    <3>1. SaidBefore(by)'
      BY <2>1, <2>3 DEF Turn, SaidBefore
    <3>2. ASSUME NEW i \in DOMAIN wire, wire[i].by \notin Sockets
          PROVE  SaidBefore(wire[i].by)'
      BY <2>1, <2>3, <2>4, <3>2 DEF Turn, SaidBefore
    <3>3. QED
      BY <2>5, <3>1, <3>2 DEF LayerInv
  <2>10. QED
    BY <2>6, <2>7, <2>8, <2>9 DEF OrderInv
<1>5. QED
  BY <1>1, <1>2, <1>3, <1>4, WireCases

\* A WebSocket accepts once, then sends, then closes once, however many tasks
\* use it at the same time and whatever fails.
THEOREM EachInOrder == Spec => []OwnOrder
<1>1. OrderInv => OwnOrder
  BY DEF OrderInv
<1>2. QED
  BY <1>1, TypeInit, TypeStep, OrderInit, OrderStep, PTL DEF Spec

\* The layers speak last, from the inside out, and another one only where hooks
\* raised after the one before.
THEOREM LayersCloseLast == Spec => []LayersLast
<1>1. OrderInv => LayersLast
  BY DEF OrderInv
<1>2. QED
  BY <1>1, TypeInit, TypeStep, OrderInit, OrderStep, PTL DEF Spec

-----------------------------------------------------------------------------
(* The cleanup callbacks.                                                   *)

\* One task closes a WebSocket, and it has run the callbacks that have run.
Closes(t, s) == at[t] = "closing" /\ on[t] = s
CleanInv ==
  \A s \in Sockets :
    /\ \A t \in Tasks : Closes(t, s) => /\ applicationState[s] = "DISCONNECTED"
                                        /\ Closed(s)
                                        /\ Len(ran[s]) = cleaned[t]
    /\ \A t, u \in Tasks : Closes(t, s) /\ Closes(u, s) => t = u
    /\ applicationState[s] # "DISCONNECTED" => ran[s] = <<>>

CleanupInv == CleanInv /\ CleanupInOrder

LEMMA CleanupInit == Init => CleanupInv
BY DEF Init, CleanupInv, CleanInv, CleanupInOrder, Closes, Closed

\* What is on the wire stays there.
LEMMA ClosedStays ==
  ASSUME TypeInv, [Next]_vars, NEW s, Closed(s)
  PROVE  Closed(s)'
<1>1. wire' = wire \/ \E m \in Messages : wire' = Append(wire, m)
  <2>1. CASE Speaks
    BY <2>1 DEF Speaks, Spoken, Messages, Senders
  <2>2. CASE LayerSpeaks
    <3>1. \A by \in Layers : [type |-> "close", by |-> by] \in Messages
      BY DEF Layers, Messages, MessageTypes, Senders
    <3>2. QED
      BY <2>2, <3>1 DEF LayerSpeaks
  <2>3. QED
    BY <2>1, <2>2, WireCases DEF Quiet, LayerFails
<1>2. CASE wire' = wire
  BY <1>2 DEF Closed
<1>3. ASSUME NEW m \in Messages, wire' = Append(wire, m)
      PROVE  Closed(s)'
  BY <1>3, AppendFacts DEF Closed, TypeInv
<1>4. QED
  BY <1>1, <1>2, <1>3

\* A step that runs no callback and that starts no close.
LEMMA CleanupKeeps ==
  ASSUME TypeInv, CleanupInv, [Next]_vars, ran' = ran,
         \A s \in Sockets :
           \/ applicationState'[s] = applicationState[s]
           \/ applicationState[s] # "DISCONNECTED",
         \A t \in Tasks, s \in Sockets :
           Closes(t, s)' => Closes(t, s) /\ cleaned'[t] = cleaned[t]
  PROVE  CleanupInv'
<1>1. \A s \in Sockets : Closed(s) => Closed(s)'
  BY ClosedStays
<1>2. CleanupInOrder'
  BY <1>1 DEF CleanupInv, CleanupInOrder, Closed
<1>3. ASSUME NEW s \in Sockets
      PROVE  /\ \A t \in Tasks : Closes(t, s)' =>
                  /\ applicationState'[s] = "DISCONNECTED"
                  /\ Closed(s)' /\ Len(ran'[s]) = cleaned'[t]
             /\ \A t, u \in Tasks : Closes(t, s)' /\ Closes(u, s)' => t = u
             /\ applicationState'[s] # "DISCONNECTED" => ran'[s] = <<>>
  BY <1>1, <1>3 DEF CleanupInv, CleanInv
<1>4. QED
  BY <1>2, <1>3 DEF CleanupInv, CleanInv

\* A call that sends, and then goes on to the callbacks if it was a close.
LEMMA TransmitCleans ==
  ASSUME TypeInv, CleanupInv, [Next]_vars, ran' = ran,
         NEW t \in Tasks, NEW s \in Sockets, NEW type \in MessageTypes,
         NEW place \in {"idle", "closing"}, Transmit(t, s, type, place),
         place = "closing" => /\ type = "close" /\ on'[t] = s /\ cleaned'[t] = 0,
         \A u \in Tasks \ {t} : on'[u] = on[u] /\ cleaned'[u] = cleaned[u]
  PROVE  CleanupInv'
<1>1. /\ at'[t] \in {"raised", place}
      /\ \A u \in Tasks \ {t} : at'[u] = at[u]
      /\ \A r \in Sockets : applicationState'[r] = applicationState[r]
                              \/ applicationState[r] # "DISCONNECTED"
  <2>1. CASE Refused(t)
    BY <2>1 DEF Refused, TypeInv, Typed
  <2>2. CASE Spoken(t, s, type, place)
    BY <2>2 DEF Spoken, Permitted, TypeInv, Typed
  <2>3. QED
    BY <2>1, <2>2, TransmitCases
<1>2. CASE at'[t] # "closing"
  BY <1>1, <1>2, CleanupKeeps DEF Closes
<1>3. CASE at'[t] = "closing"
  <2>1. /\ place = "closing" /\ type = "close" /\ on'[t] = s /\ cleaned'[t] = 0
    BY <1>1, <1>3
  <2>2. Spoken(t, s, type, place) /\ wire' = Append(wire, [type |-> type, by |-> s])
    <3>1. at' # [at EXCEPT ![t] = "raised"]
      BY <1>3 DEF TypeInv, Typed
    <3>2. QED
      BY <3>1, TransmitCases DEF Refused, Spoken
  <2>3. /\ applicationState[s] # "DISCONNECTED"
        /\ applicationState'[s] = "DISCONNECTED"
        /\ \A r \in Sockets \ {s} : applicationState'[r] = applicationState[r]
    BY <2>1, <2>2 DEF Spoken, Permitted, TypeInv, Typed
  <2>4. Closed(s)'
    BY <2>1, <2>2, AppendFacts DEF Closed, TypeInv
  <2>5. /\ ran[s] = <<>> /\ Len(ran[s]) = 0
        /\ \A u \in Tasks : ~Closes(u, s)
    BY <2>3 DEF CleanupInv, CleanInv
  <2>6. \A u \in Tasks \ {t} : /\ \A r \in Sockets : Closes(u, r)' <=> Closes(u, r)
                               /\ cleaned'[u] = cleaned[u]
    BY <1>1 DEF Closes
  <2>7. \A r \in Sockets : Closed(r) => Closed(r)'
    BY ClosedStays
  <2>8. CleanupInOrder'
    BY <2>7 DEF CleanupInv, CleanupInOrder, Closed
  <2>9. \A r \in Sockets : Closes(t, r)' <=> r = s
    BY <1>3, <2>1 DEF Closes
  <2>10. ASSUME NEW r \in Sockets
         PROVE  /\ \A u \in Tasks : Closes(u, r)' =>
                     /\ applicationState'[r] = "DISCONNECTED"
                     /\ Closed(r)' /\ Len(ran'[r]) = cleaned'[u]
                /\ \A u, v \in Tasks : Closes(u, r)' /\ Closes(v, r)' => u = v
                /\ applicationState'[r] # "DISCONNECTED" => ran'[r] = <<>>
    <3>1. CASE r = s
      BY <2>1, <2>3, <2>4, <2>5, <2>6, <2>9, <3>1
    <3>2. CASE r # s
      BY <2>3, <2>6, <2>7, <2>9, <3>2 DEF CleanupInv, CleanInv
    <3>3. QED
      BY <3>1, <3>2
  <2>11. QED
    BY <2>8, <2>10 DEF CleanupInv, CleanInv
<1>4. QED
  BY <1>2, <1>3

\* The next callback.
LEMMA CallbackRuns ==
  ASSUME TypeInv, CleanupInv, [Next]_vars, NEW t \in Tasks, Cleanup(t)
  PROVE  CleanupInv'
<1> DEFINE s == on[t]
           n == cleaned[t]
<1>1. /\ s \in Sockets /\ Closes(t, s)
      /\ ran' = [ran EXCEPT ![s] = Append(@, n + 1)]
      /\ cleaned' = [cleaned EXCEPT ![t] = n + 1]
      /\ UNCHANGED <<applicationState, on, wire>>
  BY DEF Cleanup, Closes, TypeInv, Typed, sockets
<1>2. /\ applicationState[s] = "DISCONNECTED" /\ Closed(s) /\ Len(ran[s]) = n
      /\ \A u \in Tasks \ {t} : ~Closes(u, s)
  BY <1>1 DEF CleanupInv, CleanInv
<1>3. n \in Nat /\ ran[s] \in Seq(1 .. MaxCleanups) /\ ran \in [Sockets -> Seq(1 .. MaxCleanups)]
  BY <1>1, WebSocketAssumption DEF TypeInv, Typed, Counts
<1>4. /\ ran'[s] = Append(ran[s], n + 1)
      /\ \A r \in Sockets \ {s} : ran'[r] = ran[r]
      /\ cleaned'[t] = n + 1
      /\ \A u \in Tasks \ {t} : cleaned'[u] = cleaned[u]
  BY <1>1, <1>3 DEF TypeInv, Typed
<1>5. /\ Len(ran'[s]) = n + 1 /\ DOMAIN ran'[s] = 1 .. n + 1
      /\ DOMAIN ran[s] = 1 .. n
      /\ \A i \in 1 .. n : ran'[s][i] = ran[s][i]
      /\ ran'[s][n + 1] = n + 1
  <2> HIDE DEF s, n
  <2>1. QED
    BY <1>2, <1>3, <1>4
<1>6. \A u \in Tasks, r \in Sockets : Closes(u, r)' => Closes(u, r)
  BY DEF Cleanup, Raises, Closes, TypeInv, Typed
<1> HIDE DEF s, n
<1>7. CleanupInOrder'
  <2>1. \A i \in DOMAIN ran'[s] : ran'[s][i] = i
    BY <1>1, <1>3, <1>5 DEF CleanupInv, CleanupInOrder
  <2>2. QED
    BY <1>1, <1>2, <1>4, <2>1 DEF CleanupInv, CleanupInOrder, Closed
<1>8. ASSUME NEW r \in Sockets
      PROVE  /\ \A u \in Tasks : Closes(u, r)' =>
                  /\ applicationState'[r] = "DISCONNECTED"
                  /\ Closed(r)' /\ Len(ran'[r]) = cleaned'[u]
             /\ \A u, v \in Tasks : Closes(u, r)' /\ Closes(v, r)' => u = v
             /\ applicationState'[r] # "DISCONNECTED" => ran'[r] = <<>>
  <2>1. Closed(r) => Closed(r)'
    BY ClosedStays
  <2>2. CASE r = s
    BY <1>1, <1>2, <1>4, <1>5, <1>6, <2>1, <2>2
  <2>3. CASE r # s
    <3>1. ~Closes(t, r)
      BY <1>1, <2>3 DEF Closes
    <3>2. QED
      BY <1>1, <1>4, <1>6, <2>1, <2>3, <3>1 DEF CleanupInv, CleanInv
  <2>4. QED
    BY <2>2, <2>3
<1>9. QED
  BY <1>7, <1>8 DEF CleanupInv, CleanInv

LEMMA CleanupStep == TypeInv /\ CleanupInv /\ [Next]_vars => CleanupInv'
<1> SUFFICES ASSUME TypeInv, CleanupInv, [Next]_vars PROVE CleanupInv'
  OBVIOUS
<1> USE DEF layers, sockets, calls, client
<1>1. CASE UNCHANGED vars \/ Stopped \/ ClientSends \/ ClientLeaves
  <2>1. UNCHANGED <<applicationState, ran, calls>>
    BY <1>1 DEF vars, Stopped, ClientSends, ClientLeaves
  <2>2. QED
    BY <2>1, CleanupKeeps DEF Closes
<1>2. ASSUME NEW t \in Tasks, NEW s \in Sockets,
             (\E type \in MessageTypes : Send(t, s, type)) \/ Accept(t, s) \/ Close(t, s)
      PROVE  CleanupInv'
  <2>1. CASE \E type \in MessageTypes : Send(t, s, type)
    BY <2>1, TransmitCleans DEF Send
  <2>2. CASE Accept(t, s)
    BY <2>2, TransmitCleans DEF Accept, MessageTypes
  <2>3. CASE Close(t, s)
    <3>1. /\ on'[t] = s /\ cleaned'[t] = 0
          /\ \A u \in Tasks \ {t} : on'[u] = on[u] /\ cleaned'[u] = cleaned[u]
      BY <2>3 DEF Close, TypeInv, Typed
    <3>2. QED
      BY <2>3, <3>1, TransmitCleans DEF Close, MessageTypes
  <2>4. QED
    BY <1>2, <2>1, <2>2, <2>3
<1>3. ASSUME NEW t \in Tasks, Connected(t)
      PROVE  CleanupInv'
  <2>1. on[t] \in Sockets /\ UNCHANGED <<on, cleaned, ran>>
    BY <1>3 DEF Connected, TypeInv, Typed
  <2>2. CASE Transmit(t, on[t], "accept", "idle")
    BY <2>1, <2>2, TransmitCleans DEF MessageTypes
  <2>3. CASE Raises(t, "other") /\ UNCHANGED applicationState
    BY <2>1, <2>3, CleanupKeeps DEF Raises, Closes, TypeInv, Typed
  <2>4. QED
    BY <1>3, <2>2, <2>3 DEF Connected
<1>4. ASSUME NEW t \in Tasks, NEW place \in {"idle", "connecting", "receiving",
                                             "reading", "raised"},
             at' = [at EXCEPT ![t] = place],
             \A u \in Tasks \ {t} : on'[u] = on[u] /\ cleaned'[u] = cleaned[u],
             UNCHANGED <<applicationState, ran>>
      PROVE  CleanupInv'
  <2>1. at'[t] # "closing" /\ \A u \in Tasks \ {t} : at'[u] = at[u]
    BY <1>4 DEF TypeInv, Typed
  <2>2. QED
    BY <1>4, <2>1, CleanupKeeps DEF Closes
<1>5. ASSUME NEW t \in Tasks, NEW s \in Sockets, AcceptWaits(t, s)
      PROVE  CleanupInv'
  BY <1>4, <1>5 DEF AcceptWaits, Goes, TypeInv, Typed
<1>6. ASSUME NEW t \in Tasks, NEW s \in Sockets,
             NEW place \in {"receiving", "reading"}, Receive(t, s, place)
      PROVE  CleanupInv'
  BY <1>4, <1>6 DEF Receive, Goes, Raises, TypeInv, Typed
<1>7. ASSUME NEW t \in Tasks, NEW s \in Sockets, AddCleanup(t, s)
      PROVE  CleanupInv'
  BY <1>7, CleanupKeeps DEF AddCleanup, Closes
<1>8. ASSUME NEW t \in Tasks, Received(t) \/ CloseReturns(t) \/ Catch(t)
      PROVE  CleanupInv'
  <2>1. CASE Received(t)
    BY <1>4, <2>1 DEF Received, Goes, Raises
  <2>2. CASE CloseReturns(t) \/ Catch(t)
    BY <1>4, <2>2 DEF CloseReturns, Catch, Goes, TypeInv, Typed
  <2>3. QED
    BY <1>8, <2>1, <2>2
<1>9. ASSUME NEW t \in Tasks, Cleanup(t)
      PROVE  CleanupInv'
  BY <1>9, CallbackRuns
<1>10. CASE HandlerCloses
  <2>1. Main \in Tasks /\ "session" \in Sockets /\ "close" \in MessageTypes
    BY WebSocketAssumption DEF Sockets, MessageTypes
  <2>2. /\ Transmit(Main, "session", "close", "closing") /\ ran' = ran
        /\ on'[Main] = "session" /\ cleaned'[Main] = 0
        /\ \A u \in Tasks \ {Main} : on'[u] = on[u] /\ cleaned'[u] = cleaned[u]
    BY <1>10, <2>1 DEF HandlerCloses, TypeInv, Typed
  <2>3. QED
    BY <2>1, <2>2, TransmitCleans
<1>11. CASE \/ Layer /\ ~HandlerCloses
            \/ \E t \in Tasks, kind \in Kinds : Leaves(t, kind)
  <2>1. UNCHANGED <<applicationState, ran>> /\ (Cancel \/ UNCHANGED calls)
    BY <1>11 DEF Layer, Match, NoMatch,
        HooksRun, RouterHooks, IncludeHooks, RouteHooks, DependenciesResolved,
       EndpointReturns, HookFails, HandlerIdle, HandlerReturns, HandlerRaises,
       ClauseCloses, NotFound, AppHandles, AppRaises, Leaves
  <2>2. QED
    BY <2>1, CleanupKeeps DEF Cancel, Closes
<1>12. QED
  <2>1. ASSUME NEW t \in Tasks, Call(t)
        PROVE  CleanupInv'
    <3>1. CASE \E s \in Sockets :
                 \/ \E type \in MessageTypes : Send(t, s, type)
                 \/ \E place \in {"receiving", "reading"} : Receive(t, s, place)
                 \/ AcceptWaits(t, s) \/ Accept(t, s) \/ AddCleanup(t, s)
                 \/ Close(t, s)
      BY <1>2, <1>5, <1>6, <1>7, <3>1
    <3>2. CASE \/ Connected(t) \/ Received(t) \/ Cleanup(t) \/ CloseReturns(t)
               \/ Catch(t) \/ \E kind \in Kinds : Leaves(t, kind)
      BY <1>3, <1>8, <1>9, <1>11, <3>2
    <3>3. QED
      BY <2>1, <3>1, <3>2 DEF Call, MessageTypes
  <2>2. QED
    BY <1>1, <1>10, <1>11, <2>1 DEF Next

\* Whoever closes a WebSocket, its callbacks run once and in order.
THEOREM CallbacksInOrder == Spec => []CleanupInOrder
<1>1. CleanupInv => CleanupInOrder
  BY DEF CleanupInv
<1>2. QED
  BY <1>1, TypeInit, TypeStep, CleanupInit, CleanupStep, PTL DEF Spec

-----------------------------------------------------------------------------
(* The answer.                                                              *)

\* The last exception had a handler, or a layer has closed.
LayerClosed ==
  \E i \in DOMAIN wire : wire[i].type = "close" /\ wire[i].by \notin Sockets
Settled == failure = "none" \/ HasHandler(failure) \/ LayerClosed

\* What the layers know of the exception they deal with.
FailureInv ==
  /\ phase \in {"arriving", "routing", "entering", "nested", "before", "dependencies",
               "endpoint"} => failure = "none"
  /\ phase = "handler" /\ at[Main] # "idle" => HasHandler(failure)
  /\ phase \in {"after", "default"} => failure = "none" \/ HasHandler(failure)
  /\ phase \in {"leaving", "departing"} => Settled /\ (wire # <<>> \/ lost)
  /\ phase = "app" => \/ lost \/ "router" \in broken
                      \/ failure = "http" /\ site # "router"

AnswerInv == FailureInv /\ Answered

LEMMA AnswerInit == Init => AnswerInv
BY DEF Init, AnswerInv, FailureInv, Answered

\* A call keeps the phase, and the handler is at work only if there is one.
LEMMA CallAnswers ==
  ASSUME TypeInv, AnswerInv, NEW t \in Tasks, Call(t),
         \A kind \in Kinds : ~Leaves(t, kind)
  PROVE  AnswerInv'
<1>1. phase' = phase /\ phase \in Calling
  BY CallType, CallPhase DEF TypeInv
<1>2. UNCHANGED <<site, failure>>
  BY DEF Call, Send, Receive, AcceptWaits, Accept, AddCleanup, Close, Connected,
         Received, Cleanup, CloseReturns, Catch, layers
<1>3. phase = "handler" => at[Main] # "idle"
  <2>1. CASE at[t] = "idle"
    BY <2>1 DEF Call, Uses, Send, Receive, AcceptWaits, Accept, AddCleanup,
                Close, Connected, Received, Cleanup, CloseReturns, Catch
  <2>2. QED
    BY <2>1 DEF TypeInv, TaskInv
<1>4. QED
  BY <1>1, <1>2, <1>3 DEF AnswerInv, FailureInv, Answered, HasHandler, Calling

\* A layer that closes puts its close on the wire.
LEMMA LayerCloses ==
  ASSUME Typed, NEW by \in Layers, Sends("close", by)
  PROVE  wire' # <<>> /\ lost' = lost /\ LayerClosed'
<1>1. wire' = Append(wire, [type |-> "close", by |-> by]) /\ lost' = lost
  BY DEF Sends, Put
<1>2. /\ Len(wire) \in Nat /\ DOMAIN wire' = 1 .. Len(wire) + 1
      /\ wire'[Len(wire) + 1] = [type |-> "close", by |-> by]
  BY <1>1, AppendFacts
<1>3. Len(wire) + 1 \in DOMAIN wire' /\ by \notin Sockets
  BY <1>2 DEF Sockets, Layers
<1>4. wire'[Len(wire) + 1].type = "close" /\ wire'[Len(wire) + 1].by = by
  BY <1>2
<1>5. wire' # <<>>
  BY <1>3
<1>6. QED
  BY <1>1, <1>3, <1>4, <1>5 DEF LayerClosed

LEMMA AnswerStep == TypeInv /\ AnswerInv /\ [Next]_vars => AnswerInv'
<1> SUFFICES ASSUME TypeInv, AnswerInv, [Next]_vars PROVE AnswerInv'
  OBVIOUS
<1> USE DEF layers, sockets, calls, client
<1>1. CASE UNCHANGED vars \/ Stopped \/ ClientSends \/ ClientLeaves
  <2>1. UNCHANGED <<site, phase, failure, broken, at, wire, lost>>
    BY <1>1 DEF vars, Stopped, ClientSends, ClientLeaves
  <2>2. QED
    BY <2>1 DEF AnswerInv, FailureInv, Answered, HasHandler, Settled, LayerClosed
<1>2. ASSUME NEW t \in Tasks, Call(t), \A kind \in Kinds : ~Leaves(t, kind)
      PROVE  AnswerInv'
  BY <1>2, CallAnswers
<1>3. Main \in Tasks /\ "http" \in Handled
  BY WebSocketAssumption
<1>4. ASSUME NEW t \in Tasks, NEW kind \in Kinds, Leaves(t, kind)
      PROVE  AnswerInv'
  BY <1>3, <1>4 DEF Leaves, Cancel, AnswerInv, FailureInv, Answered
<1>5. CASE \/ Match \/ NoMatch \/ HooksRun \/ DependenciesResolved
           \/ EndpointReturns \/ \E kind \in HookKinds : HookFails(kind)
  <2>1. CASE Match \/ DependenciesResolved \/ EndpointReturns
    BY <2>1 DEF Match, DependenciesResolved, EndpointReturns, AnswerInv, FailureInv,
                Answered, HasHandler
  <2>2. CASE NoMatch
    BY <1>3, <2>2 DEF NoMatch, Unanswered, AnswerInv, FailureInv, Answered, HasHandler
  <2>3. CASE HooksRun
    <3>1. UNCHANGED <<site, broken, wire, lost>>
      BY <2>3 DEF HooksRun, RouterHooks, IncludeHooks, RouteHooks
    <3>2. CASE phase \in {"arriving", "entering", "before"}
      BY <2>3, <3>1, <3>2 DEF
          HooksRun, RouterHooks, IncludeHooks, RouteHooks, AnswerInv, FailureInv,
          Answered
    <3>3. CASE phase = "after"
      <4>1. failure = "none" \/ HasHandler(failure)
        BY <3>3 DEF AnswerInv, FailureInv
      <4>2. CASE phase' \in {"default", "include"}
        <5>1. phase' = "default" => failure' = failure
          BY <2>3, <3>3 DEF
              HooksRun, RouterHooks, IncludeHooks, RouteHooks, Unanswered, Outward
        <5>2. QED
          BY <3>1, <4>1, <4>2, <5>1 DEF AnswerInv, FailureInv, Answered, HasHandler
      <4>3. CASE /\ phase' \in {"leaving", "departing"} /\ failure' = failure
                 /\ wire # <<>> \/ lost
        <5>1. Settled'
          BY <3>1, <4>1, <4>3 DEF Settled, HasHandler
        <5>2. QED
          BY <3>1, <4>3, <5>1 DEF AnswerInv, FailureInv, Answered
      <4>4. QED
        BY <2>3, <3>3, <4>2, <4>3 DEF
            HooksRun, RouterHooks, IncludeHooks, RouteHooks, Unanswered, Outward
    <3>4. CASE phase \in {"leaving", "departing"}
      <4>1. /\ Settled /\ (wire # <<>> \/ lost) /\ failure' = failure
            /\ phase' \in {"departing", "returned"}
        <5>1. Settled /\ (wire # <<>> \/ lost)
          BY <3>4 DEF AnswerInv, FailureInv
        <5>2. failure' = failure /\ phase' \in {"departing", "returned"}
          BY <2>3, <3>4 DEF HooksRun, RouterHooks, IncludeHooks, RouteHooks
        <5>3. QED
          BY <5>1, <5>2
      <4>2. Settled'
        BY <3>1, <4>1 DEF Settled, LayerClosed, HasHandler
      <4>3. Answered'
        BY <3>1, <4>1, <4>2 DEF Answered, Settled, LayerClosed
      <4>4. QED
        BY <3>1, <4>1, <4>2, <4>3 DEF AnswerInv, FailureInv
    <3>5. QED
      BY <2>3, <3>2, <3>3, <3>4 DEF HooksRun, RouterHooks, IncludeHooks, RouteHooks
  <2>4. ASSUME NEW kind \in HookKinds, HookFails(kind)
        PROVE  AnswerInv'
    BY <2>4 DEF HookFails, AnswerInv, FailureInv, Answered
  <2>5. QED
    BY <1>5, <2>1, <2>2, <2>3, <2>4
<1>6. CASE HandlerIdle \/ HandlerReturns \/ HandlerRaises
  BY <1>6 DEF HandlerIdle, HandlerReturns, HandlerRaises, AnswerInv, FailureInv,
              Answered, HasHandler
<1>7. CASE HandlerCloses
  BY <1>7 DEF HandlerCloses, AnswerInv, FailureInv, Answered, HasHandler
<1>8. CASE ClauseCloses
  <2>1. CASE Sends("close", phase) /\ phase' = Outward
    <3>1. phase \in Layers
      BY <1>8 DEF ClauseCloses, Layers
    <3>2. wire' # <<>> /\ LayerClosed'
      BY <2>1, <3>1, LayerCloses DEF TypeInv
    <3>3. phase' \in {"leaving", "departing"}
      BY <2>1 DEF Outward
    <3>4. QED
      BY <3>2, <3>3 DEF AnswerInv, FailureInv, Answered, Settled
  <2>2. CASE SendFails /\ phase' \in {"include", "app"}
    BY <2>2 DEF SendFails, AnswerInv, FailureInv, Answered
  <2>3. QED
    BY <1>8, <2>1, <2>2 DEF ClauseCloses
<1>9. CASE NotFound
  <2>1. CASE Sends("close", "router") /\ phase' = "departing"
    <3>1. wire' # <<>> /\ LayerClosed'
      BY <2>1, LayerCloses DEF TypeInv, Layers
    <3>2. QED
      BY <2>1, <3>1 DEF AnswerInv, FailureInv, Answered, Settled
  <2>2. CASE SendFails /\ phase' = "app"
    BY <2>2 DEF SendFails, AnswerInv, FailureInv, Answered
  <2>3. CASE /\ site # "router" /\ failure' = "http" /\ phase' = "app"
             /\ UNCHANGED <<site, wire, lost>>
    BY <2>3 DEF AnswerInv, FailureInv, Answered
  <2>4. QED
    BY <1>9, <2>1, <2>2, <2>3 DEF NotFound
<1>10. CASE AppHandles
  <2>1. HasHandler(failure) /\ HasHandler(failure)' /\ failure' = failure
    BY <1>10 DEF AppHandles, HasHandler
  <2>2. CASE Sends("close", "app") /\ phase' = "returned"
    <3>1. wire' # <<>> /\ LayerClosed'
      BY <2>2, LayerCloses DEF TypeInv, Layers
    <3>2. QED
      BY <2>1, <2>2, <3>1 DEF AnswerInv, FailureInv, Answered
  <2>3. CASE SendFails /\ phase' = "raised"
    BY <2>3 DEF SendFails, AnswerInv, FailureInv, Answered
  <2>4. CASE phase' = "returned" /\ UNCHANGED <<wire, lost>>
    BY <1>10, <2>1, <2>4 DEF AppHandles, HasHandler, AnswerInv, FailureInv, Answered
  <2>5. QED
    BY <1>10, <2>2, <2>3, <2>4 DEF AppHandles
<1>11. CASE AppRaises
  BY <1>3, <1>11 DEF AppRaises, AnswerInv, FailureInv, Answered, HasHandler
<1>12. QED
  BY <1>1, <1>2, <1>4, <1>5, <1>6, <1>7, <1>8, <1>9, <1>10, <1>11 DEF Next, Layer

\* Nobody waits for an answer in vain: the application closes what no handler
\* has dealt with, and an exception leaves it only when the client is gone or
\* when it came from the hooks of the outermost router.
THEOREM ClientAnswered == Spec => []Answered
<1>1. AnswerInv => Answered
  BY DEF AnswerInv
<1>2. QED
  BY <1>1, TypeInit, TypeStep, AnswerInit, AnswerStep, PTL DEF Spec
=============================================================================
