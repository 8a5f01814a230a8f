-------------------------- MODULE WebSocketSession --------------------------
(***************************************************************************)
(* One WebSocket connection: from the router that looks for a              *)
(* WebSocketPath, through the dependencies and the endpoint that talk to   *)
(* the client with WebSocket objects, to the layers that deal with an      *)
(* exception and the hooks that run before and after each of them.  The    *)
(* endpoint may talk from several tasks at once (a reader and a writer, as *)
(* tests/test_websockets.py does).                                         *)
(*                                                                         *)
(* From the outside in, the layers are the exception handlers of the       *)
(* application ("app"), its router or a bare one ("router"), an Include    *)
(* ("include") and the WebSocketPath ("route").  The hooks of a router are *)
(* inside the handlers of the application only; those of an Include, and   *)
(* of the Router it may have been given, are inside the Include's clause.  *)
(*                                                                         *)
(* handle_websocket_session makes two WebSocket objects for a connection:  *)
(* one for the dependencies, one for the endpoint.  Each keeps a state of  *)
(* its own, and the clauses of WebSocketPath and Include send without one. *)
(***************************************************************************)
EXTENDS Naturals, Sequences

CONSTANTS
  Tasks,        \* the tasks of the endpoint
  Main,         \* the task that runs the dependencies, the endpoint, the handler
  Handled,      \* kinds of exceptions the application has a handler for
  Closing,      \* those whose handler closes the WebSocket
  HookKinds,    \* kinds of exceptions the hooks raise
  MaxInbox,     \* bound on the messages that wait when the client sends one more
  MaxWire,      \* bound on the messages sent before the layers clean up
  MaxCleanups   \* bound on the cleanup callbacks of a connection

Sockets == {"dependency", "session"}
Kinds == {"websocket", "http", "disconnect", "other"}
Sites == {"router", "app", "include", "child"}

\* ExceptionMiddleware installs handlers for the first two kinds; a subclass or
\* a status may be given another one.
ASSUME WebSocketAssumption ==
  /\ Main \in Tasks
  /\ {"websocket", "http"} \subseteq Handled /\ Handled \subseteq Kinds
  /\ Closing \subseteq Handled /\ "http" \notin Closing
  /\ HookKinds \subseteq Kinds
  /\ MaxInbox \in Nat /\ MaxWire \in Nat /\ MaxCleanups \in Nat

VARIABLES
  site,              \* what the route is in: a bare Router, an application, an Include
                     \* of it that was given routes, or one that was given a Router
  phase,             \* where the connection is in the layers
  failure,           \* the last exception that left the endpoint or a hook
  clientState,       \* client_state of each WebSocket
  applicationState,  \* application_state of each WebSocket
  registered,        \* number of cleanup callbacks of each WebSocket
  at, on,            \* what a task waits for, and in a call of which WebSocket
  raised,            \* the exception a call gave to a task
  cleaned,           \* how many callbacks the task that closes has run
  inbox,             \* messages the server has for receive
  left,              \* the client has disconnected
  wire,              \* messages given to the server, with who sent them
  lost,              \* history: a send failed, the client being gone
  broken,            \* history: the layers around the route whose hooks have raised
  ran                \* history: the callbacks of each WebSocket in the order they ran

sockets == <<clientState, applicationState, registered>>
calls == <<at, on, raised, cleaned>>
client == <<inbox, left>>
layers == <<site, phase, failure, broken>>
vars == <<layers, sockets, calls, client, wire, lost, ran>>

Phases == {"arriving", "routing", "entering", "nested", "before", "dependencies",
           "endpoint", "handler", "after", "route", "leaving", "include", "default",
           "departing", "app", "returned", "raised"}
States == {"CONNECTING", "CONNECTED", "DISCONNECTED"}
Over == phase \in {"returned", "raised"}

Init ==
  /\ site \in Sites
  /\ phase = "arriving"
  /\ failure = "none"
  /\ broken = {}
  /\ clientState = [s \in Sockets |-> "CONNECTING"]
  /\ applicationState = [s \in Sockets |-> "CONNECTING"]
  /\ registered = [s \in Sockets |-> 0]
  /\ at = [t \in Tasks |-> "idle"]
  /\ on = [t \in Tasks |-> "session"]
  /\ raised = [t \in Tasks |-> "none"]
  /\ cleaned = [t \in Tasks |-> 0]
  /\ inbox = <<"connect">>
  /\ left = FALSE
  /\ wire = <<>>
  /\ lost = FALSE
  /\ ran = [s \in Sockets |-> <<>>]

Put(type, by) == wire' = Append(wire, [type |-> type, by |-> by])

\* The server takes a message; when the client is gone it may raise instead.
Sends(type, by) == Put(type, by) /\ UNCHANGED lost
SendFails == left /\ lost' = TRUE /\ UNCHANGED wire

-----------------------------------------------------------------------------
(* Calls of a WebSocket, by the dependencies and by the endpoint.           *)

\* Who may call, and which object.
Uses(t, s) ==
  /\ at[t] = "idle"
  /\ \/ phase = "dependencies" /\ t = Main /\ s = "dependency"
     \/ phase = "endpoint" /\ s = "session"

Goes(t, place) ==
  /\ at' = [at EXCEPT ![t] = place]
  /\ raised' = [raised EXCEPT ![t] = "none"]
Raises(t, kind) ==
  /\ at' = [at EXCEPT ![t] = "raised"]
  /\ raised' = [raised EXCEPT ![t] = kind]

\* Mutant: a close does not end what may be sent.
PermittedLater(s, type) ==
  \/ applicationState[s] = "CONNECTING" /\ type \in {"accept", "close"}
  \/ applicationState[s] # "CONNECTING" /\ type \in {"send", "close"}

Permitted(s, type) ==
  \/ applicationState[s] = "CONNECTING" /\ type \in {"accept", "close"}
  \/ applicationState[s] = "CONNECTED" /\ type \in {"send", "close"}

\* send: the state changes before the server is given the message.
Transmit(t, s, type, place) ==
  IF Permitted(s, type)
  THEN /\ applicationState' = [applicationState EXCEPT ![s] =
                                 IF type = "close" THEN "DISCONNECTED" ELSE "CONNECTED"]
       /\ \/ Sends(type, s) /\ Goes(t, place)
          \/ SendFails /\ Raises(t, "other")
  ELSE Raises(t, "other") /\ UNCHANGED <<applicationState, wire, lost>>

Room == Len(wire) < MaxWire

Send(t, s, type) ==
  /\ Uses(t, s) /\ Room
  /\ Transmit(t, s, type, "idle")
  /\ UNCHANGED <<layers, clientState, registered, on, cleaned, client, ran>>

\* accept of a WebSocket that has not seen the connect message waits for it.
AcceptWaits(t, s) ==
  /\ Uses(t, s)
  /\ clientState[s] = "CONNECTING"
  /\ Goes(t, "connecting")
  /\ on' = [on EXCEPT ![t] = s]
  /\ UNCHANGED <<layers, sockets, cleaned, client, wire, lost, ran>>

Accept(t, s) ==
  /\ Uses(t, s) /\ Room
  /\ clientState[s] # "CONNECTING"
  /\ clientState' = [clientState EXCEPT ![s] = "CONNECTED"]
  /\ Transmit(t, s, "accept", "idle")
  /\ UNCHANGED <<layers, registered, on, cleaned, client, ran>>

Connected(t) ==
  /\ at[t] = "connecting" /\ inbox # <<>>
  /\ inbox' = Tail(inbox)
  /\ IF Head(inbox) = "connect"
     THEN /\ clientState' = [clientState EXCEPT ![on[t]] = "CONNECTED"]
          /\ Transmit(t, on[t], "accept", "idle")
     ELSE /\ Raises(t, "other")
          /\ UNCHANGED <<clientState, applicationState, wire, lost>>
  /\ UNCHANGED <<layers, registered, on, cleaned, left, ran>>

\* receive ("receiving") and receive_text, _bytes, _json, iter_* ("reading").
Receive(t, s, place) ==
  /\ Uses(t, s)
  /\ IF \/ clientState[s] = "DISCONNECTED"
        \/ place = "reading" /\ applicationState[s] # "CONNECTED"
     THEN Raises(t, "other") /\ UNCHANGED on
     ELSE Goes(t, place) /\ on' = [on EXCEPT ![t] = s]
  /\ UNCHANGED <<layers, sockets, cleaned, client, wire, lost, ran>>

\* The state is read again when the message is there: another task may have
\* changed it in the meantime.
Received(t) ==
  /\ at[t] \in {"receiving", "reading"} /\ inbox # <<>>
  /\ LET s == on[t]
         message == Head(inbox)
         expected == \/ clientState[s] = "CONNECTING" /\ message = "connect"
                     \/ clientState[s] = "CONNECTED" /\ message # "connect"
                     \/ clientState[s] = "DISCONNECTED"
     IN  /\ inbox' = Tail(inbox)
         /\ clientState' =
              IF ~expected \/ clientState[s] = "DISCONNECTED" THEN clientState
              ELSE [clientState EXCEPT ![s] =
                      IF message = "disconnect" THEN "DISCONNECTED" ELSE "CONNECTED"]
         /\ IF expected /\ (at[t] = "receiving" \/ message = "receive")
            THEN Goes(t, "idle")
            ELSE Raises(t, IF expected /\ message = "disconnect"
                           THEN "disconnect" ELSE "other")
  /\ UNCHANGED <<layers, applicationState, registered, on, cleaned, left, wire,
                 lost, ran>>

AddCleanup(t, s) ==
  /\ Uses(t, s)
  /\ registered["dependency"] + registered["session"] < MaxCleanups
  /\ registered' = [registered EXCEPT ![s] = @ + 1]
  /\ UNCHANGED <<layers, clientState, applicationState, calls, client, wire,
                 lost, ran>>

\* Mutant: closing a WebSocket that is closed does nothing but clean up.
CloseAgain(t, s) ==
  /\ Uses(t, s) /\ Room
  /\ IF applicationState[s] = "DISCONNECTED"
     THEN Goes(t, "closing") /\ UNCHANGED <<applicationState, wire, lost>>
     ELSE Transmit(t, s, "close", "closing")
  /\ on' = [on EXCEPT ![t] = s]
  /\ cleaned' = [cleaned EXCEPT ![t] = 0]
  /\ UNCHANGED <<layers, clientState, registered, client, ran>>

\* close sends, then runs the callbacks.
Close(t, s) ==
  /\ Uses(t, s) /\ Room
  /\ Transmit(t, s, "close", "closing")
  /\ on' = [on EXCEPT ![t] = s]
  /\ cleaned' = [cleaned EXCEPT ![t] = 0]
  /\ UNCHANGED <<layers, clientState, registered, client, ran>>

\* The next callback; it may raise.
Cleanup(t) ==
  /\ at[t] = "closing" /\ cleaned[t] < registered[on[t]]
  /\ cleaned' = [cleaned EXCEPT ![t] = @ + 1]
  /\ ran' = [ran EXCEPT ![on[t]] = Append(@, cleaned[t] + 1)]
  /\ \/ UNCHANGED <<at, raised>>
     \/ Raises(t, "other")
  /\ UNCHANGED <<layers, sockets, on, client, wire, lost>>

CloseReturns(t) ==
  /\ at[t] = "closing" /\ cleaned[t] = registered[on[t]]
  /\ phase # "handler"
  /\ Goes(t, "idle")
  /\ cleaned' = [cleaned EXCEPT ![t] = 0]
  /\ UNCHANGED <<layers, sockets, on, client, wire, lost, ran>>

\* The caller catches the exception of a call.
Catch(t) ==
  /\ at[t] = "raised" /\ phase # "handler"
  /\ Goes(t, "idle")
  /\ cleaned' = [cleaned EXCEPT ![t] = 0]
  /\ UNCHANGED <<layers, sockets, on, client, wire, lost, ran>>

-----------------------------------------------------------------------------
(* The layers around the endpoint.                                          *)

\* A task group that is left cancels its other tasks.
AllIdle == \A t \in Tasks : at[t] = "idle"
Cancel ==
  /\ at' = [t \in Tasks |-> "idle"]
  /\ on' = [t \in Tasks |-> "session"]
  /\ raised' = [t \in Tasks |-> "none"]
  /\ cleaned' = [t \in Tasks |-> 0]

\* The route is behind an Include, whose router looks for it in turn.
Nested == site \in {"include", "child"}

Match ==
  /\ phase \in {"routing", "nested"}
  /\ phase' = IF phase = "routing" /\ Nested THEN "entering" ELSE "before"
  /\ UNCHANGED <<site, failure, broken, sockets, calls, client, wire, lost, ran>>

\* A router that has no answer: one with the routes of an Include passes the
\* connection back to the router around it, one that was given to an Include
\* raises a 404 into the clause of the Include, the outermost runs its default.
Unanswered ==
  IF site = "child"
  THEN failure' = "http" /\ phase' = "include"
  ELSE UNCHANGED failure /\ phase' = "default"

NoMatch ==
  /\ \/ phase = "routing" /\ phase' = "default" /\ UNCHANGED failure
     \/ phase = "nested" /\ Unanswered
  /\ UNCHANGED <<site, broken, sockets, calls, client, wire, lost, ran>>

\* What follows a route that has sent something, or a clause that has closed.
Outward == IF phase \in {"after", "route"} /\ Nested THEN "leaving" ELSE "departing"

\* The hooks of the outermost router, before anything else and after everything
\* that did not raise.
RouterHooks ==
  /\ \/ phase = "arriving" /\ phase' = "routing"
     \/ phase = "departing" /\ phase' = "returned"
  /\ UNCHANGED failure

\* Those of an Include and of the Router it was given.
IncludeHooks ==
  /\ \/ phase = "entering" /\ phase' = "nested"
     \/ phase = "leaving" /\ phase' = "departing"
  /\ UNCHANGED failure

\* Those of the route; the routers go on looking if nothing was sent.
RouteHooks ==
  \/ phase = "before" /\ phase' = "dependencies" /\ UNCHANGED failure
  \/ phase = "after" /\ wire = <<>> /\ ~lost /\ Unanswered
  \/ phase = "after" /\ (wire # <<>> \/ lost) /\ phase' = Outward /\ UNCHANGED failure

HooksRun ==
  /\ RouterHooks \/ IncludeHooks \/ RouteHooks
  /\ UNCHANGED <<site, broken, sockets, calls, client, wire, lost, ran>>

\* The clause of a route or an Include is around its hooks; no clause of a router
\* is around those of the router.
HookFails(kind) ==
  /\ \/ phase \in {"before", "after"} /\ phase' = "route" /\ UNCHANGED broken
     \/ /\ phase \in {"entering", "leaving"} /\ phase' = "include"
        /\ broken' = broken \cup {"include"}
     \/ /\ phase \in {"arriving", "departing"} /\ phase' = "app"
        /\ broken' = broken \cup {"router"}
  /\ failure' = kind
  /\ UNCHANGED <<site, sockets, calls, client, wire, lost, ran>>

DependenciesResolved ==
  /\ phase = "dependencies" /\ AllIdle
  /\ phase' = "endpoint"
  /\ Cancel
  /\ UNCHANGED <<site, failure, broken, sockets, client, wire, lost, ran>>

\* An exception of a call, or one of the application's own (a dependency that is
\* missing is a WebSocketException), leaves the dependencies or the endpoint.
Leaves(t, kind) ==
  /\ phase \in {"dependencies", "endpoint"}
  /\ phase = "dependencies" => t = Main
  /\ \/ at[t] = "raised" /\ kind = raised[t]
     \/ at[t] = "idle"
  /\ failure' = kind
  /\ phase' = "handler"
  /\ Cancel
  /\ UNCHANGED <<site, broken, sockets, client, wire, lost, ran>>

EndpointReturns ==
  /\ phase = "endpoint" /\ AllIdle
  /\ phase' = "after"
  /\ Cancel
  /\ UNCHANGED <<site, failure, broken, sockets, client, wire, lost, ran>>

\* wrap_app_handling_exceptions.  A Router that is not in an application has no
\* handlers; what the handler of an HTTPException returns is not sent.
HasHandler(kind) == site # "router" /\ kind \in Handled

\* Mutant: an exception without a handler is swallowed.
HandlerIdleSwallows ==
  /\ phase = "handler" /\ at[Main] = "idle"
  /\ ~(HasHandler(failure) /\ failure \in Closing)
  /\ phase' = "after"
  /\ UNCHANGED <<site, failure, broken, sockets, calls, client, wire, lost, ran>>

HandlerIdle ==
  /\ phase = "handler" /\ at[Main] = "idle"
  /\ ~(HasHandler(failure) /\ failure \in Closing)
  /\ phase' = IF HasHandler(failure) THEN "after" ELSE "route"
  /\ UNCHANGED <<site, failure, broken, sockets, calls, client, wire, lost, ran>>

HandlerCloses ==
  /\ phase = "handler" /\ at[Main] = "idle"
  /\ HasHandler(failure) /\ failure \in Closing
  /\ Transmit(Main, "session", "close", "closing")
  /\ on' = [on EXCEPT ![Main] = "session"]
  /\ cleaned' = [cleaned EXCEPT ![Main] = 0]
  /\ UNCHANGED <<layers, clientState, registered, client, ran>>

HandlerReturns ==
  /\ phase = "handler"
  /\ at[Main] = "closing" /\ cleaned[Main] = registered["session"]
  /\ phase' = "after"
  /\ Cancel
  /\ UNCHANGED <<site, failure, broken, sockets, client, wire, lost, ran>>

HandlerRaises ==
  /\ phase = "handler" /\ at[Main] = "raised"
  /\ failure' = raised[Main]
  /\ phase' = "route"
  /\ Cancel
  /\ UNCHANGED <<site, broken, sockets, client, wire, lost, ran>>

\* Mutant: the clause raises the exception again, as ServerErrorMiddleware does.
ClauseClosesAndRaises ==
  /\ phase \in {"route", "include"}
  /\ \/ Sends("close", phase) /\ UNCHANGED failure
     \/ SendFails /\ failure' = "other"
  /\ phase' = IF phase = "route" /\ Nested THEN "include" ELSE "app"
  /\ UNCHANGED <<site, broken, sockets, calls, client, ran>>

\* The clause of WebSocketPath.handle_dispatch, and that of the Include around
\* it: a close of their own, whatever the WebSocket has sent before, and then
\* the hooks of the layers around go on.
ClauseCloses ==
  /\ phase \in {"route", "include"}
  /\ \/ Sends("close", phase) /\ phase' = Outward /\ UNCHANGED failure
     \/ /\ SendFails
        /\ failure' = "other"
        /\ phase' = IF phase = "route" /\ Nested THEN "include" ELSE "app"
  /\ UNCHANGED <<site, broken, sockets, calls, client, ran>>

\* handle_not_found of the outermost router, after no route has matched or the
\* one that did sent nothing.
NotFound ==
  /\ phase = "default"
  /\ IF site = "router"
     THEN \/ Sends("close", "router") /\ phase' = "departing" /\ UNCHANGED failure
          \/ SendFails /\ failure' = "other" /\ phase' = "app"
     ELSE /\ failure' = "http"
          /\ phase' = "app"
          /\ UNCHANGED <<wire, lost>>
  /\ UNCHANGED <<site, broken, sockets, calls, client, ran>>

\* ExceptionMiddleware, whose handlers get a WebSocket of their own, and then
\* ServerErrorMiddleware, which lets everything pass that is not HTTP.
AppHandles ==
  /\ phase = "app"
  /\ HasHandler(failure)
  /\ IF failure \in Closing
     THEN \/ Sends("close", "app") /\ phase' = "returned"
          \/ SendFails /\ phase' = "raised"
     ELSE phase' = "returned" /\ UNCHANGED <<wire, lost>>
  /\ UNCHANGED <<site, failure, broken, sockets, calls, client, ran>>

AppRaises ==
  /\ phase = "app"
  /\ ~HasHandler(failure)
  /\ phase' = "raised"
  /\ UNCHANGED <<site, failure, broken, sockets, calls, client, wire, lost, ran>>

-----------------------------------------------------------------------------
(* The client.                                                              *)

ClientSends ==
  /\ ~left /\ Len(inbox) < MaxInbox
  /\ \E i \in DOMAIN wire : wire[i].type = "accept"
  /\ inbox' = Append(inbox, "receive")
  /\ UNCHANGED <<layers, sockets, calls, left, wire, lost, ran>>

\* No message follows: a receive after this one waits for ever.
ClientLeaves ==
  /\ ~left
  /\ inbox' = Append(inbox, "disconnect")
  /\ left' = TRUE
  /\ UNCHANGED <<layers, sockets, calls, wire, lost, ran>>

Stopped == Over /\ UNCHANGED vars

Call(t) ==
  \/ \E s \in Sockets :
       \/ \E type \in {"accept", "send", "close"} : Send(t, s, type)
       \/ \E place \in {"receiving", "reading"} : Receive(t, s, place)
       \/ AcceptWaits(t, s) \/ Accept(t, s) \/ AddCleanup(t, s) \/ Close(t, s)
  \/ Connected(t) \/ Received(t) \/ Cleanup(t) \/ CloseReturns(t) \/ Catch(t)
  \/ \E kind \in Kinds : Leaves(t, kind)

Layer ==
  \/ Match \/ NoMatch \/ HooksRun \/ DependenciesResolved \/ EndpointReturns
  \/ \E kind \in HookKinds : HookFails(kind)
  \/ HandlerIdle \/ HandlerCloses \/ HandlerReturns \/ HandlerRaises
  \/ ClauseCloses \/ NotFound \/ AppHandles \/ AppRaises

Next ==
  \/ \E t \in Tasks : Call(t)
  \/ Layer
  \/ ClientSends \/ ClientLeaves
  \/ Stopped

Spec == Init /\ [][Next]_vars

-----------------------------------------------------------------------------
TypeOK ==
  /\ site \in Sites /\ phase \in Phases
  /\ failure \in Kinds \cup {"none"}
  /\ clientState \in [Sockets -> States]
  /\ applicationState \in [Sockets -> States]
  /\ registered \in [Sockets -> 0 .. MaxCleanups]
  /\ at \in [Tasks -> {"idle", "connecting", "receiving", "reading", "closing",
                       "raised"}]
  /\ on \in [Tasks -> Sockets]
  /\ raised \in [Tasks -> Kinds \cup {"none"}]
  /\ cleaned \in [Tasks -> 0 .. MaxCleanups]
  /\ inbox \in Seq({"connect", "receive", "disconnect"})
  /\ wire \in Seq([type : {"accept", "send", "close"},
                   by : Sockets \cup {"route", "include", "router", "app"}])
  /\ {left, lost} \subseteq BOOLEAN
  /\ ran \in [Sockets -> Seq(1 .. MaxCleanups)]
  /\ broken \subseteq {"include", "router"}
  /\ phase \notin {"dependencies", "endpoint", "handler"} => AllIdle

\* What one WebSocket sends is one accept at most, then data, then one close at
\* most, whichever tasks call it at the same time.  (An accept the server did
\* not take counts as sent.)
OwnOrder ==
  \A i, j \in DOMAIN wire :
    wire[i].by = wire[j].by =>
      /\ i < j => wire[i].type # "close" /\ wire[j].type # "accept"
      /\ wire[j].type = "send" =>
           lost \/ \E k \in 1 .. j : wire[k] = [type |-> "accept", by |-> wire[j].by]

\* The layers speak after everything the endpoint has said, from the inside out,
\* and one of them at most, unless a hook has raised in between: a close that a
\* layer sent is followed by that of a layer around it exactly where hooks of a
\* layer between the two raised when the first was sent.
Depth == [route |-> 1, include |-> 2, router |-> 3, app |-> 4]
LayersLast ==
  \A i, j \in DOMAIN wire :
    i < j /\ wire[i].by \notin Sockets =>
      /\ wire[j].by \notin Sockets
      /\ \E layer \in broken : /\ Depth[wire[i].by] < Depth[layer]
                               /\ Depth[layer] <= Depth[wire[j].by]

\* The callbacks of a WebSocket run once, in the order they were added, and
\* only after its close was sent: by whichever task, the handler included.
CleanupInOrder ==
  \A s \in Sockets :
    /\ \A i \in DOMAIN ran[s] : ran[s][i] = i
    /\ ran[s] # <<>> => \E i \in DOMAIN wire : wire[i] = [type |-> "close", by |-> s]

\* A client that is there has got an answer when the application returns; an
\* exception that no handler was found for has closed the connection; and one
\* leaves the application only if a client that is gone made a send fail, or if
\* it came from the hooks of the outermost router, which nothing is around but
\* the handlers of the application.  Two connections are not answered: one no
\* endpoint has answered, in an application (the response of the handler for the
\* 404 is never sent), and one whose outermost hook raised before the routes.
Answered ==
  /\ phase = "raised" => lost \/ "router" \in broken
  /\ phase = "returned" /\ ~lost =>
       /\ wire = <<>> => site # "router" /\ (failure = "http" \/ "router" \in broken)
       /\ failure = "none" \/ HasHandler(failure)
            \/ \E i \in DOMAIN wire : wire[i].type = "close" /\ wire[i].by \notin Sockets
=============================================================================
