---------------------------- MODULE RequestCycle ----------------------------
(***************************************************************************)
(* One HTTP request going through the layers around an endpoint and back:  *)
(* the server error middleware, the middleware of the application, the     *)
(* exception middleware, the router, Includes and the Path, with their     *)
(* before_request and after_request hooks.  An exception of any user code  *)
(* travels outwards; several layers may turn it into a response, and each  *)
(* of them has its own response_started flag to tell whether it still can. *)
(*                                                                         *)
(* An application whose only route is a static Path, without exception     *)
(* handlers or middleware of its own (fast_http), has one layer,           *)
(* "dispatch", for both error middlewares, and a request for its route     *)
(* goes from there straight to the Path.                                   *)
(***************************************************************************)
EXTENDS Naturals, Sequences

CONSTANT Apps    \* the applications considered, see AppType

LayerKinds == {"server", "dispatch", "intercept", "middleware", "exception",
               "router", "include", "path", "endpoint"}

\* HTTPExceptions, an exception class of the application, anything else.
Kinds == {"http", "own", "error"}

\* The layers from the outside in, the kinds of exception the handlers of the
\* application and of its routes handle, and whether it has a handler for 500
\* or Exception.  A ChildLilya inside an Include brings layers of its own; one
\* that is fast_http itself is left out, so a "dispatch" is the outermost layer.
AppType(a) ==
  /\ a.layers \in Seq(LayerKinds)
  /\ Len(a.layers) >= 2
  /\ a.layers[1] \in {"server", "dispatch"}
  /\ \A i \in DOMAIN a.layers : a.layers[i] = "endpoint" <=> i = Len(a.layers)
  /\ \A i \in DOMAIN a.layers : a.layers[i] = "dispatch" => i = 1
  /\ a.errorHandler \in BOOLEAN
  /\ a.include \subseteq Kinds
  /\ a.path \subseteq Kinds
  /\ IF a.layers[1] = "server"
     THEN a.handles \in {{"http"}, {"http", "own"}}
     ELSE /\ a.layers = <<"dispatch", "router", "path", "endpoint">>
          /\ a.handles = {} /\ ~a.errorHandler

ASSUME AppsAssumption == \A a \in Apps : AppType(a)

VARIABLES
  app,       \* the application: chosen once
  layers,    \* the layers this request goes through
  at,        \* the layer in control
  phase,     \* what it is doing
  exc,       \* the exception it handles, or "none"
  sent,      \* messages sent of the response in progress
  started,   \* the response_started flag of each layer
  wire,      \* the messages the server got
  outcome,   \* how the call of the application ended
  told,      \* calls of the application's own error handler
  before,    \* history: the layers whose before_request hooks ran
  raised     \* history: the exceptions user code raised

vars == <<app, layers, at, phase, exc, sent, started, wire, outcome, told,
          before, raised>>

Phases == {"call", "return", "raise", "respond", "done"}
Layer == layers[at]
Fast == app.layers[1] = "dispatch"

Init ==
  /\ app \in Apps
  /\ layers = app.layers
  /\ at = 1
  /\ phase = "call"
  /\ exc = "none"
  /\ sent = 0
  /\ started = [i \in 1 .. Len(app.layers) |-> FALSE]
  /\ wire = <<>>
  /\ outcome = "running"
  /\ told = 0
  /\ before = {}
  /\ raised = {}

-----------------------------------------------------------------------------
(* Control moves one layer out, or leaves the application.                  *)

Out(how, ended) ==
  IF at = 1
  THEN phase' = "done" /\ outcome' = ended /\ UNCHANGED at
  ELSE phase' = how /\ at' = at - 1 /\ UNCHANGED outcome

ReturnOut == Out("return", "returned") /\ exc' = "none"
RaiseOut(k) == Out("raise", "raised") /\ exc' = k

Raised(k) ==
  raised' = raised \cup {[kind |-> k, at |-> at, late |-> wire # <<>>]}

-----------------------------------------------------------------------------
(* Inwards.                                                                 *)

\* The before_request hooks of the layer ran, the layer inside it is called.
\* A router that was passed over by FastRoute has no route for the request.
Call ==
  /\ phase = "call" /\ at < Len(layers)
  /\ ~(Fast /\ Layer = "router")
  /\ at' = at + 1
  /\ before' = before \cup {Layer}
  /\ UNCHANGED <<app, layers, phase, exc, sent, started, wire, outcome, told,
                 raised>>

\* BaseLilya._dispatch: a request for the only route of a fast_http
\* application goes to the route, not to the router.
FastRoute ==
  /\ phase = "call" /\ Layer = "dispatch"
  /\ layers' = <<"dispatch", "path", "endpoint">>
  /\ started' = [i \in 1 .. 3 |-> FALSE]
  /\ at' = 2
  /\ UNCHANGED <<app, phase, exc, sent, wire, outcome, told, before, raised>>

\* The endpoint has its response, a middleware answers by itself, the router
\* redirects.
Answerers == {"endpoint", "middleware", "router"}
Answer ==
  /\ phase = "call" /\ Layer \in Answerers
  /\ phase' = "respond"
  /\ sent' = 0
  /\ UNCHANGED <<app, layers, at, exc, started, wire, outcome, told, before,
                 raised>>

\* A hook, a middleware, a dependency or the endpoint raises.
UserCode == {"middleware", "router", "include", "path", "endpoint"}
Raise(k) ==
  /\ phase \in {"call", "return"}
  /\ Layer \in UserCode
  /\ phase' = "raise"
  /\ exc' = k
  /\ Raised(k)
  /\ UNCHANGED <<app, layers, at, sent, started, wire, outcome, told, before>>

-----------------------------------------------------------------------------
(* Sending a response.                                                      *)

\* A layer sends with its own sender and sees what it sends, but for the
\* server error middleware.
Sees(i) == i < at \/ (i = at /\ Layer # "server")

SendStart ==
  /\ phase = "respond" /\ sent = 0
  /\ sent' = 1
  /\ wire' = Append(wire, "start")
  /\ started' = [i \in DOMAIN started |-> started[i] \/ Sees(i)]
  /\ UNCHANGED <<app, layers, at, phase, exc, outcome, told, before, raised>>

SendBody ==
  /\ phase = "respond" /\ sent = 1
  /\ sent' = 2
  /\ wire' = Append(wire, "body")
  /\ UNCHANGED <<app, layers, at, phase, exc, started, outcome, told, before,
                 raised>>

\* Once the response is sent the server error middleware raises the exception
\* again, and so does _dispatch unless it was an HTTPException.
Reraises == \/ Layer = "server"
            \/ Layer = "dispatch" /\ exc # "http"

Sent ==
  /\ phase = "respond" /\ sent = 2
  /\ IF Reraises THEN RaiseOut(exc) ELSE ReturnOut
  /\ UNCHANGED <<app, layers, sent, started, wire, told, before, raised>>

\* The response comes from user code: the handler that makes it, its body
\* or its background task may fail.
Fallible ==
  CASE Layer = "server" -> app.errorHandler
    [] Layer = "dispatch" -> FALSE
    [] Layer = "intercept" -> exc \in app.handles
    [] OTHER -> TRUE

ResponseFails(k) ==
  /\ phase = "respond" /\ Fallible
  /\ IF exc = "none"
     THEN phase' = "raise" /\ exc' = k /\ UNCHANGED <<at, outcome>>
     ELSE RaiseOut(k)
  /\ Raised(k)
  /\ UNCHANGED <<app, layers, sent, started, wire, told, before>>

-----------------------------------------------------------------------------
(* Outwards.                                                                *)

\* The layer inside returned: the after_request hooks run.
Return ==
  /\ phase = "return"
  /\ ReturnOut
  /\ UNCHANGED <<app, layers, sent, started, wire, told, before, raised>>

\* Mutant: handlers are looked up by status code only.
HandlesStatus ==
  CASE Layer \in {"endpoint", "exception"} -> exc = "http" /\ exc \in app.handles
    [] Layer = "include" -> exc \in app.include
    [] Layer = "path" -> exc \in app.path
    [] Layer \in {"server", "dispatch", "intercept"} -> TRUE
    [] OTHER -> FALSE

\* Whether the layer has a handler for the exception.
Handles ==
  CASE Layer \in {"endpoint", "exception"} -> exc \in app.handles
    [] Layer = "include" -> exc \in app.include
    [] Layer = "path" -> exc \in app.path
    [] Layer \in {"server", "dispatch", "intercept"} -> TRUE
    [] OTHER -> FALSE

\* Mutant: no layer looks whether the response has started.
MayAlwaysAnswer == TRUE

\* Every layer but the routes looks whether the response has started.
MayAnswer == Layer \in {"include", "path"} \/ ~started[at]

\* The error middleware calls the application's error handler for a response.
Tells == Layer = "server" /\ app.errorHandler

Handle ==
  /\ phase = "raise" /\ Handles /\ MayAnswer
  /\ phase' = "respond"
  /\ sent' = 0
  /\ told' = IF Tells THEN told + 1 ELSE told
  /\ UNCHANGED <<app, layers, at, exc, started, wire, outcome, before, raised>>

\* Mutant: the server error middleware has nothing to do any more.
InformsEndpoint ==
  /\ phase = "raise" /\ started[at]
  /\ Layer = "endpoint" /\ (exc \in app.handles \/ app.errorHandler)

\* The response has started: a handler is still called, by the endpoint's
\* wrapper (the application's error handler if there is no other) and by the
\* server error middleware, for its side effects only.
Informs ==
  /\ phase = "raise" /\ started[at]
  /\ \/ Layer = "server" /\ app.errorHandler
     \/ Layer = "endpoint" /\ (exc \in app.handles \/ app.errorHandler)

Inform ==
  /\ Informs
  /\ told' = IF Layer = "endpoint" /\ exc \in app.handles THEN told ELSE told + 1
  /\ RaiseOut(exc)
  /\ UNCHANGED <<app, layers, sent, started, wire, before, raised>>

InformFails(k) ==
  /\ Informs
  /\ told' = IF Layer = "endpoint" /\ exc \in app.handles THEN told ELSE told + 1
  /\ RaiseOut(k)
  /\ Raised(k)
  /\ UNCHANGED <<app, layers, sent, started, wire, before>>

Pass ==
  /\ phase = "raise" /\ ~Informs
  /\ ~(Handles /\ MayAnswer)
  /\ RaiseOut(exc)
  /\ UNCHANGED <<app, layers, sent, started, wire, told, before, raised>>

Done == phase = "done" /\ UNCHANGED vars

Next ==
  \/ Call \/ FastRoute \/ Answer
  \/ SendStart \/ SendBody \/ Sent
  \/ Return \/ Handle \/ Inform \/ Pass
  \/ \E k \in Kinds : Raise(k) \/ ResponseFails(k) \/ InformFails(k)
  \/ Done

Spec == Init /\ [][Next]_vars

-----------------------------------------------------------------------------
TypeOK ==
  /\ app \in Apps
  /\ layers \in Seq(LayerKinds)
  /\ at \in DOMAIN layers
  /\ phase \in Phases
  /\ exc \in Kinds \cup {"none"}
  /\ phase = "raise" \/ (phase = "respond" /\ Layer \notin Answerers)
       => exc \in Kinds
  /\ sent \in 0 .. 2
  /\ started \in [DOMAIN layers -> BOOLEAN]
  /\ wire \in Seq({"start", "body"})
  /\ outcome \in {"running", "returned", "raised"}
  /\ told \in Nat
  /\ before \subseteq LayerKinds
  /\ raised \subseteq [kind : Kinds, at : Nat, late : BOOLEAN]

\* What the application promises its server.  Only the handlers of Includes
\* and Paths answer without looking whether the response has started.
Lenient == app.include # {} \/ app.path # {}
Response == IF wire = <<>> THEN "idle"
            ELSE IF wire[Len(wire)] = "start" THEN "started" ELSE "complete"
Asgi == INSTANCE AsgiResponse WITH lenient <- Lenient, response <- Response
KeepsAsgi == Asgi!Spec

\* The flag of the layer that handles an exception tells whether the server
\* got the start of a response, whoever sent it.
FlagsAgree == phase = "raise" => (started[at] <=> wire # <<>>)

\* An exception nobody has a handler for comes out of the application, for
\* the server to log, whatever was sent and whichever layers answered it.
UnexpectedSurfaces ==
  (/\ raised # {} /\ \A r \in raised : r.kind = "error"
   /\ "error" \notin app.include \cup app.path
   /\ \A i \in DOMAIN layers : layers[i] # "intercept") => outcome # "returned"

\* An exception the application has a handler for never comes out, if it is
\* raised inside the exception middleware before the response starts, in a
\* hook, a middleware of a route, the endpoint or another handler alike.
Inside(i) == \E j \in 1 .. i - 1 :
               /\ layers[j] \in {"exception", "intercept"}
               /\ \A k \in j + 1 .. i - 1 : layers[k] # "server"
HandledNeverSurfaces ==
  (\A r \in raised : r.kind \in app.handles /\ ~r.late /\ Inside(r.at))
  => outcome # "raised"

\* What comes out of the application and what stays inside, whichever layers have
\* handlers and wherever it is raised (exceptions.py:140, lilya_exception.py:97,
\* server_error.py:142).
Surfacing == UnexpectedSurfaces /\ HandledNeverSurfaces

\* The application's own handler for errors hears of every exception that
\* comes out, and of each only once unless the response had started.
ErrorHandlerTold ==
  app.errorHandler =>
    /\ outcome = "raised" => told >= 1
    /\ told > 1 => \/ \E r \in raised : r.late
                   \/ \E i \in 2 .. Len(layers) : layers[i] = "server"
=============================================================================
