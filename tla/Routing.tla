------------------------------ MODULE Routing ------------------------------
(***************************************************************************)
(* One HTTP request going through the routers of an application:           *)
(* BaseRouter.app walks its routes, an Include enters the app() of its own *)
(* router, and what happens inside comes back as a return, a               *)
(* ContinueRouting or a PassPartialMatches (both BaseExceptions, so no     *)
(* exception handler on the way sees them).  Every generic router puts a   *)
(* SendReceiveSniffer between the server and its routes: it remembers the  *)
(* last message received, can repeat it once, and knows whether an answer  *)
(* was sent.  A router with a single Path takes the fast path and has no   *)
(* sniffer: the one the model keeps for it is never asked.                 *)
(*                                                                         *)
(* What matches is data: `match' gives each route its Match, `slash' the   *)
(* routes that match once the trailing slash is added or removed.          *)
(***************************************************************************)
EXTENDS Naturals, Sequences

CONSTANTS Trees,        \* the routing trees considered, see TreeType
          MaxMessages   \* bound: messages the server has for the request

(***************************************************************************)
(* A tree: its router `main', the routes of each router in order, the      *)
(* routers built by Include(routes=...), which are sub-routers, and the    *)
(* router behind each Include.  A route that is not in DOMAIN into is a    *)
(* Path, an endpoint.                                                      *)
(***************************************************************************)
Routers(t) == DOMAIN t.routes
RoutesOf(t, r) == {t.routes[r][i] : i \in DOMAIN t.routes[r]}
AllRoutes(t) == UNION {RoutesOf(t, r) : r \in Routers(t)}
Includes(t) == DOMAIN t.into
Endpoints(t) == AllRoutes(t) \ Includes(t)

TreeType(t) ==
  /\ t.main \in Routers(t)
  /\ \A r \in Routers(t) : t.routes[r] \in Seq(RoutesOf(t, r))
  /\ t.into \in [Includes(t) -> Routers(t)]
  /\ Includes(t) \subseteq AllRoutes(t)
  /\ t.sub \subseteq Routers(t)
  /\ t.main \notin t.sub

\* The routes that a walk of those in `from' comes to, through some Includes.
Walk(t, from, through) ==
  {y \in AllRoutes(t) :
     \A S \in SUBSET AllRoutes(t) :
       (from \subseteq S /\ \A x \in S \cap through : RoutesOf(t, t.into[x]) \subseteq S)
         => y \in S}
Below(t, x) == Walk(t, {x}, Includes(t))

\* A route is a place in the tree: what it matches depends on the Includes around
\* it, so that a Path in two lists is two routes, and a router that is included
\* twice is two routers.
Unfolded(t) ==
  \A r \in Routers(t) : \A i, j \in DOMAIN t.routes[r] :
    i # j => Below(t, t.routes[r][i]) \cap Below(t, t.routes[r][j]) = {}

ASSUME TreesAssumption == \A t \in Trees : TreeType(t)
ASSUME PlacesAssumption == \A t \in Trees : Unfolded(t)
ASSUME MessagesAssumption == MaxMessages \in Nat

VARIABLES
  tree, match, slash, \* the scenario: chosen once
  inApp,     \* "app" is in the scope: the router runs inside Lilya
  pc,        \* what the innermost app() is doing
  stack,     \* the app() calls in progress, outermost first
  sniffer,   \* the SendReceiveSniffer of each of them
  taken,     \* messages taken from the server so far
  current,   \* the endpoint in dispatch, while pc = "endpoint"
  signal,    \* what came back from a dispatch, while pc = "signal"
  wire,      \* who sent a response to the server, in order
  outcome,   \* how the request ended
  visited,   \* history: the endpoints dispatched, in order
  seen       \* history: the messages each endpoint received

scenario == <<tree, match, slash, inApp>>
vars == <<scenario, pc, stack, sniffer, taken, current, signal, wire, outcome,
          visited, seen>>

Matches == {"none", "partial", "full"}
Unsniffed == [message |-> 0, repeat |-> FALSE, sent |-> FALSE]
Frame(r) == [router |-> r, at |-> 1, had |-> FALSE, partials |-> <<>>]
NoSignal == [kind |-> "none", partials |-> <<>>]

FrameType(t) == [router : Routers(t), at : Nat \ {0}, had : BOOLEAN,
                 partials : Seq(AllRoutes(t))]
SnifferType == [message : Nat, repeat : BOOLEAN, sent : BOOLEAN]
SignalType(t) == [kind : {"none", "return", "continue", "pass"},
                  partials : Seq(AllRoutes(t))]

Top == stack[Len(stack)]
Routes == tree.routes[Top.router]
Exhausted == Top.at > Len(Routes)
Route == Routes[Top.at]
Sniffer == sniffer[Len(stack)]

\* BaseRouter._compute_fast_path: one route, a Path, in a main router.
Fast(r) == /\ r \notin tree.sub
           /\ Len(tree.routes[r]) = 1
           /\ tree.routes[r][1] \notin Includes(tree)

Init ==
  /\ tree \in Trees
  /\ match \in [AllRoutes(tree) -> Matches]
  /\ \A x \in Includes(tree) : match[x] # "partial"
  /\ slash \in SUBSET AllRoutes(tree)
  /\ \A x \in slash : match[x] = "none"
  /\ inApp \in BOOLEAN
  /\ pc = "scan"
  /\ stack = <<Frame(tree.main)>>
  /\ sniffer = <<Unsniffed>>
  /\ taken = 0
  /\ current = tree.routes[tree.main][1]
  /\ signal = NoSignal
  /\ wire = <<>>
  /\ outcome = "none"
  /\ visited = <<>>
  /\ seen = [e \in Endpoints(tree) |-> <<>>]

-----------------------------------------------------------------------------
(* Walking the routes of the innermost router.                             *)

\* On to the next route: whether this one matched, and the partial matches
\* it left.
NextRoute(matched, partials) ==
  [stack EXCEPT ![Len(stack)] =
    [router |-> Top.router, at |-> Top.at + 1, had |-> Top.had \/ matched,
     partials |-> Top.partials \o partials]]

\* search() answered Match.NONE.
Skip ==
  /\ pc = "scan" /\ ~Exhausted
  /\ match[Route] = "none"
  /\ stack' = NextRoute(FALSE, <<>>)
  /\ UNCHANGED <<scenario, pc, sniffer, taken, current, signal, wire, outcome,
                 visited, seen>>

\* A full match of a Path: its handler runs.
EnterEndpoint ==
  /\ pc = "scan" /\ ~Exhausted
  /\ match[Route] = "full" /\ Route \notin Includes(tree)
  /\ pc' = "endpoint"
  /\ current' = Route
  /\ visited' = Append(visited, Route)
  /\ UNCHANGED <<scenario, stack, sniffer, taken, signal, wire, outcome, seen>>

\* A full match of an Include: the app() of its router starts, with a
\* sniffer of its own on top of this router's.
EnterInclude ==
  /\ pc = "scan" /\ ~Exhausted
  /\ match[Route] = "full" /\ Route \in Includes(tree)
  /\ stack' = Append(stack, Frame(tree.into[Route]))
  /\ sniffer' = Append(sniffer, Unsniffed)
  /\ UNCHANGED <<scenario, pc, taken, current, signal, wire, outcome, visited,
                 seen>>

\* The path matches and the method does not: kept for the second pass.
KeepPartial ==
  /\ pc = "scan" /\ ~Exhausted
  /\ match[Route] = "partial" /\ ~Fast(Top.router)
  /\ stack' = NextRoute(TRUE, <<Route>>)
  /\ UNCHANGED <<scenario, pc, sniffer, taken, current, signal, wire, outcome,
                 visited, seen>>

-----------------------------------------------------------------------------
(* What an endpoint may do with the receive, send it was given: they go    *)
(* through the sniffers of all the routers in progress.                    *)

Repeating == {i \in DOMAIN sniffer : sniffer[i].repeat /\ sniffer[i].message # 0}

\* Mutant: repeat_message stays armed once the message was repeated.
ReceiveArmed(n, message) ==
  /\ sniffer' = [i \in DOMAIN sniffer |->
       IF i >= n
       THEN [message |-> message, repeat |-> sniffer[i].repeat,
             sent |-> sniffer[i].sent]
       ELSE sniffer[i]]
  /\ seen' = [seen EXCEPT ![current] = Append(@, message)]
  /\ UNCHANGED <<scenario, pc, stack, current, signal, wire, outcome, visited>>

\* SendReceiveSniffer.receive: the sniffers from position n inwards remember
\* the message that passes through them.
Receive(n, message) ==
  /\ sniffer' = [i \in DOMAIN sniffer |->
       IF i >= n
       THEN [message |-> message, repeat |-> FALSE, sent |-> sniffer[i].sent]
       ELSE sniffer[i]]
  /\ seen' = [seen EXCEPT ![current] = Append(@, message)]
  /\ UNCHANGED <<scenario, pc, stack, current, signal, wire, outcome, visited>>

ReceiveFromServer ==
  /\ pc = "endpoint" /\ Repeating = {} /\ taken < MaxMessages
  /\ taken' = taken + 1
  /\ Receive(1, taken + 1)

\* The innermost sniffer that repeats answers, those outside it are not asked.
ReceiveRepeated ==
  /\ pc = "endpoint"
  /\ \E n \in Repeating :
       /\ \A i \in Repeating : i <= n
       /\ Receive(n, sniffer[n].message)
  /\ UNCHANGED taken

\* SendReceiveSniffer.send, of every router in progress.
Sent == [i \in DOMAIN sniffer |->
  [message |-> sniffer[i].message, repeat |-> sniffer[i].repeat, sent |-> TRUE]]

\* The endpoint sends its response, once.
EndpointSend ==
  /\ pc = "endpoint"
  /\ current \notin {wire[i] : i \in DOMAIN wire}
  /\ wire' = Append(wire, current)
  /\ sniffer' = Sent
  /\ UNCHANGED <<scenario, pc, stack, taken, current, signal, outcome, visited,
                 seen>>

\* The endpoint returns, or raises ContinueRouting.
EndpointLeave(kind) ==
  /\ pc = "endpoint"
  /\ pc' = "signal"
  /\ signal' = [kind |-> kind, partials |-> <<>>]
  /\ UNCHANGED <<scenario, stack, sniffer, taken, current, wire, outcome,
                 visited, seen>>

\* Nothing in app() catches an Exception: it leaves every router at once.
End(how) ==
  /\ pc' = "done"
  /\ outcome' = how
  /\ UNCHANGED <<scenario, stack, sniffer, taken, current, signal, visited, seen>>

EndpointRaise == pc = "endpoint" /\ End("error") /\ UNCHANGED wire

-----------------------------------------------------------------------------
(* What came back, at the innermost router.                                *)

\* app() returns to the Include, or to its caller.
Leave(s, sniffers) ==
  /\ stack' = SubSeq(stack, 1, Len(stack) - 1)
  /\ sniffer' = SubSeq(sniffers, 1, Len(stack) - 1)
  /\ signal' = s
  /\ IF Len(stack) = 1
     THEN pc' = "done" /\ outcome' = "returned"
     ELSE pc' = "signal" /\ UNCHANGED outcome

Return == [kind |-> "return", partials |-> <<>>]

\* handle_route returned and an answer was sent: so does this router.
Answered ==
  /\ pc = "signal" /\ signal.kind = "return"
  /\ Fast(Top.router) \/ Sniffer.sent
  /\ Leave(Return, sniffer)
  /\ UNCHANGED <<scenario, taken, current, wire, visited, seen>>

\* sniffer.repeat_message = True
Repeat == [sniffer EXCEPT ![Len(stack)] =
  [message |-> Sniffer.message, repeat |-> TRUE, sent |-> Sniffer.sent]]

\* Mutant: the walk goes on whether or not there was an answer.
ResumeAnyway ==
  /\ pc = "signal" /\ signal.kind \in {"return", "continue"}
  /\ ~Fast(Top.router)
  /\ sniffer' = Repeat
  /\ stack' = NextRoute(TRUE, <<>>)
  /\ pc' = "scan"
  /\ signal' = NoSignal
  /\ UNCHANGED <<scenario, taken, current, wire, outcome, visited, seen>>

\* The route gave up, without an answer: the last message will be repeated.
Resume ==
  /\ pc = "signal" /\ signal.kind \in {"return", "continue"}
  /\ ~Fast(Top.router) /\ ~Sniffer.sent
  /\ sniffer' = Repeat
  /\ stack' = NextRoute(TRUE, <<>>)
  /\ pc' = "scan"
  /\ signal' = NoSignal
  /\ UNCHANGED <<scenario, taken, current, wire, outcome, visited, seen>>

\* assert not sniffer.sent
ContinueAfterAnswer ==
  /\ pc = "signal" /\ signal.kind = "continue"
  /\ ~Fast(Top.router) /\ Sniffer.sent
  /\ End("assertion")
  /\ UNCHANGED wire

\* The sub-router has nothing: its partial matches join this router's.
CollectPartials ==
  /\ pc = "signal" /\ signal.kind = "pass"
  /\ stack' = NextRoute(TRUE, signal.partials)
  /\ pc' = "scan"
  /\ signal' = NoSignal
  /\ UNCHANGED <<scenario, sniffer, taken, current, wire, outcome, visited, seen>>

-----------------------------------------------------------------------------
(* The routes are exhausted.                                               *)

SlashMatch == ~Top.had /\ slash \cap RoutesOf(tree, Top.router) # {}

\* A response sent by app() itself goes to the send it was called with: past
\* the sniffers of the routers around it (that its own does not see it makes
\* no difference, it is left at once).
Respond(what) ==
  /\ wire' = Append(wire, what)
  /\ Leave(Return, Sent)
  /\ UNCHANGED <<scenario, taken, current, visited, seen>>

RedirectSlash ==
  /\ pc = "scan" /\ Exhausted /\ SlashMatch
  /\ Respond("redirect")

\* A sub-router hands its partial matches to the router above.
PassPartials ==
  /\ pc = "scan" /\ Exhausted /\ ~SlashMatch
  /\ Top.router \in tree.sub
  /\ Leave([kind |-> "pass", partials |-> Top.partials], sniffer)
  /\ UNCHANGED <<scenario, taken, current, wire, visited, seen>>

\* handle_partial or handle_default: with "app" in the scope both raise an
\* HTTPException, without it they send the error themselves.
Refuse(how) == \/ inApp /\ End(how) /\ UNCHANGED wire
               \/ ~inApp /\ Respond(how)

MethodNotAllowed ==
  /\ pc = "scan"
  /\ \/ /\ Exhausted /\ ~SlashMatch
        /\ Top.router \notin tree.sub /\ Top.partials # <<>>
     \/ ~Exhausted /\ Fast(Top.router) /\ match[Route] = "partial"
  /\ Refuse("405")

\* Mutant: a sub-router without a match answers for the whole application.
DefaultOfSub ==
  /\ \/ pc = "scan" /\ Exhausted /\ ~SlashMatch /\ Top.partials = <<>>
     \/ pc = "signal" /\ signal.kind = "continue" /\ Fast(Top.router)
  /\ Refuse("404")

Default ==
  /\ \/ /\ pc = "scan" /\ Exhausted /\ ~SlashMatch
        /\ Top.router \notin tree.sub /\ Top.partials = <<>>
     \/ pc = "signal" /\ signal.kind = "continue" /\ Fast(Top.router)
  /\ Refuse("404")

-----------------------------------------------------------------------------
Done == pc = "done" /\ UNCHANGED vars

Next ==
  \/ Skip \/ EnterEndpoint \/ EnterInclude \/ KeepPartial
  \/ ReceiveFromServer \/ ReceiveRepeated \/ EndpointSend \/ EndpointRaise
  \/ EndpointLeave("return") \/ EndpointLeave("continue")
  \/ Answered \/ Resume \/ ContinueAfterAnswer \/ CollectPartials
  \/ RedirectSlash \/ PassPartials \/ MethodNotAllowed \/ Default
  \/ Done

Spec == Init /\ [][Next]_vars

-----------------------------------------------------------------------------
TypeOK ==
  /\ tree \in Trees
  /\ match \in [AllRoutes(tree) -> Matches]
  /\ slash \subseteq AllRoutes(tree)
  /\ inApp \in BOOLEAN
  /\ pc \in {"scan", "endpoint", "signal", "done"}
  /\ stack \in Seq(FrameType(tree))
  /\ pc # "done" => stack # <<>>
  /\ sniffer \in Seq(SnifferType)
  /\ Len(sniffer) = Len(stack)
  /\ taken \in Nat
  /\ pc = "endpoint" => current \in Endpoints(tree)
  /\ signal \in SignalType(tree)
  /\ wire \in Seq(Endpoints(tree) \cup {"redirect", "404", "405"})
  /\ outcome \in {"none", "returned", "error", "assertion", "404", "405"}
  /\ visited \in Seq(Endpoints(tree))
  /\ seen \in [Endpoints(tree) -> Seq(Nat)]

\* One request gets one response, whoever sends it: an endpoint of any
\* router, a slash redirect, a 404 or a 405.  A router used without an
\* application around it is exempt on its fast path, which does not check
\* for an answer before its default handler sends a second one.
OneAnswer ==
  Len(wire) <= 1 \/ (~inApp /\ Len(wire) = 2 /\ wire[2] = "404")

\* The sniffers of all the routers in progress agree with the wire, so a
\* router never tries another route once a route of it, or of a router
\* inside it, has answered.
SniffersAgree ==
  pc # "done" =>
    \A i \in DOMAIN sniffer : sniffer[i].sent <=> wire # <<>>

\* An error for the whole application means that no endpoint was passed
\* over: every endpoint whose Includes match and that matches fully was
\* tried and gave up, whatever its router.  Routing through an Include of a
\* router that is no sub-router is not fall-through, its own 404 is final.
Matched ==
  LET through == {x \in Includes(tree) : match[x] = "full"} IN
  {e \in Endpoints(tree) \cap Walk(tree, RoutesOf(tree, tree.main), through) :
     match[e] = "full"}
NoRouteSkipped ==
  (outcome \in {"404", "405"} /\ Routers(tree) = tree.sub \cup {tree.main}) =>
    \A e \in Matched : \E i \in DOMAIN visited : visited[i] = e

\* No endpoint is dispatched after an answer.
NoDispatchAfterAnswer == [][wire # <<>> => visited' = visited]_vars

\* What an endpoint receives has no hole and no repetition: body chunks of
\* the request never reach a handler twice or out of order.
ContiguousReads ==
  \A e \in Endpoints(tree) : \A i \in 1 .. Len(seen[e]) - 1 :
    seen[e][i + 1] = seen[e][i] + 1

\* Everyone who received before the current endpoint received one message.
SniffedBefore(d) == /\ \E i \in 1 .. Len(visited) - 1 : visited[i] = d
                    /\ seen[d] # <<>>
FirstForCurrent == pc = "endpoint" /\ seen[current] # <<>>
                     => Head(seen[current]) = 1

\* A handler that looks at the first message and raises ContinueRouting
\* leaves it for the next one, as long as the router that dispatched it is
\* still walking its routes.
ReplayInProgress ==
  (\A d \in Endpoints(tree) : SniffedBefore(d) =>
     /\ Len(seen[d]) = 1
     /\ \E i \in DOMAIN stack : d \in RoutesOf(tree, stack[i].router))
  => FirstForCurrent

\* What handlers read makes sense across routes and Includes: nobody misses a
\* message between two of his, and the first message is there again for the next
\* handler (datastructures.py:876, router.py:438, 446).
MessagesRepeated == ContiguousReads /\ ReplayInProgress

=============================================================================
