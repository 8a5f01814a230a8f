------------------------------ MODULE Lifespan -----------------------------
(***************************************************************************)
(* The lifespan of an application: the hooks of lilya.lifecycle, the lists *)
(* that Lilya and Router make of them and of their own handlers, the       *)
(* contexts of lilya._internal._events, the ASGI lifespan of               *)
(* lilya.routing.router, and the server as the test client plays it.       *)
(*                                                                         *)
(* Hooks may be registered and event handlers added at any time, also by a *)
(* handler that runs.  A handler may raise; the server may cancel the task *)
(* or ask for the lifespan again after it has ended.  A lifespan given by  *)
(* the user is a context whose two parts are the handlers Enter and Exit.  *)
(***************************************************************************)
EXTENDS Naturals, FiniteSets, SequencesExt

CONSTANTS
  Globals,     \* hooks of the registry
  Own,         \* handlers an application or router is made with
  Added,       \* handlers added to it later
  Event,       \* startup or shutdown, of a hook or handler
  Enter, Exit, \* the parts of a lifespan the user gives
  MaxCycles    \* bound: lifespans of an application

Handlers == Globals \cup Own \cup Added \cup {Enter, Exit}

\* A handler that is registered for two purposes is two of them.
ASSUME LifespanAssumption ==
  /\ IsFiniteSet(Handlers) /\ Globals \cap Own = {}
  /\ Event \in [Handlers -> {"startup", "shutdown"}]
  /\ Event[Enter] = "startup" /\ Event[Exit] = "shutdown"
  /\ MaxCycles \in Nat

VARIABLES
  registry,   \* the lists of _registry
  kind,       \* unmade, lilya or router
  given,      \* history: the handlers it was made with
  known,      \* history: the hooks that were registered when it was made
  router,     \* the lists of the router
  context,    \* lifespan_context
  stateful,   \* the context yields a state that the server does not support
  phase,      \* of the lifespan
  position,   \* handlers of the phase that have run
  completed,  \* completed_startup
  raising,    \* an exception is on its way out
  sent,       \* what the lifespan told the server
  ran,        \* history: the handlers that have run in this lifespan
  there,      \* history: the startup handlers it had when its startup began
  cycles      \* lifespans begun

construction == <<registry, kind, given, known, router, context, stateful>>
lifespanVars == <<construction, phase, position, completed, raising, sent, ran, there,
                  cycles>>

Lists(startup, shutdown) == [startup |-> startup, shutdown |-> shutdown]
NoLists == Lists(<<>>, <<>>)

Put(lists, h) == [lists EXCEPT ![Event[h]] = Append(@, h)]

ListsOf(hs) == Lists(SetToSeq({h \in hs : Event[h] = "startup"}),
                     SetToSeq({h \in hs : Event[h] = "shutdown"}))

\* Mutant: the global hooks come first in both.
HooksFirst(hooks, lists) ==
  Lists(hooks.startup \o lists.startup, hooks.shutdown \o lists.shutdown)

\* Global hooks run before an application's startup and after its shutdown.
Merge(hooks, lists) ==
  Lists(hooks.startup \o lists.startup, lists.shutdown \o hooks.shutdown)

LifespanInit ==
  /\ registry = NoLists
  /\ kind = "unmade"
  /\ given = {} /\ known = {}
  /\ router = NoLists
  /\ context = [kind |-> "none", lists |-> NoLists]
  /\ stateful \in BOOLEAN
  /\ phase = "down"
  /\ position = 0
  /\ completed = FALSE /\ raising = FALSE
  /\ sent = <<>> /\ ran = <<>> /\ there = {}
  /\ cycles = 0

-----------------------------------------------------------------------------
(* The registry, applications and routers.                                  *)

InUse(h) == \E e \in {"startup", "shutdown"} :
              h \in ToSet(registry[e]) \cup ToSet(router[e])

Register(h) ==
  /\ ~InUse(h)
  /\ registry' = Put(registry, h)
  /\ UNCHANGED <<kind, given, known, router, context, stateful, phase, position,
                 completed, raising, sent, ran, there, cycles>>

\* handle_lifespan_events: lists have precedence, then the lifespan; a router
\* that was given neither runs its own lists, as they are then.
ContextOf(lists, own) ==
  IF lists # NoLists THEN [kind |-> "lists", lists |-> lists]
  ELSE IF own THEN [kind |-> "own", lists |-> Lists(<<Enter>>, <<Exit>>)]
  ELSE [kind |-> "router", lists |-> NoLists]

\* Lilya merges the hooks and its handlers, unless it has a lifespan, and passes
\* them to its router; the router puts the hooks into its own lists, and makes
\* the context of what it was passed.
Make(k, handlers, own) ==
  /\ kind = "unmade"
  /\ own => handlers = {}
  /\ LET passed == IF k = "lilya" /\ ~own THEN Merge(registry, ListsOf(handlers))
                   ELSE ListsOf(handlers)
     IN
     /\ router' = Merge(registry, passed)
     /\ context' = ContextOf(passed, own)
  /\ kind' = k
  /\ given' = handlers
  /\ known' = {h \in Globals : InUse(h)}
  /\ UNCHANGED <<registry, stateful, phase, position, completed, raising, sent, ran, there,
                 cycles>>

\* add_event_handler, on_event.
Add(h) ==
  /\ kind # "unmade" /\ ~InUse(h)
  /\ router' = Put(router, h)
  /\ UNCHANGED <<registry, kind, given, known, context, stateful, phase, position,
                 completed, raising, sent, ran, there, cycles>>

-----------------------------------------------------------------------------
(* The lifespan.                                                            *)

\* The lists a context goes through: the ones it was made with, or the router's.
ListOf(event) ==
  IF context.kind = "router" THEN router[event] ELSE context.lists[event]
AllRun(event) == position = Len(ListOf(event))

\* The server asks for the startup.
AskStartup ==
  /\ kind # "unmade" /\ phase = "down" /\ cycles < MaxCycles
  /\ phase' = "starting"
  /\ position' = 0
  /\ completed' = FALSE /\ raising' = FALSE
  /\ sent' = <<>> /\ ran' = <<>>
  /\ there' = ToSet(router.startup) \cup (IF context.kind = "own" THEN {Enter} ELSE {})
  /\ cycles' = cycles + 1
  /\ UNCHANGED construction

\* A handler of a list, one after the other.
Run(event) ==
  /\ ~AllRun(event)
  /\ position' = position + 1
  /\ ran' = Append(ran, ListOf(event)[position + 1])

RunStartup ==
  /\ phase = "starting"
  /\ Run("startup")
  /\ UNCHANGED <<construction, phase, completed, raising, sent, there, cycles>>

\* Mutant: what was started is stopped.
FailStartupAndStop ==
  /\ phase = "starting" /\ ~AllRun("startup")
  /\ phase' = "stopping"
  /\ position' = 0
  /\ raising' = TRUE
  /\ UNCHANGED <<construction, completed, sent, ran, there, cycles>>

\* A startup handler raises: the context is not entered, nothing is stopped.
FailStartup ==
  /\ phase = "starting" /\ ~AllRun("startup")
  /\ phase' = "reporting"
  /\ raising' = TRUE
  /\ UNCHANGED <<construction, position, completed, sent, ran, there, cycles>>

\* All handlers have run: the server is told, unless it cannot take the state.
FinishStartup ==
  /\ phase = "starting" /\ AllRun("startup")
  /\ position' = 0
  /\ IF context.kind = "own" /\ stateful
     THEN phase' = "stopping" /\ raising' = TRUE /\ UNCHANGED <<completed, sent>>
     ELSE /\ phase' = "serving"
          /\ sent' = Append(sent, "startup.complete")
          /\ completed' = TRUE
          /\ UNCHANGED raising
  /\ UNCHANGED <<construction, ran, there, cycles>>

\* The server asks for the shutdown, or cancels the task instead.
AskShutdown ==
  /\ phase = "serving"
  /\ phase' = "stopping"
  /\ raising' \in BOOLEAN
  /\ UNCHANGED <<construction, position, completed, sent, ran, there, cycles>>

RunShutdown ==
  /\ phase = "stopping"
  /\ Run("shutdown")
  /\ UNCHANGED <<construction, phase, completed, raising, sent, there, cycles>>

\* A shutdown handler raises: the ones after it do not run.
FailShutdown ==
  /\ phase = "stopping" /\ ~AllRun("shutdown")
  /\ phase' = "reporting"
  /\ raising' = TRUE
  /\ UNCHANGED <<construction, position, completed, sent, ran, there, cycles>>

\* Mutant: a context that is left with an exception is not left.
FinishShutdownUnlessRaising ==
  /\ phase = "stopping" /\ AllRun("shutdown") /\ ~raising
  /\ phase' = "reporting"
  /\ UNCHANGED <<construction, position, completed, raising, sent, ran, there, cycles>>

FinishShutdown ==
  /\ phase = "stopping" /\ AllRun("shutdown")
  /\ phase' = "reporting"
  /\ UNCHANGED <<construction, position, completed, raising, sent, ran, there, cycles>>

\* Mutant: every failure is one of the startup.
VerdictOfStartup == IF raising THEN "startup.failed" ELSE "shutdown.complete"

Verdict ==
  IF ~raising THEN "shutdown.complete"
  ELSE IF completed THEN "shutdown.failed" ELSE "startup.failed"

Report ==
  /\ phase = "reporting"
  /\ sent' = Append(sent, Verdict)
  /\ phase' = "down"
  /\ UNCHANGED <<construction, position, completed, raising, ran, there, cycles>>

Serve == RunStartup \/ FailStartup \/ FinishStartup \/ RunShutdown \/ FailShutdown
         \/ FinishShutdown \/ Report

LifespanNext ==
  \/ \E h \in Globals : Register(h)
  \/ \E k \in {"lilya", "router"}, handlers \in SUBSET Own, own \in BOOLEAN :
       Make(k, handlers, own)
  \/ \E h \in Added : Add(h)
  \/ AskStartup \/ AskShutdown \/ Serve

LifespanSpec == LifespanInit /\ [][LifespanNext]_lifespanVars

\* The lifespan goes on while it can: handlers return or raise.
FairLifespanSpec == LifespanSpec /\ WF_lifespanVars(Serve)

-----------------------------------------------------------------------------
(* Properties.                                                              *)

\* The type invariant.
LifespanTypeOK ==
  /\ kind \in {"unmade", "lilya", "router"}
  /\ given \subseteq Own /\ known \subseteq Globals
  /\ \A e \in {"startup", "shutdown"} :
       /\ registry[e] \in Seq(Globals)
       /\ router[e] \in Seq(Handlers) /\ context.lists[e] \in Seq(Handlers)
       /\ \A i \in DOMAIN router[e] : Event[router[e][i]] = e
  /\ context.kind \in {"none", "lists", "own", "router"}
  /\ phase \in {"down", "starting", "serving", "stopping", "reporting"}
  /\ position \in 0..Cardinality(Handlers)
  /\ stateful \in BOOLEAN /\ completed \in BOOLEAN /\ raising \in BOOLEAN
  /\ ran \in Seq(Handlers) /\ Len(ran) <= Cardinality(Handlers)
  /\ there \subseteq Handlers
  /\ cycles \in 0..MaxCycles

HasRun(h) == h \in ToSet(ran)
RanBefore(g, h) ==
  \A i, j \in DOMAIN ran : ran[i] = g /\ ran[j] = h => i < j

\* The handlers it was made with, and the hooks that an application without a
\* lifespan merges with them.
Required == given \cup (IF kind = "lilya" /\ context.kind # "own" THEN known ELSE {})

\* What was made with its own handlers or by Lilya is ready when each of its
\* startup handlers has run once, and each global hook of an application that has
\* no lifespan, before them; it has shut down when the same is true of the
\* shutdown handlers, and the hooks after them, although the router adds the
\* hooks to its own lists again (apps.py:1243, router.py:127).
AllInOrder ==
  /\ \A i, j \in DOMAIN ran : ran[i] = ran[j] => i = j
  /\ \A g \in known, h \in given :
       IF Event[h] = "startup" THEN RanBefore(g, h) \/ Event[g] = "shutdown"
       ELSE RanBefore(h, g) \/ Event[g] = "startup"
  /\ "startup.complete" \in ToSet(sent) =>
       \A h \in Required : Event[h] = "startup" => HasRun(h)
  /\ "shutdown.complete" \in ToSet(sent) =>
       \A h \in Required : Event[h] = "shutdown" => HasRun(h)

\* The context that was made has the handler among its own.
Heeded(h) ==
  \/ context.kind = "router"
  \/ context.kind = "own" /\ h = Enter
  \/ h \in Required

\* No shutdown handler runs unless the startup handlers of the application or
\* router that were there when its startup began have run in the same lifespan:
\* nothing is closed that was not opened (_events.py:36, the context is entered only
\* by a startup that succeeds).  They are all of them, added ones and hooks, where
\* the router's own lists are run; where a context was made of the handlers given,
\* they are these and the hooks that Lilya merged with them (handlers added later
\* never run, _events.py:56), and where a lifespan was given its first part.
ClosedWhatOpened ==
  \A i \in DOMAIN ran : Event[ran[i]] = "shutdown" =>
    \A h \in there : Heeded(h) => \E j \in 1..i : ran[j] = h

\* The server is told once how the startup went and, only if it went well, once
\* how the shutdown went; a lifespan that has ended has told it (router.py:332,
\* every exception, a cancellation too).
Verdicts ==
  /\ sent \in {<<>>, <<"startup.complete">>, <<"startup.failed">>,
               <<"startup.complete", "shutdown.complete">>,
               <<"startup.complete", "shutdown.failed">>}
  /\ (phase = "down" /\ cycles > 0) => sent \notin {<<>>, <<"startup.complete">>}

\* The server always gets its answer, to the startup and to the shutdown, also
\* when handlers are added while they run (_events.py:36, the live lists).
Answered ==
  /\ phase = "starting" ~> (sent # <<>>)
  /\ phase = "stopping" ~> phase = "down"

=============================================================================
