---------------------------- MODULE Dependencies ---------------------------
(***************************************************************************)
(* Dependency injection: lilya.dependencies over the scope manager of      *)
(* lilya._internal._scopes.                                                *)
(*                                                                         *)
(* A connection resolves what its handler wants, one after the other, each *)
(* with the dependencies it has in turn; connections interleave wherever a *)
(* factory or the body is awaited.  The providers belong to the routes:    *)
(* all connections share them, with the results they cache, the arguments  *)
(* they were provided and the instances of the scopes APP and GLOBAL.  A   *)
(* call of an injected function (inject) resolves Depends markers in the   *)
(* same way, without a connection.                                         *)
(*                                                                         *)
(* Every call of a factory makes an instance of its own.  The parameters   *)
(* of a factory are either names of dependencies that are registered       *)
(* wherever it is used, or have a default and may be given by the body.    *)
(***************************************************************************)
EXTENDS Naturals, Sequences, FiniteSetsExt, SequencesExt

CONSTANTS
  Requests,    \* connections, and calls of injected functions
  Apps,        \* applications
  Names,       \* names that dependencies are wanted and registered under
  Fields,      \* the other parameters of factories, keys of bodies
  Providers,   \* Provide and Depends objects
  Factories,   \* the functions they wrap
  Spec0,       \* what a provider was made with
  Scenarios    \* what the requests are

None == [made |-> 0, form |-> "none"]

ASSUME DependenciesAssumption ==
  /\ Spec0 \in [Providers ->
       [factory : Factories, scope : {"request", "app", "global"},
        use_cache : BOOLEAN, generator : BOOLEAN,
        given : BOOLEAN,    \* arguments were given, or it is a class
        pure : BOOLEAN,     \* a Depends
        params : Seq(Names), fields : SUBSET Fields]]
  /\ \A s \in Scenarios : \A r \in Requests :
       /\ s[r].kind \in {"http", "websocket", "inject"} /\ s[r].app \in Apps
       /\ s[r].wants \in Seq(Names)
       /\ s[r].body \subseteq Fields \/ s[r].body = {"text"}
       /\ s[r].layers \in Seq(ToSet(s[r].layers))
       /\ \A i \in DOMAIN s[r].layers : \A name \in DOMAIN s[r].layers[i] :
            /\ s[r].layers[i][name] \in Providers
            /\ \A wanted \in ToSet(Spec0[s[r].layers[i][name]].params) :
                 \E j \in DOMAIN s[r].layers : wanted \in DOMAIN s[r].layers[j]
  /\ "any" \notin Apps

VARIABLES
  req,       \* what the requests are: one of the scenarios
  pc,        \* idle, resolving (handling, when it has all), over
  stack,     \* the providers a request is resolving, innermost last
  got,       \* what its handler is given
  cleanups,  \* generators to close with the request
  cached,    \* Provide._cache
  provided,  \* the arguments bodies added to provided_kwargs: whose body
  shared,    \* ScopeManager._instances
  made,      \* history: the instances, what they were made of and by whom
  closed     \* the instances whose generator was closed

request == <<pc, stack, got, cleanups>>
objects == <<cached, provided, shared>>
history == <<made, closed>>
vars == <<req, request, objects, history>>

-----------------------------------------------------------------------------
(* Providers.                                                               *)

\* The application, the includes, the route and the overrides, merged.
Registered(r, name) ==
  LET layers == req[r].layers
  IN  layers[Max({i \in DOMAIN layers : name \in DOMAIN layers[i]})][name]

Is(p) == Spec0[p]

\* Mutant: the scope is not looked at.
SharedAlways(p) == TRUE

Shared(p) == Is(p).scope \in {"app", "global"}

\* Mutant: the key of an application's instance is not kept in the application.
KeyOfRequest(p, r) ==
  [scope |-> Is(p).scope, factory |-> Is(p).factory, app |-> r]

\* One key for an application and a factory, one for a factory: two providers
\* of one factory share its instance.
Key(p, r) ==
  [scope |-> Is(p).scope, factory |-> Is(p).factory,
   app |-> IF Is(p).scope = "app" /\ ~Is(p).pure THEN req[r].app ELSE "any"]

HasParameters(p) == Is(p).params # <<>> \/ Is(p).fields # {}

\* The factory is called as it is, with the arguments the provider has: its
\* parameters are not resolved, and a generator it returns is not unwrapped.
Direct(p, arguments) == Is(p).given \/ arguments # << >>

-----------------------------------------------------------------------------
(* Frames.                                                                  *)

Frame(p) == [provider |-> p, at |-> "enter", values |-> <<>>,
             arguments |-> << >>, direct |-> FALSE, after |-> Len(made)]
Top(r) == Last(stack[r])
Below(r) == Front(stack[r])
At(r, place) == pc[r] = "resolving" /\ stack[r] # <<>> /\ Top(r).at = place

\* The provider on top is resolved: its value goes to the factory below it, or
\* to the handler.
Give(r, value) ==
  IF Below(r) = <<>>
  THEN /\ got' = [got EXCEPT ![r] = Append(@, value)]
       /\ stack' = [stack EXCEPT ![r] = <<>>]
  ELSE LET caller == Last(Below(r)) IN
       /\ stack' = [stack EXCEPT ![r] = Append(Front(Below(r)),
              [caller EXCEPT !.values = Append(@, value)])]
       /\ UNCHANGED got

Become(r, frame) == stack' = [stack EXCEPT ![r] = Append(Below(r), frame)]

\* The resolution raises: so does the request.
Fail(r) ==
  /\ pc' = [pc EXCEPT ![r] = "over"]
  /\ stack' = [stack EXCEPT ![r] = <<>>]
  /\ UNCHANGED <<req, got, cleanups, objects, history>>

Init ==
  /\ req \in Scenarios
  /\ pc = [r \in Requests |-> "idle"]
  /\ stack = [r \in Requests |-> <<>>]
  /\ got = [r \in Requests |-> <<>>]
  /\ cleanups = [r \in Requests |-> {}]
  /\ cached = [p \in Providers |-> None]
  /\ provided = [p \in Providers |-> << >>]
  /\ shared = [k \in {Key(p, r) : p \in Providers, r \in Requests} |-> None]
  /\ made = <<>>
  /\ closed = {}

-----------------------------------------------------------------------------
(* Resolution.                                                              *)

Begin(r) ==
  /\ pc[r] = "idle"
  /\ pc' = [pc EXCEPT ![r] = "resolving"]
  /\ UNCHANGED <<req, stack, got, cleanups, objects, history>>

Complete(r) == Len(got[r]) = Len(req[r].wants)

\* The next parameter of the handler.
Wanted(r) == req[r].wants[Len(got[r]) + 1]
IsRegistered(r, name) ==
  \E i \in DOMAIN req[r].layers : name \in DOMAIN req[r].layers[i]

Want(r) ==
  /\ pc[r] = "resolving" /\ stack[r] = <<>> /\ ~Complete(r)
  /\ IsRegistered(r, Wanted(r))
  /\ stack' = [stack EXCEPT ![r] = <<Frame(Registered(r, Wanted(r)))>>]
  /\ UNCHANGED <<req, pc, got, cleanups, objects, history>>

\* A dependency that is registered nowhere: the request fails, after the ones
\* before it were made.
Missing(r) ==
  /\ pc[r] = "resolving" /\ stack[r] = <<>> /\ ~Complete(r)
  /\ ~IsRegistered(r, Wanted(r))
  /\ Fail(r)

\* resolve: what was cached or is shared already.
Found(r) ==
  /\ At(r, "enter")
  /\ LET p == Top(r).provider IN
     \/ /\ Is(p).use_cache /\ cached[p] # None
        /\ Give(r, cached[p])
     \/ /\ ~(Is(p).use_cache /\ cached[p] # None)
        /\ Shared(p) /\ shared[Key(p, r)] # None
        /\ Give(r, shared[Key(p, r)])
  /\ UNCHANGED <<req, pc, cleanups, objects, history>>

Entered(r, p, arguments) ==
  IF Direct(p, arguments)
  THEN [Top(r) EXCEPT !.at = "call", !.direct = TRUE, !.arguments = arguments]
  ELSE [Top(r) EXCEPT !.at = "nested"]

\* _resolve_internal. Without a request there is no body to look at.
Enter(r) ==
  /\ At(r, "enter")
  /\ LET p == Top(r).provider IN
     /\ ~(Is(p).use_cache /\ cached[p] # None)
     /\ ~(Shared(p) /\ shared[Key(p, r)] # None)
     /\ Become(r, IF HasParameters(p) /\ ~Is(p).pure
                  THEN [Top(r) EXCEPT !.at = "data", !.after = Len(made)]
                  ELSE Entered(r, p, provided[p]))
  /\ UNCHANGED <<req, pc, got, cleanups, objects, history>>

\* Mutant: an argument that is provided already is kept.
TakenOnce(r, p) ==
  [f \in DOMAIN provided[p] \cup (req[r].body \cap Is(p).fields) |->
     IF f \in DOMAIN provided[p] THEN provided[p][f] ELSE r]

\* The keys of the body that the factory has parameters for are put into the
\* provided_kwargs of the provider, where they stay.
Taken(r, p) ==
  [f \in DOMAIN provided[p] \cup (req[r].body \cap Is(p).fields) |->
     IF f \in req[r].body THEN r ELSE provided[p][f]]

\* The body has been read. One that is no object has no items; a WebSocket has
\* no body. With provided arguments the factory is called at once, and a
\* parameter that only its dependencies could give is missing.
ReadData(r) ==
  /\ At(r, "data")
  /\ LET p == Top(r).provider
         body == IF req[r].kind = "http" THEN req[r].body ELSE {}
         arguments == IF body = {} THEN provided[p] ELSE Taken(r, p)
     IN \/ body = {"text"} /\ Fail(r)
        \/ /\ body # {"text"}
           /\ provided' = [provided EXCEPT ![p] = arguments]
           /\ IF Direct(p, arguments) /\ ~Is(p).given /\ Is(p).params # <<>>
              THEN /\ pc' = [pc EXCEPT ![r] = "over"]
                   /\ stack' = [stack EXCEPT ![r] = <<>>]
              ELSE Become(r, Entered(r, p, arguments)) /\ UNCHANGED pc
           /\ UNCHANGED <<req, got, cleanups, cached, shared, history>>

\* The next parameter of a factory.
Nested(r) ==
  /\ At(r, "nested")
  /\ LET f == Top(r) params == Is(f.provider).params IN
     /\ Len(f.values) < Len(params)
     /\ stack' = [stack EXCEPT ![r] =
          Append(@, Frame(Registered(r, params[Len(f.values) + 1])))]
  /\ UNCHANGED <<req, pc, got, cleanups, objects, history>>

\* All parameters are resolved; provided_kwargs is looked at again.
Call(r) ==
  /\ At(r, "nested")
  /\ LET f == Top(r) IN
     /\ Len(f.values) = Len(Is(f.provider).params)
     /\ Become(r, [f EXCEPT !.at = "call", !.arguments = provided[f.provider]])
  /\ UNCHANGED <<req, pc, got, cleanups, objects, history>>

Raise(r) == At(r, "call") /\ Fail(r)

\* Mutant: the cleanup of a generator is run instead of registered.
RegisterAtOnce(r, n, p) ==
  /\ closed' = closed \cup {n}
  /\ UNCHANGED cleanups

\* The generator is closed with the request; without one, at once.
Register(r, n, p) ==
  IF Is(p).pure
  THEN closed' = closed \cup {n} /\ UNCHANGED cleanups
  ELSE /\ cleanups' = [cleanups EXCEPT ![r] = @ \cup {n}]
       /\ UNCHANGED closed

\* The factory returned. What it returned is cached before it is unwrapped, and
\* a factory that was called directly is not unwrapped at all.
Made(r) ==
  /\ At(r, "call")
  /\ LET f == Top(r)
         p == f.provider
         n == Len(made) + 1
         raw == [made |-> n,
                 form |-> IF Is(p).generator THEN "generator" ELSE "value"]
         unwrapped == Is(p).generator /\ (Is(p).pure \/ ~f.direct)
         value == IF unwrapped THEN [raw EXCEPT !.form = "value"] ELSE raw
     IN
     /\ made' = Append(made, [provider |-> p, by |-> r,
          values |-> f.values, arguments |-> f.arguments, after |-> f.after])
     /\ cached' = IF Is(p).use_cache
                  THEN [cached EXCEPT ![p] = IF Is(p).pure THEN value ELSE raw]
                  ELSE cached
     /\ IF unwrapped THEN Register(r, n, p) ELSE UNCHANGED <<closed, cleanups>>
     /\ shared' = IF Shared(p) THEN [shared EXCEPT ![Key(p, r)] = value]
                  ELSE shared
     /\ Give(r, value)
  /\ UNCHANGED <<req, pc, provided>>

\* The handler has run and the response is sent.
Finish(r) ==
  /\ pc[r] = "resolving" /\ stack[r] = <<>> /\ Complete(r)
  /\ pc' = [pc EXCEPT ![r] = "over"]
  /\ UNCHANGED <<req, stack, got, cleanups, objects, history>>

\* Nothing calls Request.close, and the WebSocket that a handler may close is not
\* the one its dependencies were resolved with: the generators are closed when
\* the interpreter drops the object, at any time after the request.
Collect(r) ==
  /\ pc[r] = "over" /\ cleanups[r] # {}
  /\ closed' = closed \cup cleanups[r]
  /\ cleanups' = [cleanups EXCEPT ![r] = {}]
  /\ UNCHANGED <<req, pc, stack, got, objects, made>>

Next ==
  \E r \in Requests :
    \/ Begin(r) \/ Want(r) \/ Missing(r) \/ Found(r) \/ Enter(r) \/ ReadData(r) \/ Nested(r)
    \/ Call(r) \/ Raise(r) \/ Made(r) \/ Finish(r) \/ Collect(r)

Spec == Init /\ [][Next]_vars

-----------------------------------------------------------------------------
(* Properties.                                                              *)

Values == [made : 1..Len(made), form : {"value", "generator"}]
Arguments == UNION {[F -> Requests] : F \in SUBSET Fields}

\* The type invariant.
TypeOK ==
  /\ req \in Scenarios
  /\ pc \in [Requests -> {"idle", "resolving", "over"}]
  /\ \A r \in Requests :
       /\ got[r] \in Seq(Values) /\ Len(got[r]) <= Len(req[r].wants)
       /\ cleanups[r] \subseteq DOMAIN made
       /\ \A i \in DOMAIN stack[r] :
            /\ stack[r][i].provider \in Providers
            /\ stack[r][i].at \in {"enter", "data", "nested", "call"}
            /\ stack[r][i].values \in Seq(Values)
            /\ stack[r][i].arguments \in Arguments
            /\ stack[r][i].direct \in BOOLEAN
            /\ stack[r][i].after \in 0..Len(made)
  /\ \A p \in Providers : cached[p] \in Values \cup {None}
  /\ \A p \in Providers :
       provided[p] \in Arguments /\ DOMAIN provided[p] \subseteq Is(p).fields
  /\ \A k \in DOMAIN shared : shared[k] \in Values \cup {None}
  /\ closed \subseteq DOMAIN made

\* An application has one instance of a factory of scope APP, and the process
\* one of scope GLOBAL: a factory that is called a second time was called before
\* the first call returned (_scopes.py:67 and dependencies.py:151, the key is
\* kept in the application).
SharedOnce ==
  \A i, j \in DOMAIN made :
    LET p == Is(made[i].provider) q == Is(made[j].provider) IN
    (/\ i # j
     /\ p.scope # "request" /\ p.scope = q.scope /\ p.factory = q.factory
     /\ p.scope = "app" => /\ p.pure = q.pure
                           /\ p.pure \/ req[made[i].by].app = req[made[j].by].app)
    => i > made[j].after

\* Whoever uses an instance: the handlers, and what was built with it.
Uses(v, r) ==
  \/ \E i \in DOMAIN got[r] : got[r][i] = v
  \/ \E n \in DOMAIN made : made[n].by = r /\ v \in ToSet(made[n].values)

\* A request is never given an instance that another one made, directly or as
\* a part of its own instances, unless the provider is of scope APP or GLOBAL
\* or has use_cache; nor an instance of another application (dependencies.py:181).
Isolation ==
  \A r \in Requests : \A n \in DOMAIN made : \A form \in {"value", "generator"} :
    Uses([made |-> n, form |-> form], r) =>
      LET p == made[n].provider IN
      /\ made[n].by = r \/ Is(p).scope # "request" \/ Is(p).use_cache
      /\ (Is(p).scope = "app" /\ ~Is(p).use_cache /\ ~Is(p).pure)
           => req[made[n].by].app = req[r].app

\* What a factory is given for a key of its request's body is this request's,
\* whatever requests resolve the same provider meanwhile; a key that it lacks
\* may be given from the body of another one (dependencies.py:205, the arguments
\* are kept in the provider).
OwnBody ==
  \A n \in DOMAIN made : \A f \in DOMAIN made[n].arguments :
    /\ f \in req[made[n].arguments[f]].body
    /\ (req[made[n].by].kind = "http" /\ f \in req[made[n].by].body)
         => made[n].arguments[f] = made[n].by

\* A generator is closed when the request it was made for is over, never while
\* the handler still uses what it yielded, unless a Depends made it, which has no
\* request; and a handler is given what a generator yielded, not the generator,
\* unless the provider has use_cache or called its factory directly
\* (dependencies.py:324, the close is left to the request).
OpenWhileUsed ==
  /\ \A n \in closed :
       pc[made[n].by] = "over" \/ Is(made[n].provider).pure
  /\ \A r \in Requests : \A i \in DOMAIN got[r] :
       LET v == got[r][i] p == made[v.made].provider IN
       v.form = "generator" =>
         \/ Is(p).use_cache \/ Is(p).given
         \/ made[v.made].arguments # << >>

\* docs/en/docs/dependencies.md:47 of use_cache: "cache the factory result for
\* the lifetime of a request".
CachePerRequest ==
  \A r \in Requests : \A i \in DOMAIN got[r] :
    LET n == got[r][i].made
    IN  Is(made[n].provider).scope = "request" => made[n].by = r

=============================================================================
