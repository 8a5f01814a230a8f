---------------------------- MODULE ResultCache ----------------------------
(***************************************************************************)
(* The cache decorator of lilya.decorators over a backend of lilya.caches. *)
(*                                                                         *)
(* Calls of decorated functions run on the thread of the event loop, where *)
(* they interleave at their awaits, or each on a worker thread.  A call    *)
(* asks the backend, computes on a miss, and stores what it computed.  A   *)
(* synchronous call holds the one lock of the module meanwhile; the lock   *)
(* of an asynchronous call is made by the call, so that nobody waits for   *)
(* it, and has no place in the state.  An invalidation takes the module's  *)
(* lock and deletes an entry.                                              *)
(*                                                                         *)
(* What a function computes is the version of the data it reads; the data  *)
(* changes at any time.  Each call and each invalidation happens once.     *)
(***************************************************************************)
EXTENDS Naturals, Sequences

CONSTANTS
  Calls,          \* calls of decorated functions
  Func,           \* the function a call or an invalidation is of
  Args, Kwargs,   \* its arguments, in the form they are written
  Name,           \* module and qualified name of a function, without <locals>
  BoundMethods,   \* functions that are bound methods
  OfInstance,     \* actors whose first argument has an attribute of that name
  Parent,         \* the call whose body makes this one, or Nobody
  OnLoop,         \* the actors on the event loop's thread
  Invalidators,   \* calls of cache.invalidate
  Nobody,
  AsyncFuncs,     \* functions that are coroutine functions
  NoneFuncs,      \* functions that return None
  Ttl,            \* the ttl of a function's decorator, 0 for None
  DefaultTtl,     \* settings.cache_default_ttl
  Remote,         \* the backend is a service that may fail (RedisCache)
  Scenarios,      \* the sets of actors that may take part
  MaxVersion,     \* bound on the changes of the data
  MaxTime         \* bound on the clock

Actors == Calls \cup Invalidators
Funcs == {Func[c] : c \in Calls}

ASSUME CacheAssumption ==
  /\ Nobody \notin Actors /\ Calls \cap Invalidators = {}
  /\ Parent \in [Calls -> Calls \cup {Nobody}]
  /\ OnLoop \subseteq Actors
  /\ OfInstance \subseteq Actors
  /\ Ttl \in [Funcs -> Nat] /\ DefaultTtl \in Nat
  /\ Remote \in BOOLEAN
  /\ Scenarios \subseteq SUBSET Actors
  /\ MaxVersion \in Nat /\ MaxTime \in Nat

Async(c) == Func[c] \in AsyncFuncs
Sync(c) == ~Async(c)

\* A coroutine is on the loop's thread, a body on the thread of its caller.
ASSUME ThreadAssumption ==
  \A c \in Calls :
    /\ Async(c) => c \in OnLoop
    /\ Parent[c] # Nobody =>
         /\ Parent[Parent[c]] = Nobody
         /\ (c \in OnLoop) = (Parent[c] \in OnLoop)
         /\ Async(c) => Async(Parent[c])

VARIABLES
  pc,       \* what an actor does: out, idle, lock, get, compute, set, done
  store,    \* the entries of the backend
  lock,     \* who holds cache_lock
  held,     \* what a call computed
  result,   \* what a call returned
  missed,   \* why a call computes: there was no entry, or the backend failed
  source,   \* the version of the data
  now,      \* the time
  floor,    \* history: the version when a key was last deleted
  since     \* history: floor of the key when the call began

calls == <<pc, held, result, missed>>
world == <<source, now>>
vars == <<calls, store, lock, world, floor, since>>

-----------------------------------------------------------------------------
(* Keys and entries.                                                        *)

\* The first argument is taken for the instance of a method.
Shortened(a) ==
  Func[a] \in BoundMethods \/ (Args[a] # <<>> /\ a \in OfInstance)

\* Mutant: the first argument never counts.
EncodedRest(a) == IF Args[a] # <<>> THEN Tail(Args[a]) ELSE Args[a]

Encoded(a) ==
  IF Shortened(a) /\ Args[a] # <<>> THEN Tail(Args[a]) ELSE Args[a]

\* generate_cache_key.  Functions made by one factory have one name, and a bound
\* method has no instance among its arguments: its first real one is left out.
Key(a) == [name |-> Name[Func[a]], args |-> Encoded(a), kwargs |-> Kwargs[a]]

Keys == {Key(a) : a \in Actors}

Absent == [form |-> "absent"]
Entry(v, expiry) == [form |-> "entry", value |-> v, expiry |-> expiry]

\* What is stored was encoded, what is read is decoded: it is not the object
\* that the function returned.
Computed(c) == [form |-> "object", version |-> source, by |-> c]
Decoded(v) == [v EXCEPT !.form = "json"]

Expired(entry) == entry.expiry # 0 /\ entry.expiry < now

\* ttl or settings.cache_default_ttl; neither is given for an entry that stays.
Lifetime(f) == IF Ttl[f] = 0 THEN DefaultTtl ELSE Ttl[f]
Expiry(f) == IF Lifetime(f) = 0 THEN 0 ELSE now + Lifetime(f)

\* get: an entry that expired is deleted.
Served(k) == store[k] # Absent /\ ~Expired(store[k])
Fetched(k) == IF Served(k) THEN store ELSE [store EXCEPT ![k] = Absent]

\* What get returns is not None.
Usable(k) == Served(k) /\ Func[store[k].value.by] \notin NoneFuncs

\* get, set and delete are each run by anyio.run, which refuses to on a thread
\* that runs a loop already, or fail with a remote backend; what fails is logged.
BackendFails(a) ==
  IF a \in OnLoop /\ (a \in Invalidators \/ Sync(a)) THEN {TRUE}
  ELSE IF Remote THEN BOOLEAN ELSE {FALSE}

-----------------------------------------------------------------------------
(* Threads.                                                                 *)

Active(a) == pc[a] \in {"lock", "get", "compute", "set"}
Children(c) == {d \in Calls : Parent[d] = c /\ pc[d] # "out"}

\* A synchronous call or an invalidation on the loop's thread lets no
\* other coroutine run.
Blocks(a) == a \in OnLoop /\ Active(a) /\ (a \in Invalidators \/ Sync(a))
Runs(a) ==
  a \in OnLoop =>
    \A b \in Actors : Blocks(b) => b = a \/ (a \in Calls /\ b = Parent[a])

Init ==
  /\ \E present \in Scenarios :
       pc = [a \in Actors |-> IF a \in present THEN "idle" ELSE "out"]
  /\ store = [k \in Keys |-> Absent]
  /\ lock = Nobody
  /\ held = [c \in Calls |-> Absent]
  /\ result = [c \in Calls |-> Absent]
  /\ missed = [c \in Calls |-> "no"]
  /\ source = 0
  /\ now = 0
  /\ floor = [k \in Keys |-> 0]
  /\ since = [c \in Calls |-> 0]

-----------------------------------------------------------------------------
(* A call.                                                                  *)

Begin(c) ==
  /\ pc[c] = "idle" /\ Runs(c)
  /\ Parent[c] # Nobody => pc[Parent[c]] = "compute"
  /\ pc' = [pc EXCEPT ![c] = IF Async(c) THEN "get" ELSE "lock"]
  /\ since' = [since EXCEPT ![c] = floor[Key(c)]]
  /\ UNCHANGED <<store, lock, held, result, missed, world, floor>>

\* Mutant: a synchronous call has a lock of its own, too.
AcquireOwn(c) ==
  /\ pc[c] = "lock" /\ Runs(c)
  /\ lock' = c
  /\ pc' = [pc EXCEPT ![c] = "get"]
  /\ UNCHANGED <<store, held, result, missed, world, floor, since>>

\* with cache_lock
Acquire(c) ==
  /\ pc[c] = "lock" /\ Runs(c)
  /\ lock = Nobody
  /\ lock' = c
  /\ pc' = [pc EXCEPT ![c] = "get"]
  /\ UNCHANGED <<store, held, result, missed, world, floor, since>>

\* The call is over: with gives the lock back.
Leave(c, value) ==
  /\ pc' = [pc EXCEPT ![c] = "done"]
  /\ held' = [held EXCEPT ![c] = Absent]
  /\ missed' = [missed EXCEPT ![c] = "no"]
  /\ result' = [result EXCEPT ![c] = value]
  /\ lock' = IF lock = c THEN Nobody ELSE lock

\* The backend has the value, and it is not None.
Hit(c) ==
  /\ pc[c] = "get" /\ Runs(c)
  /\ FALSE \in BackendFails(c)
  /\ Usable(Key(c))
  /\ Leave(c, store[Key(c)])
  /\ UNCHANGED <<store, world, floor, since>>

Miss(c) ==
  /\ pc[c] = "get" /\ Runs(c)
  /\ \/ /\ FALSE \in BackendFails(c)
        /\ ~Usable(Key(c))
        /\ store' = Fetched(Key(c))
        /\ missed' = [missed EXCEPT ![c] = "absent"]
     \/ /\ TRUE \in BackendFails(c)
        /\ missed' = [missed EXCEPT ![c] = "failed"]
        /\ UNCHANGED store
  /\ pc' = [pc EXCEPT ![c] = "compute"]
  /\ UNCHANGED <<lock, held, result, world, floor, since>>

\* The function returns; the calls its body makes have returned before.
Compute(c) ==
  /\ pc[c] = "compute" /\ Runs(c)
  /\ \A d \in Children(c) : pc[d] = "done"
  /\ held' = [held EXCEPT ![c] = Computed(c)]
  /\ pc' = [pc EXCEPT ![c] = "set"]
  /\ UNCHANGED <<store, lock, result, missed, world, floor, since>>

\* Mutant: the lock is not given back when the function raises.
RaiseKeepsLock(c) ==
  /\ pc[c] = "compute" /\ Runs(c)
  /\ \A d \in Children(c) : pc[d] = "done"
  /\ pc' = [pc EXCEPT ![c] = "done"]
  /\ UNCHANGED <<held, result, missed, store, lock, world, floor, since>>

\* The function raises: nothing is stored.
Raise(c) ==
  /\ pc[c] = "compute" /\ Runs(c)
  /\ \A d \in Children(c) : pc[d] = "done"
  /\ Leave(c, Absent)
  /\ UNCHANGED <<store, world, floor, since>>

\* The caller gets what the function returned, whether it is stored or not.
Store(c) ==
  /\ pc[c] = "set" /\ Runs(c)
  /\ \/ /\ FALSE \in BackendFails(c)
        /\ store' = [store EXCEPT
             ![Key(c)] = Entry(Decoded(held[c]), Expiry(Func[c]))]
     \/ TRUE \in BackendFails(c) /\ UNCHANGED store
  /\ Leave(c, Entry(held[c], 0))
  /\ UNCHANGED <<world, floor, since>>

-----------------------------------------------------------------------------
(* An invalidation.                                                         *)

Invalidate(i) ==
  /\ pc[i] = "idle" /\ Runs(i)
  /\ pc' = [pc EXCEPT ![i] = "lock"]
  /\ UNCHANGED <<store, lock, held, result, missed, world, floor, since>>

\* Mutant: invalidate does not wait for the lock.
DeleteUnlocked(i) ==
  LET k == Key(i) IN
  /\ pc[i] = "lock" /\ Runs(i)
  /\ \/ /\ FALSE \in BackendFails(i)
        /\ store' = [store EXCEPT ![k] = Absent]
        /\ floor' = [floor EXCEPT ![k] = source]
     \/ TRUE \in BackendFails(i) /\ UNCHANGED <<store, floor>>
  /\ pc' = [pc EXCEPT ![i] = "done"]
  /\ UNCHANGED <<lock, held, result, missed, world, since>>

\* with cache_lock: the entry is deleted, or that fails and is logged.
Delete(i) ==
  LET k == Key(i) IN
  /\ pc[i] = "lock" /\ Runs(i)
  /\ lock = Nobody
  /\ \/ /\ FALSE \in BackendFails(i)
        /\ store' = [store EXCEPT ![k] = Absent]
        /\ floor' = [floor EXCEPT ![k] = source]
     \/ TRUE \in BackendFails(i) /\ UNCHANGED <<store, floor>>
  /\ pc' = [pc EXCEPT ![i] = "done"]
  /\ UNCHANGED <<lock, held, result, missed, world, since>>

-----------------------------------------------------------------------------

\* What the functions read is changed by something else.
Change ==
  /\ source < MaxVersion
  /\ source' = source + 1
  /\ UNCHANGED <<calls, store, lock, now, floor, since>>

Tick ==
  /\ now < MaxTime
  /\ now' = now + 1
  /\ UNCHANGED <<calls, store, lock, source, floor, since>>

CallStep(c) ==
  Acquire(c) \/ Hit(c) \/ Miss(c) \/ Compute(c) \/ Raise(c) \/ Store(c)

Next ==
  \/ \E c \in Calls : Begin(c) \/ CallStep(c)
  \/ \E i \in Invalidators : Invalidate(i) \/ Delete(i)
  \/ Change \/ Tick

Spec == Init /\ [][Next]_vars

\* Threads and the event loop run what can run; a function that was called
\* returns, and one whose body makes a call makes it.
Fairness ==
  /\ \A c \in Calls :
       WF_vars(CallStep(c)) /\ WF_vars(Parent[c] # Nobody /\ Begin(c))
  /\ \A i \in Invalidators : WF_vars(Delete(i))

FairSpec == Spec /\ Fairness

-----------------------------------------------------------------------------
(* Properties.                                                              *)

Values == [form : {"object", "json"}, version : 0..MaxVersion, by : Calls]
Entries == [form : {"entry"}, value : Values, expiry : Nat]

\* The type invariant.
TypeOK ==
  /\ pc \in [Actors -> {"out", "idle", "lock", "get", "compute", "set", "done"}]
  /\ store \in [Keys -> Entries \cup {Absent}]
  /\ lock \in Calls \cup {Nobody}
  /\ held \in [Calls -> Values \cup {Absent}]
  /\ result \in [Calls -> Entries \cup {Absent}]
  /\ missed \in [Calls -> {"no", "absent", "failed"}]
  /\ source \in 0..MaxVersion /\ now \in Nat
  /\ floor \in [Keys -> 0..MaxVersion] /\ since \in [Calls -> 0..MaxVersion]

Worker(c) == c \notin OnLoop

\* All calls that have the key are synchronous.
SyncKey(k) == \A c \in Calls : Key(c) = k => Sync(c)

\* Of the synchronous calls on worker threads none computes what another one
\* has stored meanwhile: a value is only computed again when its entry is gone,
\* expired or None, or the backend failed (decorators.py:247, the lock is held
\* from the look-up to the store).
SyncComputesOnce ==
  [][\A c \in Calls :
       /\ Worker(c) /\ SyncKey(Key(c)) /\ pc[c] = "compute" /\ pc'[c] = "set"
       => missed[c] = "failed" \/ ~Usable(Key(c))]_vars

\* An invalidation is never overtaken by a synchronous call: no call that
\* began after its key was deleted returns what was computed of data from
\* before that, and no such value is in the store (decorators.py:299 takes the
\* lock that a call holds while it computes and stores).
SyncFresh ==
  /\ \A k \in Keys :
       (SyncKey(k) /\ store[k] # Absent) => store[k].value.version >= floor[k]
  /\ \A c \in Calls :
       (SyncKey(Key(c)) /\ result[c] # Absent)
         => result[c].value.version >= since[c]

\* A caller gets what its own call computed, as it is, or the decoded value of
\* a call of a function of the same name with the same arguments; only where a
\* first argument was taken for an instance may the arguments differ, and None
\* is never handed out for a value (generate_cache_key, decorators.py:94).
HitIsOwn ==
  \A c \in Calls : result[c] # Absent =>
    LET v == result[c].value IN
    IF v.form = "object" THEN v.by = c
    ELSE /\ Name[Func[v.by]] = Name[Func[c]] /\ Kwargs[v.by] = Kwargs[c]
         /\ Args[v.by] = Args[c] \/ Shortened(v.by) \/ Shortened(c)
         /\ Func[v.by] \notin NoneFuncs

\* A synchronous cached function called in the body of another one waits for
\* the lock its own thread holds.
SelfDeadlock ==
  \E c \in Calls : Parent[c] # Nobody /\ pc[c] = "lock" /\ lock = Parent[c]

\* Every call and every invalidation ends, unless a synchronous cached function
\* calls another one: then whoever needs the lock waits for ever, and with one
\* of them on its thread so does the event loop (decorators.py:247).
CallsEnd == \A a \in Actors : Active(a) ~> (pc[a] = "done" \/ SelfDeadlock)

=============================================================================
