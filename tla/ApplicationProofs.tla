-------------------------- MODULE ApplicationProofs --------------------------
(***************************************************************************)
(* Proofs about the parts of an application that outlive a request, which  *)
(* have no name in common.                                                 *)
(*                                                                         *)
(* ResultCache: the results that its functions cache, whatever calls and   *)
(* invalidations there are and however they interleave.                    *)
(*                                                                         *)
(* Lifespan: the handlers that run when the server starts and stops it,    *)
(* whatever they do and whoever sends what.                                *)
(***************************************************************************)
EXTENDS ResultCache, Lifespan, SequenceTheorems, FiniteSetTheorems, TLAPS

-----------------------------------------------------------------------------
(* Cached results.                                                          *)

Inside == {"get", "compute", "set"}
KeyVersion(k) == store[k].value.version

\* A synchronous call has the lock from the look-up to the store; a coroutine
\* never has it.
LockInv ==
  \A c \in Calls :
    /\ lock = c <=> Sync(c) /\ pc[c] \in Inside
    /\ pc[c] = "lock" => Sync(c)

\* What a call is about to store is its own, and nothing was deleted since it
\* was computed.
HeldInv ==
  \A c \in Calls :
    /\ held[c] # Absent <=> pc[c] = "set"
    /\ pc[c] = "set" =>
         /\ held[c].form = "object" /\ held[c].by = c
         /\ Sync(c) => held[c].version >= floor[Key(c)]

\* An entry is from a call with its key, and newer than the last deletion.
StoreInv ==
  \A k \in Keys : store[k] # Absent =>
    /\ store[k].value.form = "json"
    /\ Key(store[k].value.by) = k
    /\ SyncKey(k) => KeyVersion(k) >= floor[k]

FloorInv ==
  /\ \A k \in Keys : floor[k] <= source
  /\ \A c \in Calls : since[c] <= floor[Key(c)]

\* A synchronous call that computes has a reason, and the entry stays absent.
MissInv ==
  \A c \in Calls : (SyncKey(Key(c)) /\ pc[c] = "compute") =>
    missed[c] = "failed" \/ ~Usable(Key(c))

ResultInv ==
  \A c \in Calls : result[c] # Absent =>
    /\ pc[c] = "done"
    /\ SyncKey(Key(c)) => result[c].value.version >= since[c]
    /\ IF result[c].value.form = "object" THEN result[c].value.by = c
       ELSE /\ Key(result[c].value.by) = Key(c)
            /\ Func[result[c].value.by] \notin NoneFuncs

CacheInv == /\ TypeOK
            /\ LockInv /\ HeldInv /\ StoreInv /\ FloorInv /\ MissInv /\ ResultInv

LEMMA CachedForms ==
  /\ Absent \notin Values /\ Absent \notin Entries
  /\ \A v \in Values, e \in Nat :
       /\ Entry(v, e) \in Entries /\ Entry(v, e).value = v
       /\ Entry(v, e) # Absent
  /\ \A v \in Values :
       /\ Decoded(v) \in Values /\ Decoded(v).form = "json"
       /\ Decoded(v).version = v.version /\ Decoded(v).by = v.by
<1>1. Absent.form = "absent"
  BY DEF Absent
<1>2. Absent \notin Values /\ Absent \notin Entries
  BY <1>1 DEF Values, Entries
<1>3. ASSUME NEW v \in Values, NEW e \in Nat
      PROVE  Entry(v, e) \in Entries /\ Entry(v, e).value = v
  BY DEF Entry, Entries
<1>4. ASSUME NEW v \in Values
      PROVE  /\ Decoded(v) \in Values /\ Decoded(v).form = "json"
             /\ Decoded(v).version = v.version /\ Decoded(v).by = v.by
  BY DEF Decoded, Values
<1>5. QED
  BY <1>2, <1>3, <1>4

\* The parts of the state.
CacheParts ==
  /\ pc \in [Actors -> {"out", "idle", "lock", "get", "compute", "set", "done"}]
  /\ store \in [Keys -> Entries \cup {Absent}]
  /\ held \in [Calls -> Values \cup {Absent}]
  /\ result \in [Calls -> Entries \cup {Absent}]
  /\ missed \in [Calls -> {"no", "absent", "failed"}]
  /\ floor \in [Keys -> 0..MaxVersion] /\ since \in [Calls -> 0..MaxVersion]
  /\ source \in 0..MaxVersion /\ source \in Nat
  /\ now \in Nat

\* The places of calls and of invalidations are apart.
LEMMA CacheBasics ==
  ASSUME CacheInv
  PROVE  /\ CacheParts
         /\ MaxVersion \in Nat
         /\ Actors = Calls \cup Invalidators
         /\ Calls \cap Invalidators = {} /\ Nobody \notin Calls
         /\ \A a \in Actors : Key(a) \in Keys
         /\ \A c \in Calls : Key(c) \in Keys
<1>1. MaxVersion \in Nat
  BY CacheAssumption DEF CacheAssumption
<1>2. CacheParts
  BY <1>1 DEF CacheInv, TypeOK, CacheParts
<1>3. QED
  BY <1>1, <1>2, CacheAssumption DEF CacheAssumption, Actors, Keys

\* A call begins to wait for the lock or looks the entry up.
LEMMA CacheBegin ==
  ASSUME CacheInv, NEW c \in Calls, Begin(c)
  PROVE  CacheInv'
<1> DEFINE k == Key(c)
<1>1. CacheParts /\ k \in Keys /\ c \in Actors
  BY CacheBasics
<1>2. /\ pc[c] = "idle"
      /\ pc' = [pc EXCEPT ![c] = IF Async(c) THEN "get" ELSE "lock"]
      /\ since' = [since EXCEPT ![c] = floor[k]]
      /\ UNCHANGED <<store, lock, held, result, missed, source, now, floor>>
  BY DEF Begin, world
<1> HIDE DEF k
<1>3. TypeOK'
  BY <1>1, <1>2 DEF CacheParts, CacheInv, TypeOK
<1>4. LockInv'
  BY <1>1, <1>2 DEF CacheParts, CacheInv, LockInv, Inside, Sync, Async
<1>5. HeldInv'
  BY <1>1, <1>2 DEF CacheParts, CacheInv, HeldInv
<1>6. StoreInv' /\ FloorInv'
  BY <1>1, <1>2 DEF CacheParts, CacheInv, StoreInv, FloorInv, KeyVersion, k
<1>7. MissInv'
  BY <1>1, <1>2 DEF CacheParts, CacheInv, MissInv, Usable, Served, Expired
<1>8. ResultInv'
  BY <1>1, <1>2 DEF CacheParts, CacheInv, ResultInv
<1>9. QED
  BY <1>3, <1>4, <1>5, <1>6, <1>7, <1>8 DEF CacheInv

LEMMA CacheAcquire ==
  ASSUME CacheInv, NEW c \in Calls, Acquire(c)
  PROVE  CacheInv'
<1>1. CacheParts /\ c \in Actors /\ Nobody \notin Calls
  BY CacheBasics
<1>2. /\ pc[c] = "lock" /\ lock = Nobody /\ lock' = c
      /\ pc' = [pc EXCEPT ![c] = "get"]
      /\ UNCHANGED <<store, held, result, missed, source, now, floor, since>>
  BY DEF Acquire, world
<1>3. TypeOK'
  BY <1>1, <1>2 DEF CacheParts, CacheInv, TypeOK
<1>4. LockInv'
  BY <1>1, <1>2 DEF CacheParts, CacheInv, LockInv, Inside
<1>5. HeldInv' /\ StoreInv' /\ FloorInv'
  BY <1>1, <1>2 DEF CacheParts, CacheInv, HeldInv, StoreInv, FloorInv, KeyVersion
<1>6. MissInv' /\ ResultInv'
  BY <1>1, <1>2 DEF CacheParts, CacheInv, MissInv, ResultInv, Usable, Served,
                    Expired
<1>7. QED
  BY <1>3, <1>4, <1>5, <1>6 DEF CacheInv

\* What a call may return: its own object, or what a call with its key stored.
MayReturn(c, value) ==
  value # Absent =>
    /\ SyncKey(Key(c)) => value.value.version >= since[c]
    /\ IF value.value.form = "object" THEN value.value.by = c
       ELSE /\ Key(value.value.by) = Key(c)
            /\ Func[value.value.by] \notin NoneFuncs

\* A call that leaves gives the lock back, and keeps nothing.
LEMMA CacheLeave ==
  ASSUME CacheInv, NEW c \in Calls, pc[c] \in Inside,
         NEW value \in Entries \cup {Absent}, MayReturn(c, value),
         Leave(c, value),
         UNCHANGED <<source, now, floor, since>>,
         store' \in [Keys -> Entries \cup {Absent}],
         StoreInv',
         \A d \in Calls \ {c} : (SyncKey(Key(d)) /\ pc[d] = "compute") =>
           store'[Key(d)] = store[Key(d)]
  PROVE  CacheInv'
<1>1. CacheParts /\ c \in Actors /\ Nobody \notin Calls
  BY CacheBasics
<1>2. /\ pc' = [pc EXCEPT ![c] = "done"]
      /\ held' = [held EXCEPT ![c] = Absent]
      /\ missed' = [missed EXCEPT ![c] = "no"]
      /\ result' = [result EXCEPT ![c] = value]
      /\ lock' = IF lock = c THEN Nobody ELSE lock
  BY DEF Leave
<1>3. TypeOK'
  BY <1>1, <1>2 DEF CacheParts, CacheInv, TypeOK
<1>4. LockInv'
  BY <1>1, <1>2 DEF CacheParts, CacheInv, LockInv, Inside
<1>5. HeldInv' /\ FloorInv'
  BY <1>1, <1>2 DEF CacheParts, CacheInv, HeldInv, FloorInv
<1>6. MissInv'
  BY <1>1, <1>2 DEF CacheParts, CacheInv, MissInv, Usable, Served, Expired
<1>7. ResultInv'
  <2>1. ASSUME NEW d \in Calls, result'[d] # Absent
        PROVE  /\ pc'[d] = "done"
               /\ MayReturn(d, result'[d])
    <3>1. CASE d = c
      BY <1>1, <1>2, <2>1, <3>1 DEF CacheParts
    <3>2. CASE d # c
      BY <1>1, <1>2, <2>1, <3>2 DEF CacheParts, CacheInv, ResultInv, MayReturn
    <3>3. QED
      BY <3>1, <3>2
  <2>2. QED
    BY <2>1 DEF ResultInv, MayReturn
<1>8. QED
  BY <1>3, <1>4, <1>5, <1>6, <1>7 DEF CacheInv

LEMMA CacheHit ==
  ASSUME CacheInv, NEW c \in Calls, Hit(c)
  PROVE  CacheInv'
<1> DEFINE k == Key(c)
<1>1. CacheParts /\ k \in Keys
  BY CacheBasics
<1>2. /\ pc[c] = "get" /\ store[k] # Absent
      /\ Func[store[k].value.by] \notin NoneFuncs
      /\ Leave(c, store[k])
      /\ UNCHANGED <<store, source, now, floor, since>>
  BY DEF Hit, Usable, Served, world
<1> HIDE DEF k
<1>3. store[k] \in Entries
  BY <1>1, <1>2 DEF CacheParts
<1>4. store[k].value.version \in Nat /\ floor[k] \in Nat /\ since[c] \in Nat
  BY <1>1, <1>3, CacheBasics DEF CacheParts, Entries, Values
<1>5. MayReturn(c, store[k])
  <2>1. /\ store[k].value.form = "json" /\ Key(store[k].value.by) = k
        /\ SyncKey(k) => store[k].value.version >= floor[k]
    BY <1>1, <1>2 DEF CacheInv, StoreInv, KeyVersion
  <2>2. since[c] <= floor[k]
    BY DEF CacheInv, FloorInv, k
  <2>3. QED
    BY <1>2, <1>4, <2>1, <2>2 DEF MayReturn, k
<1>6. StoreInv'
  BY <1>2 DEF CacheInv, StoreInv, KeyVersion
<1>7. QED
  BY <1>1, <1>2, <1>3, <1>5, <1>6, CacheLeave DEF CacheParts, Inside

LEMMA CacheRaise ==
  ASSUME CacheInv, NEW c \in Calls, Raise(c)
  PROVE  CacheInv'
<1>1. /\ pc[c] = "compute" /\ Leave(c, Absent)
      /\ UNCHANGED <<store, source, now, floor, since>>
  BY DEF Raise, world
<1>2. StoreInv'
  BY <1>1 DEF CacheInv, StoreInv, KeyVersion
<1>3. MayReturn(c, Absent)
  BY DEF MayReturn
<1>4. QED
  BY <1>1, <1>2, <1>3, CacheBasics, CacheLeave DEF CacheParts, Inside

\* An entry is stored under the lock, if it is one that synchronous calls read.
LEMMA CacheStore ==
  ASSUME CacheInv, NEW c \in Calls, Store(c)
  PROVE  CacheInv'
<1> DEFINE k == Key(c)
<1>1. CacheParts /\ k \in Keys /\ MaxVersion \in Nat
  BY CacheBasics
<1>2. /\ pc[c] = "set"
      /\ \/ store' = [store EXCEPT
              ![k] = Entry(Decoded(held[c]), Expiry(Func[c]))]
         \/ UNCHANGED store
      /\ Leave(c, Entry(held[c], 0))
      /\ UNCHANGED <<source, now, floor, since>>
  BY DEF Store, world
<1>3. held[c] \in Values /\ held[c].form = "object" /\ held[c].by = c
      /\ (Sync(c) => held[c].version >= floor[k])
  BY <1>1, <1>2 DEF CacheInv, HeldInv, CacheParts
<1>4. Expiry(Func[c]) \in Nat
  <2>1. Func[c] \in Funcs
    BY DEF Funcs
  <2>2. Lifetime(Func[c]) \in Nat
    BY <2>1, CacheAssumption DEF Lifetime, CacheAssumption
  <2>3. QED
    BY <1>1, <2>2 DEF Expiry, CacheParts
<1>5. PICK entry : entry = Entry(Decoded(held[c]), Expiry(Func[c]))
  OBVIOUS
<1>6. /\ entry \in Entries /\ entry # Absent
      /\ entry.value.form = "json" /\ entry.value.by = c
      /\ entry.value.version = held[c].version
  BY <1>3, <1>4, <1>5, CachedForms
<1>7. SyncKey(k) => Sync(c)
  BY DEF SyncKey
<1>8. \A d \in Calls \ {c} :
        SyncKey(Key(d)) /\ pc[d] = "compute" => k # Key(d)
  <2>1. SUFFICES ASSUME NEW d \in Calls \ {c}, SyncKey(Key(d)),
                        pc[d] = "compute", k = Key(d)
                 PROVE  FALSE
    OBVIOUS
  <2>2. Sync(c) /\ Sync(d)
    BY <2>1 DEF SyncKey
  <2>3. lock = c /\ lock = d
    BY <1>2, <2>1, <2>2 DEF CacheInv, LockInv, Inside
  <2>4. QED
    BY <2>1, <2>3
<1> HIDE DEF k
<1>9. /\ store' \in [Keys -> Entries \cup {Absent}]
      /\ \A j \in Keys : store'[j] = store[j] \/ (j = k /\ store'[j] = entry)
      /\ \A j \in Keys : j # k => store'[j] = store[j]
  BY <1>1, <1>2, <1>5, <1>6 DEF CacheParts
<1>10. StoreInv'
  <2>1. ASSUME NEW j \in Keys, store'[j] # Absent
        PROVE  /\ store'[j].value.form = "json"
               /\ Key(store'[j].value.by) = j
               /\ SyncKey(j) => store'[j].value.version >= floor[j]
    <3>1. CASE store'[j] = store[j]
      BY <2>1, <3>1 DEF CacheInv, StoreInv, KeyVersion
    <3>2. CASE j = k /\ store'[j] = entry
      <4>1. Key(entry.value.by) = k
        BY <1>6 DEF k
      <4>2. QED
        BY <1>3, <1>6, <1>7, <3>2, <4>1
    <3>3. QED
      BY <1>9, <3>1, <3>2
  <2>2. QED
    BY <1>2, <2>1 DEF StoreInv, KeyVersion
<1>11. /\ Entry(held[c], 0) \in Entries
       /\ MayReturn(c, Entry(held[c], 0))
  <2>1. /\ Entry(held[c], 0) \in Entries
        /\ Entry(held[c], 0).value = held[c]
    BY <1>3, CachedForms
  <2>2. since[c] <= floor[k]
    BY DEF CacheInv, FloorInv, k
  <2>3. held[c].version \in Nat /\ floor[k] \in Nat /\ since[c] \in Nat
    BY <1>1, <1>3 DEF CacheParts, Values
  <2>4. QED
    BY <1>3, <1>7, <2>1, <2>2, <2>3 DEF MayReturn, k
<1>12. \A d \in Calls \ {c} : (SyncKey(Key(d)) /\ pc[d] = "compute") =>
         store'[Key(d)] = store[Key(d)]
  BY <1>8, <1>9, CacheBasics
<1>13. QED
  BY <1>2, <1>9, <1>10, <1>11, <1>12, CacheLeave DEF Inside

\* A call computes because there is no entry, or none that it could have.
LEMMA CacheMiss ==
  ASSUME CacheInv, NEW c \in Calls, Miss(c)
  PROVE  CacheInv'
<1> DEFINE k == Key(c)
<1>1. CacheParts /\ k \in Keys /\ c \in Actors
  BY CacheBasics
<1>2. /\ pc[c] = "get"
      /\ \/ /\ ~Usable(k)
            /\ store' = Fetched(k)
            /\ missed' = [missed EXCEPT ![c] = "absent"]
         \/ /\ missed' = [missed EXCEPT ![c] = "failed"]
            /\ UNCHANGED store
      /\ pc' = [pc EXCEPT ![c] = "compute"]
      /\ UNCHANGED <<lock, held, result, source, now, floor, since>>
  BY DEF Miss, world
<1> HIDE DEF k
<1>3. store' = store \/ (store' = [store EXCEPT ![k] = Absent] /\ ~Served(k))
  BY <1>2 DEF Fetched
<1>4. /\ store' \in [Keys -> Entries \cup {Absent}]
      /\ \A j \in Keys :
           store'[j] = store[j] \/ (store'[j] = Absent /\ ~Served(j))
  BY <1>1, <1>3 DEF CacheParts
<1>5. TypeOK'
  BY <1>1, <1>2, <1>4 DEF CacheParts, CacheInv, TypeOK
<1>6. LockInv'
  BY <1>1, <1>2 DEF CacheParts, CacheInv, LockInv, Inside
<1>7. HeldInv' /\ FloorInv' /\ ResultInv'
  BY <1>1, <1>2 DEF CacheParts, CacheInv, HeldInv, FloorInv, ResultInv
<1>8. StoreInv'
  BY <1>2, <1>4 DEF CacheInv, StoreInv, KeyVersion
<1>9. MissInv'
  <2>1. \A j \in Keys : ~Usable(j) => ~Usable(j)'
    BY <1>2, <1>4 DEF Usable, Served, Expired
  <2>2. missed'[c] = "failed" \/ ~Usable(k)
    BY <1>1, <1>2 DEF CacheParts
  <2>3. \A d \in Calls : Key(d) \in Keys
    BY CacheBasics
  <2>4. \A d \in Calls \ {c} : missed'[d] = missed[d] /\ pc'[d] = pc[d]
    BY <1>1, <1>2 DEF CacheParts
  <2>5. ASSUME NEW d \in Calls, SyncKey(Key(d)), pc'[d] = "compute"
        PROVE  missed'[d] = "failed" \/ ~Usable(Key(d))'
    <3>1. CASE d = c
      BY <1>1, <2>1, <2>2, <3>1 DEF k
    <3>2. CASE d # c
      BY <2>1, <2>3, <2>4, <2>5, <3>2 DEF CacheInv, MissInv
    <3>3. QED
      BY <3>1, <3>2
  <2>6. QED
    BY <2>5 DEF MissInv, Usable, Served, Expired
<1>10. QED
  BY <1>5, <1>6, <1>7, <1>8, <1>9 DEF CacheInv

\* What is computed is of the data that is there now.
LEMMA CacheCompute ==
  ASSUME CacheInv, NEW c \in Calls, Compute(c)
  PROVE  CacheInv'
<1>1. CacheParts /\ Key(c) \in Keys /\ c \in Actors /\ MaxVersion \in Nat
  BY CacheBasics
<1>2. /\ pc[c] = "compute"
      /\ held' = [held EXCEPT ![c] = Computed(c)]
      /\ pc' = [pc EXCEPT ![c] = "set"]
      /\ UNCHANGED <<store, lock, result, missed, source, now, floor, since>>
  BY DEF Compute, world
<1>3. PICK v : v = Computed(c)
  OBVIOUS
<1>4. v \in Values /\ v.form = "object" /\ v.by = c /\ v.version = source
  BY <1>1, <1>3 DEF CacheParts, Computed, Values
<1>5. v # Absent
  BY <1>4, CachedForms
<1>6. TypeOK'
  BY <1>1, <1>2, <1>3, <1>4 DEF CacheParts, CacheInv, TypeOK
<1>7. LockInv'
  BY <1>1, <1>2 DEF CacheParts, CacheInv, LockInv, Inside
<1>8. HeldInv'
  <2>1. floor[Key(c)] <= source
    BY <1>1 DEF CacheInv, FloorInv
  <2>2. floor[Key(c)] \in Nat /\ source \in Nat
    BY <1>1 DEF CacheParts
  <2>3. v.version >= floor[Key(c)]
    BY <1>4, <2>1, <2>2
  <2>4. held'[c] = v /\ pc'[c] = "set"
    BY <1>1, <1>2, <1>3 DEF CacheParts
  <2>5. \A d \in Calls \ {c} : held'[d] = held[d] /\ pc'[d] = pc[d]
    BY <1>1, <1>2 DEF CacheParts
  <2>6. QED
    BY <1>2, <1>4, <1>5, <2>3, <2>4, <2>5 DEF CacheInv, HeldInv
<1>9. StoreInv' /\ FloorInv'
  BY <1>2 DEF CacheInv, StoreInv, FloorInv, KeyVersion
<1>10. MissInv' /\ ResultInv'
  BY <1>1, <1>2 DEF CacheParts, CacheInv, MissInv, ResultInv, Usable, Served,
                    Expired
<1>11. QED
  BY <1>6, <1>7, <1>8, <1>9, <1>10 DEF CacheInv

LEMMA CacheInvalidate ==
  ASSUME CacheInv, NEW i \in Invalidators, Invalidate(i)
  PROVE  CacheInv'
<1>1. CacheParts /\ i \in Actors /\ i \notin Calls
  BY CacheBasics
<1>2. /\ pc' = [pc EXCEPT ![i] = "lock"]
      /\ UNCHANGED <<store, lock, held, result, missed, source, now, floor, since>>
  BY DEF Invalidate, world
<1>3. \A c \in Calls : pc'[c] = pc[c]
  BY <1>1, <1>2 DEF CacheParts
<1>4. TypeOK'
  BY <1>1, <1>2 DEF CacheParts, CacheInv, TypeOK
<1>5. QED
  BY <1>2, <1>3, <1>4 DEF CacheInv, LockInv, HeldInv, StoreInv, FloorInv, MissInv,
       ResultInv, KeyVersion, Usable, Served, Expired

\* Nobody who has the lock has computed what the deletion makes old.
LEMMA CacheDelete ==
  ASSUME CacheInv, NEW i \in Invalidators, Delete(i)
  PROVE  CacheInv'
<1> DEFINE k == Key(i)
<1>1. CacheParts /\ i \in Actors /\ i \notin Calls /\ Nobody \notin Calls
      /\ MaxVersion \in Nat
  BY CacheBasics
<1>2. k \in Keys
  BY <1>1, CacheBasics
<1> HIDE DEF k
<1>3. /\ lock = Nobody
      /\ \/ /\ store' = [store EXCEPT ![k] = Absent]
            /\ floor' = [floor EXCEPT ![k] = source]
         \/ UNCHANGED <<store, floor>>
      /\ pc' = [pc EXCEPT ![i] = "done"]
      /\ UNCHANGED <<lock, held, result, missed, source, now, since>>
  BY DEF Delete, world, k
<1>4. \A c \in Calls : pc'[c] = pc[c]
  BY <1>1, <1>3 DEF CacheParts
<1>5. /\ store' \in [Keys -> Entries \cup {Absent}]
      /\ floor' \in [Keys -> 0..MaxVersion]
      /\ \A j \in Keys :
           (store'[j] = store[j] /\ floor'[j] = floor[j])
           \/ (store'[j] = Absent /\ floor'[j] = source)
  BY <1>1, <1>2, <1>3 DEF CacheParts
<1>6. TypeOK'
  BY <1>1, <1>3, <1>5 DEF CacheParts, CacheInv, TypeOK
<1>7. LockInv'
  BY <1>3, <1>4 DEF CacheInv, LockInv
<1>8. \A c \in Calls : ~(Sync(c) /\ pc[c] \in Inside)
  BY <1>1, <1>3 DEF CacheInv, LockInv
<1>9. HeldInv'
  BY <1>3, <1>4, <1>8 DEF CacheInv, HeldInv, Inside, Sync, Async
<1>10. StoreInv'
  BY <1>5 DEF CacheInv, StoreInv, KeyVersion
<1>11. FloorInv'
  <2>1. \A j \in Keys : floor[j] <= source /\ floor[j] \in Nat /\ source \in Nat
    BY <1>1 DEF CacheInv, FloorInv, CacheParts
  <2>2. \A j \in Keys : floor'[j] <= source /\ floor[j] <= floor'[j]
    BY <1>5, <2>1
  <2>3. ASSUME NEW c \in Calls PROVE since[c] <= floor'[Key(c)]
    <3>1. Key(c) \in Keys
      BY CacheBasics
    <3>2. /\ since[c] \in Nat /\ floor[Key(c)] \in Nat
          /\ floor'[Key(c)] \in Nat
      BY <1>1, <1>5, <3>1 DEF CacheParts
    <3>3. since[c] <= floor[Key(c)]
      BY DEF CacheInv, FloorInv
    <3>4. floor[Key(c)] <= floor'[Key(c)]
      BY <2>2, <3>1
    <3>5. QED
      BY <3>2, <3>3, <3>4
  <2>4. QED
    BY <1>3, <2>2, <2>3 DEF FloorInv
<1>12. MissInv'
  BY <1>4, <1>8 DEF MissInv, Inside, SyncKey
<1>13. ResultInv'
  BY <1>3, <1>4 DEF CacheInv, ResultInv
<1>14. QED
  BY <1>6, <1>7, <1>9, <1>10, <1>11, <1>12, <1>13 DEF CacheInv

\* The data and the clock go on: an entry that expired stays so.
LEMMA CacheWorld ==
  ASSUME CacheInv, Change \/ Tick
  PROVE  CacheInv'
<1>1. CacheParts /\ MaxVersion \in Nat
  BY CacheBasics
<1>2. /\ source' \in 0..MaxVersion /\ source <= source'
      /\ now' \in Nat /\ now <= now'
      /\ UNCHANGED <<pc, store, lock, held, result, missed, floor, since>>
  BY <1>1 DEF Change, Tick, calls, CacheParts
<1>3. TypeOK'
  BY <1>2 DEF CacheInv, TypeOK
<1>4. LockInv' /\ HeldInv' /\ StoreInv' /\ ResultInv'
  BY <1>2 DEF CacheInv, LockInv, HeldInv, StoreInv, ResultInv, KeyVersion
<1>5. FloorInv'
  <2>1. \A k \in Keys : floor[k] <= source /\ floor[k] \in Nat /\ source \in Nat
    BY <1>1 DEF CacheInv, FloorInv, CacheParts
  <2>2. QED
    BY <1>1, <1>2, <2>1 DEF CacheInv, FloorInv, CacheParts
<1>6. MissInv'
  <2>1. ASSUME NEW c \in Calls, ~Usable(Key(c))
        PROVE  ~Usable(Key(c))'
    <3>1. PICK entry : entry = store[Key(c)]
      OBVIOUS
    <3>2. entry \in Entries \cup {Absent}
      BY <1>1, <3>1, CacheBasics DEF CacheParts
    <3>3. entry # Absent => entry.expiry \in Nat
      BY <3>2 DEF Entries
    <3>4. \/ entry = Absent
          \/ entry.expiry # 0 /\ entry.expiry < now
          \/ Func[entry.value.by] \in NoneFuncs
      BY <2>1, <3>1 DEF Usable, Served, Expired
    <3>5. (entry # Absent /\ entry.expiry < now) => entry.expiry < now'
      BY <1>1, <1>2, <3>3 DEF CacheParts
    <3>6. QED
      BY <1>2, <3>1, <3>4, <3>5 DEF Usable, Served, Expired
  <2>2. QED
    BY <1>2, <2>1 DEF CacheInv, MissInv
<1>7. QED
  BY <1>3, <1>4, <1>5, <1>6 DEF CacheInv

LEMMA CacheInit ==
  ASSUME Init
  PROVE  CacheInv
<1>1. /\ MaxVersion \in Nat /\ Nobody \notin Calls
      /\ Actors = Calls \cup Invalidators
      /\ \A c \in Calls : Key(c) \in Keys
  BY CacheAssumption DEF CacheAssumption, Actors, Keys
<1>2. PICK present \in Scenarios :
        pc = [a \in Actors |-> IF a \in present THEN "idle" ELSE "out"]
  BY DEF Init
<1>3. \A a \in Actors : pc[a] \in {"idle", "out"}
  BY <1>2
<1>4. TypeOK
  <2>1. pc \in [Actors -> {"out", "idle", "lock", "get", "compute", "set", "done"}]
    BY <1>2
  <2>2. store \in [Keys -> Entries \cup {Absent}] /\ lock = Nobody
    BY DEF Init
  <2>3. /\ held \in [Calls -> Values \cup {Absent}]
        /\ result \in [Calls -> Entries \cup {Absent}]
        /\ missed \in [Calls -> {"no", "absent", "failed"}]
    BY DEF Init
  <2>4. source = 0 /\ now = 0 /\ 0 \in 0..MaxVersion
    BY <1>1 DEF Init
  <2>5. floor \in [Keys -> 0..MaxVersion] /\ since \in [Calls -> 0..MaxVersion]
    BY <2>4 DEF Init
  <2>6. QED
    BY <2>1, <2>2, <2>3, <2>4, <2>5 DEF TypeOK
<1>5. LockInv
  BY <1>1, <1>3 DEF Init, LockInv, Inside
<1>6. HeldInv
  BY <1>1, <1>3 DEF Init, HeldInv
<1>7. StoreInv /\ FloorInv /\ ResultInv
  BY <1>1 DEF Init, StoreInv, FloorInv, ResultInv
<1>8. MissInv
  BY <1>1, <1>3 DEF MissInv
<1>9. QED
  BY <1>4, <1>5, <1>6, <1>7, <1>8 DEF CacheInv

LEMMA CacheNext ==
  ASSUME CacheInv, [Next]_vars
  PROVE  CacheInv'
<1>1. ASSUME NEW c \in Calls, Begin(c) \/ CallStep(c)
      PROVE  CacheInv'
  <2>1. \/ Begin(c) \/ Acquire(c) \/ Hit(c) \/ Miss(c)
        \/ Compute(c) \/ Raise(c) \/ Store(c)
    BY <1>1 DEF CallStep
  <2>2. QED
    BY <2>1, CacheBegin, CacheAcquire, CacheHit, CacheMiss, CacheCompute, CacheRaise,
       CacheStore
<1>2. ASSUME NEW i \in Invalidators, Invalidate(i) \/ Delete(i)
      PROVE  CacheInv'
  BY <1>2, CacheInvalidate, CacheDelete
<1>3. CASE Change \/ Tick
  BY <1>3, CacheWorld
<1>4. CASE UNCHANGED vars
  BY <1>4 DEF vars, calls, world, CacheInv, TypeOK, LockInv,
       HeldInv, StoreInv, FloorInv, MissInv, ResultInv, KeyVersion, Usable,
       Served, Expired
<1>5. QED
  BY <1>1, <1>2, <1>3, <1>4 DEF Next

\* The state of the cache decorator keeps its types (decorators.py:164).
THEOREM CacheTypeCorrect ==
  Spec => []TypeOK
<1>1. CacheInv => TypeOK
  BY DEF CacheInv
<1>2. QED
  BY <1>1, CacheInit, CacheNext, PTL DEF Spec

\* No synchronous call that began after its key was deleted returns what was
\* computed of data from before that, and no such value is in the store, whatever
\* calls and invalidations there are (decorators.py:299, both take the lock).
THEOREM InvalidationLasts ==
  Spec => []SyncFresh
<1>1. CacheInv => SyncFresh
  BY DEF CacheInv, StoreInv, ResultInv, KeyVersion, SyncFresh
<1>2. QED
  BY <1>1, CacheInit, CacheNext, PTL DEF Spec

\* A caller gets what its own call computed, or what a call of a function of the
\* same name with the same arguments did, but for a first argument that was taken
\* for an instance (decorators.py:94).
THEOREM ResultsAreOwn ==
  Spec => []HitIsOwn
<1>1. CacheInv => HitIsOwn
  <2> SUFFICES ASSUME CacheInv, NEW c \in Calls, result[c] # Absent,
                      NEW v, v = result[c].value, v.form # "object"
               PROVE  /\ Name[Func[v.by]] = Name[Func[c]] /\ Kwargs[v.by] = Kwargs[c]
                      /\ Args[v.by] = Args[c] \/ Shortened(v.by) \/ Shortened(c)
                      /\ Func[v.by] \notin NoneFuncs
    BY DEF CacheInv, ResultInv, HitIsOwn
  <2>1. Key(v.by) = Key(c) /\ Func[v.by] \notin NoneFuncs
    BY DEF CacheInv, ResultInv
  <2>2. /\ Name[Func[v.by]] = Name[Func[c]] /\ Kwargs[v.by] = Kwargs[c]
        /\ Encoded(v.by) = Encoded(c)
    BY <2>1 DEF Key
  <2>3. QED
    BY <2>1, <2>2 DEF Encoded
<1>2. QED
  BY <1>1, CacheInit, CacheNext, PTL DEF Spec

\* A synchronous call on a worker thread computes only what is not stored, has
\* expired, cannot be stored or could not be read (decorators.py:247, the lock is
\* held from the look-up to the store).
THEOREM ComputedOnce ==
  Spec => SyncComputesOnce
<1>1. CacheInv /\ [Next]_vars =>
        [\A c \in Calls :
           /\ Worker(c) /\ SyncKey(Key(c)) /\ pc[c] = "compute" /\ pc'[c] = "set"
           => missed[c] = "failed" \/ ~Usable(Key(c))]_vars
  BY DEF CacheInv, MissInv
<1>2. QED
  BY <1>1, CacheInit, CacheNext, PTL DEF Spec, SyncComputesOnce

-----------------------------------------------------------------------------
(* The lifespan.                                                            *)

Events == {"startup", "shutdown"}

\* A handler is in a list of its event.
OfEvents(lists) ==
  /\ lists \in [Events -> Seq(Handlers)]
  /\ \A e \in Events : \A i \in 1..Len(lists[e]) : Event[lists[e][i]] = e

LifespanParts ==
  /\ OfEvents(registry) /\ registry \in [Events -> Seq(Globals)]
  /\ OfEvents(router)
  /\ OfEvents(context.lists)
  /\ context \in [kind : {"none", "lists", "own", "router"},
                   lists : [Events -> Seq(Handlers)]]
  /\ kind \in {"unmade", "lilya", "router"}
  /\ given \subseteq Own /\ known \subseteq Globals
  /\ phase \in {"down", "starting", "serving", "stopping", "reporting"}
  /\ position \in Nat /\ cycles \in 0..MaxCycles
  /\ stateful \in BOOLEAN /\ completed \in BOOLEAN /\ raising \in BOOLEAN
  /\ ran \in Seq(Handlers)

UnmadeInv ==
  IF kind = "unmade"
  THEN /\ context = [kind |-> "none", lists |-> NoLists] /\ router = NoLists
       /\ given = {} /\ known = {}
       /\ phase = "down" /\ ran = <<>> /\ sent = <<>>
       /\ cycles = 0 /\ position = 0
  ELSE context.kind # "none"

\* The hooks come before the handlers in a list of startup handlers, and after
\* them in the other.
HooksOutside(e, list) ==
  \A g \in known, h \in given : \A i, j \in 1..Len(list) :
    list[i] = g /\ list[j] = h => IF e = "startup" THEN i < j ELSE j < i

\* A list of handlers in use has each of them once, and what is required; only
\* one of a router that was given nothing can change.
OrderInv ==
  /\ \A e \in Events : IsInjective(registry[e])
  /\ \A e \in Events : IsInjective(ListOf(e)) /\ HooksOutside(e, ListOf(e))
  /\ \A h \in Required :
       \E i \in 1..Len(context.lists[Event[h]]) : context.lists[Event[h]][i] = h
  /\ context.kind = "own" =>
       given = {} /\ context.lists = Lists(<<Enter>>, <<Exit>>)
  /\ context.kind = "router" => given = {} /\ (kind = "lilya" => known = {})

Ended == {<<"startup.failed">>, <<"startup.complete", "shutdown.complete">>,
          <<"startup.complete", "shutdown.failed">>}

\* What the server has been told goes with the phase.
SentInv ==
  /\ IF cycles = 0 THEN phase = "down" /\ sent = <<>>
     ELSE phase = "down" => sent \in Ended
  /\ phase = "starting" => sent = <<>> /\ ~completed /\ ~raising
  /\ phase = "serving" => sent = <<"startup.complete">> /\ completed /\ ~raising
  /\ phase \in {"stopping", "reporting"} =>
       IF completed THEN sent = <<"startup.complete">> ELSE sent = <<>> /\ raising

\* The first n startup handlers and then the first m shutdown handlers have run.
\* All of the first have when something has been shut down, all of both when it
\* has succeeded; what runs off a list that still grows has no such promise.
Ran(n, m) ==
  /\ n <= Len(ListOf("startup")) /\ m <= Len(ListOf("shutdown"))
  /\ Len(ran) = n + m /\ position <= n + m
  /\ \A i \in 1..n : ran[i] = ListOf("startup")[i]
  /\ \A i \in 1..m : ran[n + i] = ListOf("shutdown")[i]
  /\ phase = "starting" => n = position /\ m = 0
  /\ phase = "serving" => m = 0 /\ position = 0
  /\ phase = "stopping" => m = position
  /\ context.kind # "router" =>
       /\ (m > 0 \/ phase \in {"serving", "stopping"}
           \/ sent \notin {<<>>, <<"startup.failed">>}) => n = Len(ListOf("startup"))
       /\ (phase = "reporting" /\ ~raising)
          \/ sent = <<"startup.complete", "shutdown.complete">>
            => m = Len(ListOf("shutdown"))
RanInv == \E n, m \in Nat : Ran(n, m)

LifespanIInv == LifespanParts /\ UnmadeInv /\ OrderInv /\ SentInv /\ RanInv

\* What SetToSeq makes has every element once.
LEMMA SequenceOfSet ==
  ASSUME NEW S, IsFiniteSet(S)
  PROVE  /\ SetToSeq(S) \in Seq(S)
         /\ IsInjective(SetToSeq(S))
         /\ \A x \in S : \E i \in 1..Len(SetToSeq(S)) : SetToSeq(S)[i] = x
<1> DEFINE n == Cardinality(S)
           list == SetToSeq(S)
<1>1. n \in Nat /\ ExistsBijection(1..n, S)
  BY FS_CardinalityType
<1>2. PICK f : f \in Bijection(1..n, S)
  BY <1>1 DEF ExistsBijection
<1>3. f \in [1..n -> S] /\ IsInjective(f)
  BY <1>2 DEF Bijection, Injection
<1>4. list \in [1..n -> S] /\ IsInjective(list)
  BY <1>3 DEF SetToSeq
<1>5. list \in Seq(S) /\ Len(list) = n
  BY <1>1, <1>4
<1>6. list \in Injection(1..n, S)
  BY <1>4 DEF Injection
<1>7. IsFiniteSet(1..n) /\ Cardinality(1..n) = n
  BY <1>1, FS_Interval
<1>8. list \in Surjection(1..n, S)
  BY <1>6, <1>7, FS_Injection
<1>9. \A x \in S : \E i \in 1..n : list[i] = x
  BY <1>8 DEF Surjection
<1>10. QED
  BY <1>4, <1>5, <1>9

LEMMA ListsOfOwn ==
  ASSUME NEW hs \in SUBSET Own, NEW e \in Events
  PROVE  LET list == ListsOf(hs)[e] IN
         /\ list \in Seq({h \in hs : Event[h] = e})
         /\ IsInjective(list)
         /\ \A h \in hs : Event[h] = e => \E i \in 1..Len(list) : list[i] = h
<1> DEFINE S == {h \in hs : Event[h] = e}
<1>1. IsFiniteSet(S)
  BY FS_Subset, LifespanAssumption DEF LifespanAssumption, Handlers
<1>2. ListsOf(hs)[e] = SetToSeq(S)
  BY DEF ListsOf, Lists, Events
<1> HIDE DEF S
<1>3. /\ SetToSeq(S) \in Seq(S) /\ IsInjective(SetToSeq(S))
      /\ \A x \in S : \E i \in 1..Len(SetToSeq(S)) : SetToSeq(S)[i] = x
  BY <1>1, SequenceOfSet
<1>4. QED
  BY <1>2, <1>3 DEF S

\* Each handler is at the end of the list of its event, and only there.
LEMMA PutInPlace ==
  ASSUME NEW lists \in [Events -> Seq(Handlers)], NEW h \in Handlers
  PROVE  /\ Event[h] \in Events
         /\ Put(lists, h) \in [Events -> Seq(Handlers)]
         /\ \A e \in Events : Put(lists, h)[e] = IF e = Event[h] THEN Append(lists[e], h)
                                                ELSE lists[e]
<1>1. Event[h] \in Events
  BY LifespanAssumption DEF LifespanAssumption, Events
<1>2. Put(lists, h) = [lists EXCEPT ![Event[h]] = Append(lists[Event[h]], h)]
  BY DEF Put
<1>3. QED
  BY <1>1, <1>2

LEMMA PutOfEvents ==
  ASSUME NEW lists, OfEvents(lists), NEW h \in Handlers
  PROVE  OfEvents(Put(lists, h))
<1>1. ASSUME NEW e \in Events, NEW i \in 1..Len(Put(lists, h)[e])
      PROVE  Event[Put(lists, h)[e][i]] = e
  <2>1. lists \in [Events -> Seq(Handlers)] /\ lists[e] \in Seq(Handlers)
    BY DEF OfEvents
  <2>2. CASE e = Event[h]
    <3>1. Put(lists, h)[e] = Append(lists[e], h)
      BY <2>1, <2>2, PutInPlace
    <3>2. QED
      BY <1>1, <2>1, <2>2, <3>1 DEF OfEvents
  <2>3. CASE e # Event[h]
    BY <1>1, <2>1, <2>3, PutInPlace DEF OfEvents
  <2>4. QED
    BY <2>2, <2>3
<1>2. QED
  BY <1>1, PutInPlace DEF OfEvents

\* What is new to a list is in it once.
LEMMA AppendOnce ==
  ASSUME NEW list \in Seq(Handlers), NEW h, IsInjective(list), h \notin ToSet(list)
  PROVE  IsInjective(Append(list, h))
BY DEF IsInjective, ToSet

LEMMA MergeIs ==
  ASSUME NEW a \in [Events -> Seq(Handlers)], NEW b \in [Events -> Seq(Handlers)]
  PROVE  /\ Merge(a, b) \in [Events -> Seq(Handlers)]
         /\ Merge(a, b)["startup"] = a["startup"] \o b["startup"]
         /\ Merge(a, b)["shutdown"] = b["shutdown"] \o a["shutdown"]
<1>1. /\ a["startup"] \o b["startup"] \in Seq(Handlers)
      /\ b["shutdown"] \o a["shutdown"] \in Seq(Handlers)
  BY DEF Events
<1>2. ASSUME NEW x \in Seq(Handlers), NEW y \in Seq(Handlers)
      PROVE  /\ Lists(x, y) \in [Events -> Seq(Handlers)]
             /\ Lists(x, y)["startup"] = x /\ Lists(x, y)["shutdown"] = y
  BY DEF Lists, Events
<1> DEFINE x == a["startup"] \o b["startup"]
           y == b["shutdown"] \o a["shutdown"]
<1>3. Merge(a, b) = Lists(x, y)
  BY DEF Merge
<1> HIDE DEF x, y
<1>4. /\ Merge(a, b) \in [Events -> Seq(Handlers)]
      /\ Merge(a, b)["startup"] = x /\ Merge(a, b)["shutdown"] = y
  <2>1. x \in Seq(Handlers) /\ y \in Seq(Handlers)
    BY <1>1 DEF x, y
  <2>2. /\ Lists(x, y) \in [Events -> Seq(Handlers)]
        /\ Lists(x, y)["startup"] = x /\ Lists(x, y)["shutdown"] = y
    BY <1>2, <2>1
  <2>3. QED
    BY <1>3, <2>2
<1>5. QED
  BY <1>4 DEF x, y

LEMMA MergeOfEvents ==
  ASSUME NEW a, NEW b, OfEvents(a), OfEvents(b)
  PROVE  OfEvents(Merge(a, b))
<1>1. a \in [Events -> Seq(Handlers)] /\ b \in [Events -> Seq(Handlers)]
  BY DEF OfEvents
<1> DEFINE M == Merge(a, b)
<1>2. M \in [Events -> Seq(Handlers)]
  BY <1>1, MergeIs
<1>3. M["startup"] = a["startup"] \o b["startup"] /\ M["shutdown"] = b["shutdown"] \o a["shutdown"]
  BY <1>1, MergeIs
<1> HIDE DEF M
<1>4. ASSUME NEW i \in 1..Len(M["startup"]) PROVE Event[M["startup"][i]] = "startup"
  BY <1>1, <1>3, <1>4 DEF OfEvents, Events
<1>5. ASSUME NEW i \in 1..Len(M["shutdown"]) PROVE Event[M["shutdown"][i]] = "shutdown"
  BY <1>1, <1>3, <1>5 DEF OfEvents, Events
<1>6. OfEvents(M)
  BY <1>2, <1>4, <1>5 DEF OfEvents, Events
<1>7. QED
  BY <1>6 DEF M

\* The end of a concatenation with another list has nothing of it.
LEMMA ConcatOnce ==
  ASSUME NEW a \in Seq(Handlers), NEW b \in Seq(Handlers),
         IsInjective(a), IsInjective(b),
         \A i \in 1..Len(a), j \in 1..Len(b) : a[i] # b[j]
  PROVE  IsInjective(a \o b)
<1> SUFFICES ASSUME NEW i \in 1..(Len(a) + Len(b)), NEW j \in 1..(Len(a) + Len(b)),
                    (a \o b)[i] = (a \o b)[j]
             PROVE  i = j
  BY DEF IsInjective
<1>1. CASE i <= Len(a) /\ j <= Len(a)
  BY <1>1 DEF IsInjective
<1>2. CASE i > Len(a) /\ j > Len(a)
  <2>1. (a \o b)[i] = b[i - Len(a)] /\ (a \o b)[j] = b[j - Len(a)]
    BY <1>2
  <2>2. i - Len(a) \in DOMAIN b /\ j - Len(a) \in DOMAIN b
    BY <1>2
  <2>3. i - Len(a) = j - Len(a)
    BY <2>1, <2>2 DEF IsInjective
  <2>4. QED
    BY <2>3
<1>3. CASE i <= Len(a) /\ j > Len(a)
  BY <1>3
<1>4. CASE i > Len(a) /\ j <= Len(a)
  BY <1>4
<1>5. QED
  BY <1>1, <1>2, <1>3, <1>4

LEMMA ListsInUse ==
  ASSUME LifespanParts, NEW e \in Events
  PROVE  /\ ListOf(e) \in Seq(Handlers)
         /\ \A i \in 1..Len(ListOf(e)) : Event[ListOf(e)[i]] = e
BY DEF LifespanParts, OfEvents, ListOf

LEMMA LifespanStart ==
  ASSUME LifespanInit
  PROVE  LifespanIInv
<1>1. /\ registry = NoLists /\ router = NoLists /\ context = [kind |-> "none", lists |-> NoLists]
      /\ kind = "unmade" /\ given = {} /\ known = {}
      /\ phase = "down" /\ position = 0 /\ cycles = 0 /\ sent = <<>> /\ ran = <<>>
      /\ stateful \in BOOLEAN /\ completed = FALSE /\ raising = FALSE
  BY DEF LifespanInit
<1>2. /\ NoLists \in [Events -> Seq(Handlers)] /\ NoLists \in [Events -> Seq(Globals)]
      /\ \A e \in Events : NoLists[e] = <<>>
  <2>1. ASSUME NEW S PROVE NoLists \in [Events -> Seq(S)]
    <3>1. <<>> \in Seq(S)
      OBVIOUS
    <3>2. \A a, b \in Seq(S) : Lists(a, b) \in [Events -> Seq(S)]
      BY DEF Lists, Events
    <3>3. QED
      BY <3>1, <3>2 DEF NoLists
  <2>2. NoLists["startup"] = <<>> /\ NoLists["shutdown"] = <<>>
    BY DEF NoLists, Lists
  <2>3. QED
    BY <2>1, <2>2 DEF Events
<1>3. OfEvents(NoLists)
  BY <1>2 DEF OfEvents
<1>4. LifespanParts
  <2>1. ran \in Seq(Handlers) /\ position \in Nat /\ cycles \in 0..MaxCycles
    BY <1>1, LifespanAssumption DEF LifespanAssumption
  <2>2. context.kind = "none" /\ context.lists = NoLists
    BY <1>1
  <2>3. context \in [kind : {"none", "lists", "own", "router"}, lists : [Events -> Seq(Handlers)]]
    BY <1>1, <1>2
  <2>4. QED
    BY <1>1, <1>2, <1>3, <2>1, <2>2, <2>3 DEF LifespanParts
<1>5. UnmadeInv
  BY <1>1 DEF UnmadeInv
<1>6. context.kind = "none" /\ context.lists = NoLists
  BY <1>1
<1>7. \A e \in Events : ListOf(e) = <<>>
  BY <1>2, <1>6 DEF ListOf
<1>8. OrderInv
  BY <1>1, <1>2, <1>6, <1>7 DEF OrderInv, HooksOutside, Required, IsInjective
<1>9. SentInv
  BY <1>1 DEF SentInv
<1>10. Ran(0, 0)
  <2>1. ListOf("startup") = <<>> /\ ListOf("shutdown") = <<>>
    BY <1>7 DEF Events
  <2>2. QED
    BY <1>1, <2>1 DEF Ran
<1>11. QED
  BY <1>4, <1>5, <1>8, <1>9, <1>10 DEF LifespanIInv, RanInv

LEMMA RegisterKeeps ==
  ASSUME LifespanIInv, NEW h \in Globals, Register(h)
  PROVE  LifespanIInv'
<1>1. registry' = Put(registry, h) /\ ~InUse(h)
      /\ UNCHANGED <<kind, given, known, router, context, stateful, phase, position,
                     completed, raising, sent, ran, cycles>>
  BY DEF Register
<1>2. LifespanParts /\ UnmadeInv /\ OrderInv /\ SentInv /\ RanInv
  BY DEF LifespanIInv
<1>3. h \in Handlers
  BY DEF Handlers
<1>4. OfEvents(registry) /\ registry \in [Events -> Seq(Handlers)] /\ registry \in [Events -> Seq(Globals)]
  BY <1>2 DEF LifespanParts, OfEvents
<1>5. /\ Event[h] \in Events
      /\ Put(registry, h) \in [Events -> Seq(Handlers)]
      /\ \A e \in Events : Put(registry, h)[e] = IF e = Event[h] THEN Append(registry[e], h)
                                               ELSE registry[e]
  BY <1>3, <1>4, PutInPlace
<1>6. Put(registry, h) \in [Events -> Seq(Globals)]
  <2>1. \A e \in Events : registry[e] \in Seq(Globals) /\ Append(registry[e], h) \in Seq(Globals)
    BY <1>4
  <2>2. \A e \in Events : Put(registry, h)[e] \in Seq(Globals)
    BY <1>5, <2>1
  <2>3. QED
    BY <1>5, <2>2
<1>7. OfEvents(Put(registry, h))
  BY <1>3, <1>4, PutOfEvents
<1>8. LifespanParts'
  BY <1>1, <1>2, <1>6, <1>7 DEF LifespanParts
<1>9. ASSUME NEW e \in Events PROVE IsInjective(Put(registry, h)[e])
  <2>1. registry[e] \in Seq(Handlers) /\ IsInjective(registry[e])
    BY <1>2, <1>4 DEF OrderInv
  <2>2. h \notin ToSet(registry[e])
    BY <1>1 DEF InUse, Events
  <2>3. IsInjective(Append(registry[e], h))
    BY <1>3, <2>1, <2>2, AppendOnce
  <2>4. QED
    BY <1>5, <2>1, <2>3
<1>10. \A e \in Events : ListOf(e)' = ListOf(e)
  BY <1>1 DEF ListOf
<1>11. OrderInv'
  <2>1. \A e \in Events : IsInjective(registry[e])'
    BY <1>1, <1>9
  <2>2. \A e \in Events : IsInjective(ListOf(e))' /\ HooksOutside(e, ListOf(e))'
    BY <1>1, <1>2, <1>10 DEF OrderInv, HooksOutside
  <2>3. Required' = Required
    BY <1>1 DEF Required
  <2>4. QED
    BY <1>1, <1>2, <2>1, <2>2, <2>3 DEF OrderInv
<1>12. UnmadeInv' /\ SentInv'
  BY <1>1, <1>2 DEF UnmadeInv, SentInv
<1>13. RanInv'
  <2>1. PICK n \in Nat, m \in Nat : Ran(n, m)
    BY <1>2 DEF RanInv
  <2>2. ListOf("startup")' = ListOf("startup") /\ ListOf("shutdown")' = ListOf("shutdown")
    BY <1>10 DEF Events
  <2>3. Ran(n, m)'
    BY <1>1, <2>1, <2>2 DEF Ran
  <2>4. QED
    BY <2>3 DEF RanInv
<1>14. QED
  BY <1>8, <1>11, <1>12, <1>13 DEF LifespanIInv

LEMMA AppendGrows ==
  ASSUME NEW list \in Seq(Handlers), NEW h \in Handlers, NEW next,
         next \in {list, Append(list, h)}
  PROVE  /\ Len(list) \in Nat /\ Len(next) \in Nat /\ Len(list) <= Len(next)
         /\ \A i \in 1..Len(list) : next[i] = list[i]
<1>1. CASE next = list
  BY <1>1
<1>2. CASE next = Append(list, h)
  BY <1>2
<1>3. QED
  BY <1>1, <1>2

LEMMA AddKeeps ==
  ASSUME LifespanIInv, NEW h \in Added, Add(h)
  PROVE  LifespanIInv'
<1>1. router' = Put(router, h) /\ ~InUse(h) /\ kind # "unmade"
      /\ UNCHANGED <<registry, kind, given, known, context, stateful, phase, position,
                     completed, raising, sent, ran, cycles>>
  BY DEF Add
<1>2. LifespanParts /\ UnmadeInv /\ OrderInv /\ SentInv /\ RanInv
  BY DEF LifespanIInv
<1>3. h \in Handlers
  BY DEF Handlers
<1>4. OfEvents(router) /\ router \in [Events -> Seq(Handlers)]
  BY <1>2 DEF LifespanParts, OfEvents
<1>5. /\ Event[h] \in Events
      /\ \A e \in Events : Put(router, h)[e] = IF e = Event[h] THEN Append(router[e], h)
                                             ELSE router[e]
  BY <1>3, <1>4, PutInPlace
<1>6. OfEvents(Put(router, h))
  BY <1>3, <1>4, PutOfEvents
<1>7. LifespanParts'
  BY <1>1, <1>2, <1>6 DEF LifespanParts
<1>8. UnmadeInv' /\ SentInv'
  BY <1>1, <1>2 DEF UnmadeInv, SentInv
<1>9. Required' = Required
  BY <1>1 DEF Required
<1>10. CASE context.kind # "router"
  <2>1. \A e \in Events : ListOf(e)' = ListOf(e)
    BY <1>1, <1>10 DEF ListOf
  <2>2. \A e \in Events : IsInjective(ListOf(e))' /\ HooksOutside(e, ListOf(e))'
    BY <1>1, <1>2, <2>1 DEF OrderInv, HooksOutside
  <2>3. OrderInv'
    BY <1>1, <1>2, <1>9, <2>2 DEF OrderInv
  <2>4. PICK n \in Nat, m \in Nat : Ran(n, m)
    BY <1>2 DEF RanInv
  <2>5. ListOf("startup")' = ListOf("startup") /\ ListOf("shutdown")' = ListOf("shutdown")
    BY <2>1 DEF Events
  <2>6. Ran(n, m)'
    BY <1>1, <2>4, <2>5 DEF Ran
  <2>7. QED
    BY <1>7, <1>8, <2>3, <2>6 DEF LifespanIInv, RanInv
<1>11. CASE context.kind = "router"
  <2>1. \A e \in Events : ListOf(e) = router[e] /\ ListOf(e)' = Put(router, h)[e]
    BY <1>1, <1>11 DEF ListOf
  <2>2. ASSUME NEW e \in Events PROVE IsInjective(Put(router, h)[e])
    <3>1. router[e] \in Seq(Handlers) /\ IsInjective(router[e])
      BY <1>2, <1>4, <2>1 DEF OrderInv
    <3>2. h \notin ToSet(router[e])
      BY <1>1 DEF InUse, Events
    <3>3. IsInjective(Append(router[e], h))
      BY <1>3, <3>1, <3>2, AppendOnce
    <3>4. QED
      BY <1>5, <3>1, <3>3
  <2>3. given = {} /\ (kind = "lilya" => known = {})
    BY <1>2, <1>11 DEF OrderInv
  <2>4. \A e \in Events : IsInjective(ListOf(e))' /\ HooksOutside(e, ListOf(e))'
    BY <1>1, <2>1, <2>2, <2>3 DEF HooksOutside
  <2>5. OrderInv'
    BY <1>1, <1>2, <1>9, <1>11, <2>3, <2>4 DEF OrderInv
  <2>6. PICK n \in Nat, m \in Nat : Ran(n, m)
    BY <1>2 DEF RanInv
  <2> DEFINE S == ListOf("startup")
             D == ListOf("shutdown")
  <2>7. S \in Seq(Handlers) /\ D \in Seq(Handlers)
    BY <1>2, ListsInUse DEF Events
  <2>8. /\ S' \in {S, Append(S, h)}
        /\ D' \in {D, Append(D, h)}
    BY <1>5, <2>1 DEF Events
  <2>9. /\ Len(S) <= Len(S') /\ \A i \in 1..Len(S) : S'[i] = S[i]
        /\ Len(D) <= Len(D') /\ \A i \in 1..Len(D) : D'[i] = D[i]
        /\ Len(S) \in Nat /\ Len(D) \in Nat /\ Len(S') \in Nat /\ Len(D') \in Nat
    <3> HIDE DEF S, D
    <3> QED
      BY <1>3, <2>7, <2>8, AppendGrows
  <2>10. /\ n <= Len(S) /\ m <= Len(D)
         /\ \A i \in 1..n : ran[i] = S[i]
         /\ \A i \in 1..m : ran[n + i] = D[i]
    BY <2>6 DEF Ran
  <2>11. /\ n <= Len(S') /\ m <= Len(D')
         /\ \A i \in 1..n : ran[i] = S'[i]
         /\ \A i \in 1..m : ran[n + i] = D'[i]
    <3> HIDE DEF S, D
    <3> QED
      BY <2>9, <2>10
  <2>12. Ran(n, m)'
    BY <1>1, <1>11, <2>6, <2>11 DEF Ran
  <2>13. QED
    BY <1>7, <1>8, <2>5, <2>12 DEF LifespanIInv, RanInv
<1>12. QED
  BY <1>10, <1>11

\* The lists that an application or a router makes of its own handlers.
LEMMA OwnLists ==
  ASSUME NEW hs \in SUBSET Own
  PROVE  OfEvents(ListsOf(hs))
<1>1. ASSUME NEW e \in Events
      PROVE  /\ ListsOf(hs)[e] \in Seq(Handlers)
             /\ \A i \in 1..Len(ListsOf(hs)[e]) : Event[ListsOf(hs)[e][i]] = e
  <2>1. ListsOf(hs)[e] \in Seq({h \in hs : Event[h] = e})
    BY ListsOfOwn
  <2>2. {h \in hs : Event[h] = e} \subseteq Handlers
    BY DEF Handlers
  <2>3. QED
    BY <2>1, <2>2
<1>2. ListsOf(hs) \in [Events -> Seq(Handlers)]
  <2>1. \A a, b \in Seq(Handlers) : Lists(a, b) \in [Events -> Seq(Handlers)]
    BY DEF Lists, Events
  <2>2. ListsOf(hs) = Lists(ListsOf(hs)["startup"], ListsOf(hs)["shutdown"])
    BY DEF ListsOf, Lists
  <2>3. ListsOf(hs)["startup"] \in Seq(Handlers) /\ ListsOf(hs)["shutdown"] \in Seq(Handlers)
    BY <1>1 DEF Events
  <2>4. QED
    BY <2>1, <2>2, <2>3
<1>3. QED
  BY <1>1, <1>2 DEF OfEvents

\* The merged lists have each hook and each handler once, the hooks outside.
LEMMA MergedInOrder ==
  ASSUME NEW a \in [Events -> Seq(Globals)], NEW b \in [Events -> Seq(Own)],
         NEW e \in Events, IsInjective(a[e]), IsInjective(b[e])
  PROVE  LET list == Merge(a, b)[e] IN
         /\ IsInjective(list)
         /\ \A g \in Globals, h \in Own : \A i, j \in 1..Len(list) :
              list[i] = g /\ list[j] = h => IF e = "startup" THEN i < j ELSE j < i
         /\ \A i \in 1..Len(a[e]) : \E j \in 1..Len(list) : list[j] = a[e][i]
         /\ \A i \in 1..Len(b[e]) : \E j \in 1..Len(list) : list[j] = b[e][i]
<1>1. a \in [Events -> Seq(Handlers)] /\ b \in [Events -> Seq(Handlers)]
  BY DEF Handlers
<1> DEFINE u == a[e]
           v == b[e]
<1>2. /\ u \in Seq(Globals) /\ v \in Seq(Own)
      /\ u \in Seq(Handlers) /\ v \in Seq(Handlers)
      /\ IsInjective(u) /\ IsInjective(v)
  BY <1>1
<1>3. Globals \cap Own = {}
  BY LifespanAssumption DEF LifespanAssumption
<1>4. Merge(a, b)[e] = IF e = "startup" THEN u \o v ELSE v \o u
  BY <1>1, MergeIs DEF Events
<1> HIDE DEF u, v
<1>5. /\ \A i \in 1..Len(u) : u[i] \in Globals
      /\ \A j \in 1..Len(v) : v[j] \in Own
      /\ \A i \in 1..Len(u), j \in 1..Len(v) : u[i] # v[j]
  BY <1>2, <1>3
<1>6. CASE e = "startup"
  <2> DEFINE list == u \o v
  <2>1. IsInjective(list)
    BY <1>2, <1>5, ConcatOnce
  <2>2. /\ \A i \in 1..Len(u) : list[i] = u[i]
        /\ \A i \in 1..Len(list) : i > Len(u) => i - Len(u) \in 1..Len(v) /\ list[i] = v[i - Len(u)]
        /\ \A i \in 1..Len(v) : list[i + Len(u)] = v[i]
        /\ Len(list) = Len(u) + Len(v) /\ Len(u) \in Nat /\ Len(v) \in Nat
    BY <1>2
  <2> HIDE DEF list
  <2>3. \A g \in Globals, h \in Own : \A i, j \in 1..Len(list) :
          list[i] = g /\ list[j] = h => i < j
    <3> SUFFICES ASSUME NEW i \in 1..Len(list), NEW j \in 1..Len(list),
                        list[i] \in Globals, list[j] \in Own
                 PROVE  i < j
      OBVIOUS
    <3>1. ASSUME i > Len(u) PROVE FALSE
      <4>1. i - Len(u) \in 1..Len(v) /\ list[i] = v[i - Len(u)]
        BY <2>2, <3>1
      <4>2. list[i] \in Own
        BY <1>5, <4>1
      <4>3. QED
        BY <1>3, <4>2
    <3>2. ASSUME j <= Len(u) PROVE FALSE
      <4>1. j \in 1..Len(u) /\ list[j] = u[j]
        BY <2>2, <3>2
      <4>2. list[j] \in Globals
        BY <1>5, <4>1
      <4>3. QED
        BY <1>3, <4>2
    <3>3. QED
      BY <2>2, <3>1, <3>2
  <2>4. \A i \in 1..Len(u) : \E j \in 1..Len(list) : list[j] = u[i]
    BY <2>2
  <2>5. ASSUME NEW i \in 1..Len(v) PROVE \E j \in 1..Len(list) : list[j] = v[i]
    <3>1. i + Len(u) \in 1..Len(list) /\ list[i + Len(u)] = v[i]
      BY <2>2
    <3>2. QED
      BY <3>1
  <2>6. QED
    BY <1>4, <1>6, <2>1, <2>3, <2>4, <2>5 DEF list, u, v
<1>7. CASE e # "startup"
  <2> DEFINE list == v \o u
  <2>1. IsInjective(list)
    BY <1>2, <1>5, ConcatOnce
  <2>2. /\ \A i \in 1..Len(v) : list[i] = v[i]
        /\ \A i \in 1..Len(list) : i > Len(v) => i - Len(v) \in 1..Len(u) /\ list[i] = u[i - Len(v)]
        /\ \A i \in 1..Len(u) : list[i + Len(v)] = u[i]
        /\ Len(list) = Len(u) + Len(v) /\ Len(u) \in Nat /\ Len(v) \in Nat
    BY <1>2
  <2> HIDE DEF list
  <2>3. \A g \in Globals, h \in Own : \A i, j \in 1..Len(list) :
          list[i] = g /\ list[j] = h => j < i
    <3> SUFFICES ASSUME NEW i \in 1..Len(list), NEW j \in 1..Len(list),
                        list[i] \in Globals, list[j] \in Own
                 PROVE  j < i
      OBVIOUS
    <3>1. ASSUME j > Len(v) PROVE FALSE
      <4>1. j - Len(v) \in 1..Len(u) /\ list[j] = u[j - Len(v)]
        BY <2>2, <3>1
      <4>2. list[j] \in Globals
        BY <1>5, <4>1
      <4>3. QED
        BY <1>3, <4>2
    <3>2. ASSUME i <= Len(v) PROVE FALSE
      <4>1. i \in 1..Len(v) /\ list[i] = v[i]
        BY <2>2, <3>2
      <4>2. list[i] \in Own
        BY <1>5, <4>1
      <4>3. QED
        BY <1>3, <4>2
    <3>3. QED
      BY <2>2, <3>1, <3>2
  <2>4. \A i \in 1..Len(v) : \E j \in 1..Len(list) : list[j] = v[i]
    BY <2>2
  <2>5. ASSUME NEW i \in 1..Len(u) PROVE \E j \in 1..Len(list) : list[j] = u[i]
    <3>1. i + Len(v) \in 1..Len(list) /\ list[i + Len(v)] = u[i]
      BY <2>2
    <3>2. QED
      BY <3>1
  <2>6. QED
    BY <1>4, <1>7, <2>1, <2>3, <2>4, <2>5 DEF list, u, v
<1>8. QED
  BY <1>6, <1>7

LEMMA MakeKeeps ==
  ASSUME LifespanIInv, NEW k \in {"lilya", "router"}, NEW hs \in SUBSET Own,
         NEW own \in BOOLEAN, Make(k, hs, own)
  PROVE  LifespanIInv'
<1> DEFINE L == ListsOf(hs)
           merged == k = "lilya" /\ ~own
           passed == IF merged THEN Merge(registry, L) ELSE L
<1>1. /\ kind = "unmade" /\ (own => hs = {})
      /\ router' = Merge(registry, passed) /\ context' = ContextOf(passed, own)
      /\ kind' = k /\ given' = hs /\ known' = {h \in Globals : InUse(h)}
      /\ UNCHANGED <<registry, stateful, phase, position, completed, raising, sent, ran,
                     cycles>>
  BY DEF Make
<1>2. LifespanParts /\ UnmadeInv /\ OrderInv /\ SentInv /\ RanInv
  BY DEF LifespanIInv
<1>3. /\ router = NoLists /\ phase = "down" /\ ran = <<>> /\ sent = <<>>
      /\ cycles = 0 /\ position = 0
  BY <1>1, <1>2 DEF UnmadeInv
<1>4. /\ OfEvents(registry) /\ registry \in [Events -> Seq(Globals)]
      /\ \A e \in Events : IsInjective(registry[e])
  BY <1>2 DEF LifespanParts, OrderInv
<1>5. OfEvents(L)
  BY OwnLists
<1>6. /\ \A e \in Events : IsInjective(L[e]) /\ L[e] \in Seq(hs)
      /\ \A e \in Events : \A h \in hs :
           Event[h] = e => \E i \in 1..Len(L[e]) : L[e][i] = h
  <2>1. ASSUME NEW e \in Events PROVE L[e] \in Seq(hs)
    <3>1. L[e] \in Seq({h \in hs : Event[h] = e})
      BY ListsOfOwn
    <3>2. QED
      BY <3>1
  <2>2. QED
    BY <2>1, ListsOfOwn
<1>7. \A h \in hs : h \in Handlers /\ Event[h] \in Events
  BY LifespanAssumption DEF LifespanAssumption, Handlers, Events
<1> HIDE DEF L
<1>8. L \in [Events -> Seq(Own)]
  BY <1>5, <1>6 DEF OfEvents
<1>9. /\ OfEvents(passed) /\ passed \in [Events -> Seq(Handlers)]
      /\ OfEvents(router') /\ router' \in [Events -> Seq(Handlers)]
  <2>1. OfEvents(passed)
    BY <1>4, <1>5, MergeOfEvents
  <2>2. OfEvents(router')
    BY <1>1, <1>4, <2>1, MergeOfEvents
  <2>3. QED
    BY <2>1, <2>2 DEF OfEvents
\* The hooks that are known are those of the registry, at its places.
<1>10. \A g \in known' : /\ g \in Globals /\ Event[g] \in Events
                         /\ \E i \in 1..Len(registry[Event[g]]) : registry[Event[g]][i] = g
  <2>1. SUFFICES ASSUME NEW g \in Globals, InUse(g)
                 PROVE  /\ Event[g] \in Events
                        /\ \E i \in 1..Len(registry[Event[g]]) : registry[Event[g]][i] = g
    BY <1>1
  <2>2. router["startup"] = <<>> /\ router["shutdown"] = <<>>
    BY <1>3 DEF NoLists, Lists
  <2>3. \A e \in Events : ToSet(router[e]) = {}
    BY <2>2 DEF ToSet, Events
  <2>4. PICK e \in Events : g \in ToSet(registry[e])
    BY <2>1, <2>3 DEF InUse, Events
  <2>5. PICK i \in 1..Len(registry[e]) : registry[e][i] = g
    BY <1>4, <2>4 DEF ToSet
  <2>6. Event[g] = e
    BY <1>4, <2>5 DEF OfEvents
  <2>7. QED
    BY <2>5, <2>6
<1> DEFINE InAll(lists) == \A e \in Events :
             /\ IsInjective(lists[e])
             /\ \A g \in known', h \in hs : \A i, j \in 1..Len(lists[e]) :
                  lists[e][i] = g /\ lists[e][j] = h =>
                    IF e = "startup" THEN i < j ELSE j < i
           Holds(lists, h) == \E i \in 1..Len(lists[Event[h]]) : lists[Event[h]][i] = h
<1>11. /\ InAll(passed)
       /\ \A h \in hs : Holds(passed, h)
       /\ merged => \A g \in known' : Holds(passed, g)
  <2>1. CASE merged
    <3>1. passed = Merge(registry, L)
      BY <2>1
    <3>2. ASSUME NEW e \in Events
          PROVE  /\ IsInjective(passed[e])
                 /\ \A g \in Globals, h \in Own : \A i, j \in 1..Len(passed[e]) :
                      passed[e][i] = g /\ passed[e][j] = h =>
                        IF e = "startup" THEN i < j ELSE j < i
                 /\ \A i \in 1..Len(registry[e]) :
                      \E j \in 1..Len(passed[e]) : passed[e][j] = registry[e][i]
                 /\ \A i \in 1..Len(L[e]) :
                      \E j \in 1..Len(passed[e]) : passed[e][j] = L[e][i]
      <4>1. IsInjective(registry[e]) /\ IsInjective(L[e])
        BY <1>4, <1>6
      <4> DEFINE list == Merge(registry, L)[e]
      <4>2. /\ IsInjective(list)
            /\ \A g \in Globals, h \in Own : \A i, j \in 1..Len(list) :
                 list[i] = g /\ list[j] = h => IF e = "startup" THEN i < j ELSE j < i
            /\ \A i \in 1..Len(registry[e]) : \E j \in 1..Len(list) : list[j] = registry[e][i]
            /\ \A i \in 1..Len(L[e]) : \E j \in 1..Len(list) : list[j] = L[e][i]
        BY <1>4, <1>8, <4>1, MergedInOrder
      <4>3. passed[e] = list
        BY <3>1
      <4> HIDE DEF list, passed
      <4>4. QED
        BY <4>2, <4>3
    <3> HIDE DEF passed
    <3>3. InAll(passed)
      BY <1>10, <3>2
    <3>4. ASSUME NEW h \in hs PROVE Holds(passed, h)
      <4>1. PICK i \in 1..Len(L[Event[h]]) : L[Event[h]][i] = h
        BY <1>6, <1>7
      <4>2. QED
        BY <1>7, <3>2, <4>1
    <3>5. ASSUME NEW g \in known' PROVE Holds(passed, g)
      <4>1. PICK i \in 1..Len(registry[Event[g]]) : registry[Event[g]][i] = g
        BY <1>10
      <4>2. QED
        BY <1>10, <3>2, <4>1
    <3>6. QED
      BY <3>3, <3>4, <3>5
  <2>2. CASE ~merged
    <3>1. passed = L
      BY <2>2
    <3>2. \A e \in Events : \A i \in 1..Len(L[e]) : L[e][i] \notin Globals
      BY <1>8, LifespanAssumption DEF LifespanAssumption
    <3>3. InAll(L)
      <4>1. ASSUME NEW e \in Events, NEW g \in known', NEW i \in 1..Len(L[e]), L[e][i] = g
            PROVE  FALSE
        BY <1>10, <3>2, <4>1
      <4>2. QED
        BY <1>6, <4>1
    <3>4. \A h \in hs : Holds(L, h)
      BY <1>6, <1>7
    <3>5. QED
      BY <2>2, <3>1, <3>3, <3>4
  <2>3. QED
    BY <2>1, <2>2
<1> HIDE DEF passed, merged
<1>12. /\ context' \in [kind : {"none", "lists", "own", "router"},
                        lists : [Events -> Seq(Handlers)]]
       /\ OfEvents(context'.lists) /\ context'.kind # "none"
       /\ InAll(IF context'.kind = "router" THEN router' ELSE context'.lists)
       /\ \A h \in Required' : Holds(context'.lists, h)
       /\ context'.kind = "own" => hs = {} /\ context'.lists = Lists(<<Enter>>, <<Exit>>)
       /\ context'.kind = "router" => hs = {} /\ (k = "lilya" => known' = {})
  <2>1. NoLists["startup"] = <<>> /\ NoLists["shutdown"] = <<>>
    BY DEF NoLists, Lists
  <2>2. \A a, b \in Seq(Handlers) :
          /\ Lists(a, b) \in [Events -> Seq(Handlers)]
          /\ Lists(a, b)["startup"] = a /\ Lists(a, b)["shutdown"] = b
    BY DEF Lists, Events
  <2>3. Required' = hs \cup (IF k = "lilya" /\ context'.kind # "own" THEN known' ELSE {})
    BY <1>1 DEF Required
  <2>4. CASE passed # NoLists
    <3>1. context' = [kind |-> "lists", lists |-> passed]
      BY <1>1, <2>4 DEF ContextOf
    <3>2. context'.kind = "lists" /\ context'.lists = passed
      BY <3>1
    <3>3. k = "lilya" => merged
      <4>1. SUFFICES ASSUME own PROVE merged
        BY DEF merged
      <4>2. hs = {}
        BY <1>1, <4>1
      <4>3. L["startup"] = <<>> /\ L["shutdown"] = <<>>
        BY <1>6, <4>2 DEF Events
      <4>4. L = NoLists
        <5>1. L \in [Events -> Seq(Handlers)] /\ NoLists \in [Events -> Seq(Handlers)]
          <6>1. <<>> \in Seq(Handlers)
            OBVIOUS
          <6>2. QED
            BY <1>5, <2>2, <6>1 DEF OfEvents, NoLists
        <5>2. QED
          BY <2>1, <4>3, <5>1 DEF Events
      <4>5. QED
        BY <2>4, <4>1, <4>4 DEF passed, merged
    <3>4. \A h \in Required' : Holds(passed, h)
      BY <1>11, <2>3, <3>3
    <3>5. QED
      BY <1>9, <1>11, <3>1, <3>2, <3>4
  <2>5. CASE passed = NoLists
    <3>1. hs = {}
      <4>1. \A e \in Events : Len(passed[e]) = 0
        BY <2>1, <2>5 DEF Events
      <4>2. QED
        BY <1>7, <1>11, <4>1
    <3>2. merged => known' = {}
      <4>1. \A e \in Events : Len(passed[e]) = 0
        BY <2>1, <2>5 DEF Events
      <4>2. QED
        BY <1>10, <1>11, <4>1
    <3>3. CASE own
      <4>1. context' = [kind |-> "own", lists |-> Lists(<<Enter>>, <<Exit>>)]
        BY <1>1, <2>5, <3>3 DEF ContextOf
      <4>2. context'.kind = "own" /\ context'.lists = Lists(<<Enter>>, <<Exit>>)
        BY <4>1
      <4> DEFINE O == Lists(<<Enter>>, <<Exit>>)
      <4>3. Enter \in Handlers /\ Exit \in Handlers
        BY DEF Handlers
      <4>4. /\ O \in [Events -> Seq(Handlers)]
            /\ O["startup"] = <<Enter>> /\ O["shutdown"] = <<Exit>>
        <5>1. <<Enter>> \in Seq(Handlers) /\ <<Exit>> \in Seq(Handlers)
          BY <4>3
        <5>2. QED
          BY <2>2, <5>1
      <4>5. Event[Enter] = "startup" /\ Event[Exit] = "shutdown"
        BY LifespanAssumption DEF LifespanAssumption
      <4> HIDE DEF O
      <4>6. OfEvents(O)
        BY <4>4, <4>5 DEF OfEvents, Events
      <4>7. \A e \in Events : IsInjective(O[e])
        BY <4>4 DEF IsInjective, Events
      <4>8. InAll(O)
        BY <3>1, <4>7
      <4>9. Required' = {}
        BY <2>3, <3>1, <4>2
      <4>10. context' = [kind |-> "own", lists |-> O]
        BY <4>1 DEF O
      <4>11. QED
        BY <3>1, <4>2, <4>4, <4>6, <4>8, <4>9, <4>10 DEF O
    <3>4. CASE ~own
      <4>1. context' = [kind |-> "router", lists |-> NoLists]
        BY <1>1, <2>5, <3>4 DEF ContextOf
      <4>2. context'.kind = "router" /\ context'.lists = NoLists
        BY <4>1
      <4>3. k = "lilya" => known' = {}
        BY <3>2, <3>4 DEF merged
      <4>4. Required' = {}
        BY <2>3, <3>1, <4>3
      <4>5. \A e \in Events : router'[e] = registry[e]
        <5>1. registry \in [Events -> Seq(Handlers)]
          BY <1>4 DEF OfEvents
        <5>2. /\ router'["startup"] = registry["startup"] \o passed["startup"]
              /\ router'["shutdown"] = passed["shutdown"] \o registry["shutdown"]
          BY <1>1, <1>9, <5>1, MergeIs
        <5>3. \A s \in Seq(Handlers) : s \o <<>> = s /\ <<>> \o s = s
          OBVIOUS
        <5>4. registry["startup"] \in Seq(Handlers) /\ registry["shutdown"] \in Seq(Handlers)
          BY <5>1 DEF Events
        <5>5. /\ registry["startup"] \o passed["startup"] = registry["startup"]
              /\ passed["shutdown"] \o registry["shutdown"] = registry["shutdown"]
          BY <2>1, <2>5, <5>3, <5>4
        <5>6. QED
          BY <5>2, <5>5 DEF Events
      <4>6. InAll(router')
        BY <1>4, <3>1, <4>5
      <4>7. OfEvents(NoLists) /\ NoLists \in [Events -> Seq(Handlers)]
        BY <1>9, <2>5
      <4>8. QED
        BY <3>1, <4>1, <4>2, <4>3, <4>4, <4>6, <4>7
    <3>5. QED
      BY <3>3, <3>4
  <2>6. QED
    BY <2>4, <2>5
<1>13. \A e \in Events :
         ListOf(e)' = (IF context'.kind = "router" THEN router' ELSE context'.lists)[e]
  BY DEF ListOf
<1>14. LifespanParts'
  BY <1>1, <1>2, <1>9, <1>12 DEF LifespanParts
<1>15. UnmadeInv' /\ SentInv'
  BY <1>1, <1>3, <1>12 DEF UnmadeInv, SentInv
<1>16. OrderInv'
  <2> DEFINE used == IF context'.kind = "router" THEN router' ELSE context'.lists
  <2>1. InAll(used) /\ \A e \in Events : ListOf(e)' = used[e]
    BY <1>12, <1>13
  <2> HIDE DEF used
  <2>2. \A e \in Events : IsInjective(ListOf(e))' /\ HooksOutside(e, ListOf(e))'
    BY <1>1, <2>1 DEF HooksOutside
  <2>3. \A e \in Events : IsInjective(registry[e])'
    BY <1>1, <1>4
  <2>4. QED
    BY <1>1, <1>12, <2>2, <2>3 DEF OrderInv
<1>17. RanInv'
  <2>1. ListOf("startup")' \in Seq(Handlers) /\ ListOf("shutdown")' \in Seq(Handlers)
    BY <1>9, <1>12, <1>13 DEF OfEvents, Events
  <2>2. Ran(0, 0)'
    BY <1>1, <1>3, <2>1 DEF Ran
  <2>3. QED
    BY <2>2 DEF RanInv
<1>18. QED
  BY <1>14, <1>15, <1>16, <1>17 DEF LifespanIInv

\* A step of the lifespan leaves the lists as they are.
LEMMA ListsKept ==
  ASSUME LifespanIInv, UNCHANGED construction
  PROVE  /\ ListOf("startup")' = ListOf("startup") /\ ListOf("shutdown")' = ListOf("shutdown")
         /\ OrderInv'
         /\ context' = context /\ kind' = kind
         /\ kind # "unmade" => UnmadeInv'
         /\ phase' \in {"down", "starting", "serving", "stopping", "reporting"}
            /\ position' \in Nat /\ cycles' \in 0..MaxCycles
            /\ completed' \in BOOLEAN /\ raising' \in BOOLEAN /\ ran' \in Seq(Handlers)
            => LifespanParts'
<1>1. /\ registry' = registry /\ kind' = kind /\ given' = given /\ known' = known
      /\ router' = router /\ context' = context /\ stateful' = stateful
  BY DEF construction
<1>2. LifespanParts /\ UnmadeInv /\ OrderInv
  BY DEF LifespanIInv
<1>3. \A e \in Events : ListOf(e)' = ListOf(e)
  BY <1>1 DEF ListOf
<1>4. Required' = Required
  BY <1>1 DEF Required
<1>5. \A e \in Events : IsInjective(ListOf(e))' /\ HooksOutside(e, ListOf(e))'
  BY <1>1, <1>2, <1>3 DEF OrderInv, HooksOutside
<1>6. OrderInv'
  BY <1>1, <1>2, <1>4, <1>5 DEF OrderInv
<1>7. kind # "unmade" => UnmadeInv'
  BY <1>1, <1>2 DEF UnmadeInv
<1>8. /\ phase' \in {"down", "starting", "serving", "stopping", "reporting"}
      /\ position' \in Nat /\ cycles' \in 0..MaxCycles
      /\ completed' \in BOOLEAN /\ raising' \in BOOLEAN /\ ran' \in Seq(Handlers)
      => LifespanParts'
  BY <1>1, <1>2 DEF LifespanParts
<1>9. QED
  BY <1>1, <1>3, <1>6, <1>7, <1>8 DEF Events

\* Facts about a state of the lifespan, as its steps need them.
LEMMA LifespanBasics ==
  ASSUME LifespanIInv
  PROVE  /\ ListOf("startup") \in Seq(Handlers) /\ ListOf("shutdown") \in Seq(Handlers)
         /\ phase # "down" => kind # "unmade"
         /\ phase \in {"down", "starting", "serving", "stopping", "reporting"}
         /\ position \in Nat /\ cycles \in 0..MaxCycles
         /\ completed \in BOOLEAN /\ raising \in BOOLEAN /\ ran \in Seq(Handlers)
         /\ SentInv
         /\ \E n, m \in Nat : Ran(n, m)
BY ListsInUse DEF LifespanIInv, LifespanParts, UnmadeInv, RanInv, Events

LEMMA AskKeeps ==
  ASSUME LifespanIInv, AskStartup \/ AskShutdown
  PROVE  LifespanIInv'
<1>1. CASE AskStartup
  <2>1. /\ kind # "unmade" /\ cycles < MaxCycles
        /\ phase' = "starting" /\ position' = 0 /\ completed' = FALSE /\ raising' = FALSE
        /\ sent' = <<>> /\ ran' = <<>> /\ cycles' = cycles + 1 /\ UNCHANGED construction
    BY <1>1 DEF AskStartup
  <2>2. LifespanParts' /\ UnmadeInv' /\ OrderInv'
    <3>1. cycles' \in 0..MaxCycles /\ position' \in Nat /\ ran' \in Seq(Handlers)
      BY <2>1, LifespanBasics, LifespanAssumption DEF LifespanAssumption
    <3>2. QED
      BY <2>1, <3>1, ListsKept
  <2>3. SentInv'
    BY <2>1, LifespanBasics DEF SentInv
  <2>4. Ran(0, 0)'
    BY <2>1, LifespanBasics, ListsKept DEF Ran
  <2>5. QED
    BY <2>2, <2>3, <2>4 DEF LifespanIInv, RanInv
<1>2. CASE AskShutdown
  <2>1. /\ phase = "serving" /\ phase' = "stopping" /\ raising' \in BOOLEAN
        /\ UNCHANGED construction /\ UNCHANGED <<position, completed, sent, ran, cycles>>
    BY <1>2 DEF AskShutdown
  <2>2. LifespanParts' /\ UnmadeInv' /\ OrderInv'
    BY <2>1, LifespanBasics, ListsKept
  <2>3. SentInv'
    BY <2>1, LifespanBasics DEF SentInv
  <2>4. PICK n \in Nat, m \in Nat : Ran(n, m)
    BY LifespanBasics
  <2>5. sent = <<"startup.complete">>
    BY <2>1, LifespanBasics DEF SentInv
  <2>6. Ran(n, m)'
    BY <2>1, <2>4, <2>5, LifespanBasics, ListsKept DEF Ran
  <2>7. QED
    BY <2>2, <2>3, <2>6 DEF LifespanIInv, RanInv
<1>3. QED
  BY <1>1, <1>2

LEMMA RunKeeps ==
  ASSUME LifespanIInv, RunStartup \/ RunShutdown
  PROVE  LifespanIInv'
<1> DEFINE S == ListOf("startup")
           D == ListOf("shutdown")
<1>1. /\ S \in Seq(Handlers) /\ D \in Seq(Handlers) /\ ran \in Seq(Handlers)
      /\ position \in Nat
  BY LifespanBasics
<1>2. PICK n \in Nat, m \in Nat : Ran(n, m)
  BY LifespanBasics
<1>3. /\ n <= Len(S) /\ m <= Len(D) /\ Len(ran) = n + m
      /\ \A i \in 1..n : ran[i] = S[i]
      /\ \A i \in 1..m : ran[n + i] = D[i]
  BY <1>2 DEF Ran
<1>4. CASE RunStartup
  <2>1. /\ phase = "starting" /\ position # Len(S) /\ position' = position + 1
        /\ ran' = Append(ran, S[position + 1])
        /\ UNCHANGED construction /\ UNCHANGED <<phase, completed, raising, sent, cycles>>
    BY <1>4 DEF RunStartup, Run, AllRun
  <2>2. n = position /\ m = 0
    BY <1>2, <2>1 DEF Ran
  <2>3. S' = S /\ D' = D /\ context' = context
    BY <2>1, ListsKept
  <2>4. SentInv' /\ sent = <<>>
    BY <2>1, LifespanBasics DEF SentInv
  <2> HIDE DEF S, D
  <2>5. n + 1 <= Len(S) /\ S[n + 1] \in Handlers
    BY <1>1, <1>3, <2>1, <2>2
  <2>6. LifespanParts' /\ UnmadeInv' /\ OrderInv'
    <3>1. ran' \in Seq(Handlers) /\ position' \in Nat
      BY <1>1, <2>1, <2>2, <2>5
    <3>2. QED
      BY <2>1, <3>1, LifespanBasics, ListsKept
  <2>7. Len(ran') = n + 1 /\ \A i \in 1..(n + 1) : ran'[i] = S[i]
    BY <1>1, <1>3, <2>1, <2>2, <2>5
  <2>8. Ran(n + 1, 0)'
    BY <1>1, <2>1, <2>2, <2>3, <2>4, <2>5, <2>7 DEF Ran, S, D
  <2>9. QED
    BY <2>4, <2>6, <2>8 DEF LifespanIInv, RanInv
<1>5. CASE RunShutdown
  <2>1. /\ phase = "stopping" /\ position # Len(D) /\ position' = position + 1
        /\ ran' = Append(ran, D[position + 1])
        /\ UNCHANGED construction /\ UNCHANGED <<phase, completed, raising, sent, cycles>>
    BY <1>5 DEF RunShutdown, Run, AllRun
  <2>2. m = position /\ (context.kind # "router" => n = Len(S))
    BY <1>2, <2>1 DEF Ran
  <2>3. S' = S /\ D' = D /\ context' = context
    BY <2>1, ListsKept
  <2>4. SentInv' /\ sent \in {<<>>, <<"startup.complete">>}
    BY <2>1, LifespanBasics DEF SentInv
  <2> HIDE DEF S, D
  <2>5. m + 1 <= Len(D) /\ D[m + 1] \in Handlers
    BY <1>1, <1>3, <2>1, <2>2
  <2>6. LifespanParts' /\ UnmadeInv' /\ OrderInv'
    <3>1. ran' \in Seq(Handlers) /\ position' \in Nat
      BY <1>1, <2>1, <2>2, <2>5
    <3>2. QED
      BY <2>1, <3>1, LifespanBasics, ListsKept
  <2>7. /\ Len(ran') = n + (m + 1)
        /\ \A i \in 1..n : ran'[i] = S[i]
        /\ \A i \in 1..(m + 1) : ran'[n + i] = D[i]
    <3>1. /\ Len(ran') = n + m + 1 /\ ran'[n + m + 1] = D[m + 1]
          /\ \A i \in 1..(n + m) : ran'[i] = ran[i]
      BY <1>1, <1>3, <2>1, <2>2, <2>5
    <3>2. \A i \in 1..n : ran'[i] = S[i]
      BY <1>3, <3>1
    <3>3. ASSUME NEW i \in 1..(m + 1) PROVE ran'[n + i] = D[i]
      <4>1. CASE i = m + 1
        BY <3>1, <4>1
      <4>2. CASE i \in 1..m
        <5>1. n + i \in 1..(n + m)
          BY <4>2
        <5>2. QED
          BY <1>3, <3>1, <4>2, <5>1
      <4>3. QED
        BY <4>1, <4>2
    <3>4. QED
      BY <3>1, <3>2, <3>3
  <2>8. sent' # <<"startup.complete", "shutdown.complete">>
    BY <2>1, <2>4
  <2>9. Ran(n, m + 1)'
    BY <1>1, <1>3, <2>1, <2>2, <2>3, <2>5, <2>7, <2>8 DEF Ran, S, D
  <2>10. QED
    BY <2>4, <2>6, <2>9 DEF LifespanIInv, RanInv
<1>6. QED
  BY <1>4, <1>5

LEMMA FailKeeps ==
  ASSUME LifespanIInv, FailStartup \/ FailShutdown
  PROVE  LifespanIInv'
<1>1. /\ phase \in {"starting", "stopping"}
      /\ phase' = "reporting" /\ raising' = TRUE
      /\ UNCHANGED construction /\ UNCHANGED <<position, completed, sent, ran, cycles>>
  BY DEF FailStartup, FailShutdown
<1>2. LifespanParts' /\ UnmadeInv' /\ OrderInv'
  BY <1>1, LifespanBasics, ListsKept
<1>3. SentInv' /\ sent \in {<<>>, <<"startup.complete">>}
  BY <1>1, LifespanBasics DEF SentInv
<1>4. PICK n \in Nat, m \in Nat : Ran(n, m)
  BY LifespanBasics
<1>5. sent # <<"startup.complete", "shutdown.complete">>
  BY <1>3
<1>6. Ran(n, m)'
  <2>1. phase = "starting" => m = 0 /\ sent = <<>>
    BY <1>1, <1>4, LifespanBasics DEF Ran, SentInv
  <2>2. QED
    BY <1>1, <1>4, <1>5, <2>1, ListsKept DEF Ran
<1>7. QED
  BY <1>2, <1>3, <1>6 DEF LifespanIInv, RanInv

LEMMA FinishKeeps ==
  ASSUME LifespanIInv, FinishStartup \/ FinishShutdown
  PROVE  LifespanIInv'
<1>1. PICK n \in Nat, m \in Nat : Ran(n, m)
  BY LifespanBasics
<1>2. CASE FinishStartup
  <2>1. /\ phase = "starting" /\ position = Len(ListOf("startup")) /\ position' = 0
        /\ \/ phase' = "stopping" /\ raising' = TRUE /\ UNCHANGED <<completed, sent>>
           \/ /\ phase' = "serving" /\ sent' = Append(sent, "startup.complete")
              /\ completed' = TRUE /\ raising' = raising
        /\ UNCHANGED construction /\ UNCHANGED <<ran, cycles>>
    BY <1>2 DEF FinishStartup, AllRun
  <2>2. n = position /\ m = 0 /\ sent = <<>> /\ ~completed /\ ~raising
    BY <1>1, <2>1, LifespanBasics DEF Ran, SentInv
  <2>3. Append(sent, "startup.complete") = <<"startup.complete">>
    BY <2>2
  <2>4. LifespanParts' /\ UnmadeInv' /\ OrderInv'
    BY <2>1, <2>2, LifespanBasics, ListsKept
  <2>5. SentInv'
    <3>1. cycles # 0
      BY <2>1, LifespanBasics DEF SentInv
    <3>2. QED
      BY <2>1, <2>2, <2>3, <3>1 DEF SentInv
  <2>6. sent' # <<"startup.complete", "shutdown.complete">>
    BY <2>1, <2>2, <2>3
  <2>7. Ran(n, m)'
    BY <1>1, <2>1, <2>2, <2>6, LifespanBasics, ListsKept DEF Ran
  <2>8. QED
    BY <2>4, <2>5, <2>7 DEF LifespanIInv, RanInv
<1>3. CASE FinishShutdown
  <2>1. /\ phase = "stopping" /\ position = Len(ListOf("shutdown")) /\ phase' = "reporting"
        /\ UNCHANGED construction
        /\ UNCHANGED <<position, completed, raising, sent, ran, cycles>>
    BY <1>3 DEF FinishShutdown, AllRun
  <2>2. LifespanParts' /\ UnmadeInv' /\ OrderInv'
    BY <2>1, LifespanBasics, ListsKept
  <2>3. SentInv' /\ sent \in {<<>>, <<"startup.complete">>}
    BY <2>1, LifespanBasics DEF SentInv
  <2>4. Ran(n, m)'
    BY <1>1, <2>1, ListsKept DEF Ran
  <2>5. QED
    BY <2>2, <2>3, <2>4 DEF LifespanIInv, RanInv
<1>4. QED
  BY <1>2, <1>3

LEMMA AppendToOne ==
  ASSUME NEW S, NEW a \in S, NEW v \in S
  PROVE  Append(<<>>, v) = <<v>> /\ Append(<<a>>, v) = <<a, v>>
<1>1. Append(<<>>, v) = <<v>>
  OBVIOUS
<1>2. <<a>> \in Seq(S) /\ Len(<<a>>) = 1 /\ <<a>>[1] = a
  OBVIOUS
<1>3. <<a, v>> \in Seq(S) /\ Len(<<a, v>>) = 2 /\ <<a, v>>[1] = a /\ <<a, v>>[2] = v
  OBVIOUS
<1>4. /\ Append(<<a>>, v) \in Seq(S) /\ Len(Append(<<a>>, v)) = 2
      /\ Append(<<a>>, v)[1] = a /\ Append(<<a>>, v)[2] = v
  BY <1>2, AppendProperties
<1>5. \A i \in 1..2 : i = 1 \/ i = 2
  OBVIOUS
<1>6. \A i \in 1..2 : Append(<<a>>, v)[i] = <<a, v>>[i]
  BY <1>3, <1>4, <1>5
<1>7. Append(<<a>>, v) = <<a, v>>
  BY <1>3, <1>4, <1>6, SeqEqual
<1>8. QED
  BY <1>1, <1>7

LEMMA ReportKeeps ==
  ASSUME LifespanIInv, Report
  PROVE  LifespanIInv'
<1>1. /\ phase = "reporting" /\ phase' = "down" /\ sent' = Append(sent, Verdict)
      /\ UNCHANGED construction
      /\ UNCHANGED <<position, completed, raising, ran, cycles>>
  BY DEF Report
<1>2. LifespanParts' /\ UnmadeInv' /\ OrderInv'
  BY <1>1, LifespanBasics, ListsKept
<1>3. IF completed THEN sent = <<"startup.complete">> ELSE sent = <<>> /\ raising
  BY <1>1, LifespanBasics DEF SentInv
<1>4. IF ~raising
      THEN completed /\ sent' = <<"startup.complete", "shutdown.complete">>
      ELSE sent' = IF completed THEN <<"startup.complete", "shutdown.failed">>
                   ELSE <<"startup.failed">>
  <2> DEFINE T == {"startup.complete", "startup.failed", "shutdown.complete",
                   "shutdown.failed"}
             told == "startup.complete"
  <2>1. ASSUME NEW v \in T
        PROVE  Append(<<>>, v) = <<v>> /\ Append(<<told>>, v) = <<told, v>>
    <3>1. told \in T
      OBVIOUS
    <3> HIDE DEF T, told
    <3>2. QED
      BY <3>1, AppendToOne
  <2>2. CASE completed
    <3>1. Verdict = IF raising THEN "shutdown.failed" ELSE "shutdown.complete"
      BY <2>2 DEF Verdict
    <3>2. sent' = <<"startup.complete", Verdict>>
      <4>1. sent = <<told>> /\ Verdict \in T
        BY <1>3, <2>2, <3>1
      <4>2. sent' = Append(<<told>>, Verdict)
        BY <1>1, <4>1
      <4> HIDE DEF T, told
      <4>3. sent' = <<told, Verdict>>
        BY <2>1, <4>1, <4>2
      <4>4. QED
        BY <4>3 DEF told
    <3>3. QED
      BY <2>2, <3>1, <3>2
  <2>3. CASE ~completed
    <3>1. Verdict = "startup.failed" /\ raising
      BY <1>3, <2>3 DEF Verdict
    <3>2. sent' = <<"startup.failed">>
      BY <1>1, <1>3, <2>1, <2>3, <3>1
    <3>3. QED
      BY <2>3, <3>1, <3>2
  <2>4. QED
    BY <2>2, <2>3
<1>5. SentInv'
  <2>1. sent' \in Ended
    BY <1>4 DEF Ended
  <2>2. cycles # 0
    BY <1>1, LifespanBasics DEF SentInv
  <2>3. QED
    BY <1>1, <2>1, <2>2 DEF SentInv
<1>6. PICK n \in Nat, m \in Nat : Ran(n, m)
  BY LifespanBasics
<1>7. /\ sent' = <<"startup.complete", "shutdown.complete">> => ~raising
      /\ sent' # <<"startup.failed">> => completed
  BY <1>4
<1>8. completed => sent \notin {<<>>, <<"startup.failed">>}
  BY <1>3
<1>9. Ran(n, m)'
  BY <1>1, <1>6, <1>7, <1>8, ListsKept DEF Ran
<1>10. QED
  BY <1>2, <1>5, <1>9 DEF LifespanIInv, RanInv

LEMMA LifespanStep ==
  ASSUME LifespanIInv, [LifespanNext]_lifespanVars
  PROVE  LifespanIInv'
<1>1. CASE LifespanNext
  BY <1>1, RegisterKeeps, MakeKeeps, AddKeeps, AskKeeps, RunKeeps, FailKeeps, FinishKeeps,
     ReportKeeps DEF LifespanNext, Serve
<1>2. CASE UNCHANGED lifespanVars
  <2>1. UNCHANGED construction
        /\ UNCHANGED <<phase, position, completed, raising, sent, ran, cycles>>
    BY <1>2 DEF lifespanVars
  <2>2. LifespanParts' /\ OrderInv' /\ context' = context
    BY <2>1, LifespanBasics, ListsKept
  <2>3. UnmadeInv'
    BY <2>1 DEF LifespanIInv, UnmadeInv, construction
  <2>4. SentInv'
    BY <2>1, LifespanBasics DEF SentInv
  <2>5. PICK n \in Nat, m \in Nat : Ran(n, m)
    BY LifespanBasics
  <2>6. Ran(n, m)'
    BY <2>1, <2>5, ListsKept DEF Ran
  <2>7. QED
    BY <2>2, <2>3, <2>4, <2>6 DEF LifespanIInv, RanInv
<1>3. QED
  BY <1>1, <1>2

\* What has run is a beginning of the startup list and then one of the other.
LEMMA RanFromLists ==
  ASSUME LifespanIInv, NEW n \in Nat, NEW m \in Nat, Ran(n, m)
  PROVE  /\ \A i \in DOMAIN ran : i <= n =>
              i \in 1..Len(ListOf("startup")) /\ ran[i] = ListOf("startup")[i]
         /\ \A i \in DOMAIN ran : i > n =>
              /\ i - n \in 1..Len(ListOf("shutdown")) /\ i - n <= m
              /\ ran[i] = ListOf("shutdown")[i - n]
         /\ \A i \in DOMAIN ran :
              Event[ran[i]] = IF i <= n THEN "startup" ELSE "shutdown"
         /\ DOMAIN ran = 1..(n + m)
<1> DEFINE S == ListOf("startup")
           D == ListOf("shutdown")
<1>1. /\ S \in Seq(Handlers) /\ D \in Seq(Handlers) /\ ran \in Seq(Handlers)
      /\ \A i \in 1..Len(S) : Event[S[i]] = "startup"
      /\ \A i \in 1..Len(D) : Event[D[i]] = "shutdown"
  BY LifespanBasics, ListsInUse DEF LifespanIInv, Events
<1>2. /\ n <= Len(S) /\ m <= Len(D) /\ Len(ran) = n + m
      /\ \A i \in 1..n : ran[i] = S[i]
      /\ \A i \in 1..m : ran[n + i] = D[i]
  BY DEF Ran
<1> HIDE DEF S, D
<1>3. DOMAIN ran = 1..(n + m)
  BY <1>1, <1>2
<1>4. ASSUME NEW i \in 1..(n + m), i <= n PROVE i \in 1..Len(S) /\ ran[i] = S[i]
  BY <1>1, <1>2, <1>4
<1>5. ASSUME NEW i \in 1..(n + m), i > n
      PROVE  i - n \in 1..Len(D) /\ i - n <= m /\ ran[i] = D[i - n]
  <2>1. i - n \in 1..m /\ n + (i - n) = i
    BY <1>5
  <2>2. QED
    BY <1>1, <1>2, <2>1
<1>6. \A i \in 1..(n + m) : Event[ran[i]] = IF i <= n THEN "startup" ELSE "shutdown"
  BY <1>1, <1>4, <1>5
<1>7. QED
  BY <1>3, <1>4, <1>5, <1>6 DEF S, D

LEMMA RanOnce ==
  ASSUME LifespanIInv
  PROVE  \A i, j \in DOMAIN ran : ran[i] = ran[j] => i = j
<1>1. PICK n \in Nat, m \in Nat : Ran(n, m)
  BY LifespanBasics
<1>2. IsInjective(ListOf("startup")) /\ IsInjective(ListOf("shutdown"))
  BY DEF LifespanIInv, OrderInv, Events
<1>3. SUFFICES ASSUME NEW i \in DOMAIN ran, NEW j \in DOMAIN ran, ran[i] = ran[j]
               PROVE  i = j
  OBVIOUS
<1>4. i \in Nat /\ j \in Nat
  BY <1>1, RanFromLists
<1>5. i <= n <=> j <= n
  BY <1>1, <1>3, RanFromLists
<1>6. CASE i <= n
  <2>1. ListOf("startup")[i] = ListOf("startup")[j]
    BY <1>1, <1>3, <1>5, <1>6, RanFromLists
  <2>2. i \in DOMAIN ListOf("startup") /\ j \in DOMAIN ListOf("startup")
    BY <1>1, <1>5, <1>6, RanFromLists, LifespanBasics
  <2>3. QED
    BY <1>2, <2>1, <2>2 DEF IsInjective
<1>7. CASE i > n
  <2>1. /\ ran[i] = ListOf("shutdown")[i - n] /\ ran[j] = ListOf("shutdown")[j - n]
        /\ i - n \in 1..Len(ListOf("shutdown")) /\ j - n \in 1..Len(ListOf("shutdown"))
    BY <1>1, <1>4, <1>5, <1>7, RanFromLists
  <2>2. i - n \in DOMAIN ListOf("shutdown") /\ j - n \in DOMAIN ListOf("shutdown")
    BY <2>1, LifespanBasics
  <2>3. i - n = j - n
    BY <1>2, <1>3, <2>1, <2>2 DEF IsInjective
  <2>4. QED
    BY <1>4, <2>3
<1>8. QED
  BY <1>4, <1>6, <1>7

\* What is required is in a list that does not change any more.
LEMMA RequiredListed ==
  ASSUME LifespanIInv, NEW h \in Required
  PROVE  /\ context.kind # "router"
         /\ \A e \in Events : Event[h] = e =>
              \E i \in 1..Len(ListOf(e)) : ListOf(e)[i] = h
<1>1. OrderInv /\ LifespanParts
  BY DEF LifespanIInv
<1>2. context.kind # "router"
  BY <1>1 DEF OrderInv, Required
<1>3. \A e : ListOf(e) = context.lists[e]
  BY <1>2 DEF ListOf
<1>4. \E i \in 1..Len(context.lists[Event[h]]) : context.lists[Event[h]][i] = h
  BY <1>1 DEF OrderInv
<1>5. QED
  BY <1>2, <1>3, <1>4

\* What the server has been told says how far the lifespan has come.
LEMMA SentMeans ==
  ASSUME LifespanIInv
  PROVE  /\ "startup.complete" \in ToSet(sent) => sent \notin {<<>>, <<"startup.failed">>}
         /\ "shutdown.complete" \in ToSet(sent) =>
              sent = <<"startup.complete", "shutdown.complete">>
<1>1. sent \in {<<>>, <<"startup.complete">>} \cup Ended
  BY LifespanBasics DEF SentInv
<1>2. /\ ToSet(<<>>) = {} /\ ToSet(<<"startup.complete">>) = {"startup.complete"}
      /\ ToSet(<<"startup.failed">>) = {"startup.failed"}
  BY DEF ToSet
<1>3. "shutdown.complete" \notin ToSet(<<"startup.complete", "shutdown.failed">>)
  <2>1. DOMAIN <<"startup.complete", "shutdown.failed">> = 1..2
    OBVIOUS
  <2>2. \A i \in 1..2 : <<"startup.complete", "shutdown.failed">>[i] # "shutdown.complete"
    OBVIOUS
  <2>3. QED
    BY <2>1, <2>2 DEF ToSet
<1>4. QED
  BY <1>1, <1>2, <1>3 DEF Ended

\* The server is told once how the startup went and, only if it went well, once
\* how the shutdown went; a lifespan that has ended has told it, whatever raises
\* and whenever the task is cancelled (router.py:332).
THEOREM ServerIsTold == LifespanSpec => []Verdicts
<1>1. LifespanIInv => Verdicts
  <2> SUFFICES ASSUME LifespanIInv PROVE Verdicts
    OBVIOUS
  <2>1. phase \in {"down", "starting", "serving", "stopping", "reporting"} /\ SentInv
    BY LifespanBasics
  <2>2. sent \in {<<>>, <<"startup.complete">>} \cup Ended
    BY <2>1 DEF SentInv
  <2>3. (phase = "down" /\ cycles > 0) => sent \in Ended
    BY <2>1, LifespanBasics DEF SentInv
  <2>4. <<>> \notin Ended /\ <<"startup.complete">> \notin Ended
    BY DEF Ended
  <2>5. QED
    BY <2>2, <2>3, <2>4 DEF Ended, Verdicts
<1>2. QED
  BY <1>1, LifespanStart, LifespanStep, PTL DEF LifespanSpec

-----------------------------------------------------------------------------
(* The startup handlers that were there when the startup began.             *)

Listed(h) == \E i \in 1..Len(ListOf("startup")) : ListOf("startup")[i] = h

\* The context has been entered, or something has been shut down.
Opened == \/ phase \in {"serving", "stopping"}
          \/ \E i \in DOMAIN ran : Event[ran[i]] = "shutdown"

\* Those the context has among its own stay in its list, and have all run once it
\* has been entered.
ThereInv ==
  /\ there \subseteq Handlers
  /\ kind = "unmade" => there = {}
  /\ \A h \in there : Event[h] = "startup"
  /\ \A h \in there : Heeded(h) => Listed(h)
  /\ Opened => \A h \in there : Heeded(h) => HasRun(h)

LEMMA AppendRan ==
  ASSUME NEW list \in Seq(Handlers), NEW h \in Handlers
  PROVE  /\ Append(list, h) \in Seq(Handlers) /\ ToSet(list) \subseteq ToSet(Append(list, h))
         /\ DOMAIN Append(list, h) = 1..Len(list) + 1 /\ DOMAIN list = 1..Len(list)
         /\ Append(list, h)[Len(list) + 1] = h
         /\ \A i \in 1..Len(list) : Append(list, h)[i] = list[i]
BY DEF ToSet

\* A startup begins.
LEMMA ThereBegins ==
  ASSUME LifespanIInv, ThereInv, AskStartup
  PROVE  ThereInv'
<1>1. /\ kind # "unmade" /\ phase' = "starting" /\ ran' = <<>> /\ UNCHANGED construction
      /\ there' = ToSet(router.startup) \cup (IF context.kind = "own" THEN {Enter} ELSE {})
  BY DEF AskStartup
<1>2. /\ kind' = kind /\ context' = context /\ given' = given /\ known' = known
      /\ ListOf("startup")' = ListOf("startup")
  BY <1>1, ListsKept DEF construction
<1>3. ~Opened'
  BY <1>1 DEF Opened
<1>4. /\ router.startup \in Seq(Handlers)
      /\ \A i \in 1..Len(router.startup) : Event[router.startup[i]] = "startup"
  BY DEF LifespanIInv, LifespanParts, OfEvents, Events
<1>5. ToSet(router.startup) \subseteq Handlers
      /\ \A h \in ToSet(router.startup) :
           \E i \in 1..Len(router.startup) : router.startup[i] = h
  BY <1>4 DEF ToSet
<1>6. Enter \in Handlers /\ Event[Enter] = "startup"
  BY LifespanAssumption DEF LifespanAssumption, Handlers
<1>7. there' \subseteq Handlers /\ \A h \in there' : Event[h] = "startup"
  BY <1>1, <1>4, <1>5, <1>6
<1>8. ASSUME NEW h \in there', Heeded(h)' PROVE Listed(h)'
  <2>1. Heeded(h)
    BY <1>2, <1>8 DEF Heeded, Required
  <2>2. SUFFICES Listed(h)
    BY <1>2 DEF Listed
  <2>3. CASE context.kind = "router"
    <3>1. ListOf("startup") = router.startup /\ h \in ToSet(router.startup)
      BY <1>1, <1>8, <2>3 DEF ListOf
    <3>2. QED
      BY <1>5, <3>1 DEF Listed
  <2>4. CASE context.kind = "own" /\ h = Enter
    <3>1. ListOf("startup") = <<Enter>>
      BY <2>4 DEF LifespanIInv, OrderInv, ListOf, Lists
    <3>2. QED
      BY <2>4, <3>1 DEF Listed
  <2>5. CASE h \in Required
    BY <1>7, <1>8, <2>5, RequiredListed DEF Listed, Events
  <2>6. QED
    BY <2>1, <2>3, <2>4, <2>5 DEF Heeded
<1>9. QED
  BY <1>1, <1>2, <1>3, <1>7, <1>8 DEF ThereInv

\* Hooks and handlers are registered meanwhile; the lists only grow.
LEMMA ThereGrows ==
  ASSUME LifespanIInv, ThereInv, NEW g,
         (g \in Globals /\ Register(g)) \/ (g \in Added /\ Add(g))
  PROVE  ThereInv'
<1>1. UNCHANGED <<kind, given, known, context, phase, ran, there>>
  BY DEF Register, Add
<1>2. \A h : Heeded(h)' = Heeded(h)
  BY <1>1 DEF Heeded, Required
<1>3. Opened' = Opened /\ \A h : HasRun(h)' = HasRun(h)
  BY <1>1 DEF Opened, HasRun
<1>4. PICK list \in Seq(Handlers) : list = ListOf("startup")
  BY LifespanBasics
<1>5. g \in Handlers
  BY DEF Handlers
<1>6. ListOf("startup")' \in {list, Append(list, g)}
  <2>1. CASE Register(g)
    BY <1>1, <1>4, <2>1 DEF Register, ListOf
  <2>2. CASE Add(g)
    <3>1. router' = Put(router, g) /\ router \in [Events -> Seq(Handlers)] /\ OfEvents(router)
      BY <2>2 DEF Add, LifespanIInv, LifespanParts, OfEvents
    <3>2. Put(router, g)["startup"] \in {router["startup"], Append(router["startup"], g)}
      BY <1>5, <3>1, PutInPlace DEF Events
    <3>3. QED
      BY <1>1, <1>4, <3>1, <3>2 DEF ListOf
  <2>3. QED
    BY <2>1, <2>2
<1>7. PICK next : next = ListOf("startup")'
  OBVIOUS
<1>8. /\ Len(list) \in Nat /\ Len(next) \in Nat /\ Len(list) <= Len(next)
      /\ \A i \in 1..Len(list) : next[i] = list[i]
  BY <1>5, <1>6, <1>7, AppendGrows
<1>9. \A h : Listed(h) => Listed(h)'
  BY <1>4, <1>7, <1>8 DEF Listed
<1>10. QED
  BY <1>1, <1>2, <1>3, <1>9 DEF ThereInv

\* The lifespan goes on.
LEMMA ThereRuns ==
  ASSUME LifespanIInv, ThereInv, AskShutdown \/ Serve \/ UNCHANGED lifespanVars
  PROVE  ThereInv'
<1>1. UNCHANGED construction /\ there' = there
  BY DEF AskShutdown, Serve, RunStartup, FailStartup, FinishStartup, RunShutdown, FailShutdown,
     FinishShutdown, Report, lifespanVars
<1>2. /\ kind' = kind /\ context' = context /\ given' = given /\ known' = known
      /\ ListOf("startup")' = ListOf("startup")
  BY <1>1, ListsKept DEF construction
<1>3. \A h : Heeded(h)' = Heeded(h) /\ Listed(h)' = Listed(h)
  BY <1>2 DEF Heeded, Required, Listed
<1>4. /\ ran \in Seq(Handlers)
      /\ ListOf("startup") \in Seq(Handlers) /\ ListOf("shutdown") \in Seq(Handlers)
  BY LifespanBasics
<1>5. PICK n \in Nat, m \in Nat : Ran(n, m)
  BY LifespanBasics
<1>6. CASE RunStartup
  <2>1. /\ phase = "starting" /\ phase' = phase /\ position # Len(ListOf("startup"))
        /\ ran' = Append(ran, ListOf("startup")[position + 1])
    BY <1>6 DEF RunStartup, Run, AllRun
  <2>2. n = position /\ n <= Len(ListOf("startup"))
    BY <1>5, <2>1 DEF Ran
  <2>3. PICK x \in Handlers : x = ListOf("startup")[position + 1] /\ Event[x] = "startup"
    <3>1. position + 1 \in 1..Len(ListOf("startup"))
      BY <1>4, <1>5, <2>1, <2>2
    <3>2. QED
      BY <1>4, <3>1, ListsInUse DEF LifespanIInv, Events
  <2>4. Opened' => Opened
    BY <1>4, <2>1, <2>3, AppendRan DEF Opened
  <2>5. \A h : HasRun(h) => HasRun(h)'
    BY <1>4, <2>1, <2>3, AppendRan DEF HasRun
  <2>6. QED
    BY <1>1, <1>2, <1>3, <2>4, <2>5 DEF ThereInv
<1>7. CASE RunShutdown
  <2>1. /\ phase = "stopping" /\ position # Len(ListOf("shutdown"))
        /\ ran' = Append(ran, ListOf("shutdown")[position + 1])
    BY <1>7 DEF RunShutdown, Run, AllRun
  <2>2. m = position /\ m <= Len(ListOf("shutdown"))
    BY <1>5, <2>1 DEF Ran
  <2>3. PICK x \in Handlers : x = ListOf("shutdown")[position + 1]
    BY <1>4, <1>5, <2>1, <2>2
  <2>4. Opened
    BY <2>1 DEF Opened
  <2>5. \A h : HasRun(h) => HasRun(h)'
    BY <1>4, <2>1, <2>3, AppendRan DEF HasRun
  <2>6. QED
    BY <1>1, <1>2, <1>3, <2>4, <2>5 DEF ThereInv
<1>8. CASE FinishStartup
  <2>1. phase = "starting" /\ position = Len(ListOf("startup")) /\ ran' = ran
    BY <1>8 DEF FinishStartup, AllRun
  <2>2. /\ n = Len(ListOf("startup")) /\ Len(ran) = n + m
        /\ \A i \in 1..n : ran[i] = ListOf("startup")[i]
    BY <1>5, <2>1 DEF Ran
  <2>3. ASSUME NEW h, Listed(h) PROVE HasRun(h)
    <3>1. PICK i \in 1..n : ran[i] = h
      BY <2>2, <2>3 DEF Listed
    <3>2. i \in DOMAIN ran
      BY <1>4, <1>5, <2>2
    <3>3. QED
      BY <3>1, <3>2 DEF HasRun, ToSet
  <2>4. \A h : HasRun(h)' = HasRun(h)
    BY <2>1 DEF HasRun
  <2>5. QED
    BY <1>1, <1>2, <1>3, <2>3, <2>4 DEF ThereInv
<1>9. CASE AskShutdown \/ FailStartup \/ FailShutdown \/ FinishShutdown \/ Report
           \/ UNCHANGED lifespanVars
  <2>1. ran' = ran /\ (phase' \in {"serving", "stopping"} => phase \in {"serving", "stopping"})
    BY <1>9 DEF AskShutdown, FailStartup, FailShutdown, FinishShutdown, Report, lifespanVars
  <2>2. (Opened' => Opened) /\ \A h : HasRun(h)' = HasRun(h)
    BY <2>1 DEF Opened, HasRun
  <2>3. QED
    BY <1>1, <1>2, <1>3, <2>2 DEF ThereInv
<1>10. QED
  BY <1>6, <1>7, <1>8, <1>9 DEF Serve

LEMMA ThereStep ==
  ASSUME LifespanIInv, ThereInv, [LifespanNext]_lifespanVars
  PROVE  ThereInv'
<1>1. ASSUME NEW k \in {"lilya", "router"}, NEW handlers \in SUBSET Own, NEW own \in BOOLEAN,
             Make(k, handlers, own)
      PROVE  ThereInv'
  <2>1. there = {} /\ there' = there /\ kind' = k
    BY <1>1 DEF Make, ThereInv
  <2>2. QED
    BY <2>1 DEF ThereInv
<1>2. QED
  BY <1>1, ThereBegins, ThereGrows, ThereRuns DEF LifespanNext

\* No shutdown handler runs unless the startup handlers that were there when the
\* startup began, and are the context's own, have run in the same lifespan, for any
\* handlers, hooks and times of registration (_events.py:36).
THEOREM NothingClosedUnopened == LifespanSpec => []ClosedWhatOpened
<1>1. LifespanInit => ThereInv
  BY DEF LifespanInit, ThereInv, Opened
<1>2. LifespanIInv /\ ThereInv => ClosedWhatOpened
  <2> SUFFICES ASSUME LifespanIInv, ThereInv, NEW i \in DOMAIN ran, Event[ran[i]] = "shutdown",
                      NEW h \in there, Heeded(h)
               PROVE  \E j \in 1..i : ran[j] = h
    BY DEF ClosedWhatOpened
  <2>1. PICK n \in Nat, m \in Nat : Ran(n, m)
    BY LifespanBasics
  <2>2. i > n /\ i \in 1..(n + m) /\ DOMAIN ran = 1..(n + m)
    BY <2>1, RanFromLists
  <2>3. HasRun(h) /\ Event[h] = "startup"
    BY DEF ThereInv, Opened
  <2>4. PICK j \in DOMAIN ran : ran[j] = h
    BY <2>3 DEF HasRun, ToSet
  <2>5. j <= n
    BY <2>1, <2>3, <2>4, RanFromLists
  <2>6. QED
    BY <2>2, <2>4, <2>5
<1>3. QED
  BY <1>1, <1>2, LifespanStart, LifespanStep, ThereStep, PTL DEF LifespanSpec

\* Every handler has its turn, once and on the right side of the global hooks,
\* before the server hears of a success (apps.py:1243, router.py:127).
THEOREM HandlersInOrder == LifespanSpec => []AllInOrder
<1>1. LifespanIInv => AllInOrder
  <2> SUFFICES ASSUME LifespanIInv PROVE AllInOrder
    OBVIOUS
  <2>1. PICK n \in Nat, m \in Nat : Ran(n, m)
    BY LifespanBasics
  <2>2. /\ HooksOutside("startup", ListOf("startup"))
        /\ HooksOutside("shutdown", ListOf("shutdown"))
    BY DEF LifespanIInv, OrderInv, Events
  <2>3. /\ DOMAIN ran \subseteq Nat
        /\ \A h \in known \cup given : Event[h] \in {"startup", "shutdown"}
    <3>1. DOMAIN ran \subseteq Nat
      BY <2>1, RanFromLists
    <3>2. known \subseteq Handlers /\ given \subseteq Handlers
      BY DEF LifespanIInv, LifespanParts, Handlers
    <3>3. QED
      BY <3>1, <3>2, LifespanAssumption DEF LifespanAssumption
  <2>4. ASSUME NEW g \in known, NEW h \in given, Event[h] = "startup", Event[g] # "shutdown"
        PROVE  RanBefore(g, h)
    <3>1. SUFFICES ASSUME NEW i \in DOMAIN ran, NEW j \in DOMAIN ran, ran[i] = g, ran[j] = h
                   PROVE  i < j
      BY DEF RanBefore
    <3>2. i <= n /\ j <= n
      BY <2>1, <2>3, <2>4, <3>1, RanFromLists
    <3>3. /\ i \in 1..Len(ListOf("startup")) /\ ListOf("startup")[i] = g
          /\ j \in 1..Len(ListOf("startup")) /\ ListOf("startup")[j] = h
      BY <2>1, <3>1, <3>2, RanFromLists
    <3>4. QED
      BY <2>2, <3>3 DEF HooksOutside
  <2>5. ASSUME NEW g \in known, NEW h \in given, Event[h] # "startup", Event[g] # "startup"
        PROVE  RanBefore(h, g)
    <3>1. SUFFICES ASSUME NEW i \in DOMAIN ran, NEW j \in DOMAIN ran, ran[i] = h, ran[j] = g
                   PROVE  i < j
      BY DEF RanBefore
    <3>2. i > n /\ j > n
      BY <2>1, <2>3, <2>5, <3>1, RanFromLists
    <3>3. /\ i - n \in 1..Len(ListOf("shutdown")) /\ ListOf("shutdown")[i - n] = h
          /\ j - n \in 1..Len(ListOf("shutdown")) /\ ListOf("shutdown")[j - n] = g
      BY <2>1, <3>1, <3>2, RanFromLists
    <3>4. i - n < j - n
      BY <2>2, <3>3 DEF HooksOutside
    <3>5. QED
      BY <2>3, <3>4
  <2>6. ASSUME NEW h \in Required, Event[h] = "startup", "startup.complete" \in ToSet(sent)
        PROVE  HasRun(h)
    <3>1. n = Len(ListOf("startup"))
      BY <2>1, <2>6, RequiredListed, SentMeans DEF Ran
    <3>2. PICK i \in 1..n : ListOf("startup")[i] = h
      BY <2>6, <3>1, RequiredListed DEF Events
    <3>3. ran[i] = h /\ i \in DOMAIN ran
      BY <2>1, <3>2, RanFromLists DEF Ran
    <3>4. QED
      BY <3>3 DEF HasRun, ToSet
  <2>7. ASSUME NEW h \in Required, Event[h] = "shutdown", "shutdown.complete" \in ToSet(sent)
        PROVE  HasRun(h)
    <3>1. m = Len(ListOf("shutdown"))
      BY <2>1, <2>7, RequiredListed, SentMeans DEF Ran
    <3>2. PICK i \in 1..m : ListOf("shutdown")[i] = h
      BY <2>7, <3>1, RequiredListed DEF Events
    <3>3. ran[n + i] = h /\ n + i \in DOMAIN ran
      BY <2>1, <3>2, RanFromLists DEF Ran
    <3>4. QED
      BY <3>3 DEF HasRun, ToSet
  <2>8. QED
    BY <2>4, <2>5, <2>6, <2>7, RanOnce DEF AllInOrder, Required
<1>2. QED
  BY <1>1, LifespanStart, LifespanStep, PTL DEF LifespanSpec

\* The state of the lifespan keeps its types, and nothing more has run in it than
\* there are handlers (lifecycle.py:24, _events.py:36).
THEOREM LifespanTypeCorrect == LifespanSpec => []LifespanTypeOK
<1>1. LifespanIInv /\ ThereInv => LifespanTypeOK
  <2> SUFFICES ASSUME LifespanIInv, ThereInv PROVE LifespanTypeOK
    OBVIOUS
  <2>1. LifespanParts
    BY DEF LifespanIInv
  <2>2. PICK n \in Nat, m \in Nat : Ran(n, m)
    BY LifespanBasics
  <2>3. ran \in Seq(Handlers) /\ Len(ran) \in Nat /\ DOMAIN ran = 1..Len(ran)
    BY LifespanBasics
  <2>4. Len(ran) <= Cardinality(Handlers) /\ Cardinality(Handlers) \in Nat
    <3>1. ran \in Injection(1..Len(ran), Handlers)
      BY <2>3, RanOnce DEF Injection, IsInjective
    <3>2. IsFiniteSet(Handlers)
      BY LifespanAssumption DEF LifespanAssumption
    <3>3. Cardinality(1..Len(ran)) <= Cardinality(Handlers)
      BY <3>1, <3>2, FS_Injection
    <3>4. Cardinality(1..Len(ran)) = Len(ran)
      BY <2>3, FS_Interval
    <3>5. QED
      BY <3>2, <3>3, <3>4, FS_CardinalityType
  <2>5. position \in 0..Cardinality(Handlers)
    BY <2>2, <2>3, <2>4, LifespanBasics DEF Ran
  <2>6. \A e \in {"startup", "shutdown"} :
          /\ registry[e] \in Seq(Globals)
          /\ router[e] \in Seq(Handlers) /\ context.lists[e] \in Seq(Handlers)
          /\ \A i \in DOMAIN router[e] : Event[router[e][i]] = e
    <3>1. \A e \in Events : /\ registry[e] \in Seq(Globals)
                            /\ router[e] \in Seq(Handlers)
                            /\ \A i \in 1..Len(router[e]) : Event[router[e][i]] = e
      BY <2>1 DEF LifespanParts, OfEvents
    <3>2. \A e \in Events : context.lists[e] \in Seq(Handlers)
      BY <2>1 DEF LifespanParts, OfEvents
    <3>3. \A e \in Events : DOMAIN router[e] = 1..Len(router[e])
      BY <3>1
    <3>4. QED
      BY <3>1, <3>2, <3>3 DEF Events
  <2>7. QED
    BY <2>1, <2>3, <2>4, <2>5, <2>6 DEF LifespanParts, ThereInv, LifespanTypeOK
<1>2. LifespanInit => ThereInv
  BY DEF LifespanInit, ThereInv, Opened
<1>3. QED
  BY <1>1, <1>2, LifespanStart, LifespanStep, ThereStep, PTL DEF LifespanSpec

=============================================================================
