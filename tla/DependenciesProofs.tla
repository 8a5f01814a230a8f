-------------------------- MODULE DependenciesProofs -------------------------
(***************************************************************************)
(* What connections that share their providers give each other, for any    *)
(* number of connections, any providers and any scenario.  The objects     *)
(* the connections share hold instances of their own provider or key only, *)
(* the frames of a connection hold instances it may use, and a frame that  *)
(* is about to call a factory remembers that nothing was shared yet.       *)
(***************************************************************************)
EXTENDS Dependencies, SequenceTheorems, WellFoundedInduction, TLAPS

\* The sets the state is made of.
Places == {"enter", "data", "nested", "call"}
Forms == {"value", "generator"}
Instances == [made : Nat, form : Forms]
Kept == Instances \cup {None}
Frames == [provider : Providers, at : Places, values : Seq(Instances),
           arguments : Arguments, direct : BOOLEAN, after : Nat]
Records == [provider : Providers, by : Requests, values : Seq(Instances),
            arguments : Arguments, after : Nat]
Keys == {Key(p, r) : p \in Providers, r \in Requests}

Typed ==
  /\ req \in Scenarios
  /\ pc \in [Requests -> {"idle", "resolving", "over"}]
  /\ stack \in [Requests -> Seq(Frames)]
  /\ got \in [Requests -> Seq(Instances)]
  /\ cleanups \in [Requests -> SUBSET Nat]
  /\ cached \in [Providers -> Kept]
  /\ provided \in [Providers -> Arguments]
  /\ shared \in [Keys -> Kept]
  /\ made \in Seq(Records)
  /\ closed \in SUBSET Nat

\* The provider is in the dependencies of the request.
Provides(r, p) ==
  \E i \in DOMAIN req[r].layers : \E name \in DOMAIN req[r].layers[i] :
    req[r].layers[i][name] = p

KeyOf(n) == Key(made[n].provider, made[n].by)
IsShared(n) == Shared(made[n].provider)

\* A generator that was not unwrapped has a reason.
Unwrapped(v) ==
  v.form = "generator" =>
    LET m == made[v.made]
    IN  Is(m.provider).use_cache \/ Is(m.provider).given \/ m.arguments # << >>

\* A request may use its own instances, shared and cached ones.
MayUse(r, n) ==
  LET p == made[n].provider IN
  /\ made[n].by = r \/ Is(p).scope # "request" \/ Is(p).use_cache
  /\ (Is(p).scope = "app" /\ ~Is(p).use_cache /\ ~Is(p).pure)
       => req[made[n].by].app = req[r].app

Whole(v) == v.made \in DOMAIN made /\ Unwrapped(v)
Usable(r, v) == Whole(v) /\ MayUse(r, v.made)

\* Arguments come from bodies that have them, and from the own body first.
FromBodies(p, arguments) ==
  \A f \in DOMAIN arguments : f \in Is(p).fields /\ f \in req[arguments[f]].body
Own(r, arguments) ==
  \A f \in DOMAIN arguments :
    (req[r].kind = "http" /\ f \in req[r].body) => arguments[f] = r

\* No instance with the key is older than a call that is going to make one.
Fresh(r, p, after) ==
  Shared(p) =>
    \A n \in DOMAIN made : IsShared(n) /\ KeyOf(n) = Key(p, r) => n > after

FrameOK(r, f) ==
  LET p == f.provider IN
  /\ Provides(r, p)
  /\ f.after <= Len(made)
  /\ \A v \in ToSet(f.values) : Usable(r, v)
  /\ f.at # "enter" => Fresh(r, p, f.after)
  /\ f.direct => f.at = "call" /\ (Is(p).given \/ f.arguments # << >>)
  /\ (f.at = "nested" /\ ~Is(p).pure /\ req[r].kind = "http") =>
       req[r].body \cap Is(p).fields = {}
  /\ f.at = "data" => ~Is(p).pure
  /\ f.at = "call" => FromBodies(p, f.arguments) /\ Own(r, f.arguments)

FrameInv == \A r \in Requests : \A f \in ToSet(stack[r]) : FrameOK(r, f)

GotInv ==
  \A r \in Requests :
    /\ \A v \in ToSet(got[r]) : Usable(r, v)
    /\ Len(got[r]) <= Len(req[r].wants)
    /\ stack[r] # <<>> => ~Complete(r)

ProviderOK(p) ==
  /\ FromBodies(p, provided[p])
  /\ Is(p).pure => provided[p] = << >>
  /\ cached[p] # None => /\ Is(p).use_cache
                         /\ Whole(cached[p])
                         /\ made[cached[p].made].provider = p

\* What is kept for a key has the key, and nothing is kept before the first
\* instance is made.
SharedOK(k) ==
  IF shared[k] = None
  THEN \A n \in DOMAIN made : IsShared(n) => KeyOf(n) # k
  ELSE /\ Whole(shared[k])
       /\ IsShared(shared[k].made) /\ KeyOf(shared[k].made) = k

ObjectInv == (\A p \in Providers : ProviderOK(p)) /\ (\A k \in Keys : SharedOK(k))

RecordOK(n) ==
  LET m == made[n] IN
  /\ m.after < n
  /\ \A v \in ToSet(m.values) : Usable(m.by, v)
  /\ FromBodies(m.provider, m.arguments)
  /\ Own(m.by, m.arguments)

MadeInv == \A n \in DOMAIN made : RecordOK(n)

CloseInv ==
  /\ \A r \in Requests : \A n \in cleanups[r] : n \in DOMAIN made /\ made[n].by = r
  /\ \A n \in closed : /\ n \in DOMAIN made
                       /\ pc[made[n].by] = "over" \/ Is(made[n].provider).pure

\* An instance with the key of another one is newer than the call of that one.
KeyInv ==
  \A i, j \in DOMAIN made :
    (i # j /\ IsShared(i) /\ IsShared(j) /\ KeyOf(i) = KeyOf(j)) => i > made[j].after

IInv == Typed /\ FrameInv /\ GotInv /\ ObjectInv /\ MadeInv /\ CloseInv /\ KeyInv

-----------------------------------------------------------------------------
(* Sequences, and what is registered.                                       *)

LEMMA NoneIsNone == None \notin Instances
BY DEF None, Instances, Forms

LEMMA Members ==
  ASSUME NEW S, NEW s \in Seq(S)
  PROVE  ToSet(s) \subseteq S /\ Len(s) \in Nat /\ DOMAIN s = 1 .. Len(s)
BY ElementOfSeq, LenProperties DEF ToSet

LEMMA NoMembers == ToSet(<<>>) = {} /\ Len(<<>>) = 0
BY DEF ToSet

LEMMA StackParts ==
  ASSUME NEW S, NEW s \in Seq(S), s # <<>>
  PROVE  /\ Last(s) \in S /\ Last(s) \in ToSet(s)
         /\ Front(s) \in Seq(S) /\ ToSet(Front(s)) \subseteq ToSet(s)
<1>1. Len(s) \in Nat \ {0} /\ DOMAIN s = 1 .. Len(s)
  BY EmptySeq, LenProperties
<1>2. Last(s) \in S /\ Last(s) \in ToSet(s)
  BY <1>1, ElementOfSeq DEF Last, ToSet
<1>3. /\ Front(s) \in Seq(S)
      /\ Len(Front(s)) = Len(s) - 1
      /\ \A i \in 1 .. Len(s) - 1 : Front(s)[i] = s[i]
  BY <1>1, SubSeqProperties DEF Front
<1>4. DOMAIN Front(s) = 1 .. Len(s) - 1
  BY <1>1, <1>3, LenProperties
<1>5. ToSet(Front(s)) \subseteq ToSet(s)
  BY <1>1, <1>3, <1>4 DEF ToSet
<1>6. QED
  BY <1>2, <1>3, <1>5

LEMMA AppendParts ==
  ASSUME NEW S, NEW s \in Seq(S), NEW e \in S
  PROVE  /\ Append(s, e) \in Seq(S)
         /\ Append(s, e) # <<>>
         /\ Len(Append(s, e)) = Len(s) + 1
         /\ DOMAIN Append(s, e) = 1 .. Len(s) + 1
         /\ DOMAIN s = 1 .. Len(s)
         /\ Len(s) \in Nat
         /\ \A i \in DOMAIN s : Append(s, e)[i] = s[i]
         /\ Append(s, e)[Len(s) + 1] = e
         /\ ToSet(Append(s, e)) = ToSet(s) \cup {e}
<1>1. /\ Append(s, e) \in Seq(S)
      /\ Append(s, e) # <<>>
      /\ Len(Append(s, e)) = Len(s) + 1
      /\ DOMAIN Append(s, e) = 1 .. Len(s) + 1
      /\ DOMAIN s = 1 .. Len(s)
      /\ Len(s) \in Nat
      /\ \A i \in DOMAIN s : Append(s, e)[i] = s[i]
      /\ Append(s, e)[Len(s) + 1] = e
  BY AppendProperties, LenProperties
<1>2. 1 .. Len(s) + 1 = (1 .. Len(s)) \cup {Len(s) + 1}
  BY <1>1
<1>3. ToSet(Append(s, e)) = ToSet(s) \cup {e}
  BY <1>1, <1>2 DEF ToSet
<1>4. QED
  BY <1>1, <1>3

\* A nonempty set of naturals with a bound has a largest member.
LEMMA MaxIsMember ==
  ASSUME NEW n \in Nat, NEW S \in SUBSET (1 .. n), S # {}
  PROVE  Max(S) \in S
<1> DEFINE T == {n - x : x \in S}
<1>0. \A x \in S : x \in Int /\ n - x \in Nat
  OBVIOUS
<1>1. T \subseteq Nat /\ T # {}
  BY <1>0
<1>2. PICK y \in T : \A z \in T : ~ (<<z, y>> \in OpToRel(<, Nat))
  BY <1>1, WFMin, NatLessThanWellFounded
<1>3. \A z \in T : ~ (z < y)
  BY <1>1, <1>2 DEF OpToRel
<1>4. PICK x \in S : y = n - x
  BY <1>2
<1>5. \A z \in S : x >= z
  BY <1>0, <1>3, <1>4
<1>6. \E x2 \in S : \A z \in S : x2 >= z
  BY <1>4, <1>5
<1>7. QED
  BY <1>6, Zenon DEF Max

\* What a provider was made with.
LEMMA ProviderParts ==
  ASSUME NEW p \in Providers
  PROVE  /\ Is(p).scope \in {"request", "app", "global"}
         /\ Is(p).use_cache \in BOOLEAN /\ Is(p).generator \in BOOLEAN
         /\ Is(p).given \in BOOLEAN /\ Is(p).pure \in BOOLEAN
         /\ Is(p).params \in Seq(Names)
         /\ Is(p).fields \subseteq Fields
BY DependenciesAssumption DEF Is

\* What a request is.
LEMMA RequestParts ==
  ASSUME Typed, NEW r \in Requests
  PROVE  /\ req[r].app \in Apps
         /\ req[r].app # "any"
         /\ req[r].wants \in Seq(Names)
         /\ req[r].body \subseteq Fields \/ req[r].body = {"text"}
         /\ Len(req[r].layers) \in Nat
         /\ DOMAIN req[r].layers = 1 .. Len(req[r].layers)
         /\ \A i \in DOMAIN req[r].layers : \A name \in DOMAIN req[r].layers[i] :
              /\ req[r].layers[i][name] \in Providers
              /\ \A wanted \in ToSet(Is(req[r].layers[i][name]).params) :
                   IsRegistered(r, wanted)
<1>1. req \in Scenarios
  BY DEF Typed
<1>2. req[r].layers \in Seq(ToSet(req[r].layers))
  BY <1>1, DependenciesAssumption
<1>3. Len(req[r].layers) \in Nat /\ DOMAIN req[r].layers = 1 .. Len(req[r].layers)
  BY <1>2, LenProperties
<1>4. /\ req[r].app \in Apps /\ "any" \notin Apps /\ req[r].wants \in Seq(Names)
      /\ req[r].body \subseteq Fields \/ req[r].body = {"text"}
  BY <1>1, DependenciesAssumption
<1>5. \A i \in DOMAIN req[r].layers : \A name \in DOMAIN req[r].layers[i] :
        /\ req[r].layers[i][name] \in Providers
        /\ \A wanted \in ToSet(Is(req[r].layers[i][name]).params) :
             IsRegistered(r, wanted)
  BY <1>1, DependenciesAssumption DEF Is, IsRegistered
<1>6. QED
  BY <1>3, <1>4, <1>5

\* A registered name has a provider, which is one of the request's.
LEMMA RegisteredIsProvided ==
  ASSUME Typed, NEW r \in Requests, NEW name, IsRegistered(r, name)
  PROVE  Registered(r, name) \in Providers /\ Provides(r, Registered(r, name))
<1> DEFINE layers == req[r].layers
           having == {i \in DOMAIN layers : name \in DOMAIN layers[i]}
<1>1. Len(layers) \in Nat /\ having \in SUBSET (1 .. Len(layers)) /\ having # {}
  BY RequestParts DEF IsRegistered
<1>2. Max(having) \in having
  BY <1>1, MaxIsMember
<1>3. Registered(r, name) = layers[Max(having)][name]
  BY DEF Registered
<1> HIDE DEF having
<1>4. Max(having) \in DOMAIN layers /\ name \in DOMAIN layers[Max(having)]
  BY <1>2 DEF having
<1>5. QED
  BY <1>3, <1>4, RequestParts DEF Provides

\* So has each parameter of a provider.
LEMMA ParameterIsProvided ==
  ASSUME Typed, NEW r \in Requests, NEW p, Provides(r, p),
         NEW i \in DOMAIN Is(p).params
  PROVE  /\ Registered(r, Is(p).params[i]) \in Providers
         /\ Provides(r, Registered(r, Is(p).params[i]))
<1>1. Is(p).params[i] \in ToSet(Is(p).params)
  BY DEF ToSet
<1>2. IsRegistered(r, Is(p).params[i])
  BY <1>1, RequestParts DEF Provides
<1>3. QED
  BY <1>2, RegisteredIsProvided

-----------------------------------------------------------------------------
(* What stays true while instances are made.                                *)

\* No instance is lost or changed.
Grown ==
  /\ req' = req
  /\ Len(made) \in Nat /\ Len(made') \in Nat /\ Len(made) <= Len(made')
  /\ DOMAIN made = 1 .. Len(made) /\ DOMAIN made' = 1 .. Len(made')
  /\ \A n \in DOMAIN made : made'[n] = made[n]

LEMMA UnchangedGrows ==
  ASSUME Typed, UNCHANGED <<req, made>>
  PROVE  Grown
<1>1. made \in Seq(Records)
  BY DEF Typed
<1>2. Len(made) \in Nat /\ DOMAIN made = 1 .. Len(made)
  BY <1>1, LenProperties
<1>3. QED
  BY <1>2 DEF Grown

LEMMA AppendGrows ==
  ASSUME Typed, req' = req, NEW m \in Records, made' = Append(made, m)
  PROVE  /\ Grown
         /\ made' \in Seq(Records)
         /\ Len(made') = Len(made) + 1
         /\ made'[Len(made) + 1] = m
<1>1. made \in Seq(Records)
  BY DEF Typed
<1>2. /\ Len(made) \in Nat /\ DOMAIN made = 1 .. Len(made)
      /\ Len(made') = Len(made) + 1 /\ DOMAIN made' = 1 .. Len(made')
      /\ \A n \in DOMAIN made : made'[n] = made[n]
      /\ made'[Len(made) + 1] = m /\ made' \in Seq(Records)
  BY <1>1, AppendParts
<1>3. QED
  BY <1>2 DEF Grown

LEMMA WholeStays ==
  ASSUME Grown, NEW v, Whole(v)
  PROVE  Whole(v)'
<1>1. v.made \in DOMAIN made /\ v.made \in DOMAIN made' /\ made'[v.made] = made[v.made]
  BY DEF Grown, Whole
<1>2. Unwrapped(v)'
  BY <1>1 DEF Whole, Unwrapped, Is
<1>3. QED
  BY <1>1, <1>2 DEF Whole

LEMMA KeyStays ==
  ASSUME Grown, NEW n \in DOMAIN made
  PROVE  /\ n \in DOMAIN made'
         /\ made'[n] = made[n]
         /\ IsShared(n)' <=> IsShared(n)
         /\ KeyOf(n)' = KeyOf(n)
<1>1. n \in DOMAIN made' /\ made'[n] = made[n] /\ req' = req
  BY DEF Grown
<1>2. QED
  BY <1>1 DEF IsShared, KeyOf, Key, Shared, Is

LEMMA UsableStays ==
  ASSUME Grown, NEW r, NEW v, Usable(r, v)
  PROVE  Usable(r, v)'
<1>1. Whole(v)' /\ v.made \in DOMAIN made
  BY WholeStays DEF Usable, Whole
<1>2. made'[v.made] = made[v.made] /\ req' = req
  BY <1>1 DEF Grown
<1>3. MayUse(r, v.made)'
  BY <1>2 DEF Usable, MayUse, Is
<1>4. QED
  BY <1>1, <1>3 DEF Usable

\* A new instance is newer than every call.
LEMMA FrameStays ==
  ASSUME Grown, NEW r \in Requests, NEW f \in Frames, FrameOK(r, f)
  PROVE  FrameOK(r, f)'
<1> DEFINE p == f.provider
<1>1. req' = req /\ f.after \in Nat /\ f.after <= Len(made)
  BY DEF Grown, Frames, FrameOK
<1>2. Provides(r, p)' /\ (f.after <= Len(made))'
  BY <1>1 DEF FrameOK, Provides, Grown
<1>3. \A v \in ToSet(f.values) : Usable(r, v)'
  <2>1. \A v \in ToSet(f.values) : Usable(r, v)
    BY DEF FrameOK
  <2>2. QED
    BY <2>1, UsableStays
<1>4. f.at # "enter" => Fresh(r, p, f.after)'
  <2>1. SUFFICES ASSUME f.at # "enter", Shared(p), NEW n \in DOMAIN made',
                        IsShared(n)', KeyOf(n)' = Key(p, r)'
                 PROVE  n > f.after
    BY DEF Fresh, Shared, Is
  <2>2. Fresh(r, p, f.after) /\ Key(p, r)' = Key(p, r)
    BY <1>1, <2>1 DEF FrameOK, Key, Is
  <2>3. CASE n \in DOMAIN made
    BY <2>1, <2>2, <2>3, KeyStays DEF Fresh
  <2>4. CASE n \notin DOMAIN made
    BY <1>1, <2>1, <2>4 DEF Grown
  <2>5. QED
    BY <2>3, <2>4
<1>5. FrameOK(r, f)' <=>
        /\ Provides(r, p)'
        /\ (f.after <= Len(made))'
        /\ \A v \in ToSet(f.values) : Usable(r, v)'
        /\ f.at # "enter" => Fresh(r, p, f.after)'
        /\ f.direct => f.at = "call" /\ (Is(p).given \/ f.arguments # << >>)
        /\ (f.at = "nested" /\ ~Is(p).pure /\ req[r].kind = "http") =>
             req[r].body \cap Is(p).fields = {}
        /\ f.at = "data" => ~Is(p).pure
        /\ f.at = "call" => FromBodies(p, f.arguments) /\ Own(r, f.arguments)
  BY <1>1 DEF FrameOK, FromBodies, Own, Is
<1>6. QED
  BY <1>2, <1>3, <1>4, <1>5 DEF FrameOK

LEMMA RecordStays ==
  ASSUME Grown, NEW n \in DOMAIN made, RecordOK(n)
  PROVE  RecordOK(n)'
<1>0. PICK m : m = made[n]
  OBVIOUS
<1>1. made'[n] = m /\ req' = req
  BY <1>0 DEF Grown
<1>2. \A v \in ToSet(m.values) : Usable(m.by, v)'
  <2>1. \A v \in ToSet(m.values) : Usable(m.by, v)
    BY <1>0 DEF RecordOK
  <2>2. QED
    BY <2>1, UsableStays
<1>3. FromBodies(m.provider, m.arguments)' /\ Own(m.by, m.arguments)'
  BY <1>0, <1>1 DEF RecordOK, FromBodies, Own, Is
<1>4. m.after < n
  BY <1>0 DEF RecordOK
<1>5. QED
  BY <1>1, <1>2, <1>3, <1>4 DEF RecordOK

-----------------------------------------------------------------------------
(* What a step does to the stack and to what the handler gets.              *)

\* A stack whose frames are right replaces that of the request.
LEMMA StackMoves ==
  ASSUME Typed, FrameInv, Grown, NEW r \in Requests, NEW t \in Seq(Frames),
         \A f \in ToSet(t) : FrameOK(r, f)',
         stack' = [stack EXCEPT ![r] = t]
  PROVE  /\ stack' \in [Requests -> Seq(Frames)]
         /\ stack'[r] = t
         /\ \A q \in Requests : q # r => stack'[q] = stack[q]
         /\ FrameInv'
<1>1. stack \in [Requests -> Seq(Frames)]
  BY DEF Typed
<1>2. /\ stack' \in [Requests -> Seq(Frames)]
      /\ stack'[r] = t
      /\ \A q \in Requests : q # r => stack'[q] = stack[q]
  BY <1>1
<1>3. ASSUME NEW q \in Requests, NEW f \in ToSet(stack'[q])
      PROVE  FrameOK(q, f)'
  <2>1. CASE q = r
    BY <1>2, <2>1
  <2>2. CASE q # r
    <3>1. f \in ToSet(stack[q]) /\ f \in Frames
      BY <1>1, <1>2, <2>2, Members
    <3>2. FrameOK(q, f)
      BY <3>1 DEF FrameInv
    <3>3. QED
      BY <3>1, <3>2, FrameStays
  <2>3. QED
    BY <2>1, <2>2
<1>4. FrameInv'
  BY <1>3 DEF FrameInv
<1>5. QED
  BY <1>2, <1>4

LEMMA StackStays ==
  ASSUME Typed, FrameInv, Grown, stack' = stack
  PROVE  stack' \in [Requests -> Seq(Frames)] /\ FrameInv'
<1>1. stack \in [Requests -> Seq(Frames)]
  BY DEF Typed
<1>2. ASSUME NEW q \in Requests, NEW f \in ToSet(stack'[q])
      PROVE  FrameOK(q, f)'
  <2>1. f \in ToSet(stack[q]) /\ f \in Frames
    BY <1>1, Members
  <2>2. FrameOK(q, f)
    BY <2>1 DEF FrameInv
  <2>3. QED
    BY <2>1, <2>2, FrameStays
<1>3. QED
  BY <1>1, <1>2 DEF FrameInv

\* The frames under the top are still right.
LEMMA FramesBelow ==
  ASSUME Typed, FrameInv, Grown, NEW r \in Requests, stack[r] # <<>>
  PROVE  /\ Below(r) \in Seq(Frames)
         /\ \A f \in ToSet(Below(r)) : FrameOK(r, f)'
         /\ Top(r) \in Frames
         /\ FrameOK(r, Top(r))
<1>1. stack[r] \in Seq(Frames)
  BY DEF Typed
<1>2. /\ Below(r) \in Seq(Frames) /\ ToSet(Below(r)) \subseteq ToSet(stack[r])
      /\ Top(r) \in Frames /\ Top(r) \in ToSet(stack[r])
  BY <1>1, StackParts DEF Below, Top
<1>3. \A f \in ToSet(Below(r)) : f \in Frames /\ FrameOK(r, f)
  BY <1>1, <1>2, Members DEF FrameInv
<1>4. \A f \in ToSet(Below(r)) : FrameOK(r, f)'
  BY <1>3, FrameStays
<1>5. FrameOK(r, Top(r))
  BY <1>2 DEF FrameInv
<1>6. QED
  BY <1>2, <1>4, <1>5

\* A frame that is right takes the place of the one on top.
LEMMA TopMoves ==
  ASSUME Typed, FrameInv, Grown, NEW r \in Requests, stack[r] # <<>>,
         NEW f \in Frames, FrameOK(r, f)', Become(r, f)
  PROVE  /\ stack' \in [Requests -> Seq(Frames)]
         /\ stack'[r] # <<>>
         /\ \A q \in Requests : q # r => stack'[q] = stack[q]
         /\ FrameInv'
<1> DEFINE t == Append(Below(r), f)
<1>1. Below(r) \in Seq(Frames) /\ \A g \in ToSet(Below(r)) : FrameOK(r, g)'
  BY FramesBelow
<1>2. t \in Seq(Frames) /\ t # <<>> /\ ToSet(t) = ToSet(Below(r)) \cup {f}
  BY <1>1, AppendParts
<1>3. \A g \in ToSet(t) : FrameOK(r, g)'
  BY <1>1, <1>2
<1>4. stack' = [stack EXCEPT ![r] = t]
  BY DEF Become
<1> HIDE DEF t
<1>5. QED
  BY <1>2, <1>3, <1>4, StackMoves

LEMMA StackEmpties ==
  ASSUME Typed, FrameInv, Grown, NEW r \in Requests,
         stack' = [stack EXCEPT ![r] = <<>>]
  PROVE  /\ stack' \in [Requests -> Seq(Frames)]
         /\ stack'[r] = <<>>
         /\ \A q \in Requests : q # r => stack'[q] = stack[q]
         /\ FrameInv'
<1>1. <<>> \in Seq(Frames) /\ \A f \in ToSet(<<>>) : FrameOK(r, f)'
  BY NoMembers, EmptySeq
<1>2. QED
  BY <1>1, StackMoves

\* What handlers were given before is theirs still.
LEMMA GotStays ==
  ASSUME Typed, GotInv, Grown, got' = got,
         \A q \in Requests : stack'[q] # <<>> => stack[q] # <<>> \/ ~Complete(q)
  PROVE  GotInv'
<1>1. ASSUME NEW q \in Requests
      PROVE  /\ \A v \in ToSet(got'[q]) : Usable(q, v)'
             /\ (Len(got[q]) <= Len(req[q].wants))'
             /\ stack'[q] # <<>> => ~Complete(q)'
  <2>1. \A v \in ToSet(got[q]) : Usable(q, v)
    BY DEF GotInv
  <2>2. \A v \in ToSet(got'[q]) : Usable(q, v)'
    BY <2>1, UsableStays
  <2>3. (Len(got[q]) <= Len(req[q].wants))'
    BY DEF GotInv, Grown
  <2>4. stack'[q] # <<>> => ~Complete(q)'
    BY DEF GotInv, Grown, Complete
  <2>5. QED
    BY <2>2, <2>3, <2>4
<1>2. QED
  BY <1>1 DEF GotInv

\* A frame that takes a value its request may use.
LEMMA FrameGains ==
  ASSUME NEW r \in Requests, NEW f \in Frames, FrameOK(r, f)',
         NEW v \in Instances, Usable(r, v)',
         NEW g, g = [f EXCEPT !.values = Append(@, v)]
  PROVE  g \in Frames /\ FrameOK(r, g)'
<1>1. f.values \in Seq(Instances)
  BY DEF Frames
<1>2. /\ Append(f.values, v) \in Seq(Instances)
      /\ ToSet(Append(f.values, v)) = ToSet(f.values) \cup {v}
  BY <1>1, AppendParts
<1>3. /\ g \in Frames /\ g.values = Append(f.values, v)
      /\ g.provider = f.provider /\ g.at = f.at /\ g.arguments = f.arguments
      /\ g.direct = f.direct /\ g.after = f.after
  BY <1>2 DEF Frames
<1>4. \A u \in ToSet(g.values) : Usable(r, u)'
  BY <1>2, <1>3 DEF FrameOK
<1>5. FrameOK(r, g)'
  BY <1>3, <1>4 DEF FrameOK
<1>6. QED
  BY <1>3, <1>5

\* A value that its request may use is given to the factory below or to the
\* handler, which lacks one still.
LEMMA GiveMoves ==
  ASSUME Typed, FrameInv, GotInv, Grown, NEW r \in Requests, stack[r] # <<>>,
         NEW v \in Instances, Usable(r, v)', Give(r, v)
  PROVE  /\ stack' \in [Requests -> Seq(Frames)]
         /\ got' \in [Requests -> Seq(Instances)]
         /\ FrameInv' /\ GotInv'
<1>0. got \in [Requests -> Seq(Instances)] /\ stack \in [Requests -> Seq(Frames)]
  BY DEF Typed
<1>1. CASE Below(r) = <<>>
  <2>1. /\ got' = [got EXCEPT ![r] = Append(got[r], v)]
        /\ stack' = [stack EXCEPT ![r] = <<>>]
    BY <1>1 DEF Give
  <2>2. /\ Append(got[r], v) \in Seq(Instances)
        /\ ToSet(Append(got[r], v)) = ToSet(got[r]) \cup {v}
        /\ Len(Append(got[r], v)) = Len(got[r]) + 1
        /\ Len(got[r]) \in Nat
    BY <1>0, AppendParts
  <2>3. /\ stack' \in [Requests -> Seq(Frames)] /\ FrameInv'
        /\ stack'[r] = <<>>
        /\ \A q \in Requests : q # r => stack'[q] = stack[q]
    BY <2>1, StackEmpties
  <2>4. /\ got' \in [Requests -> Seq(Instances)]
        /\ got'[r] = Append(got[r], v)
        /\ \A q \in Requests : q # r => got'[q] = got[q]
    BY <1>0, <2>1, <2>2
  <2>5. ASSUME NEW q \in Requests
        PROVE  /\ \A u \in ToSet(got'[q]) : Usable(q, u)'
               /\ (Len(got[q]) <= Len(req[q].wants))'
               /\ stack'[q] # <<>> => ~Complete(q)'
    <3>1. \A u \in ToSet(got[q]) : Usable(q, u)'
      <4>1. \A u \in ToSet(got[q]) : Usable(q, u)
        BY DEF GotInv
      <4>2. QED
        BY <4>1, UsableStays
    <3>2. req' = req
      BY DEF Grown
    <3>3. CASE q = r
      <4>1. Len(req[r].wants) \in Nat
        BY RequestParts, LenProperties
      <4>2. Len(got[r]) # Len(req[r].wants) /\ Len(got[r]) <= Len(req[r].wants)
        BY DEF GotInv, Complete
      <4>3. Len(got'[r]) <= Len(req[r].wants)
        BY <2>2, <2>4, <4>1, <4>2
      <4>4. \A u \in ToSet(got'[r]) : Usable(r, u)'
        BY <2>2, <2>4, <3>1, <3>3
      <4>5. QED
        BY <2>3, <3>2, <3>3, <4>3, <4>4
    <3>4. CASE q # r
      <4>1. got'[q] = got[q] /\ stack'[q] = stack[q]
        BY <2>3, <2>4, <3>4
      <4>2. QED
        BY <3>1, <3>2, <4>1 DEF GotInv, Complete
    <3>5. QED
      BY <3>3, <3>4
  <2>6. GotInv'
    BY <2>5 DEF GotInv
  <2>7. QED
    BY <2>3, <2>4, <2>6
<1>2. CASE Below(r) # <<>>
  <2>0. PICK caller : caller = Last(Below(r))
    OBVIOUS
  <2>1. PICK new : new = [caller EXCEPT !.values = Append(@, v)]
    OBVIOUS
  <2>2. PICK t : t = Append(Front(Below(r)), new)
    OBVIOUS
  <2>3. stack' = [stack EXCEPT ![r] = t] /\ got' = got
    BY <1>2, <2>0, <2>1, <2>2, Zenon DEF Give
  <2>4. /\ Below(r) \in Seq(Frames) /\ \A f \in ToSet(Below(r)) : FrameOK(r, f)'
        /\ caller \in Frames /\ caller \in ToSet(Below(r))
        /\ Front(Below(r)) \in Seq(Frames)
        /\ ToSet(Front(Below(r))) \subseteq ToSet(Below(r))
    BY <1>2, <2>0, FramesBelow, StackParts
  <2>5. new \in Frames /\ FrameOK(r, new)'
    BY <2>1, <2>4, FrameGains
  <2>6. /\ t \in Seq(Frames)
        /\ \A f \in ToSet(t) : FrameOK(r, f)'
    BY <2>2, <2>4, <2>5, AppendParts
  <2>7. /\ stack' \in [Requests -> Seq(Frames)] /\ FrameInv'
        /\ \A q \in Requests : q # r => stack'[q] = stack[q]
    BY <2>3, <2>6, StackMoves
  <2>8. GotInv'
    BY <2>3, <2>7, GotStays
  <2>9. QED
    BY <1>0, <2>3, <2>7, <2>8
<1>3. QED
  BY <1>1, <1>2

-----------------------------------------------------------------------------
(* What a step that makes no instance leaves as it is.                      *)

\* Only the stacks, the handlers' values and the places of requests change, and
\* a request that is over stays over.
Quiet ==
  /\ UNCHANGED <<req, cleanups, objects, history>>
  /\ pc' \in [Requests -> {"idle", "resolving", "over"}]
  /\ \A q \in Requests : pc[q] = "over" => pc'[q] = "over"

LEMMA QuietKeeps ==
  ASSUME IInv, Quiet
  PROVE  Grown /\ ObjectInv' /\ MadeInv' /\ CloseInv' /\ KeyInv'
<1>1. Typed /\ ObjectInv /\ MadeInv /\ CloseInv /\ KeyInv
  BY DEF IInv
<1>2. UNCHANGED <<req, cleanups, cached, provided, shared, made, closed>>
  BY DEF Quiet, objects, history
<1>3. Grown
  BY <1>1, <1>2, UnchangedGrows
<1>4. ObjectInv'
  BY <1>1, <1>2 DEF ObjectInv, ProviderOK, SharedOK, FromBodies, Whole, Unwrapped,
                    IsShared, KeyOf, Key, Keys, Shared, Is
<1>5. MadeInv'
  BY <1>1, <1>2, <1>3, RecordStays DEF MadeInv
<1>6. CloseInv'
  <2>1. \A n \in DOMAIN made : made[n] \in Records
    BY <1>1, ElementOfSeq, LenProperties DEF Typed
  <2>2. \A n \in DOMAIN made : made[n].by \in Requests
    BY <2>1 DEF Records
  <2>3. QED
    BY <1>1, <1>2, <2>2 DEF CloseInv, Quiet, Is
<1>7. KeyInv'
  BY <1>1, <1>2, <1>3, KeyStays DEF KeyInv
<1>8. QED
  BY <1>3, <1>4, <1>5, <1>6, <1>7

\* So the invariant holds after it if it does for the stack and the handler.
LEMMA QuietSteps ==
  ASSUME IInv, Quiet, FrameInv', GotInv',
         stack' \in [Requests -> Seq(Frames)], got' \in [Requests -> Seq(Instances)]
  PROVE  IInv'
<1>1. Typed'
  BY DEF IInv, Typed, Quiet, objects, history, Keys, Key, Is
<1>2. QED
  BY <1>1, QuietKeeps DEF IInv

-----------------------------------------------------------------------------
(* The steps.                                                               *)

LEMMA InitIInv == Init => IInv
<1> SUFFICES ASSUME Init PROVE IInv
  OBVIOUS
<1>1. Typed
  <2>1. << >> \in Arguments
    BY DEF Arguments
  <2>2. shared \in [Keys -> Kept]
    BY DEF Init, Keys, Kept
  <2>3. <<>> \in Seq(Frames) /\ <<>> \in Seq(Instances) /\ <<>> \in Seq(Records)
    BY EmptySeq
  <2>4. QED
    BY <2>1, <2>2, <2>3 DEF Init, Typed, Kept
<1>2. FrameInv
  BY NoMembers DEF Init, FrameInv
<1>3. DOMAIN made = {}
  BY DEF Init
<1>4. GotInv
  <2>1. \A r \in Requests : Len(req[r].wants) \in Nat
    BY <1>1, RequestParts, LenProperties
  <2>2. QED
    BY <2>1, NoMembers DEF Init, GotInv
<1>5. ObjectInv
  <2>1. \A k \in Keys : shared[k] = None
    BY DEF Init, Keys
  <2>2. QED
    BY <1>3, <2>1 DEF Init, ObjectInv, ProviderOK, SharedOK, FromBodies
<1>6. MadeInv /\ CloseInv /\ KeyInv
  BY <1>3 DEF Init, MadeInv, CloseInv, KeyInv
<1>7. QED
  BY <1>1, <1>2, <1>4, <1>5, <1>6 DEF IInv

LEMMA FailKeeps ==
  ASSUME IInv, NEW r \in Requests, pc[r] # "over", Fail(r)
  PROVE  IInv'
<1>1. Typed /\ FrameInv /\ GotInv
  BY DEF IInv
<1>2. Quiet
  BY <1>1 DEF Fail, Quiet, Typed
<1>3. Grown
  BY <1>2, QuietKeeps
<1>4. stack' \in [Requests -> Seq(Frames)] /\ FrameInv' /\ stack'[r] = <<>>
      /\ \A q \in Requests : q # r => stack'[q] = stack[q]
  BY <1>1, <1>3, StackEmpties DEF Fail
<1>5. GotInv' /\ got' \in [Requests -> Seq(Instances)]
  BY <1>1, <1>3, <1>4, GotStays DEF Fail, Typed
<1>6. QED
  BY <1>2, <1>4, <1>5, QuietSteps

LEMMA StartAndFinishKeep ==
  ASSUME IInv, NEW r \in Requests, Begin(r) \/ Finish(r)
  PROVE  IInv'
<1>1. Typed /\ FrameInv /\ GotInv
  BY DEF IInv
<1>2. Quiet /\ UNCHANGED <<stack, got>>
  BY <1>1 DEF Begin, Finish, Quiet, Typed
<1>3. Grown
  BY <1>2, QuietKeeps
<1>4. stack' \in [Requests -> Seq(Frames)] /\ FrameInv'
  BY <1>1, <1>2, <1>3, StackStays
<1>5. GotInv' /\ got' \in [Requests -> Seq(Instances)]
  BY <1>1, <1>2, <1>3, GotStays DEF Typed
<1>6. QED
  BY <1>2, <1>4, <1>5, QuietSteps

\* A frame that enters has nothing to be right about but its provider.
LEMMA NewFrame ==
  ASSUME Typed, Grown, UNCHANGED made, NEW r \in Requests,
         NEW p \in Providers, Provides(r, p)
  PROVE  Frame(p) \in Frames /\ FrameOK(r, Frame(p))'
<1>1. PICK f : f = Frame(p)
  OBVIOUS
<1>2. << >> \in Arguments /\ <<>> \in Seq(Instances) /\ Len(made) \in Nat
  <2>1. << >> \in Arguments
    BY DEF Arguments
  <2>2. QED
    BY <2>1, EmptySeq DEF Grown
<1>3. /\ f \in Frames /\ f.provider = p /\ f.at = "enter" /\ f.values = <<>>
      /\ f.direct = FALSE /\ f.after = Len(made)
  BY <1>1, <1>2 DEF Frame, Frames, Places
<1>4. Provides(r, p)'
  BY DEF Grown, Provides
<1>5. FrameOK(r, f)'
  BY <1>2, <1>3, <1>4, NoMembers DEF FrameOK
<1>6. f = Frame(p)'
  BY <1>1 DEF Frame
<1>7. QED
  BY <1>1, <1>3, <1>5, <1>6

LEMMA WantKeeps ==
  ASSUME IInv, NEW r \in Requests, Want(r)
  PROVE  IInv'
<1>1. Typed /\ FrameInv /\ GotInv
  BY DEF IInv
<1>2. Quiet /\ got' = got /\ UNCHANGED made
  BY <1>1 DEF Want, Quiet, history, Typed
<1>3. Grown
  BY <1>2, QuietKeeps
<1>4. PICK p : p = Registered(r, Wanted(r))
  OBVIOUS
<1>5. p \in Providers /\ Provides(r, p)
  BY <1>1, <1>4, RegisteredIsProvided DEF Want
<1>6. PICK f : f = Frame(p)
  OBVIOUS
<1>7. f = Frame(p)'
  BY <1>2, <1>6 DEF Frame
<1>8. f \in Frames /\ FrameOK(r, f)'
  BY <1>1, <1>2, <1>3, <1>5, <1>6, <1>7, NewFrame
<1>9. <<f>> \in Seq(Frames) /\ ToSet(<<f>>) = {f}
  BY <1>8 DEF ToSet
<1>10. stack' = [stack EXCEPT ![r] = <<f>>]
  BY <1>4, <1>6 DEF Want
<1>11. /\ stack' \in [Requests -> Seq(Frames)] /\ FrameInv'
       /\ \A q \in Requests : q # r => stack'[q] = stack[q]
  BY <1>1, <1>3, <1>8, <1>9, <1>10, StackMoves
<1>12. GotInv' /\ got' \in [Requests -> Seq(Instances)]
  BY <1>1, <1>2, <1>3, <1>11, GotStays DEF Typed, Want
<1>13. QED
  BY <1>2, <1>11, <1>12, QuietSteps

LEMMA NestedKeeps ==
  ASSUME IInv, NEW r \in Requests, Nested(r)
  PROVE  IInv'
<1>1. Typed /\ FrameInv /\ GotInv
  BY DEF IInv
<1>2. Quiet /\ got' = got /\ UNCHANGED made
  BY <1>1 DEF Nested, Quiet, history, Typed
<1>3. Grown
  BY <1>2, QuietKeeps
<1>4. PICK top : top = Top(r)
  OBVIOUS
<1>5. stack[r] # <<>> /\ top \in Frames /\ FrameOK(r, top)
  BY <1>1, <1>3, <1>4, FramesBelow DEF Nested, At
<1> DEFINE params == Is(top.provider).params
           i == Len(top.values) + 1
<1>6. i \in DOMAIN params
  <2>1. params \in Seq(Names) /\ top.values \in Seq(Instances)
    BY <1>5, ProviderParts DEF Frames
  <2>2. Len(top.values) < Len(params)
    BY <1>4 DEF Nested
  <2>3. QED
    BY <2>1, <2>2, LenProperties
<1>7. PICK p : p = Registered(r, params[i])
  OBVIOUS
<1>8. p \in Providers /\ Provides(r, p)
  BY <1>1, <1>5, <1>6, <1>7, ParameterIsProvided DEF FrameOK
<1>9. PICK f : f = Frame(p)
  OBVIOUS
<1>10. f = Frame(p)'
  BY <1>2, <1>9 DEF Frame
<1>11. f \in Frames /\ FrameOK(r, f)'
  BY <1>1, <1>2, <1>3, <1>8, <1>9, <1>10, NewFrame
<1>12. PICK t : t = Append(stack[r], f)
  OBVIOUS
<1>13. stack' = [stack EXCEPT ![r] = t]
  BY <1>4, <1>7, <1>9, <1>12 DEF Nested
<1>14. /\ stack[r] \in Seq(Frames)
       /\ t \in Seq(Frames) /\ ToSet(t) = ToSet(stack[r]) \cup {f}
  BY <1>1, <1>11, <1>12, AppendParts DEF Typed
<1>15. \A g \in ToSet(t) : FrameOK(r, g)'
  <2>1. \A g \in ToSet(stack[r]) : g \in Frames /\ FrameOK(r, g)
    BY <1>1, <1>14, Members DEF FrameInv
  <2>2. QED
    BY <1>3, <1>11, <1>14, <2>1, FrameStays
<1>16. /\ stack' \in [Requests -> Seq(Frames)] /\ FrameInv'
       /\ \A q \in Requests : q # r => stack'[q] = stack[q]
  BY <1>1, <1>3, <1>13, <1>14, <1>15, StackMoves
<1>17. GotInv' /\ got' \in [Requests -> Seq(Instances)]
  BY <1>1, <1>2, <1>3, <1>5, <1>16, GotStays DEF Typed
<1>18. QED
  BY <1>2, <1>16, <1>17, QuietSteps

\* Of one scope and key are instances that either may use.
LEMMA SameKeyMayUse ==
  ASSUME Typed, NEW r \in Requests, NEW p \in Providers, Shared(p),
         NEW n \in DOMAIN made, IsShared(n), KeyOf(n) = Key(p, r)
  PROVE  MayUse(r, n)
<1> DEFINE q == made[n].provider
           by == made[n].by
<1>1. made \in Seq(Records)
  BY DEF Typed
<1>2. made[n] \in Records
  BY <1>1, ElementOfSeq, LenProperties
<1>3. q \in Providers /\ by \in Requests
  BY <1>2 DEF Records
<1>4. Is(q).scope # "request" /\ Is(q).scope = Is(p).scope
  BY DEF IsShared, Shared, KeyOf, Key
<1>5. ASSUME Is(q).scope = "app", ~Is(q).pure
      PROVE  req[by].app = req[r].app
  <2>1. req[by].app # "any"
    BY <1>3, RequestParts
  <2>2. Key(q, by).app = req[by].app
    BY <1>5 DEF Key
  <2>3. Key(p, r).app \in {req[r].app, "any"}
    BY DEF Key
  <2>4. Key(q, by).app = Key(p, r).app
    BY DEF KeyOf
  <2>5. QED
    BY <2>1, <2>2, <2>3, <2>4
<1>6. QED
  BY <1>4, <1>5 DEF MayUse

LEMMA FoundKeeps ==
  ASSUME IInv, NEW r \in Requests, Found(r)
  PROVE  IInv'
<1>1. Typed /\ FrameInv /\ GotInv /\ ObjectInv
  BY DEF IInv
<1>2. Quiet
  BY <1>1 DEF Found, Quiet, Typed
<1>3. Grown
  BY <1>2, QuietKeeps
<1>4. PICK p : p = Top(r).provider
  OBVIOUS
<1>5. stack[r] # <<>> /\ p \in Providers
  BY <1>1, <1>3, <1>4, FramesBelow DEF Found, At, Frames
<1>6. \E v : v \in Instances /\ Usable(r, v) /\ Give(r, v)
  <2>1. CASE Is(p).use_cache /\ cached[p] # None /\ Give(r, cached[p])
    <3>1. cached[p] \in Instances
      BY <1>1, <1>5, <2>1 DEF Typed, Kept
    <3>2. Whole(cached[p]) /\ made[cached[p].made].provider = p
      BY <1>1, <1>5, <2>1 DEF ObjectInv, ProviderOK
    <3>3. Usable(r, cached[p])
      BY <2>1, <3>2 DEF Usable, MayUse
    <3>4. QED
      BY <2>1, <3>1, <3>3
  <2>2. CASE /\ Shared(p) /\ shared[Key(p, r)] # None
             /\ Give(r, shared[Key(p, r)])
    <3>1. PICK k : k = Key(p, r)
      OBVIOUS
    <3>2. k \in Keys
      BY <1>5, <3>1 DEF Keys
    <3>3. shared[k] \in Instances
      BY <1>1, <2>2, <3>1, <3>2 DEF Typed, Kept
    <3>4. Whole(shared[k]) /\ IsShared(shared[k].made) /\ KeyOf(shared[k].made) = k
      BY <1>1, <2>2, <3>1, <3>2 DEF ObjectInv, SharedOK
    <3>5. Usable(r, shared[k])
      BY <1>1, <1>5, <2>2, <3>1, <3>4, SameKeyMayUse DEF Usable, Whole
    <3>6. QED
      BY <2>2, <3>1, <3>3, <3>5
  <2>3. QED
    BY <1>4, <2>1, <2>2 DEF Found
<1>7. PICK v : v \in Instances /\ Usable(r, v) /\ Give(r, v)
  BY <1>6
<1>8. Usable(r, v)'
  BY <1>3, <1>7, UsableStays
<1>9. /\ stack' \in [Requests -> Seq(Frames)]
      /\ got' \in [Requests -> Seq(Instances)]
      /\ FrameInv' /\ GotInv'
  BY <1>1, <1>3, <1>5, <1>7, <1>8, GiveMoves
<1>10. QED
  BY <1>2, <1>9, QuietSteps

\* A step that does no more than to change the frame on top.
LEMMA TopKeeps ==
  ASSUME IInv, NEW r \in Requests, pc[r] = "resolving", stack[r] # <<>>,
         UNCHANGED <<req, pc, got, cleanups, objects, history>>,
         NEW f \in Frames, FrameOK(r, f)', Become(r, f)
  PROVE  IInv'
<1>1. Typed /\ FrameInv /\ GotInv
  BY DEF IInv
<1>2. Quiet
  BY <1>1 DEF Quiet, Typed
<1>3. Grown
  BY <1>2, QuietKeeps
<1>4. /\ stack' \in [Requests -> Seq(Frames)] /\ FrameInv'
      /\ \A q \in Requests : q # r => stack'[q] = stack[q]
  BY <1>1, <1>3, TopMoves
<1>5. GotInv' /\ got' \in [Requests -> Seq(Instances)]
  BY <1>1, <1>3, <1>4, GotStays DEF Typed
<1>6. QED
  BY <1>2, <1>4, <1>5, QuietSteps

LEMMA CallKeeps ==
  ASSUME IInv, NEW r \in Requests, Call(r)
  PROVE  IInv'
<1>1. Typed /\ FrameInv /\ ObjectInv
  BY DEF IInv
<1>2. UNCHANGED <<req, pc, got, cleanups, objects, history, made>>
  BY DEF Call, history
<1>3. Grown
  BY <1>1, <1>2, UnchangedGrows
<1>4. PICK top : top = Top(r)
  OBVIOUS
<1>5. /\ pc[r] = "resolving" /\ stack[r] # <<>> /\ top.at = "nested"
      /\ top \in Frames /\ FrameOK(r, top)
  BY <1>1, <1>3, <1>4, FramesBelow DEF Call, At
<1>6. PICK p : p = top.provider
  OBVIOUS
<1>7. p \in Providers
  BY <1>5, <1>6 DEF Frames
<1>8. PICK f : f = [top EXCEPT !.at = "call", !.arguments = provided[p]]
  OBVIOUS
<1>9. provided[p] \in Arguments
  BY <1>1, <1>7 DEF Typed
<1>10. /\ f \in Frames /\ f.provider = p /\ f.at = "call" /\ f.values = top.values
       /\ f.arguments = provided[p] /\ f.direct = top.direct /\ f.after = top.after
  BY <1>5, <1>6, <1>8, <1>9 DEF Frames, Places
<1>11. Become(r, f)
  BY <1>4, <1>6, <1>8 DEF Call
<1>12. FrameOK(r, top)'
  BY <1>3, <1>5, FrameStays
<1>13. FromBodies(p, provided[p]) /\ (Is(p).pure => provided[p] = << >>)
  BY <1>1, <1>7 DEF ObjectInv, ProviderOK
<1>14. Own(r, provided[p])
  <2>1. CASE Is(p).pure
    BY <1>13, <2>1 DEF Own
  <2>2. CASE ~Is(p).pure
    BY <1>5, <1>6, <1>13, <2>2 DEF FrameOK, FromBodies, Own
  <2>3. QED
    BY <2>1, <2>2
<1>15. FromBodies(p, f.arguments)' /\ Own(r, f.arguments)'
  BY <1>3, <1>10, <1>13, <1>14 DEF FromBodies, Own, Is, Grown
<1>16. FrameOK(r, f)'
  BY <1>5, <1>6, <1>10, <1>12, <1>15 DEF FrameOK
<1>17. QED
  BY <1>2, <1>5, <1>10, <1>11, <1>16, TopKeeps

\* The frame on top after its body was looked at: either its factory is about to
\* be called with the arguments, or there are none and its parameters follow.
LEMMA EnteredOK ==
  ASSUME Typed, NEW r \in Requests, Top(r) \in Frames, FrameOK(r, Top(r)),
         Top(r).at \in {"enter", "data"},
         NEW p, p = Top(r).provider, Fresh(r, p, Top(r).after),
         NEW arguments \in Arguments, FromBodies(p, arguments), Own(r, arguments),
         arguments = << >> /\ ~Is(p).pure /\ req[r].kind = "http"
           => req[r].body \cap Is(p).fields = {},
         NEW f, f = Entered(r, p, arguments)
  PROVE  f \in Frames /\ FrameOK(r, f)
<1>1. PICK top : top = Top(r)
  OBVIOUS
<1>2. ~top.direct
  BY <1>1 DEF FrameOK
<1>3. CASE Direct(p, arguments)
  <2>1. f = [top EXCEPT !.at = "call", !.direct = TRUE, !.arguments = arguments]
    BY <1>1, <1>3 DEF Entered
  <2>2. /\ f \in Frames /\ f.provider = p /\ f.at = "call" /\ f.values = top.values
        /\ f.arguments = arguments /\ f.direct = TRUE /\ f.after = top.after
    BY <1>1, <2>1 DEF Frames, Places
  <2>3. FrameOK(r, f)
    BY <1>1, <1>3, <2>2 DEF FrameOK, Direct
  <2>4. QED
    BY <2>2, <2>3
<1>4. CASE ~Direct(p, arguments)
  <2>1. f = [top EXCEPT !.at = "nested"]
    BY <1>1, <1>4 DEF Entered
  <2>2. /\ f \in Frames /\ f.provider = p /\ f.at = "nested" /\ f.values = top.values
        /\ f.arguments = top.arguments /\ f.direct = top.direct /\ f.after = top.after
    BY <1>1, <2>1 DEF Frames, Places
  <2>3. FrameOK(r, f)
    BY <1>1, <1>2, <1>4, <2>2 DEF FrameOK, Direct
  <2>4. QED
    BY <2>2, <2>3
<1>5. QED
  BY <1>3, <1>4

LEMMA EnterKeeps ==
  ASSUME IInv, NEW r \in Requests, Enter(r)
  PROVE  IInv'
<1>1. Typed /\ FrameInv /\ ObjectInv
  BY DEF IInv
<1>2. UNCHANGED <<req, pc, got, cleanups, objects, history, made>>
  BY DEF Enter, history
<1>3. Grown
  BY <1>1, <1>2, UnchangedGrows
<1>4. PICK top : top = Top(r)
  OBVIOUS
<1>5. /\ pc[r] = "resolving" /\ stack[r] # <<>> /\ top.at = "enter"
      /\ top \in Frames /\ FrameOK(r, top)
  BY <1>1, <1>3, <1>4, FramesBelow DEF Enter, At
<1>6. PICK p : p = top.provider
  OBVIOUS
<1>7. p \in Providers
  BY <1>5, <1>6 DEF Frames
<1>8. Shared(p) => \A n \in DOMAIN made : IsShared(n) => KeyOf(n) # Key(p, r)
  <2>1. Key(p, r) \in Keys
    BY <1>7 DEF Keys
  <2>2. Shared(p) => shared[Key(p, r)] = None
    BY <1>4, <1>6 DEF Enter
  <2>3. QED
    BY <1>1, <2>1, <2>2 DEF ObjectInv, SharedOK
<1>9. \A after : Fresh(r, p, after)
  BY <1>8 DEF Fresh
<1>10. Len(made) \in Nat
  BY <1>3 DEF Grown
<1>11. \E f : f \in Frames /\ FrameOK(r, f) /\ Become(r, f)
  <2>1. CASE HasParameters(p) /\ ~Is(p).pure
    <3>1. PICK f : f = [top EXCEPT !.at = "data", !.after = Len(made)]
      OBVIOUS
    <3>2. Become(r, f)
      BY <1>4, <1>6, <2>1, <3>1, Zenon DEF Enter
    <3>3. /\ f \in Frames /\ f.provider = p /\ f.at = "data" /\ f.values = top.values
          /\ f.arguments = top.arguments /\ f.direct = top.direct
          /\ f.after = Len(made)
      BY <1>5, <1>6, <1>10, <3>1 DEF Frames, Places
    <3>4. FrameOK(r, f)
      BY <1>5, <1>6, <1>9, <1>10, <2>1, <3>3 DEF FrameOK
    <3>5. QED
      BY <3>2, <3>3, <3>4
  <2>2. CASE ~(HasParameters(p) /\ ~Is(p).pure)
    <3>1. PICK f : f = Entered(r, p, provided[p])
      OBVIOUS
    <3>2. Become(r, f)
      BY <1>4, <1>6, <2>2, <3>1, Zenon DEF Enter
    <3>3. provided[p] \in Arguments
      BY <1>1, <1>7 DEF Typed
    <3>4. FromBodies(p, provided[p]) /\ (Is(p).pure => provided[p] = << >>)
      BY <1>1, <1>7 DEF ObjectInv, ProviderOK
    <3>5. ~Is(p).pure => Is(p).fields = {}
      BY <1>7, <2>2, ProviderParts DEF HasParameters
    <3>6. Own(r, provided[p])
      BY <3>4, <3>5 DEF FromBodies, Own
    <3>7. f \in Frames /\ FrameOK(r, f)
      BY <1>1, <1>4, <1>5, <1>6, <1>9, <3>1, <3>3, <3>4, <3>5, <3>6, EnteredOK
    <3>8. QED
      BY <3>2, <3>7
  <2>3. QED
    BY <2>1, <2>2
<1>12. PICK f : f \in Frames /\ FrameOK(r, f) /\ Become(r, f)
  BY <1>11
<1>13. FrameOK(r, f)'
  BY <1>3, <1>12, FrameStays
<1>14. QED
  BY <1>2, <1>5, <1>12, <1>13, TopKeeps

\* What is taken from a body is the request's own, and the rest is from bodies
\* that have it.
LEMMA TakenOK ==
  ASSUME Typed, NEW r \in Requests, NEW p \in Providers,
         NEW old, old = provided[p], FromBodies(p, old),
         NEW new, new = Taken(r, p)
  PROVE  /\ new \in Arguments /\ FromBodies(p, new) /\ Own(r, new)
         /\ new = << >> => req[r].body \cap Is(p).fields = {}
<1> DEFINE body == req[r].body
           fields == Is(p).fields
<1>1. old \in Arguments
  BY DEF Typed
<1>2. PICK F \in SUBSET Fields : old \in [F -> Requests]
  BY <1>1 DEF Arguments
<1>3. fields \subseteq Fields
  BY ProviderParts
<1>4. PICK D : D = F \cup (body \cap fields)
  OBVIOUS
<1>5. new = [f \in D |-> IF f \in body THEN r ELSE old[f]]
  BY <1>2, <1>4 DEF Taken
<1>6. D \in SUBSET Fields
  BY <1>2, <1>3, <1>4
<1>7. \A f \in D : f \notin body => f \in F
  BY <1>4
<1>8. new \in [D -> Requests]
  BY <1>2, <1>5, <1>7
<1>9. new \in Arguments
  BY <1>6, <1>8 DEF Arguments
<1>10. \A f \in F : f \in fields /\ f \in req[old[f]].body
  BY <1>2 DEF FromBodies
<1>11. DOMAIN new = D /\ \A f \in D : new[f] = IF f \in body THEN r ELSE old[f]
  BY <1>5
<1>12. FromBodies(p, new)
  BY <1>4, <1>7, <1>10, <1>11 DEF FromBodies
<1>13. Own(r, new)
  BY <1>11 DEF Own
<1>14. new = << >> => D = {}
  BY <1>11
<1>15. QED
  BY <1>4, <1>9, <1>12, <1>13, <1>14

LEMMA ReadDataKeeps ==
  ASSUME IInv, NEW r \in Requests, ReadData(r)
  PROVE  IInv'
<1>1. Typed /\ FrameInv /\ GotInv /\ ObjectInv /\ MadeInv /\ CloseInv /\ KeyInv
  BY DEF IInv
<1>2. pc[r] = "resolving" /\ stack[r] # <<>> /\ Top(r).at = "data"
  BY DEF ReadData, At
<1>3. PICK p : p = Top(r).provider
  OBVIOUS
<1>4. PICK body : body = IF req[r].kind = "http" THEN req[r].body ELSE {}
  OBVIOUS
<1>5. PICK arguments : arguments = IF body = {} THEN provided[p] ELSE Taken(r, p)
  OBVIOUS
<1>6. CASE Fail(r)
  BY <1>2, <1>6, FailKeeps
<1>7. CASE /\ provided' = [provided EXCEPT ![p] = arguments]
           /\ \/ /\ pc' = [pc EXCEPT ![r] = "over"]
                 /\ stack' = [stack EXCEPT ![r] = <<>>]
              \/ Become(r, Entered(r, p, arguments)) /\ UNCHANGED pc
           /\ UNCHANGED <<req, got, cleanups, cached, shared, history>>
  <2>1. UNCHANGED <<req, got, cleanups, cached, shared, made, closed>>
    BY <1>7 DEF history
  <2>2. Grown
    BY <1>1, <2>1, UnchangedGrows
  <2>3. Top(r) \in Frames /\ FrameOK(r, Top(r)) /\ p \in Providers
    BY <1>1, <1>2, <1>3, <2>2, FramesBelow DEF Frames
  <2>4. ~Is(p).pure /\ Fresh(r, p, Top(r).after)
    BY <1>2, <1>3, <2>3 DEF FrameOK
  <2>5. FromBodies(p, provided[p]) /\ provided[p] \in Arguments
    BY <1>1, <2>3 DEF ObjectInv, ProviderOK, Typed
  <2>6. /\ arguments \in Arguments /\ FromBodies(p, arguments) /\ Own(r, arguments)
        /\ (arguments = << >> /\ req[r].kind = "http") =>
             req[r].body \cap Is(p).fields = {}
    <3>1. CASE body = {}
      BY <1>4, <1>5, <2>5, <3>1 DEF Own
    <3>2. CASE body # {}
      BY <1>1, <1>5, <2>3, <2>5, <3>2, TakenOK
    <3>3. QED
      BY <3>1, <3>2
  <2>7. \A q \in Requests : pc[q] = "over" => pc'[q] = "over"
    BY <1>1, <1>7 DEF Typed
  <2>8. /\ stack' \in [Requests -> Seq(Frames)] /\ FrameInv'
        /\ \A q \in Requests : stack'[q] # <<>> => stack[q] # <<>>
    <3>1. CASE stack' = [stack EXCEPT ![r] = <<>>]
      BY <1>1, <2>2, <3>1, StackEmpties
    <3>2. CASE Become(r, Entered(r, p, arguments))
      <4>1. PICK f : f = Entered(r, p, arguments)
        OBVIOUS
      <4>2. f \in Frames /\ FrameOK(r, f)
        BY <1>1, <1>2, <1>3, <2>3, <2>4, <2>6, <4>1, EnteredOK
      <4>3. FrameOK(r, f)' /\ Become(r, f)
        BY <2>2, <3>2, <4>1, <4>2, FrameStays
      <4>4. QED
        BY <1>1, <1>2, <2>2, <4>2, <4>3, TopMoves
    <3>3. QED
      BY <1>7, <3>1, <3>2
  <2>9. GotInv'
    BY <1>1, <2>1, <2>2, <2>8, GotStays
  <2>10. /\ provided' \in [Providers -> Arguments] /\ provided'[p] = arguments
         /\ \A q \in Providers : q # p => provided'[q] = provided[q]
    BY <1>1, <1>7, <2>3, <2>6 DEF Typed
  <2>11. Typed'
    <3>1. pc' \in [Requests -> {"idle", "resolving", "over"}]
      BY <1>1, <1>7 DEF Typed
    <3>2. QED
      BY <1>1, <2>1, <2>8, <2>10, <3>1 DEF Typed, Keys, Key, Is
  <2>12. ObjectInv'
    <3>1. \A q \in Providers : ProviderOK(q)'
      BY <1>1, <2>1, <2>3, <2>4, <2>6, <2>10
         DEF ObjectInv, ProviderOK, FromBodies, Whole, Unwrapped, Is
    <3>2. \A k \in Keys : SharedOK(k)'
      BY <1>1, <2>1
         DEF ObjectInv, SharedOK, Whole, Unwrapped, IsShared, KeyOf, Key, Shared, Is
    <3>3. Keys' = Keys
      BY <2>1 DEF Keys, Key, Is
    <3>4. QED
      BY <3>1, <3>2, <3>3 DEF ObjectInv
  <2>13. MadeInv'
    BY <1>1, <2>1, <2>2, RecordStays DEF MadeInv
  <2>14. CloseInv'
    <3>1. \A n \in DOMAIN made : made[n] \in Records
      BY <1>1, ElementOfSeq, LenProperties DEF Typed
    <3>2. \A n \in DOMAIN made : made[n].by \in Requests
      BY <3>1 DEF Records
    <3>3. QED
      BY <1>1, <2>1, <2>7, <3>2 DEF CloseInv, Is
  <2>15. KeyInv'
    BY <1>1, <2>1, <2>2, KeyStays DEF KeyInv
  <2>16. QED
    BY <2>8, <2>9, <2>11, <2>12, <2>13, <2>14, <2>15 DEF IInv
<1>8. QED
  BY <1>3, <1>4, <1>5, <1>6, <1>7, Zenon DEF ReadData

LEMMA CollectKeeps ==
  ASSUME IInv, NEW r \in Requests, Collect(r)
  PROVE  IInv'
<1>1. Typed /\ FrameInv /\ GotInv /\ ObjectInv /\ MadeInv /\ CloseInv /\ KeyInv
  BY DEF IInv
<1>2. /\ UNCHANGED <<req, pc, stack, got, cached, provided, shared, made>>
      /\ pc[r] = "over"
      /\ closed' = closed \cup cleanups[r]
      /\ cleanups' = [cleanups EXCEPT ![r] = {}]
  BY DEF Collect, objects
<1>3. Grown
  BY <1>1, <1>2, UnchangedGrows
<1>4. Typed'
  <2>1. closed' \in SUBSET Nat /\ cleanups' \in [Requests -> SUBSET Nat]
    BY <1>1, <1>2 DEF Typed
  <2>2. QED
    BY <1>1, <1>2, <2>1 DEF Typed, Keys, Key, Is
<1>5. FrameInv' /\ GotInv'
  BY <1>1, <1>2, <1>3, StackStays, GotStays
<1>6. ObjectInv'
  BY <1>1, <1>2 DEF ObjectInv, ProviderOK, SharedOK, FromBodies, Whole, Unwrapped,
                    IsShared, KeyOf, Key, Keys, Shared, Is
<1>7. MadeInv' /\ KeyInv'
  BY <1>1, <1>2, <1>3, RecordStays, KeyStays DEF MadeInv, KeyInv
<1>8. CloseInv'
  BY <1>1, <1>2 DEF CloseInv, Is, Typed
<1>9. QED
  BY <1>4, <1>5, <1>6, <1>7, <1>8 DEF IInv

\* A factory has returned: the instance is as new as can be, its own request may
\* use it, and it is what the cache and the scope keep now.
LEMMA MadeKeeps ==
  ASSUME IInv, NEW r \in Requests, Made(r)
  PROVE  IInv'
<1>1. Typed /\ FrameInv /\ GotInv /\ ObjectInv /\ MadeInv /\ CloseInv /\ KeyInv
  BY DEF IInv
<1>2. pc[r] = "resolving" /\ stack[r] # <<>> /\ Top(r).at = "call"
  BY DEF Made, At
<1>3. PICK top : top = Top(r)
  OBVIOUS
<1>4. PICK p : p = top.provider
  OBVIOUS
<1>5. PICK n : n = Len(made) + 1
  OBVIOUS
<1>6. PICK raw : raw = [made |-> n,
                        form |-> IF Is(p).generator THEN "generator" ELSE "value"]
  OBVIOUS
<1> DEFINE unwrapped == Is(p).generator /\ (Is(p).pure \/ ~top.direct)
<1>7. PICK value : value = IF unwrapped THEN [raw EXCEPT !.form = "value"] ELSE raw
  OBVIOUS
<1>8. PICK m : m = [provider |-> p, by |-> r, values |-> top.values,
                    arguments |-> top.arguments, after |-> top.after]
  OBVIOUS
<1>9. /\ made' = Append(made, m)
      /\ cached' = IF Is(p).use_cache
                   THEN [cached EXCEPT ![p] = IF Is(p).pure THEN value ELSE raw]
                   ELSE cached
      /\ IF unwrapped THEN Register(r, n, p) ELSE UNCHANGED <<closed, cleanups>>
      /\ shared' = IF Shared(p) THEN [shared EXCEPT ![Key(p, r)] = value] ELSE shared
      /\ Give(r, value)
      /\ UNCHANGED <<req, pc, provided>>
  BY <1>3, <1>4, <1>5, <1>6, <1>7, <1>8, Zenon DEF Made
<1>10. /\ top \in Frames /\ p \in Providers /\ FrameOK(r, top)
       /\ m \in Records
  <2>1. stack[r] \in Seq(Frames)
    BY <1>1 DEF Typed
  <2>2. top \in Frames /\ top \in ToSet(stack[r])
    BY <1>2, <1>3, <2>1, StackParts DEF Top
  <2>3. FrameOK(r, top)
    BY <1>1, <2>2 DEF FrameInv
  <2>4. QED
    BY <1>4, <1>8, <2>2, <2>3 DEF Frames, Records
<1>11. /\ Grown /\ made' \in Seq(Records)
       /\ made'[n] = m /\ n \in DOMAIN made' /\ n \in Nat /\ n = Len(made')
       /\ DOMAIN made' = DOMAIN made \cup {n} /\ n \notin DOMAIN made
  <2>1. /\ Grown /\ made' \in Seq(Records) /\ made'[n] = m /\ Len(made') = n
    BY <1>1, <1>5, <1>9, <1>10, AppendGrows
  <2>2. QED
    BY <1>5, <2>1 DEF Grown
<1>12. /\ m.provider = p /\ m.by = r /\ m.values = top.values
       /\ m.arguments = top.arguments /\ m.after = top.after
  BY <1>8
<1>13. /\ raw \in Instances /\ raw.made = n
       /\ value \in Instances /\ value.made = n
       /\ value.form = "generator" => Is(p).generator /\ ~unwrapped
  <2>1. raw \in Instances /\ raw.made = n /\ (raw.form = "generator" => Is(p).generator)
    BY <1>6, <1>11 DEF Instances, Forms
  <2>2. CASE unwrapped
    <3>1. value = [raw EXCEPT !.form = "value"]
      BY <1>7, <2>2
    <3>2. QED
      BY <2>1, <3>1 DEF Instances, Forms
  <2>3. CASE ~unwrapped
    <3>1. value = raw
      BY <1>7, <2>3
    <3>2. QED
      BY <2>1, <2>3, <3>1
  <2>4. QED
    BY <2>1, <2>2, <2>3
<1>14. Whole(value)' /\ (Is(p).use_cache => Whole(raw)')
  <2>1. value.form = "generator" => Is(p).given \/ top.arguments # << >>
    BY <1>10, <1>13, <1>4 DEF FrameOK
  <2>2. Unwrapped(value)'
    BY <1>11, <1>12, <1>13, <2>1 DEF Unwrapped, Is
  <2>3. Is(p).use_cache => Unwrapped(raw)'
    BY <1>11, <1>12, <1>13 DEF Unwrapped, Is
  <2>4. QED
    BY <1>11, <1>13, <2>2, <2>3 DEF Whole
<1> HIDE DEF unwrapped
<1>15. Usable(r, value)'
  <2>1. MayUse(r, n)'
    BY <1>11, <1>12 DEF MayUse, Is
  <2>2. QED
    BY <1>13, <1>14, <2>1 DEF Usable
<1>16. /\ stack' \in [Requests -> Seq(Frames)]
       /\ got' \in [Requests -> Seq(Instances)]
       /\ FrameInv' /\ GotInv'
  BY <1>1, <1>2, <1>9, <1>11, <1>13, <1>15, GiveMoves
<1>17. /\ IsShared(n)' <=> Shared(p)
       /\ KeyOf(n)' = Key(p, r)
       /\ Key(p, r) \in Keys /\ Keys' = Keys
  BY <1>9, <1>10, <1>11, <1>12 DEF IsShared, KeyOf, Shared, Key, Is, Keys
<1>18. /\ cached' \in [Providers -> Kept]
       /\ \A q \in Providers :
            cached'[q] = cached[q] \/ (q = p /\ Is(p).use_cache /\ cached'[q] \in {value, raw})
  BY <1>1, <1>9, <1>10, <1>13 DEF Typed, Kept
<1>19. /\ shared' \in [Keys -> Kept]
       /\ Shared(p) => shared'[Key(p, r)] = value
       /\ \A k \in Keys : (Shared(p) /\ k = Key(p, r)) \/ shared'[k] = shared[k]
  BY <1>1, <1>9, <1>13, <1>17 DEF Typed, Kept
<1>20. /\ closed' \in SUBSET Nat /\ cleanups' \in [Requests -> SUBSET Nat]
       /\ \A q \in Requests : \A j \in cleanups'[q] :
            j \in cleanups[q] \/ (q = r /\ j = n)
       /\ \A j \in closed' : j \in closed \/ (j = n /\ Is(p).pure)
  <2>1. closed \in SUBSET Nat /\ cleanups \in [Requests -> SUBSET Nat]
    BY <1>1 DEF Typed
  <2>2. CASE closed' = closed \cup {n} /\ cleanups' = cleanups /\ Is(p).pure
    BY <1>11, <2>1, <2>2
  <2>3. CASE cleanups' = [cleanups EXCEPT ![r] = @ \cup {n}] /\ closed' = closed
    BY <1>11, <2>1, <2>3
  <2>4. CASE UNCHANGED <<closed, cleanups>>
    BY <2>1, <2>4
  <2>5. QED
    BY <1>9, <2>2, <2>3, <2>4 DEF Register
<1>21. Typed'
  BY <1>1, <1>9, <1>11, <1>16, <1>17, <1>18, <1>19, <1>20 DEF Typed
<1>22. ASSUME NEW q \in Providers PROVE ProviderOK(q)'
  <2>1. ProviderOK(q)
    BY <1>1 DEF ObjectInv
  <2>2. FromBodies(q, provided[q])' /\ (Is(q).pure => provided[q] = << >>)'
    BY <1>9, <2>1 DEF ProviderOK, FromBodies, Is
  <2>3. CASE cached'[q] = cached[q]
    <3>1. PICK v : v = cached[q]
      OBVIOUS
    <3>2. v # None => Is(q).use_cache /\ Whole(v) /\ made[v.made].provider = q
      BY <2>1, <3>1 DEF ProviderOK
    <3>3. v # None => Whole(v)' /\ made'[v.made].provider = q
      BY <1>11, <3>2, WholeStays DEF Whole, Grown
    <3>4. cached'[q] = v
      BY <2>3, <3>1
    <3>5. QED
      BY <2>2, <3>2, <3>3, <3>4 DEF ProviderOK, Is
  <2>4. CASE q = p /\ Is(p).use_cache /\ cached'[q] \in {value, raw}
    <3>1. PICK v : v = cached'[q]
      OBVIOUS
    <3>2. Whole(v)' /\ made'[v.made].provider = q
      BY <1>11, <1>12, <1>13, <1>14, <2>4, <3>1
    <3>3. QED
      BY <2>2, <2>4, <3>1, <3>2 DEF ProviderOK, Is
  <2>5. QED
    BY <1>18, <2>3, <2>4
<1>23. ASSUME NEW k \in Keys PROVE SharedOK(k)'
  <2>1. CASE Shared(p) /\ k = Key(p, r)
    <3>1. shared'[k] = value /\ value # None
      BY <1>13, <1>19, <2>1, NoneIsNone
    <3>2. Whole(value)' /\ IsShared(value.made)' /\ KeyOf(value.made)' = k
      BY <1>13, <1>14, <1>17, <2>1
    <3>3. QED
      BY <3>1, <3>2 DEF SharedOK
  <2>2. CASE ~(Shared(p) /\ k = Key(p, r))
    <3>1. PICK v : v = shared[k]
      OBVIOUS
    <3>2. shared'[k] = v
      BY <1>19, <2>2, <3>1
    <3>3. SharedOK(k)
      BY <1>1 DEF ObjectInv
    <3>4. CASE v = None
      <4>1. \A j \in DOMAIN made : IsShared(j) => KeyOf(j) # k
        BY <3>1, <3>3, <3>4 DEF SharedOK
      <4>2. \A j \in DOMAIN made' : IsShared(j)' => KeyOf(j)' # k
        BY <1>11, <1>17, <2>2, <4>1, KeyStays
      <4>3. QED
        BY <3>2, <3>4, <4>2 DEF SharedOK
    <3>5. CASE v # None
      <4>1. Whole(v) /\ IsShared(v.made) /\ KeyOf(v.made) = k
        BY <3>1, <3>3, <3>5 DEF SharedOK
      <4>2. Whole(v)' /\ IsShared(v.made)' /\ KeyOf(v.made)' = k
        BY <1>11, <4>1, WholeStays, KeyStays DEF Whole
      <4>3. QED
        BY <3>2, <3>5, <4>2 DEF SharedOK
    <3>6. QED
      BY <3>4, <3>5
  <2>3. QED
    BY <2>1, <2>2
<1>24. ObjectInv'
  BY <1>17, <1>22, <1>23 DEF ObjectInv
<1>25. MadeInv'
  <2>1. \A j \in DOMAIN made : RecordOK(j)'
    BY <1>1, <1>11, RecordStays DEF MadeInv
  <2>2. \A u \in ToSet(top.values) : Usable(r, u)'
    <3>1. \A u \in ToSet(top.values) : Usable(r, u)
      BY <1>10 DEF FrameOK
    <3>2. QED
      BY <1>11, <3>1, UsableStays
  <2>3. FromBodies(p, top.arguments)' /\ Own(r, top.arguments)'
    BY <1>2, <1>3, <1>4, <1>9, <1>10 DEF FrameOK, FromBodies, Own, Is
  <2>4. top.after < n
    <3>1. top.after \in Nat /\ top.after <= Len(made) /\ Len(made) \in Nat
      BY <1>10, <1>11 DEF FrameOK, Frames, Grown
    <3>2. QED
      BY <1>5, <3>1
  <2>5. RecordOK(n)'
    BY <1>11, <1>12, <2>2, <2>3, <2>4 DEF RecordOK
  <2>6. QED
    BY <1>11, <2>1, <2>5 DEF MadeInv
<1>26. CloseInv'
  <2>1. ASSUME NEW q \in Requests, NEW j \in cleanups'[q]
        PROVE  j \in DOMAIN made' /\ made'[j].by = q
    <3>1. CASE j \in cleanups[q]
      BY <1>1, <1>11, <3>1 DEF CloseInv, Grown
    <3>2. CASE q = r /\ j = n
      BY <1>11, <1>12, <3>2
    <3>3. QED
      BY <1>20, <3>1, <3>2
  <2>2. ASSUME NEW j \in closed'
        PROVE  /\ j \in DOMAIN made'
               /\ pc'[made'[j].by] = "over" \/ Is(made'[j].provider).pure
    <3>1. CASE j \in closed
      BY <1>1, <1>9, <1>11, <3>1 DEF CloseInv, Grown
    <3>2. CASE j = n /\ Is(p).pure
      BY <1>11, <1>12, <3>2
    <3>3. QED
      BY <1>20, <3>1, <3>2
  <2>3. QED
    BY <2>1, <2>2 DEF CloseInv, Is
<1>27. KeyInv'
  <2>1. SUFFICES ASSUME NEW i \in DOMAIN made', NEW j \in DOMAIN made', i # j,
                        IsShared(i)', IsShared(j)', KeyOf(i)' = KeyOf(j)'
                 PROVE  i > made'[j].after
    BY DEF KeyInv
  <2>2. CASE i \in DOMAIN made /\ j \in DOMAIN made
    BY <1>1, <1>11, <2>1, <2>2, KeyStays DEF KeyInv
  <2>3. CASE i = n /\ j \in DOMAIN made
    <3>1. made'[j] = made[j] /\ made[j].after < j /\ j \in 1 .. Len(made)
      BY <1>1, <1>11, <2>3 DEF Grown, MadeInv, RecordOK
    <3>2. made[j].after \in Nat
      <4>1. made \in Seq(Records)
        BY <1>1 DEF Typed
      <4>2. made[j] \in Records
        BY <2>3, <4>1, ElementOfSeq, LenProperties
      <4>3. QED
        BY <4>2 DEF Records
    <3>3. Len(made) \in Nat
      BY <1>11 DEF Grown
    <3>4. QED
      BY <1>5, <2>3, <3>1, <3>2, <3>3
  <2>4. CASE j = n /\ i \in DOMAIN made
    <3>1. Shared(p) /\ IsShared(i) /\ KeyOf(i) = Key(p, r)
      BY <1>11, <1>17, <2>1, <2>4, KeyStays
    <3>2. Fresh(r, p, top.after)
      BY <1>2, <1>3, <1>4, <1>10 DEF FrameOK
    <3>3. i > top.after
      BY <2>4, <3>1, <3>2 DEF Fresh
    <3>4. QED
      BY <1>11, <1>12, <2>4, <3>3
  <2>5. QED
    BY <1>11, <2>1, <2>2, <2>3, <2>4
<1>28. QED
  BY <1>16, <1>21, <1>24, <1>25, <1>26, <1>27 DEF IInv

LEMMA NextKeeps == IInv /\ [Next]_vars => IInv'
<1> SUFFICES ASSUME IInv, [Next]_vars PROVE IInv'
  OBVIOUS
<1>1. ASSUME NEW r \in Requests,
             \/ Begin(r) \/ Want(r) \/ Missing(r) \/ Found(r) \/ Enter(r) \/ ReadData(r)
             \/ Nested(r) \/ Call(r) \/ Raise(r) \/ Made(r) \/ Finish(r) \/ Collect(r)
      PROVE  IInv'
  <2>1. CASE Begin(r) \/ Finish(r)
    BY <2>1, StartAndFinishKeep
  <2>2. CASE Missing(r) \/ Raise(r)
    <3>1. Fail(r) /\ pc[r] # "over"
      BY <2>2 DEF Missing, Raise, At
    <3>2. QED
      BY <3>1, FailKeeps
  <2>3. CASE Want(r)
    BY <2>3, WantKeeps
  <2>4. CASE Found(r)
    BY <2>4, FoundKeeps
  <2>5. CASE Enter(r)
    BY <2>5, EnterKeeps
  <2>6. CASE ReadData(r)
    BY <2>6, ReadDataKeeps
  <2>7. CASE Nested(r)
    BY <2>7, NestedKeeps
  <2>8. CASE Call(r)
    BY <2>8, CallKeeps
  <2>9. CASE Made(r)
    BY <2>9, MadeKeeps
  <2>10. CASE Collect(r)
    BY <2>10, CollectKeeps
  <2>11. QED
    BY <1>1, <2>1, <2>2, <2>3, <2>4, <2>5, <2>6, <2>7, <2>8, <2>9, <2>10
<1>2. CASE UNCHANGED vars
  <2>1. Typed /\ FrameInv /\ GotInv
    BY DEF IInv
  <2>2. Quiet /\ UNCHANGED <<stack, got>>
    BY <1>2, <2>1 DEF Quiet, vars, request, Typed
  <2>3. Grown
    BY <2>2, QuietKeeps
  <2>4. FrameInv' /\ GotInv'
    BY <2>1, <2>2, <2>3, StackStays, GotStays
  <2>5. QED
    BY <2>1, <2>2, <2>4, QuietSteps DEF Typed
<1>3. QED
  BY <1>1, <1>2 DEF Next

LEMMA SpecIInv == Spec => []IInv
<1>1. QED
  BY InitIInv, NextKeeps, PTL DEF Spec

-----------------------------------------------------------------------------
(* The theorems.                                                            *)

LEMMA SeqOfMembers ==
  ASSUME NEW S, NEW s \in Seq(S), NEW T, ToSet(s) \subseteq T
  PROVE  s \in Seq(T)
<1>1. Len(s) \in Nat /\ s \in [1 .. Len(s) -> S]
  BY LenProperties
<1>2. \A i \in 1 .. Len(s) : s[i] \in T
  BY <1>1 DEF ToSet
<1>3. s \in [1 .. Len(s) -> T]
  BY <1>1, <1>2
<1>4. QED
  BY <1>1, <1>3, SeqDef

LEMMA UsableIsValue ==
  ASSUME Typed, NEW r, NEW v \in Instances, Whole(v)
  PROVE  v \in Values
<1>1. made \in Seq(Records)
  BY DEF Typed
<1>2. v.made \in 1 .. Len(made)
  BY <1>1, LenProperties DEF Whole
<1>3. QED
  BY <1>2 DEF Values, Instances, Forms

\* The state has the shape that is given, in every state: no connection holds,
\* caches or shares an instance that was not made (dependencies.py:119, resolve).
THEOREM TypeCorrect == Spec => []TypeOK
<1>1. IInv => TypeOK
  <2> SUFFICES ASSUME IInv PROVE TypeOK
    OBVIOUS
  <2>1. Typed /\ FrameInv /\ GotInv /\ ObjectInv /\ MadeInv /\ CloseInv
    BY DEF IInv
  <2>2. \A r \in Requests :
          got[r] \in Seq(Instances) /\ stack[r] \in Seq(Frames) /\ cleanups[r] \subseteq Nat
    BY <2>1 DEF Typed
  <2>3. made \in Seq(Records) /\ Len(made) \in Nat /\ DOMAIN made = 1 .. Len(made)
    BY <2>1, LenProperties DEF Typed
  <2>4. ASSUME NEW r \in Requests
        PROVE  /\ got[r] \in Seq(Values) /\ Len(got[r]) <= Len(req[r].wants)
               /\ cleanups[r] \subseteq DOMAIN made
    <3>1. \A v \in ToSet(got[r]) : v \in Instances /\ Whole(v)
      BY <2>1, <2>2, Members DEF GotInv, Usable
    <3>2. ToSet(got[r]) \subseteq Values
      BY <2>1, <3>1, UsableIsValue
    <3>3. got[r] \in Seq(Values)
      BY <2>2, <3>2, SeqOfMembers
    <3>4. QED
      BY <2>1, <3>3 DEF GotInv, CloseInv
  <2>5. ASSUME NEW r \in Requests, NEW i \in DOMAIN stack[r]
        PROVE  /\ stack[r][i].provider \in Providers
               /\ stack[r][i].at \in {"enter", "data", "nested", "call"}
               /\ stack[r][i].values \in Seq(Values)
               /\ stack[r][i].arguments \in Arguments
               /\ stack[r][i].direct \in BOOLEAN
               /\ stack[r][i].after \in 0 .. Len(made)
    <3>1. PICK f : f = stack[r][i]
      OBVIOUS
    <3>2. f \in Frames /\ FrameOK(r, f)
      <4>1. f \in ToSet(stack[r])
        BY <3>1 DEF ToSet
      <4>2. QED
        BY <2>1, <2>2, <4>1, Members DEF FrameInv
    <3>3. f.values \in Seq(Instances)
      BY <3>2 DEF Frames
    <3>4. \A v \in ToSet(f.values) : v \in Instances /\ Whole(v)
      BY <3>2, <3>3, Members DEF FrameOK, Usable
    <3>5. f.values \in Seq(Values)
      BY <2>1, <3>3, <3>4, UsableIsValue, SeqOfMembers
    <3>6. f.after \in 0 .. Len(made)
      BY <2>3, <3>2 DEF Frames, FrameOK
    <3>7. QED
      BY <3>1, <3>2, <3>5, <3>6 DEF Frames, Places
  <2>6. ASSUME NEW p \in Providers
        PROVE  /\ cached[p] \in Values \cup {None}
               /\ provided[p] \in Arguments
               /\ DOMAIN provided[p] \subseteq Is(p).fields
    <3>1. cached[p] \in Kept /\ provided[p] \in Arguments /\ ProviderOK(p)
      BY <2>1 DEF Typed, ObjectInv
    <3>2. cached[p] # None => cached[p] \in Values
      BY <2>1, <3>1, UsableIsValue DEF Kept, ProviderOK
    <3>3. QED
      BY <3>1, <3>2 DEF ProviderOK, FromBodies
  <2>7. ASSUME NEW k \in DOMAIN shared
        PROVE  shared[k] \in Values \cup {None}
    <3>1. k \in Keys /\ shared[k] \in Kept
      BY <2>1 DEF Typed
    <3>2. SharedOK(k)
      BY <2>1, <3>1 DEF ObjectInv
    <3>3. shared[k] # None => shared[k] \in Values
      BY <2>1, <3>1, <3>2, UsableIsValue DEF Kept, SharedOK
    <3>4. QED
      BY <3>3
  <2>8. closed \subseteq DOMAIN made
    BY <2>1 DEF CloseInv
  <2>9. QED
    BY <2>1, <2>4, <2>5, <2>6, <2>7, <2>8 DEF TypeOK, Typed
<1>2. QED
  BY <1>1, SpecIInv, PTL

\* An application has one instance of a factory of scope APP and the process one
\* of scope GLOBAL, but for calls that were under way when the first returned,
\* whatever requests resolve whatever providers (_scopes.py:67).
THEOREM InstancesAreShared == Spec => []SharedOnce
<1>1. IInv => SharedOnce
  <2> SUFFICES ASSUME IInv, NEW i \in DOMAIN made, NEW j \in DOMAIN made, i # j,
                      Is(made[i].provider).scope # "request",
                      Is(made[i].provider).scope = Is(made[j].provider).scope,
                      Is(made[i].provider).factory = Is(made[j].provider).factory,
                      Is(made[i].provider).scope = "app" =>
                        /\ Is(made[i].provider).pure = Is(made[j].provider).pure
                        /\ \/ Is(made[i].provider).pure
                           \/ req[made[i].by].app = req[made[j].by].app
               PROVE  i > made[j].after
    BY DEF SharedOnce
  <2>1. KeyOf(i) = KeyOf(j)
    BY DEF KeyOf, Key
  <2>2. IsShared(i) /\ IsShared(j)
    <3>1. made \in Seq(Records)
      BY DEF IInv, Typed
    <3>2. made[i] \in Records /\ made[j] \in Records
      BY <3>1, ElementOfSeq, LenProperties
    <3>3. made[i].provider \in Providers /\ made[j].provider \in Providers
      BY <3>2 DEF Records
    <3>4. QED
      BY <3>3, ProviderParts DEF IsShared, Shared
  <2>3. QED
    BY <2>1, <2>2 DEF IInv, KeyInv
<1>2. QED
  BY <1>1, SpecIInv, PTL

\* No request is given an instance of another request or application, directly or
\* as a part of one of its own, that was not meant to be shared or cached
\* (dependencies.py:181).
THEOREM RequestsAreApart == Spec => []Isolation
<1>1. IInv => Isolation
  <2> SUFFICES ASSUME IInv, NEW r \in Requests, NEW n \in DOMAIN made,
                      NEW form \in {"value", "generator"},
                      Uses([made |-> n, form |-> form], r)
               PROVE  MayUse(r, n)
    BY DEF Isolation, MayUse
  <2>1. PICK v : v = [made |-> n, form |-> form]
    OBVIOUS
  <2>2. v.made = n
    BY <2>1
  <2>3. CASE \E i \in DOMAIN got[r] : got[r][i] = v
    <3>1. v \in ToSet(got[r])
      BY <2>3 DEF ToSet
    <3>2. QED
      BY <2>2, <3>1 DEF IInv, GotInv, Usable
  <2>4. CASE \E j \in DOMAIN made : made[j].by = r /\ v \in ToSet(made[j].values)
    BY <2>2, <2>4 DEF IInv, MadeInv, RecordOK, Usable
  <2>5. QED
    BY <2>1, <2>3, <2>4 DEF Uses
<1>2. QED
  BY <1>1, SpecIInv, PTL

\* A factory is given its own request's value for a key that the request's body
\* has, though the arguments are kept in the provider (dependencies.py:205).
THEOREM BodiesAreOwn == Spec => []OwnBody
<1>1. IInv => OwnBody
  BY DEF IInv, MadeInv, RecordOK, FromBodies, Own, OwnBody
<1>2. QED
  BY <1>1, SpecIInv, PTL

\* No generator is closed while the handler it was made for may use what it
\* yielded, and a handler is given no generator but for the stated reasons
\* (dependencies.py:324).
THEOREM OpenUntilOver == Spec => []OpenWhileUsed
<1>1. IInv => OpenWhileUsed
  <2> SUFFICES ASSUME IInv PROVE OpenWhileUsed
    OBVIOUS
  <2>1. \A n \in closed : pc[made[n].by] = "over" \/ Is(made[n].provider).pure
    BY DEF IInv, CloseInv
  <2>2. ASSUME NEW r \in Requests, NEW i \in DOMAIN got[r]
        PROVE  Unwrapped(got[r][i])
    <3>1. got[r][i] \in ToSet(got[r])
      BY DEF ToSet
    <3>2. QED
      BY <3>1 DEF IInv, GotInv, Usable, Whole
  <2>3. QED
    BY <2>1, <2>2 DEF OpenWhileUsed, Unwrapped
<1>2. QED
  BY <1>1, SpecIInv, PTL

=============================================================================
