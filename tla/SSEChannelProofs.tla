-------------------------- MODULE SSEChannelProofs --------------------------
(***************************************************************************)
(* SameOrder and ReturnedReachedAll hold for any number of listeners,      *)
(* tasks and broadcasts.  The lock is what both rest on: the task that     *)
(* sends is its owner, and its message is the last one that was numbered.  *)
(***************************************************************************)
EXTENDS SSEChannel, SequenceTheorems, TLAPS

Sending == {"sending", "blocked", "broken"}

\* One task at a time broadcasts; the tasks in the queue wait, each once.
LockInv ==
  /\ \A b \in Broadcasters : broadcaster[b] \in Sending \cup {"owning"} <=> owner = b
  /\ owner = None => waiters = <<>>
  /\ \A i \in DOMAIN waiters : broadcaster[waiters[i]] = "queued"
  /\ \A i, j \in DOMAIN waiters : i # j => waiters[i] # waiters[j]

\* A task sends the newest message, to listeners that do not have it.
SendInv ==
  /\ \A b \in Broadcasters :
       /\ broadcaster[b] \in Sending => item[b] = Len(fate) /\ item[b] > 0
       /\ broadcaster[b] \notin Sending => todo[b] = {}
       /\ blocked[b] \subseteq todo[b]
       /\ \A k, l \in blocked[b] : k = l
       /\ \A l \in todo[b] : \A i \in DOMAIN got[l] : got[l][i] < item[b]
  /\ \A l \in Listeners : \A i \in DOMAIN got[l] : got[l][i] <= Len(fate)

Live(l) == listener[l] \in {"busy", "waiting"}
Has(l, n) == \E i \in DOMAIN got[l] : got[l][i] = n

\* A listener that was there before the message being sent has it, unless the
\* task has yet to come to it.
ReachInv ==
  /\ \A l \in Listeners : /\ Live(l) => l \in subscribers
                          /\ joined[l] <= Len(fate)
  /\ \A b \in Broadcasters :
       /\ \A l \in dead[b] : listener[l] = "closed"
       /\ broadcaster[b] \in Sending =>
            \A l \in Listeners :
              Live(l) /\ joined[l] < item[b] /\ l \notin todo[b] => Has(l, item[b])

IInv == TypeOK /\ LockInv /\ SendInv /\ SameOrder /\ ReachInv /\ ReturnedReachedAll

LEMMA InitInv == Init => IInv
BY SSEAssumption
DEF Init, IInv, TypeOK, ListenerStates, TaskStates, Fates, LockInv, SendInv,
    Sending, SameOrder, ReachInv, Live, ReturnedReachedAll

-----------------------------------------------------------------------------
(* The type of the state, and the lock.                                     *)

LEMMA RemoveAtFacts ==
  ASSUME NEW S, NEW s \in Seq(S), NEW k \in DOMAIN s
  PROVE  /\ RemoveAt(s, k) \in Seq(S)
         /\ Len(RemoveAt(s, k)) = Len(s) - 1
         /\ \A i \in 1 .. Len(s) - 1 :
              /\ i < k => RemoveAt(s, k)[i] = s[i]
              /\ i >= k => RemoveAt(s, k)[i] = s[i + 1]
<1>1. k \in 1 .. Len(s) /\ Len(s) \in Nat
  BY LenProperties
<1> DEFINE front == SubSeq(s, 1, k - 1)
           back == SubSeq(s, k + 1, Len(s))
<1>2. /\ front \in Seq(S) /\ Len(front) = k - 1
      /\ \A i \in 1 .. k - 1 : front[i] = s[i]
  <2>1. \A i \in 1 .. k - 1 : s[i] \in S
    BY <1>1, ElementOfSeq
  <2>2. QED
    BY <1>1, <2>1, SubSeqProperties
<1>3. /\ back \in Seq(S) /\ Len(back) = Len(s) - k
      /\ \A i \in 1 .. Len(s) - k : back[i] = s[k + i]
  <2>1. \A i \in k + 1 .. Len(s) : s[i] \in S
    BY <1>1, ElementOfSeq
  <2>2. QED
    BY <1>1, <2>1, SubSeqProperties
<1> HIDE DEF front, back
<1>4. /\ front \o back \in Seq(S) /\ Len(front \o back) = Len(s) - 1
      /\ \A i \in 1 .. Len(s) - 1 :
           (front \o back)[i] = IF i <= k - 1 THEN front[i] ELSE back[i - (k - 1)]
  <2>1. Len(front) + Len(back) = Len(s) - 1
    BY <1>1, <1>2, <1>3
  <2>2. /\ front \o back \in Seq(S)
        /\ Len(front \o back) = Len(front) + Len(back)
        /\ \A i \in 1 .. Len(front) + Len(back) :
             (front \o back)[i] =
               IF i <= Len(front) THEN front[i] ELSE back[i - Len(front)]
    <3>1. front \in Seq(S) /\ back \in Seq(S)
      BY <1>2, <1>3
    <3>2. QED
      BY <3>1, ConcatProperties
  <2>3. QED
    BY <1>2, <2>1, <2>2
<1>5. ASSUME NEW i \in 1 .. Len(s) - 1
      PROVE  /\ i < k => (front \o back)[i] = s[i]
             /\ i >= k => (front \o back)[i] = s[i + 1]
  <2>1. CASE i <= k - 1
    <3>1. i \in 1 .. k - 1 /\ i < k /\ ~(i >= k)
      BY <1>1, <2>1
    <3>2. QED
      BY <1>2, <1>4, <2>1, <3>1
  <2>2. CASE i > k - 1
    <3>1. i - (k - 1) \in 1 .. Len(s) - k /\ k + (i - (k - 1)) = i + 1
      BY <1>1, <2>2
    <3>2. back[i - (k - 1)] = s[i + 1]
      BY <1>3, <3>1
    <3>3. (front \o back)[i] = back[i - (k - 1)]
      BY <1>1, <1>4, <2>2
    <3>4. i >= k /\ ~(i < k)
      BY <1>1, <2>2
    <3>5. QED
      BY <3>2, <3>3, <3>4
  <2>3. i <= k - 1 \/ i > k - 1
    BY <1>1
  <2>4. QED
    BY <2>1, <2>2, <2>3, Zenon
<1>6. RemoveAt(s, k) = front \o back
  BY DEF RemoveAt, front, back
<1>7. QED
  BY <1>4, <1>5, <1>6

\* The owner gives up the lock.
LEMMA ReleaseFacts ==
  ASSUME TypeOK, LockInv, NEW b \in Broadcasters, owner = b, Release(b)
  PROVE  /\ owner' \in Broadcasters \cup {None}
         /\ waiters' \in Seq(Broadcasters)
         /\ broadcaster' \in [Broadcasters -> TaskStates]
         /\ broadcaster'[b] = "idle"
         /\ \A c \in Broadcasters \ {b} :
              \/ broadcaster'[c] = broadcaster[c]
              \/ broadcaster[c] = "queued" /\ broadcaster'[c] = "owning"
         /\ LockInv'
<1>1. CASE waiters = <<>>
  <2>1. /\ owner' = None /\ waiters' = <<>>
        /\ broadcaster' = [broadcaster EXCEPT ![b] = "idle"]
    BY <1>1 DEF Release
  <2>2. broadcaster' \in [Broadcasters -> TaskStates]
    BY <2>1 DEF TypeOK, TaskStates
  <2>3. \A c \in Broadcasters :
          broadcaster'[c] \in Sending \cup {"owning"} <=> owner' = c
    <3> SUFFICES ASSUME NEW c \in Broadcasters
                 PROVE  broadcaster'[c] \notin Sending \cup {"owning"} /\ owner' # c
      OBVIOUS
    <3>1. broadcaster'[c] = IF c = b THEN "idle" ELSE broadcaster[c]
      BY <2>1 DEF TypeOK
    <3>2. broadcaster[c] \in Sending \cup {"owning"} => c = b
      BY DEF LockInv
    <3>3. QED
      BY <2>1, <3>1, <3>2, SSEAssumption DEF Sending
  <2>4. LockInv'
    <3>1. DOMAIN waiters' = {}
      BY <2>1
    <3>2. QED
      BY <2>1, <2>3, <3>1 DEF LockInv
  <2>5. QED
    BY <2>1, <2>2, <2>4 DEF TypeOK
<1>2. CASE waiters # <<>>
  <2>1. /\ Head(waiters) = waiters[1] /\ 1 \in DOMAIN waiters
        /\ Head(waiters) \in Broadcasters /\ broadcaster[Head(waiters)] = "queued"
        /\ Head(waiters) # b
    BY <1>2 DEF TypeOK, LockInv, Sending
  <2>2. /\ Tail(waiters) \in Seq(Broadcasters)
        /\ \A i \in DOMAIN Tail(waiters) :
             i + 1 \in DOMAIN waiters /\ Tail(waiters)[i] = waiters[i + 1]
    BY <1>2, HeadTailProperties, LenProperties DEF TypeOK
  <2>3. broadcaster' \in [Broadcasters -> TaskStates]
    BY <1>2, <2>1 DEF Release, TypeOK, TaskStates
  <2>4. \A i \in DOMAIN waiters' : broadcaster'[waiters'[i]] = "queued"
    <3> SUFFICES ASSUME NEW i \in DOMAIN waiters'
                 PROVE  broadcaster'[waiters'[i]] = "queued"
      OBVIOUS
    <3>1. /\ i \in DOMAIN Tail(waiters) /\ i + 1 \in DOMAIN waiters
          /\ waiters'[i] = waiters[i + 1] /\ i + 1 # 1
      BY <1>2, <2>2 DEF Release
    <3>2. waiters[i + 1] # Head(waiters) /\ broadcaster[waiters[i + 1]] = "queued"
      BY <2>1, <3>1 DEF LockInv
    <3>3. waiters[i + 1] \in Broadcasters /\ waiters[i + 1] # b
      BY <3>1, <3>2 DEF TypeOK, LockInv, Sending
    <3>4. QED
      BY <1>2, <3>1, <3>2, <3>3 DEF Release
  <2>5. \A i, j \in DOMAIN waiters' : i # j => waiters'[i] # waiters'[j]
    BY <1>2, <2>2 DEF Release, LockInv
  <2>6. ASSUME NEW c \in Broadcasters
        PROVE  broadcaster'[c] \in Sending \cup {"owning"} <=> owner' = c
    <3>1. /\ broadcaster'[c] = IF c = b THEN "idle"
                              ELSE IF c = Head(waiters) THEN "owning"
                              ELSE broadcaster[c]
          /\ owner' = Head(waiters)
      BY <1>2 DEF Release
    <3>2. broadcaster[c] \in Sending \cup {"owning"} => c = b
      BY DEF LockInv
    <3>3. QED
      BY <2>1, <3>1, <3>2 DEF Sending
  <2>7. owner' # None
    BY <1>2, <2>1, SSEAssumption DEF Release
  <2>8. LockInv'
    BY <2>4, <2>5, <2>6, <2>7 DEF LockInv
  <2>9. QED
    BY <1>2, <2>1, <2>2, <2>3, <2>8 DEF Release
<1>3. QED
  BY <1>1, <1>2

\* The same with the rest of the type.
LEMMA ReleaseType ==
  ASSUME TypeOK, LockInv, NEW b \in Broadcasters, owner = b, Release(b),
         UNCHANGED <<listener, got, joined>>,
         subscribers' \subseteq Listeners, fate' \in Seq(Fates)
  PROVE  TypeOK' /\ LockInv'
<1>1. /\ todo' \in [Broadcasters -> SUBSET Listeners]
      /\ dead' \in [Broadcasters -> SUBSET Listeners]
      /\ blocked' \in [Broadcasters -> SUBSET Listeners]
      /\ item' \in [Broadcasters -> Nat]
  BY DEF Release, TypeOK
<1>2. \A c \in Broadcasters : broadcaster'[c] = "blocked" <=> blocked'[c] # {}
  BY ReleaseFacts DEF Release, TypeOK
<1>3. QED
  BY <1>1, <1>2, ReleaseFacts DEF TypeOK

\* A listener gets one more message.
LEMMA GiveFacts ==
  ASSUME TypeOK, NEW l \in Listeners, NEW n \in Nat, Give(l, n)
  PROVE  /\ got' \in [Listeners -> Seq(Nat)]
         /\ \A k \in Listeners \ {l} : got'[k] = got[k]
         /\ Len(got'[l]) = Len(got[l]) + 1
         /\ DOMAIN got[l] = 1 .. Len(got[l]) /\ Len(got[l]) \in Nat
         /\ DOMAIN got'[l] = 1 .. Len(got[l]) + 1
         /\ \A i \in 1 .. Len(got[l]) : got'[l][i] = got[l][i]
         /\ got'[l][Len(got[l]) + 1] = n
<1>1. got[l] \in Seq(Nat) /\ Append(got[l], n) \in Seq(Nat)
  BY AppendProperties DEF TypeOK
<1>2. got' = [got EXCEPT ![l] = Append(got[l], n)]
  BY DEF Give
<1>3. got'[l] = Append(got[l], n) /\ \A k \in Listeners \ {l} : got'[k] = got[k]
  BY <1>2 DEF TypeOK
<1>4. got' \in [Listeners -> Seq(Nat)]
  BY <1>1, <1>2 DEF TypeOK
<1>5. QED
  BY <1>1, <1>3, <1>4, AppendProperties, LenProperties

LEMMA LockStep == TypeOK /\ LockInv /\ SendInv /\ [Next]_vars => TypeOK' /\ LockInv'
<1> SUFFICES ASSUME TypeOK, LockInv, SendInv, [Next]_vars
             PROVE  TypeOK' /\ LockInv'
  OBVIOUS
<1> USE DEF listenerVars, lockVars, taskVars
<1>1. CASE UNCHANGED vars \/ Done
  BY <1>1 DEF Done, vars, TypeOK, LockInv
<1>2. ASSUME NEW l \in Listeners,
             Listen(l) \/ Wait(l) \/ Interrupt(l) \/ Unsubscribe(l)
      PROVE  TypeOK' /\ LockInv'
  <2>1. /\ subscribers' \subseteq Listeners
        /\ listener' \in [Listeners -> ListenerStates]
    BY <1>2 DEF Listen, Wait, Interrupt, Unsubscribe, TypeOK, ListenerStates
  <2>2. joined' \in [Listeners -> Nat]
    <3>1. Len(fate) \in Nat
      BY LenProperties DEF TypeOK
    <3>2. QED
      BY <1>2, <3>1 DEF Listen, Wait, Interrupt, Unsubscribe, TypeOK
  <2>3. UNCHANGED <<got, lockVars, taskVars, fate>>
    BY <1>2 DEF Listen, Wait, Interrupt, Unsubscribe
  <2>4. QED
    BY <2>1, <2>2, <2>3 DEF TypeOK, LockInv
<1>3. ASSUME NEW l \in Listeners, Leave(l)
      PROVE  TypeOK' /\ LockInv'
  <2>1. \A b \in Broadcasters : blocked[b] # {} => broadcaster[b] = "blocked"
    BY DEF TypeOK
  <2>2. \A b \in Broadcasters : l \in blocked[b] => blocked[b] = {l}
    BY DEF SendInv
  <2>3. /\ broadcaster' \in [Broadcasters -> TaskStates]
        /\ blocked' \in [Broadcasters -> SUBSET Listeners]
        /\ listener' \in [Listeners -> ListenerStates]
    BY <1>3 DEF Leave, TypeOK, TaskStates, ListenerStates
  <2>4. ASSUME NEW b \in Broadcasters
        PROVE  /\ broadcaster'[b] = "blocked" <=> blocked'[b] # {}
               /\ broadcaster'[b] \in Sending <=> broadcaster[b] \in Sending
               /\ broadcaster'[b] \notin Sending => broadcaster'[b] = broadcaster[b]
    BY <1>3, <2>1, <2>2 DEF Leave, TypeOK, Sending
  <2>5. \A b \in Broadcasters :
          broadcaster'[b] \in Sending \cup {"owning"} <=> owner' = b
    BY <1>3, <2>4 DEF Leave, LockInv, Sending
  <2>6. \A i \in DOMAIN waiters' : broadcaster'[waiters'[i]] = "queued"
    <3>1. \A i \in DOMAIN waiters : waiters[i] \in Broadcasters
      BY DEF TypeOK
    <3>2. QED
      BY <1>3, <2>4, <3>1 DEF Leave, LockInv, Sending
  <2>7. LockInv'
    BY <1>3, <2>5, <2>6 DEF Leave, LockInv
  <2>8. QED
    BY <1>3, <2>3, <2>4, <2>7 DEF Leave, TypeOK
<1>4. ASSUME NEW l \in Listeners, NEW b \in Broadcasters, Take(l, b)
      PROVE  TypeOK' /\ LockInv'
  <2>1. broadcaster[b] = "blocked" /\ item[b] \in Nat
    BY <1>4 DEF Take, TypeOK
  <2>2. got' \in [Listeners -> Seq(Nat)]
    BY <1>4, <2>1, GiveFacts DEF Take
  <2>3. /\ broadcaster' \in [Broadcasters -> TaskStates]
        /\ todo' \in [Broadcasters -> SUBSET Listeners]
        /\ blocked' \in [Broadcasters -> SUBSET Listeners]
        /\ \A c \in Broadcasters : broadcaster'[c] = "blocked" <=> blocked'[c] # {}
    BY <1>4, <2>1 DEF Take, TypeOK, TaskStates
  <2>4. LockInv'
    BY <1>4, <2>1 DEF Take, TypeOK, LockInv, Sending
  <2>5. QED
    BY <1>4, <2>2, <2>3, <2>4 DEF Take, TypeOK
<1>5. ASSUME NEW l \in Listeners, NEW b \in Broadcasters, Send(b, l)
      PROVE  TypeOK' /\ LockInv'
  <2>1. got' \in [Listeners -> Seq(Nat)]
    BY <1>5, GiveFacts DEF Send, TypeOK
  <2>2. /\ listener' \in [Listeners -> ListenerStates]
        /\ todo' \in [Broadcasters -> SUBSET Listeners]
    BY <1>5 DEF Send, TypeOK, ListenerStates
  <2>3. QED
    BY <1>5, <2>1, <2>2 DEF Send, TypeOK, LockInv
<1>6. ASSUME NEW l \in Listeners, NEW b \in Broadcasters,
             Block(b, l) \/ FindClosed(b, l)
      PROVE  TypeOK' /\ LockInv'
  <2>1. CASE Block(b, l)
    BY <2>1 DEF Block, TypeOK, TaskStates, LockInv, Sending
  <2>2. CASE FindClosed(b, l)
    BY <2>2 DEF FindClosed, TypeOK, LockInv
  <2>3. QED
    BY <1>6, <2>1, <2>2
<1>7. ASSUME NEW b \in Broadcasters, Broadcast(b)
      PROVE  TypeOK' /\ LockInv'
  <2>1. CASE owner = None
    <3>1. broadcaster' \in [Broadcasters -> TaskStates] /\ waiters = <<>>
      BY <1>7, <2>1 DEF Broadcast, TypeOK, TaskStates, LockInv
    <3>2. /\ broadcaster' = [broadcaster EXCEPT ![b] = "owning"] /\ owner' = b
          /\ UNCHANGED waiters /\ DOMAIN waiters = {} /\ broadcaster[b] = "idle"
      BY <1>7, <2>1, <3>1 DEF Broadcast
    <3>3. \A c \in Broadcasters : broadcaster[c] \notin Sending \cup {"owning"}
      BY <2>1, SSEAssumption DEF LockInv
    <3>4. LockInv'
      BY <3>2, <3>3, SSEAssumption DEF TypeOK, LockInv, Sending
    <3>5. \A c \in Broadcasters : broadcaster'[c] = "blocked" <=> blocked'[c] # {}
      BY <1>7, <3>2 DEF Broadcast, TypeOK
    <3>6. QED
      BY <1>7, <3>1, <3>2, <3>4, <3>5 DEF Broadcast, TypeOK
  <2>2. CASE owner # None
    <3>1. /\ waiters' = Append(waiters, b)
          /\ broadcaster' = [broadcaster EXCEPT ![b] = "queued"]
          /\ broadcaster[b] = "idle" /\ UNCHANGED <<owner, blocked>>
      BY <1>7, <2>2 DEF Broadcast
    <3>2. /\ waiters' \in Seq(Broadcasters)
          /\ Len(waiters) \in Nat /\ DOMAIN waiters = 1 .. Len(waiters)
          /\ DOMAIN waiters' = 1 .. Len(waiters) + 1
          /\ \A i \in 1 .. Len(waiters) : waiters'[i] = waiters[i]
          /\ waiters'[Len(waiters) + 1] = b
      BY <3>1, AppendProperties, LenProperties DEF TypeOK
    <3>3. \A i \in DOMAIN waiters : waiters[i] \in Broadcasters /\ waiters[i] # b
      BY <3>1, <3>2, ElementOfSeq DEF TypeOK, LockInv
    <3>4. broadcaster' \in [Broadcasters -> TaskStates]
      BY <3>1 DEF TypeOK, TaskStates
    <3>5. \A i \in DOMAIN waiters' : broadcaster'[waiters'[i]] = "queued"
      BY <3>1, <3>2, <3>3 DEF TypeOK, LockInv
    <3>6. \A i, j \in DOMAIN waiters' : i # j => waiters'[i] # waiters'[j]
      BY <3>2, <3>3 DEF LockInv
    <3>7. LockInv'
      BY <2>2, <3>1, <3>5, <3>6 DEF TypeOK, LockInv, Sending
    <3>8. QED
      BY <1>7, <3>1, <3>2, <3>4, <3>7 DEF Broadcast, TypeOK
  <2>3. QED
    BY <2>1, <2>2
<1>8. ASSUME NEW b \in Broadcasters, Start(b)
      PROVE  TypeOK' /\ LockInv'
  <2>1. fate' \in Seq(Fates) /\ Len(fate) + 1 \in Nat
    BY <1>8, AppendProperties, LenProperties DEF Start, TypeOK, Fates
  <2>2. QED
    BY <1>8, <2>1 DEF Start, TypeOK, TaskStates, LockInv, Sending
<1>9. ASSUME NEW b \in Broadcasters, NEW how \in Fates, End(b, how),
             broadcaster[b] \in Sending, UNCHANGED <<listener, got, joined>>,
             subscribers' \subseteq subscribers
      PROVE  TypeOK' /\ LockInv'
  <2>1. item[b] \in 1 .. Len(fate)
    BY <1>9 DEF SendInv, TypeOK
  <2>2. fate' \in Seq(Fates)
    BY <1>9, <2>1, ExceptSeq DEF End, TypeOK
  <2>3. QED
    BY <1>9, <2>2, ReleaseType DEF End, LockInv, TypeOK
<1>10. ASSUME NEW b \in Broadcasters, Break(b) \/ Finish(b) \/ CancelSend(b)
       PROVE  TypeOK' /\ LockInv'
  BY <1>9, <1>10 DEF Break, Finish, CancelSend, Fates, Sending
<1>11. ASSUME NEW b \in Broadcasters, CancelOwner(b)
       PROVE  TypeOK' /\ LockInv'
  BY <1>11, ReleaseType DEF CancelOwner, LockInv, TypeOK
<1>12. ASSUME NEW b \in Broadcasters, CancelAcquire(b)
       PROVE  TypeOK' /\ LockInv'
  <2>1. PICK k \in DOMAIN waiters : waiters[k] = b /\ waiters' = RemoveAt(waiters, k)
    BY <1>12 DEF CancelAcquire
  <2>2. /\ waiters' \in Seq(Broadcasters) /\ Len(waiters) \in Nat
        /\ DOMAIN waiters = 1 .. Len(waiters)
        /\ DOMAIN waiters' = 1 .. Len(waiters) - 1
        /\ \A i \in 1 .. Len(waiters) - 1 :
             /\ i < k => waiters'[i] = waiters[i]
             /\ i >= k => waiters'[i] = waiters[i + 1]
    <3>1. waiters \in Seq(Broadcasters)
      BY DEF TypeOK
    <3>2. /\ waiters' \in Seq(Broadcasters) /\ Len(waiters') = Len(waiters) - 1
          /\ \A i \in 1 .. Len(waiters) - 1 :
               /\ i < k => waiters'[i] = waiters[i]
               /\ i >= k => waiters'[i] = waiters[i + 1]
      BY <2>1, <3>1, RemoveAtFacts
    <3>3. QED
      BY <3>1, <3>2, LenProperties
  <2>3. \A i \in DOMAIN waiters' :
          \E m \in DOMAIN waiters : m # k /\ waiters'[i] = waiters[m]
    BY <2>2
  <2>4. \A i, j \in DOMAIN waiters' : i # j => waiters'[i] # waiters'[j]
    BY <2>2 DEF LockInv
  <2>5. broadcaster' = [broadcaster EXCEPT ![b] = "idle"] /\ broadcaster[b] = "queued"
    BY <1>12 DEF CancelAcquire
  <2>6. \A i \in DOMAIN waiters' : broadcaster'[waiters'[i]] = "queued"
    BY <2>1, <2>3, <2>5 DEF TypeOK, LockInv
  <2>7. owner = None => waiters' = <<>>
    BY <2>1, <2>2 DEF LockInv
  <2>8. QED
    BY <1>12, <2>2, <2>4, <2>5, <2>6, <2>7
    DEF CancelAcquire, TypeOK, TaskStates, LockInv, Sending
<1>13. QED
  BY <1>1, <1>2, <1>3, <1>4, <1>5, <1>6, <1>7, <1>8, <1>10, <1>11, <1>12 DEF Next

-----------------------------------------------------------------------------
(* The order of the messages.                                               *)

\* The task that sends: what a step of another one cannot disturb.
LEMMA SenderFacts ==
  ASSUME TypeOK, LockInv, SendInv, NEW b \in Broadcasters, broadcaster[b] \in Sending
  PROVE  /\ item[b] = Len(fate) /\ item[b] \in 1 .. Len(fate)
         /\ \A c \in Broadcasters \ {b} : broadcaster[c] \notin Sending
         /\ \A c \in Broadcasters \ {b} : todo[c] = {} /\ blocked[c] = {}
<1>1. item[b] = Len(fate) /\ item[b] \in 1 .. Len(fate)
  BY DEF SendInv, TypeOK
<1>2. \A c \in Broadcasters \ {b} : broadcaster[c] \notin Sending
  BY DEF LockInv
<1>3. QED
  BY <1>1, <1>2 DEF SendInv

\* The task that sends gives its message to one listener it has still to serve.
LEMMA DeliveryOrder ==
  ASSUME TypeOK, LockInv, SendInv, SameOrder, NEW b \in Broadcasters,
         broadcaster[b] \in Sending, NEW l \in todo[b], Give(l, item[b])
  PROVE  /\ SameOrder'
         /\ \A k \in Listeners : \A i \in DOMAIN got'[k] : got'[k][i] <= Len(fate)
         /\ \A k \in todo[b] \ {l} : got'[k] = got[k]
<1>1. l \in Listeners /\ item[b] \in Nat /\ item[b] = Len(fate)
  BY DEF TypeOK, SendInv
<1>2. /\ \A k \in Listeners \ {l} : got'[k] = got[k]
      /\ Len(got[l]) \in Nat
      /\ DOMAIN got[l] = 1 .. Len(got[l])
      /\ DOMAIN got'[l] = 1 .. Len(got[l]) + 1
      /\ \A i \in 1 .. Len(got[l]) : got'[l][i] = got[l][i]
      /\ got'[l][Len(got[l]) + 1] = item[b]
  BY <1>1, GiveFacts
<1>3. \A i \in 1 .. Len(got[l]) : got[l][i] < item[b]
  BY <1>2 DEF SendInv
<1>4. ASSUME NEW i \in DOMAIN got'[l], NEW j \in DOMAIN got'[l], i < j
      PROVE  got'[l][i] < got'[l][j]
  <2>1. i \in 1 .. Len(got[l]) /\ (j \in 1 .. Len(got[l]) \/ j = Len(got[l]) + 1)
    BY <1>2, <1>4
  <2>2. CASE j \in 1 .. Len(got[l])
    BY <1>1, <1>2, <1>4, <2>1, <2>2 DEF SameOrder
  <2>3. CASE j = Len(got[l]) + 1
    BY <1>2, <1>3, <2>1, <2>3
  <2>4. QED
    BY <2>1, <2>2, <2>3
<1>5. SameOrder'
  BY <1>2, <1>4 DEF SameOrder
<1>6. \A i \in DOMAIN got'[l] : got'[l][i] <= Len(fate)
  BY <1>1, <1>2 DEF SendInv
<1>7. QED
  BY <1>2, <1>5, <1>6 DEF SendInv, TypeOK

LEMMA SendStep ==
  TypeOK /\ LockInv /\ SendInv /\ SameOrder /\ [Next]_vars => SendInv' /\ SameOrder'
<1> SUFFICES ASSUME TypeOK, LockInv, SendInv, SameOrder, [Next]_vars
             PROVE  SendInv' /\ SameOrder'
  OBVIOUS
<1> USE DEF listenerVars, lockVars, taskVars
<1>0. Len(fate) \in Nat /\ \A l \in Listeners : \A i \in DOMAIN got[l] : got[l][i] \in Nat
  BY LenProperties, ElementOfSeq DEF TypeOK
<1>1. CASE UNCHANGED vars \/ Done
  BY <1>1 DEF Done, vars, SendInv, SameOrder
<1>2. ASSUME NEW l \in Listeners,
             Listen(l) \/ Wait(l) \/ Interrupt(l) \/ Unsubscribe(l)
      PROVE  SendInv' /\ SameOrder'
  <2>1. UNCHANGED <<got, taskVars, fate>>
    BY <1>2 DEF Listen, Wait, Interrupt, Unsubscribe
  <2>2. QED
    BY <2>1 DEF SendInv, SameOrder
<1>3. ASSUME NEW l \in Listeners, Leave(l)
      PROVE  SendInv' /\ SameOrder'
  <2>1. UNCHANGED <<got, todo, item, fate>>
    BY <1>3 DEF Leave
  <2>2. \A b \in Broadcasters :
          /\ blocked'[b] \subseteq blocked[b]
          /\ broadcaster'[b] \in Sending <=> broadcaster[b] \in Sending
    BY <1>3 DEF Leave, SendInv, Sending, TypeOK
  <2>3. QED
    BY <2>1, <2>2 DEF SendInv, SameOrder
<1>4. ASSUME NEW b \in Broadcasters, broadcaster[b] \in Sending, NEW l \in todo[b],
             Give(l, item[b]), todo' = [todo EXCEPT ![b] = @ \ {l}],
             UNCHANGED <<item, fate>>, blocked[b] \subseteq {l},
             broadcaster' \in [Broadcasters -> TaskStates],
             broadcaster'[b] \in Sending, blocked'[b] = {},
             \A c \in Broadcasters \ {b} :
               broadcaster'[c] = broadcaster[c] /\ blocked'[c] = blocked[c]
      PROVE  SendInv' /\ SameOrder'
  <2>1. /\ SameOrder'
        /\ \A k \in Listeners : \A i \in DOMAIN got'[k] : got'[k][i] <= Len(fate)
        /\ \A k \in todo[b] \ {l} : got'[k] = got[k]
    BY <1>4, DeliveryOrder
  <2>2. todo'[b] = todo[b] \ {l} /\ \A c \in Broadcasters \ {b} : todo'[c] = {}
    BY <1>4, SenderFacts DEF TypeOK
  <2>3. \A c \in Broadcasters \ {b} : broadcaster'[c] \notin Sending /\ blocked'[c] = {}
    BY <1>4, SenderFacts
  <2>4. QED
    BY <1>4, <2>1, <2>2, <2>3 DEF SendInv
<1>5. ASSUME NEW l \in Listeners, NEW b \in Broadcasters, Take(l, b)
      PROVE  SendInv' /\ SameOrder'
  <2>1. broadcaster[b] = "blocked" /\ l \in todo[b] /\ blocked[b] \subseteq {l}
    BY <1>5 DEF Take, SendInv, TypeOK
  <2>2. QED
    BY <1>4, <1>5, <2>1 DEF Take, TypeOK, Sending, TaskStates
<1>6. ASSUME NEW l \in Listeners, NEW b \in Broadcasters, Send(b, l)
      PROVE  SendInv' /\ SameOrder'
  <2>1. broadcaster[b] = "sending" /\ blocked[b] = {}
    BY <1>6 DEF Send, TypeOK
  <2>2. QED
    BY <1>4, <1>6, <2>1 DEF Send, TypeOK, Sending
<1>7. ASSUME NEW l \in Listeners, NEW b \in Broadcasters, Block(b, l)
      PROVE  SendInv' /\ SameOrder'
  BY <1>7 DEF Block, SendInv, SameOrder, TypeOK, Sending
<1>8. ASSUME NEW l \in Listeners, NEW b \in Broadcasters, FindClosed(b, l)
      PROVE  SendInv' /\ SameOrder'
  <2>1. blocked[b] = {}
    BY <1>8 DEF FindClosed, TypeOK
  <2>2. QED
    BY <1>8, <2>1 DEF FindClosed, SendInv, SameOrder, TypeOK, Sending
<1>9. ASSUME NEW b \in Broadcasters, Broadcast(b) \/ CancelAcquire(b)
      PROVE  SendInv' /\ SameOrder'
  <2>1. /\ broadcaster[b] \notin Sending
        /\ \E s \in {"idle", "queued", "owning"} :
             broadcaster' = [broadcaster EXCEPT ![b] = s]
    BY <1>9 DEF Broadcast, CancelAcquire, Sending
  <2>2. UNCHANGED <<got, todo, blocked, item, fate>>
    BY <1>9 DEF Broadcast, CancelAcquire
  <2>3. \A c \in Broadcasters : broadcaster'[c] \in Sending <=> broadcaster[c] \in Sending
    BY <2>1 DEF TypeOK, Sending
  <2>4. QED
    BY <2>2, <2>3 DEF SendInv, SameOrder
<1>10. ASSUME NEW b \in Broadcasters, Start(b)
       PROVE  SendInv' /\ SameOrder'
  <2>1. Len(fate') = Len(fate) + 1 /\ item'[b] = Len(fate) + 1
    BY <1>10, AppendProperties DEF Start, TypeOK, Fates
  <2>2. \A c \in Broadcasters \ {b} :
          /\ broadcaster'[c] = broadcaster[c] /\ broadcaster[c] \notin Sending
          /\ todo'[c] = {} /\ blocked'[c] = {}
    BY <1>10 DEF Start, TypeOK, LockInv, SendInv
  <2>3. blocked'[b] = {} /\ todo'[b] \subseteq Listeners /\ broadcaster'[b] = "sending"
    BY <1>10 DEF Start, TypeOK
  <2>4. \A l \in Listeners : \A i \in DOMAIN got[l] : got[l][i] < Len(fate) + 1
    BY <1>0 DEF SendInv
  <2>5. UNCHANGED got
    BY <1>10 DEF Start
  <2>6. SendInv'
    BY <1>0, <2>1, <2>2, <2>3, <2>4, <2>5 DEF SendInv, Sending
  <2>7. QED
    BY <2>5, <2>6 DEF SameOrder
<1>11. ASSUME NEW b \in Broadcasters, owner = b, Release(b), UNCHANGED got,
              Len(fate') = Len(fate)
       PROVE  SendInv' /\ SameOrder'
  <2>1. \A c \in Broadcasters : broadcaster'[c] \notin Sending
    BY <1>11, ReleaseFacts DEF LockInv, Sending
  <2>2. \A c \in Broadcasters : todo'[c] = {} /\ blocked'[c] = {}
    BY <1>11 DEF Release, TypeOK, LockInv, SendInv
  <2>3. QED
    BY <1>11, <2>1, <2>2 DEF SendInv, SameOrder
<1>12. ASSUME NEW b \in Broadcasters,
              Break(b) \/ Finish(b) \/ CancelSend(b) \/ CancelOwner(b)
       PROVE  SendInv' /\ SameOrder'
  <2>1. owner = b /\ Release(b) /\ UNCHANGED got
    BY <1>12 DEF Break, Finish, CancelSend, CancelOwner, End, LockInv, Sending
  <2>2. Len(fate') = Len(fate)
    <3>1. CASE CancelOwner(b)
      BY <3>1 DEF CancelOwner
    <3>2. CASE Break(b) \/ Finish(b) \/ CancelSend(b)
      <4>1. PICK how \in Fates : fate' = [fate EXCEPT ![item[b]] = how]
        BY <3>2 DEF Break, Finish, CancelSend, End, Fates
      <4>2. item[b] \in 1 .. Len(fate)
        BY <3>2, SenderFacts DEF Break, Finish, CancelSend, Sending
      <4>3. QED
        BY <4>1, <4>2, ExceptSeq DEF TypeOK
    <3>3. QED
      BY <1>12, <3>1, <3>2
  <2>3. QED
    BY <1>11, <2>1, <2>2
<1>13. QED
  BY <1>1, <1>2, <1>3, <1>5, <1>6, <1>7, <1>8, <1>9, <1>10, <1>12 DEF Next

-----------------------------------------------------------------------------
(* Every subscriber that stays is reached.                                  *)

LEMMA GiveHas ==
  ASSUME TypeOK, NEW k \in Listeners, NEW n \in Nat, Give(k, n)
  PROVE  /\ Has(k, n)'
         /\ \A l \in Listeners, m \in Nat : Has(l, m) => Has(l, m)'
<1>1. /\ \A l \in Listeners \ {k} : got'[l] = got[l]
      /\ Len(got[k]) \in Nat /\ DOMAIN got[k] = 1 .. Len(got[k])
      /\ DOMAIN got'[k] = 1 .. Len(got[k]) + 1
      /\ \A i \in 1 .. Len(got[k]) : got'[k][i] = got[k][i]
      /\ got'[k][Len(got[k]) + 1] = n
  BY GiveFacts
<1>2. Has(k, n)'
  BY <1>1 DEF Has
<1>3. \A m \in Nat : Has(k, m) => Has(k, m)'
  BY <1>1 DEF Has
<1>4. QED
  BY <1>1, <1>2, <1>3 DEF Has

Reached == ReachInv /\ ReturnedReachedAll

\* A step in which listeners only come or go and nothing is delivered.
LEMMA QuietStep ==
  ASSUME TypeOK, ReachInv, ReturnedReachedAll,
         UNCHANGED <<got, todo, dead, item, fate>>,
         \A l \in Listeners :
           /\ listener'[l] \in {"busy", "waiting"} =>
                /\ l \in subscribers'
                /\ (Live(l) /\ joined'[l] = joined[l]) \/ joined'[l] = Len(fate)
           /\ joined'[l] <= Len(fate)
           /\ listener[l] = "closed" => listener'[l] = "closed",
         \A b \in Broadcasters :
           broadcaster'[b] \in Sending => broadcaster[b] \in Sending /\ item[b] <= Len(fate)
  PROVE  Reached'
<1>1. Len(fate) \in Nat /\ DOMAIN fate = 1 .. Len(fate)
  BY LenProperties DEF TypeOK
<1>2. ReachInv'
  <2>1. \A l \in Listeners : (Live(l)' => l \in subscribers') /\ joined'[l] <= Len(fate)'
    BY DEF Live
  <2>2. \A b \in Broadcasters : \A l \in dead'[b] : listener'[l] = "closed"
    BY DEF ReachInv, TypeOK
  <2>3. ASSUME NEW b \in Broadcasters, broadcaster'[b] \in Sending, NEW l \in Listeners,
               Live(l)', joined'[l] < item'[b], l \notin todo'[b]
        PROVE  Has(l, item[b])'
    <3>1. broadcaster[b] \in Sending /\ item[b] <= Len(fate) /\ item[b] \in Nat
      BY <2>3 DEF TypeOK
    <3>2. Live(l) /\ joined[l] < item[b] /\ l \notin todo[b]
      BY <1>1, <2>3, <3>1 DEF Live
    <3>3. Has(l, item[b])
      BY <3>1, <3>2 DEF ReachInv
    <3>4. QED
      BY <3>3 DEF Has
  <2>4. QED
    BY <2>1, <2>2, <2>3 DEF ReachInv, Has
<1>3. ReturnedReachedAll'
  BY <1>1 DEF ReturnedReachedAll, Live
<1>4. QED
  BY <1>2, <1>3 DEF Reached

\* The task that sends gives its message to one listener.
LEMMA DeliveryReach ==
  ASSUME TypeOK, LockInv, SendInv, ReachInv, ReturnedReachedAll,
         NEW b \in Broadcasters, broadcaster[b] \in Sending, NEW l \in todo[b],
         Give(l, item[b]), todo' = [todo EXCEPT ![b] = @ \ {l}],
         UNCHANGED <<item, fate, subscribers, joined, dead>>,
         broadcaster'[b] \in Sending,
         \A c \in Broadcasters \ {b} : broadcaster'[c] = broadcaster[c],
         \A k \in Listeners :
           /\ listener'[k] \in {"busy", "waiting"} <=> Live(k)
           /\ listener[k] = "closed" => listener'[k] = "closed"
  PROVE  Reached'
<1>1. /\ l \in Listeners /\ item[b] \in Nat
      /\ Len(fate) \in Nat /\ DOMAIN fate = 1 .. Len(fate)
  BY LenProperties DEF TypeOK
<1>2. Has(l, item[b])' /\ \A k \in Listeners, m \in Nat : Has(k, m) => Has(k, m)'
  BY <1>1, GiveHas
<1>3. \A c \in Broadcasters \ {b} : broadcaster'[c] \notin Sending
  BY SenderFacts
<1>4. todo'[b] = todo[b] \ {l} /\ item'[b] = item[b]
  BY DEF TypeOK
<1>5. ASSUME NEW k \in Listeners, Live(k)', joined[k] < item[b], k \notin todo'[b]
      PROVE  Has(k, item[b])'
  BY <1>1, <1>2, <1>4, <1>5 DEF ReachInv, Live
<1>6. ReachInv'
  <2>1. \A k \in Listeners :
          (Live(k)' => k \in subscribers') /\ joined'[k] <= Len(fate)'
    BY DEF ReachInv, Live
  <2>2. \A c \in Broadcasters : \A k \in dead'[c] : listener'[k] = "closed"
    BY DEF ReachInv, TypeOK
  <2>3. ASSUME NEW c \in Broadcasters, broadcaster'[c] \in Sending, NEW k \in Listeners,
               Live(k)', joined'[k] < item'[c], k \notin todo'[c]
        PROVE  Has(k, item[c])'
    BY <1>3, <1>4, <1>5, <2>3
  <2>4. QED
    BY <2>1, <2>2, <2>3 DEF ReachInv, Has
<1>7. ReturnedReachedAll'
  BY <1>1, <1>2 DEF ReturnedReachedAll, Live, Has
<1>8. QED
  BY <1>6, <1>7 DEF Reached

\* A broadcast ends.  If it returns there is nobody it has still to reach.
LEMMA EndReach ==
  ASSUME TypeOK, LockInv, SendInv, ReachInv, ReturnedReachedAll,
         NEW b \in Broadcasters, broadcaster[b] \in Sending,
         NEW how \in Fates, End(b, how), how = "returned" => todo[b] = {},
         UNCHANGED <<listener, got, joined>>,
         subscribers' = subscribers \/ subscribers' = subscribers \ dead[b]
  PROVE  Reached'
<1>1. item[b] \in 1 .. Len(fate) /\ owner = b /\ Release(b)
  BY SenderFacts DEF End, LockInv
<1>2. /\ Len(fate') = Len(fate) /\ Len(fate) \in Nat
      /\ DOMAIN fate = 1 .. Len(fate) /\ DOMAIN fate' = 1 .. Len(fate)
      /\ \A n \in 1 .. Len(fate) : fate'[n] = IF n = item[b] THEN how ELSE fate[n]
  <2>1. fate \in Seq(Fates) /\ fate' = [fate EXCEPT ![item[b]] = how]
    BY DEF TypeOK, End
  <2>2. fate' \in Seq(Fates)
    BY <1>1, <2>1, ExceptSeq
  <2>3. QED
    BY <1>1, <2>1, <2>2, ExceptSeq, LenProperties
<1>3. \A c \in Broadcasters : broadcaster'[c] \notin Sending
  BY <1>1, ReleaseFacts DEF LockInv, Sending
<1>4. \A c \in Broadcasters : dead'[c] \subseteq dead[c]
  BY <1>1 DEF Release, TypeOK
<1>5. ReachInv'
  BY <1>2, <1>3, <1>4 DEF ReachInv, Live
<1>6. ASSUME NEW n \in DOMAIN fate', NEW l \in Listeners,
             fate'[n] = "returned", Live(l), joined[l] < n
      PROVE  Has(l, n)
  <2>1. CASE n = item[b]
    BY <1>2, <1>6, <2>1 DEF ReachInv
  <2>2. CASE n # item[b]
    BY <1>2, <1>6, <2>2 DEF ReturnedReachedAll, Live, Has
  <2>3. QED
    BY <2>1, <2>2
<1>7. ReturnedReachedAll'
  BY <1>6 DEF ReturnedReachedAll, Live, Has
<1>8. QED
  BY <1>5, <1>7 DEF Reached

LEMMA ReachStep ==
  TypeOK /\ LockInv /\ SendInv /\ ReachInv /\ ReturnedReachedAll /\ [Next]_vars
    => Reached'
<1> SUFFICES ASSUME TypeOK, LockInv, SendInv, ReachInv, ReturnedReachedAll,
                    [Next]_vars
             PROVE  Reached'
  OBVIOUS
<1> USE DEF listenerVars, lockVars, taskVars
<1>0. Len(fate) \in Nat /\ DOMAIN fate = 1 .. Len(fate)
  BY LenProperties DEF TypeOK
<1>a. \A b \in Broadcasters : broadcaster[b] \in Sending => item[b] <= Len(fate)
  BY <1>0 DEF SendInv
<1>b. \A l \in Listeners : joined[l] <= Len(fate) /\ (Live(l) => l \in subscribers)
  BY DEF ReachInv
<1>1. CASE UNCHANGED vars \/ Done
  <2>1. UNCHANGED vars
    BY <1>1 DEF Done
  <2>2. QED
    BY <2>1 DEF vars, Reached, ReachInv, Live, Has, ReturnedReachedAll
<1>2. ASSUME NEW l \in Listeners, Listen(l) \/ Wait(l) \/ Interrupt(l)
      PROVE  Reached'
  <2>1. UNCHANGED <<got, taskVars, fate>> /\ subscribers \subseteq subscribers'
    BY <1>2 DEF Listen, Wait, Interrupt
  <2>2. \A k \in Listeners :
           /\ listener'[k] \in {"busy", "waiting"} =>
                /\ k \in subscribers'
                /\ (Live(k) /\ joined'[k] = joined[k]) \/ joined'[k] = Len(fate)
           /\ joined'[k] <= Len(fate)
           /\ listener[k] = "closed" => listener'[k] = "closed"
    BY <1>2, <1>0, <1>b DEF Listen, Wait, Interrupt, TypeOK, Live
  <2>3. QED
    BY <1>a, <2>1, <2>2, QuietStep
<1>3. ASSUME NEW l \in Listeners, Unsubscribe(l) \/ Leave(l)
      PROVE  Reached'
  <2>1. UNCHANGED <<got, joined, todo, dead, item, fate>>
    BY <1>3 DEF Unsubscribe, Leave
  <2>2. \A b \in Broadcasters : broadcaster'[b] \in Sending => broadcaster[b] \in Sending
    BY <1>3 DEF Unsubscribe, Leave, SendInv, TypeOK, Sending
  <2>3. \A k \in Listeners :
           /\ listener'[k] \in {"busy", "waiting"} => Live(k) /\ k \in subscribers'
           /\ listener[k] = "closed" => listener'[k] = "closed"
    BY <1>3, <1>b DEF Unsubscribe, Leave, TypeOK, Live
  <2>4. QED
    BY <1>a, <1>b, <2>1, <2>2, <2>3, QuietStep
<1>4. ASSUME NEW l \in Listeners, NEW b \in Broadcasters, Take(l, b)
      PROVE  Reached'
  <2>1. broadcaster[b] = "blocked" /\ l \in todo[b]
    BY <1>4 DEF Take, SendInv, TypeOK
  <2>2. broadcaster'[b] = "sending"
        /\ \A c \in Broadcasters \ {b} : broadcaster'[c] = broadcaster[c]
    BY <1>4 DEF Take, TypeOK
  <2>3. QED
    BY <1>4, <2>1, <2>2, DeliveryReach DEF Take, Sending, Live
<1>5. ASSUME NEW l \in Listeners, NEW b \in Broadcasters, Send(b, l)
      PROVE  Reached'
  <2>1. \A k \in Listeners :
           /\ listener'[k] \in {"busy", "waiting"} <=> Live(k)
           /\ listener[k] = "closed" => listener'[k] = "closed"
    BY <1>5 DEF Send, TypeOK, Live
  <2>2. QED
    BY <1>5, <2>1, DeliveryReach DEF Send, Sending
<1>6. ASSUME NEW l \in Listeners, NEW b \in Broadcasters, Block(b, l)
      PROVE  Reached'
  <2>1. UNCHANGED <<listener, got, joined, subscribers, todo, dead, item, fate>>
    BY <1>6 DEF Block
  <2>2. \A c \in Broadcasters : broadcaster'[c] \in Sending => broadcaster[c] \in Sending
    BY <1>6 DEF Block, TypeOK, Sending
  <2>3. QED
    BY <1>a, <1>b, <2>1, <2>2, QuietStep DEF Live
<1>7. ASSUME NEW l \in Listeners, NEW b \in Broadcasters, FindClosed(b, l)
      PROVE  Reached'
  <2>1. /\ dead' = [dead EXCEPT ![b] = @ \cup {l}] /\ listener[l] = "closed"
        /\ todo' = [todo EXCEPT ![b] = @ \ {l}]
        /\ UNCHANGED <<listener, got, joined, subscribers, item, fate, broadcaster>>
    BY <1>7 DEF FindClosed
  <2>2. ReachInv'
    BY <2>1 DEF ReachInv, Live, Has, TypeOK
  <2>3. QED
    BY <2>1, <2>2 DEF Reached, ReturnedReachedAll
<1>8. ASSUME NEW b \in Broadcasters, Broadcast(b) \/ CancelAcquire(b)
      PROVE  Reached'
  <2>1. UNCHANGED <<listener, got, joined, subscribers, todo, dead, item, fate>>
    BY <1>8 DEF Broadcast, CancelAcquire
  <2>2. \E s \in {"idle", "queued", "owning"} :
          broadcaster' = [broadcaster EXCEPT ![b] = s]
    BY <1>8 DEF Broadcast, CancelAcquire
  <2>3. \A c \in Broadcasters : broadcaster'[c] \in Sending => broadcaster[c] \in Sending
    BY <2>2 DEF TypeOK, Sending
  <2>4. QED
    BY <1>a, <1>b, <2>1, <2>3, QuietStep DEF Live
<1>9. ASSUME NEW b \in Broadcasters, Start(b)
      PROVE  Reached'
  <2>1. /\ Len(fate') = Len(fate) + 1 /\ DOMAIN fate' = 1 .. Len(fate) + 1
        /\ \A n \in 1 .. Len(fate) : fate'[n] = fate[n]
        /\ fate'[Len(fate) + 1] = "pending"
    BY <1>9, AppendProperties, LenProperties DEF Start, TypeOK, Fates
  <2>2. /\ UNCHANGED <<listener, got, joined, subscribers, dead>>
        /\ todo'[b] = subscribers
        /\ \A c \in Broadcasters \ {b} :
             broadcaster'[c] = broadcaster[c] /\ broadcaster[c] \notin Sending
    BY <1>9 DEF Start, TypeOK, LockInv
  <2>3. ReachInv'
    <3>1. \A l \in Listeners :
            (Live(l)' => l \in subscribers') /\ joined'[l] <= Len(fate)'
      BY <1>0, <1>b, <2>1, <2>2 DEF Live, TypeOK
    <3>2. \A c \in Broadcasters : \A l \in dead'[c] : listener'[l] = "closed"
      BY <2>2 DEF ReachInv
    <3>3. \A c \in Broadcasters, l \in Listeners :
            broadcaster'[c] \in Sending /\ Live(l)' => l \in todo'[c]
      BY <1>b, <2>2 DEF Live
    <3>4. QED
      BY <3>1, <3>2, <3>3 DEF ReachInv
  <2>4. ReturnedReachedAll'
    BY <1>0, <2>1, <2>2 DEF ReturnedReachedAll
  <2>5. QED
    BY <2>3, <2>4 DEF Reached
<1>10. ASSUME NEW b \in Broadcasters, Break(b) \/ Finish(b) \/ CancelSend(b)
       PROVE  Reached'
  BY <1>10, EndReach DEF Break, Finish, CancelSend, Fates, Sending
<1>11. ASSUME NEW b \in Broadcasters, CancelOwner(b)
       PROVE  Reached'
  <2>1. owner = b /\ Release(b)
    BY <1>11 DEF CancelOwner, LockInv
  <2>2. \A c \in Broadcasters :
          broadcaster'[c] \notin Sending /\ dead'[c] \subseteq dead[c]
    <3>1. \A c \in Broadcasters : broadcaster'[c] \notin Sending
      BY <2>1, <1>11, ReleaseFacts DEF CancelOwner, LockInv, Sending
    <3>2. \A c \in Broadcasters : dead'[c] \subseteq dead[c]
      BY <2>1 DEF Release, TypeOK
    <3>3. QED
      BY <3>1, <3>2
  <2>3. QED
    BY <1>11, <2>2 DEF CancelOwner, Reached, ReachInv, ReturnedReachedAll, Live
<1>12. QED
  BY <1>1, <1>2, <1>3, <1>4, <1>5, <1>6, <1>7, <1>8, <1>9, <1>10, <1>11 DEF Next

-----------------------------------------------------------------------------
LEMMA StepInv == IInv /\ [Next]_vars => IInv'
BY LockStep, SendStep, ReachStep DEF IInv, Reached

\* Every reachable state of a channel has its type.
THEOREM TypeCorrect == Spec => []TypeOK
<1>1. IInv => TypeOK
  BY DEF IInv
<1>2. QED
  BY <1>1, InitInv, StepInv, PTL DEF Spec

\* Listeners get messages once and in one order, the order of the broadcasts.
THEOREM OneOrder == Spec => []SameOrder
<1>1. IInv => SameOrder
  BY DEF IInv
<1>2. QED
  BY <1>1, InitInv, StepInv, PTL DEF Spec

\* A broadcast that returns reached every subscriber that has stayed.
THEOREM NobodyMissed == Spec => []ReturnedReachedAll
<1>1. IInv => ReturnedReachedAll
  BY DEF IInv
<1>2. QED
  BY <1>1, InitInv, StepInv, PTL DEF Spec

\* Only a listener that takes its stream out of the set closes it.
LEMMA NoneLeakedStep == TypeOK /\ NoneLeaked /\ [Next]_vars => NoneLeaked'
<1> SUFFICES ASSUME TypeOK, NoneLeaked, [Next]_vars PROVE NoneLeaked'
  OBVIOUS
<1> USE DEF listenerVars, lockVars, taskVars
<1>1. ASSUME NEW l \in Listeners, Listen(l)
      PROVE  NoneLeaked'
  BY <1>1 DEF Listen, NoneLeaked, TypeOK
<1>2. ASSUME NEW l \in Listeners, Wait(l) \/ Interrupt(l) \/ Leave(l)
      PROVE  NoneLeaked'
  BY <1>2 DEF Wait, Interrupt, Leave, NoneLeaked, TypeOK
<1>3. ASSUME NEW l \in Listeners, Unsubscribe(l)
      PROVE  NoneLeaked'
  BY <1>3 DEF Unsubscribe, NoneLeaked, TypeOK
<1>4. ASSUME NEW l \in Listeners, NEW b \in Broadcasters,
             Take(l, b) \/ Send(b, l) \/ Block(b, l) \/ FindClosed(b, l)
      PROVE  NoneLeaked'
  BY <1>4 DEF Take, Send, Block, FindClosed, NoneLeaked, TypeOK
<1>5. ASSUME NEW b \in Broadcasters,
             Broadcast(b) \/ Start(b) \/ Break(b) \/ Finish(b)
               \/ CancelSend(b) \/ CancelOwner(b) \/ CancelAcquire(b)
      PROVE  NoneLeaked'
  BY <1>5 DEF Broadcast, Start, Break, Finish, CancelSend, CancelOwner,
              CancelAcquire, NoneLeaked
<1>6. CASE UNCHANGED vars \/ Done
  BY <1>6 DEF Done, vars, NoneLeaked
<1>7. QED
  BY <1>1, <1>2, <1>3, <1>4, <1>5, <1>6 DEF Next

\* A broadcast never finds a closed stream among the subscribers: the branch
\* of broadcast that removes dead streams has nothing to remove, unless a
\* listener leaves while the broadcast is under way.
THEOREM NoLeak == Spec => []NoneLeaked
<1>1. Init => NoneLeaked
  BY DEF Init, NoneLeaked
<1>2. IInv => TypeOK
  BY DEF IInv
<1>3. QED
  BY <1>1, <1>2, InitInv, StepInv, NoneLeakedStep, PTL DEF Spec
=============================================================================
