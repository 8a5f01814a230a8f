----------------------------- MODULE SSEChannel -----------------------------
(***************************************************************************)
(* An SSEChannel: tasks that broadcast messages and clients that listen.   *)
(*                                                                         *)
(* Each listener is a generator over a memory stream without a buffer, so  *)
(* a broadcast waits, holding the lock of the channel, until the listener  *)
(* comes back for its next item.  A listener may leave at any moment; the  *)
(* stream of a listener that leaves is closed before it is taken out of    *)
(* the set of subscribers.                                                 *)
(*                                                                         *)
(* The streams and the lock are anyio's: a send hands the item to a        *)
(* receiver that waits or waits itself, it fails if the receiving end is   *)
(* closed (BrokenResourceError) or if its own end is (ClosedResourceError),*)
(* and the lock goes to the task that has waited longest.                  *)
(***************************************************************************)
EXTENDS Naturals, Sequences, SequencesExt

CONSTANTS
  Listeners,       \* calls of listen
  Broadcasters,    \* tasks that call broadcast, again and again
  MaxBroadcasts,   \* bound: no call of broadcast after so many have started
  None

ASSUME SSEAssumption ==
  /\ MaxBroadcasts \in Nat
  /\ None \notin Broadcasters

VARIABLES
  subscribers,  \* the listeners whose send stream is registered
  listener,     \* what each listener does
  got,          \* the numbers of the messages each listener got, in order
  owner,        \* the task that holds the lock, or None
  waiters,      \* the tasks that wait for it
  broadcaster,  \* what each task does
  todo,         \* the subscribers a broadcast has still to send to
  dead,         \* the subscribers it found closed
  blocked,      \* the listeners a task waits in send for, at most one
  item,         \* the number of the message a task sends
  joined,       \* history: the number of broadcasts before a listener came
  fate          \* history: how each broadcast ended

listenerVars == <<subscribers, listener, got, joined>>
lockVars == <<owner, waiters>>
taskVars == <<broadcaster, todo, dead, blocked, item>>
vars == <<listenerVars, lockVars, taskVars, fate>>

\* "busy": between two calls of receive, the consumer has control.
\* "closing": the receive stream is closed, the send stream still registered.
ListenerStates == {"new", "busy", "waiting", "closing", "closed"}
TaskStates == {"idle", "queued", "owning", "sending", "blocked", "broken"}
Fates == {"pending", "returned", "raised", "cancelled"}

Init ==
  /\ subscribers = {}
  /\ listener = [l \in Listeners |-> "new"]
  /\ got = [l \in Listeners |-> <<>>]
  /\ owner = None
  /\ waiters = <<>>
  /\ broadcaster = [b \in Broadcasters |-> "idle"]
  /\ todo = [b \in Broadcasters |-> {}]
  /\ dead = [b \in Broadcasters |-> {}]
  /\ blocked = [b \in Broadcasters |-> {}]
  /\ item = [b \in Broadcasters |-> 0]
  /\ joined = [l \in Listeners |-> 0]
  /\ fate = <<>>

-----------------------------------------------------------------------------
(* Listeners.                                                               *)

\* The first step of the generator registers its stream.
Listen(l) ==
  /\ listener[l] = "new"
  /\ listener' = [listener EXCEPT ![l] = "busy"]
  /\ subscribers' = subscribers \cup {l}
  /\ joined' = [joined EXCEPT ![l] = Len(fate)]
  /\ UNCHANGED <<got, lockVars, taskVars, fate>>

Give(l, n) == got' = [got EXCEPT ![l] = Append(@, n)]

\* Nobody waits in send: the listener waits.
Wait(l) ==
  /\ listener[l] = "busy"
  /\ \A b \in Broadcasters : l \notin blocked[b]
  /\ listener' = [listener EXCEPT ![l] = "waiting"]
  /\ UNCHANGED <<subscribers, got, joined, lockVars, taskVars, fate>>

\* The listener takes the item of a task that waits in send.
Take(l, b) ==
  /\ listener[l] = "busy"
  /\ l \in blocked[b]
  /\ Give(l, item[b])
  /\ broadcaster' = [broadcaster EXCEPT ![b] = "sending"]
  /\ blocked' = [blocked EXCEPT ![b] = {}]
  /\ todo' = [todo EXCEPT ![b] = @ \ {l}]
  /\ UNCHANGED <<subscribers, listener, joined, lockVars, dead, item, fate>>

\* The heartbeat interval passes, or the task of the client is cancelled.
Interrupt(l) ==
  /\ listener[l] = "waiting"
  /\ listener' = [listener EXCEPT ![l] = "busy"]
  /\ UNCHANGED <<subscribers, got, joined, lockVars, taskVars, fate>>

\* The generator is closed or cancelled: the receive stream is closed, which
\* wakes a task that waits in send.
Leave(l) ==
  /\ listener[l] = "busy"
  /\ listener' = [listener EXCEPT ![l] = "closing"]
  /\ broadcaster' = [b \in Broadcasters |->
                       IF l \in blocked[b] THEN "broken" ELSE broadcaster[b]]
  /\ blocked' = [b \in Broadcasters |-> blocked[b] \ {l}]
  /\ UNCHANGED <<subscribers, got, joined, lockVars, todo, dead, item, fate>>

\* Mutant: only broadcast removes streams.
UnsubscribeNever(l) ==
  /\ listener[l] = "closing"
  /\ listener' = [listener EXCEPT ![l] = "closed"]
  /\ UNCHANGED <<subscribers, got, joined, lockVars, taskVars, fate>>

\* The finally block of the generator.
Unsubscribe(l) ==
  /\ listener[l] = "closing"
  /\ listener' = [listener EXCEPT ![l] = "closed"]
  /\ subscribers' = subscribers \ {l}
  /\ UNCHANGED <<got, joined, lockVars, taskVars, fate>>

-----------------------------------------------------------------------------
(* The lock.                                                                *)

\* Mutant: without the lock.
BroadcastUnlocked(b) ==
  /\ broadcaster[b] = "idle"
  /\ Len(fate) < MaxBroadcasts
  /\ broadcaster' = [broadcaster EXCEPT ![b] = "owning"]
  /\ UNCHANGED <<listenerVars, lockVars, todo, dead, blocked, item, fate>>

Broadcast(b) ==
  /\ broadcaster[b] = "idle"
  /\ Len(fate) < MaxBroadcasts
  /\ IF owner = None
     THEN /\ broadcaster' = [broadcaster EXCEPT ![b] = "owning"]
          /\ owner' = b
          /\ UNCHANGED waiters
     ELSE /\ broadcaster' = [broadcaster EXCEPT ![b] = "queued"]
          /\ waiters' = Append(waiters, b)
          /\ UNCHANGED owner
  /\ UNCHANGED <<listenerVars, todo, dead, blocked, item, fate>>

\* The owner leaves the broadcast and the next task gets the lock.
Release(b) ==
  /\ IF waiters = <<>>
     THEN /\ owner' = None
          /\ UNCHANGED waiters
          /\ broadcaster' = [broadcaster EXCEPT ![b] = "idle"]
     ELSE /\ owner' = Head(waiters)
          /\ waiters' = Tail(waiters)
          /\ broadcaster' = [c \in Broadcasters |->
                               IF c = b THEN "idle"
                               ELSE IF c = Head(waiters) THEN "owning"
                               ELSE broadcaster[c]]
  /\ todo' = [todo EXCEPT ![b] = {}]
  /\ dead' = [dead EXCEPT ![b] = {}]
  /\ blocked' = [blocked EXCEPT ![b] = {}]
  /\ item' = [item EXCEPT ![b] = 0]

\* Mutant: an exception leaves the lock held.
EndReturned(b, how) ==
  /\ IF how = "raised"
     THEN /\ broadcaster' = [broadcaster EXCEPT ![b] = "idle"]
          /\ todo' = [todo EXCEPT ![b] = {}]
          /\ dead' = [dead EXCEPT ![b] = {}]
          /\ blocked' = [blocked EXCEPT ![b] = {}]
          /\ item' = [item EXCEPT ![b] = 0]
          /\ UNCHANGED lockVars
     ELSE Release(b)
  /\ fate' = [fate EXCEPT ![item[b]] = how]

End(b, how) ==
  /\ Release(b)
  /\ fate' = [fate EXCEPT ![item[b]] = how]

-----------------------------------------------------------------------------
(* A broadcast.                                                             *)

\* It works on a copy of the set of subscribers.
Start(b) ==
  /\ broadcaster[b] = "owning"
  /\ broadcaster' = [broadcaster EXCEPT ![b] = "sending"]
  /\ fate' = Append(fate, "pending")
  /\ item' = [item EXCEPT ![b] = Len(fate) + 1]
  /\ todo' = [todo EXCEPT ![b] = subscribers]
  /\ UNCHANGED <<listenerVars, lockVars, dead, blocked>>

\* send to a listener that waits.
Send(b, l) ==
  /\ broadcaster[b] = "sending"
  /\ l \in todo[b]
  /\ listener[l] = "waiting"
  /\ Give(l, item[b])
  /\ listener' = [listener EXCEPT ![l] = "busy"]
  /\ todo' = [todo EXCEPT ![b] = @ \ {l}]
  /\ UNCHANGED <<subscribers, joined, lockVars, broadcaster, dead, blocked,
                 item, fate>>

\* Mutant: a listener that does not wait is passed over.
BlockNever(b, l) ==
  /\ broadcaster[b] = "sending"
  /\ l \in todo[b]
  /\ listener[l] = "busy"
  /\ todo' = [todo EXCEPT ![b] = @ \ {l}]
  /\ UNCHANGED <<listenerVars, lockVars, broadcaster, dead, blocked, item, fate>>

\* send to a listener that does something else.
Block(b, l) ==
  /\ broadcaster[b] = "sending"
  /\ l \in todo[b]
  /\ listener[l] = "busy"
  /\ broadcaster' = [broadcaster EXCEPT ![b] = "blocked"]
  /\ blocked' = [blocked EXCEPT ![b] = {l}]
  /\ UNCHANGED <<listenerVars, lockVars, todo, dead, item, fate>>

\* ClosedResourceError: the subscriber is noted.
FindClosed(b, l) ==
  /\ broadcaster[b] = "sending"
  /\ l \in todo[b]
  /\ listener[l] = "closed"
  /\ dead' = [dead EXCEPT ![b] = @ \cup {l}]
  /\ todo' = [todo EXCEPT ![b] = @ \ {l}]
  /\ UNCHANGED <<listenerVars, lockVars, broadcaster, blocked, item, fate>>

\* BrokenResourceError, which broadcast does not catch: the receive stream was
\* closed before the send, or during it.
Break(b) ==
  /\ \/ broadcaster[b] = "broken"
     \/ /\ broadcaster[b] = "sending"
        /\ \E l \in todo[b] : listener[l] = "closing"
  /\ End(b, "raised")
  /\ UNCHANGED listenerVars

\* All are served: the closed ones are removed.
Finish(b) ==
  /\ broadcaster[b] = "sending"
  /\ todo[b] = {}
  /\ End(b, "returned")
  /\ subscribers' = subscribers \ dead[b]
  /\ UNCHANGED <<listener, got, joined>>

\* The task is cancelled: in send, with the lock just acquired, or while it
\* waits for it.
CancelSend(b) ==
  /\ broadcaster[b] \in {"sending", "blocked"}
  /\ End(b, "cancelled")
  /\ UNCHANGED listenerVars

CancelOwner(b) ==
  /\ broadcaster[b] = "owning"
  /\ Release(b)
  /\ UNCHANGED <<listenerVars, fate>>

CancelAcquire(b) ==
  /\ broadcaster[b] = "queued"
  /\ broadcaster' = [broadcaster EXCEPT ![b] = "idle"]
  /\ \E i \in DOMAIN waiters : waiters[i] = b /\ waiters' = RemoveAt(waiters, i)
  /\ UNCHANGED <<listenerVars, owner, todo, dead, blocked, item, fate>>

\* Every client has left and the bound is reached.
Done ==
  /\ Len(fate) >= MaxBroadcasts
  /\ \A l \in Listeners : listener[l] = "closed"
  /\ \A b \in Broadcasters : broadcaster[b] = "idle"
  /\ UNCHANGED vars

Next ==
  \/ \E l \in Listeners :
       \/ Listen(l) \/ Wait(l) \/ Interrupt(l) \/ Leave(l) \/ Unsubscribe(l)
       \/ \E b \in Broadcasters :
            Take(l, b) \/ Send(b, l) \/ Block(b, l) \/ FindClosed(b, l)
  \/ \E b \in Broadcasters :
       Broadcast(b) \/ Start(b) \/ Break(b) \/ Finish(b)
         \/ CancelSend(b) \/ CancelOwner(b) \/ CancelAcquire(b)
  \/ Done

Spec == Init /\ [][Next]_vars

\* Tasks run on, and a listener comes back for its next item or leaves: the
\* consumer of a channel is a client that reads its stream.
Progress(b) ==
  \/ Start(b) \/ Break(b) \/ Finish(b)
  \/ \E l \in Listeners : Send(b, l) \/ Block(b, l) \/ FindClosed(b, l)
Consume(l) == Wait(l) \/ Unsubscribe(l) \/ \E b \in Broadcasters : Take(l, b)
FairSpec ==
  /\ Spec
  /\ \A b \in Broadcasters : WF_vars(Progress(b))
  /\ \A l \in Listeners : WF_vars(Consume(l))

-----------------------------------------------------------------------------
TypeOK ==
  /\ subscribers \subseteq Listeners
  /\ listener \in [Listeners -> ListenerStates]
  /\ got \in [Listeners -> Seq(Nat)]
  /\ owner \in Broadcasters \cup {None}
  /\ waiters \in Seq(Broadcasters)
  /\ broadcaster \in [Broadcasters -> TaskStates]
  /\ todo \in [Broadcasters -> SUBSET Listeners]
  /\ dead \in [Broadcasters -> SUBSET Listeners]
  /\ blocked \in [Broadcasters -> SUBSET Listeners]
  /\ item \in [Broadcasters -> Nat]
  /\ joined \in [Listeners -> Nat]
  /\ \A b \in Broadcasters : broadcaster[b] = "blocked" <=> blocked[b] # {}
  /\ fate \in Seq(Fates)

\* Broadcasts are seen in one order: every listener gets each message at most
\* once, and in the order in which the broadcasts began.
SameOrder ==
  \A l \in Listeners : \A i, j \in DOMAIN got[l] : i < j => got[l][i] < got[l][j]

\* A broadcast that returns reached every listener that was there before it
\* began and has not left since.
ReturnedReachedAll ==
  \A n \in DOMAIN fate, l \in Listeners :
    (fate[n] = "returned" /\ listener[l] \in {"busy", "waiting"} /\ joined[l] < n)
      => \E i \in DOMAIN got[l] : got[l][i] = n

\* A stream that is closed is not a subscriber: a broadcast never finds one
\* that it has to remove.
NoneLeaked == \A l \in subscribers : listener[l] # "closed"

\* A task that wants to broadcast is done eventually, however listeners come,
\* go and time out and other broadcasts fail.
BroadcastEnds ==
  \A b \in Broadcasters : broadcaster[b] # "idle" ~> broadcaster[b] = "idle"
=============================================================================
