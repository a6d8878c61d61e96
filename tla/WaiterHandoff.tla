--------------------------- MODULE WaiterHandoff ---------------------------
(***************************************************************************)
(* BlockingLimiter and LifoBlockingLimiter over a SimpleLimiter or an      *)
(* AbstractPartitionedLimiter.                                             *)
(*                                                                         *)
(* A caller first tries the delegate; if it is refused it parks a          *)
(* WaiterSlot, which lives on its own stack, on a list guarded by mu_ and  *)
(* waits for a Notification until a deadline.  Whoever completes a slot    *)
(* gives the inner slot back to the delegate and then, holding mu_, hands  *)
(* every slot the delegate grants to the waiter at the front of the list.  *)
(* The two classes run the same steps; they differ in the end of the list  *)
(* at which a waiter parks, and in the backlog bound.                      *)
(*                                                                         *)
(* The delegate decides in one step; a partitioned one may then make the   *)
(* refused thread sleep, and does so with mu_ held when Unblock called it. *)
(* Slot ids are drawn from a counter that wraps at IdMod, the 2^32 of the  *)
(* code.                                                                   *)
(***************************************************************************)
EXTENDS Integers, Sequences, FiniteSets, FiniteSetsExt, SequencesExt

CONSTANTS Thread,             \* callers of TryAcquire
          PartitionOf,        \* PartitionOf[t]: what t's context resolves to
          Share, ShareBase,   \* Share[p]: percent of p, over ShareBase
          Delayed,            \* partitions with a non-zero reject_delay
          MaxDelayedThreads,
          BacklogSize,        \* LifoBlockingLimiter::Builder::BacklogSize
          IdMod,              \* how many slot ids there are
          InitialLimit,       \* the delegate's cap at construction
          SettableTo          \* caps the application may set while running

Partition == DOMAIN Share

ASSUME HandoffAssumption ==
  /\ IsFiniteSet(Thread) /\ "none" \notin Thread
  /\ PartitionOf \in [Thread -> Partition]
  /\ Share \in [Partition -> 0 .. ShareBase] /\ ShareBase \in Nat \ {0}
  /\ Delayed \subseteq Partition /\ MaxDelayedThreads \in Nat
  /\ BacklogSize \in Nat \ {0} /\ IdMod \in Nat \ {0}
  /\ InitialLimit \in Nat /\ SettableTo \subseteq Nat

VARIABLES
  config,     \* the two classes this behaviour is about
  limit,      \* the delegate's cap
  inflight,   \* the delegate's inflight_
  busy,       \* busy[p]: slots of partition p; a SimpleLimiter has no such count
  mu,         \* the thread that holds mu_ across steps (Unblock), or None
  queue,      \* queue_ / deque_: the parked WaiterSlots, front first
  slot,       \* slot[t]: a slot has been put into t's WaiterSlot
  ready,      \* ready[t]: the Notification of t's WaiterSlot
  next_id,    \* next_slot_id_
  id,         \* id[t]: partition_index of t's outer guard
  active,     \* active_slots_: active[i] is the caller the inner slot
              \*                was granted to, or None
  inner,      \* inner[t]: likewise, the inner slot t has on its stack
  pc,         \* where a thread is
  waker,      \* the waiter Unblock has popped and is about to notify, or None
  earlier,    \* history: who was parked when t parked, and still is
  missed,     \* history: the waiters Unblock had to try when a slot was last
              \*          given back; forgotten when something else makes room
  drawn,      \* history: how many ids were drawn since t drew its own, modulo
              \*          IdMod
  lapped      \* history: the guards whose id somebody else drew meanwhile

delegate == <<limit, inflight, busy>>
list == <<queue, earlier, missed>>
waiter == <<slot, ready>>
ids == <<next_id, id, drawn, lapped>>
vars == <<config, delegate, mu, list, waiter, ids, active, inner, pc, waker>>

None == "none"

Id == 0 .. IdMod - 1

Init ==
  /\ config \in [class : {"BlockingLimiter", "LifoBlockingLimiter"},
                 delegate : {"SimpleLimiter", "AbstractPartitionedLimiter"}]
  /\ limit = InitialLimit
  /\ inflight = 0
  /\ busy = [p \in Partition |-> 0]
  /\ mu = None
  /\ queue = << >>
  /\ slot = [t \in Thread |-> FALSE]
  /\ ready = [t \in Thread |-> FALSE]
  /\ next_id = 0
  /\ id = [t \in Thread |-> 0]
  /\ active = [i \in Id |-> None]
  /\ inner = [t \in Thread |-> None]
  /\ pc = [t \in Thread |-> "idle"]
  /\ waker = None
  /\ earlier = [t \in Thread |-> {}]
  /\ missed = {}
  /\ drawn = [t \in Thread |-> 0]
  /\ lapped = {}

Goto(t, label) == pc' = [pc EXCEPT ![t] = label]

Lifo == config.class = "LifoBlockingLimiter"

Partitioned == config.delegate = "AbstractPartitionedLimiter"

Parked == ToSet(queue)

Unlocked == mu = None

----------------------------------------------------------------------------
(* The delegate.                                                           *)

\* max(1, ceil(limit * percent))
Quota(p) == Max({1, (limit * Share[p] + ShareBase - 1) \div ShareBase})

\* A partition may use idle capacity, and its quota in any case.
Admits(t) == \/ inflight < limit
             \/ Partitioned /\ busy[PartitionOf[t]] < Quota(PartitionOf[t])

\* t is granted a slot.
Grant(t) == /\ inflight' = inflight + 1
            /\ busy' = [busy EXCEPT ![PartitionOf[t]] = @ + 1]

\* n releases of t's slot reach the delegate.
GiveBack(t, n) == /\ inflight' = inflight - n
                  /\ busy' = [busy EXCEPT ![PartitionOf[t]] = @ - n]

Sleeping == {t \in Thread : pc[t] \in {"delay", "delay_locked"}}

\* MaybeBackoffDelay: a refusal of t sleeps while the budget lasts.
RefusalSleeps(t) == /\ Partitioned
                    /\ PartitionOf[t] \in Delayed
                    /\ Cardinality(Sleeping) < MaxDelayedThreads

----------------------------------------------------------------------------
(* DoTryAcquire.                                                           *)

FastPathAdmit(t) ==
  /\ pc[t] = "idle"
  /\ Admits(t)
  /\ Grant(t)
  /\ inner' = [inner EXCEPT ![t] = t]
  /\ Goto(t, "wrap")
  /\ UNCHANGED <<config, limit, mu, list, waiter, ids, active, waker>>

FastPathReject(t) ==
  /\ pc[t] = "idle"
  /\ ~Admits(t)
  /\ Goto(t, IF RefusalSleeps(t) THEN "delay" ELSE "park")
  /\ UNCHANGED <<config, delegate, mu, list, waiter, ids, active, inner, waker>>

DelayEnds(t) ==
  /\ pc[t] = "delay"
  /\ Goto(t, "park")
  /\ UNCHANGED <<config, delegate, mu, list, waiter, ids, active, inner, waker>>

BacklogFull == Lifo /\ Len(queue) >= BacklogSize

ParkedList_AlwaysBack(t) == Append(queue, t)

\* deque_.push_front(&waiter), queue_.push_back(&waiter)
ParkedList(t) == IF Lifo THEN <<t>> \o queue ELSE Append(queue, t)

\* Does a waiter of another partition now stand before the ones Unblock had
\* to try?
CutsIn(t) == Lifo /\ \E u \in missed : PartitionOf[u] # PartitionOf[t]

Park(t) ==
  /\ pc[t] = "park"
  /\ Unlocked
  /\ ~BacklogFull
  /\ queue' = ParkedList(t)
  /\ slot' = [slot EXCEPT ![t] = FALSE]
  /\ ready' = [ready EXCEPT ![t] = FALSE]
  /\ earlier' = [earlier EXCEPT ![t] = Parked]
  /\ missed' = IF CutsIn(t) THEN {} ELSE missed
  /\ Goto(t, "wait")
  /\ UNCHANGED <<config, delegate, mu, ids, active, inner, waker>>

RejectBacklogFull(t) ==
  /\ pc[t] = "park"
  /\ Unlocked
  /\ BacklogFull
  /\ Goto(t, "idle")
  /\ UNCHANGED <<config, delegate, mu, list, waiter, ids, active, inner, waker>>

\* WaitForNotificationWithDeadline returns: notified, or the deadline passed.
Notified(t) ==
  /\ pc[t] = "wait"
  /\ ready[t]
  /\ Goto(t, "notified")
  /\ UNCHANGED <<config, delegate, mu, list, waiter, ids, active, inner, waker>>

TimedOut_Never(t) == FALSE /\ UNCHANGED vars

TimedOut(t) ==
  /\ pc[t] = "wait"
  /\ ~ready[t]
  /\ Goto(t, "expired")
  /\ UNCHANGED <<config, delegate, mu, list, waiter, ids, active, inner, waker>>

\* The wait is over; its result, `notified`, is kept but decides nothing.
Collecting(t) == pc[t] \in {"notified", "expired"}

Collectable_TrustsWait(t) == slot[t] /\ pc[t] = "notified"

\* The re-check under mu_ looks at the slot, not at what the wait returned.
Collectable(t) == slot[t]

CollectUnlocked_Ignored == TRUE

\* The re-check takes mu_.
CollectUnlocked == Unlocked

\* The WaiterSlot is on t's stack; its slot, if any, has been moved out.
DestroyWaiter(t) == /\ slot' = [slot EXCEPT ![t] = FALSE]
                    /\ ready' = [ready EXCEPT ![t] = FALSE]

\* t is no longer parked: nobody waits behind it any more.
Departs(t) ==
  /\ earlier' = [u \in Thread |-> IF u = t THEN {} ELSE earlier[u] \ {t}]
  /\ missed' = missed \ {t}

CollectSlot(t) ==
  /\ Collecting(t)
  /\ CollectUnlocked
  /\ Collectable(t)
  /\ DestroyWaiter(t)
  /\ inner' = [inner EXCEPT ![t] = t]
  /\ Goto(t, "wrap")
  /\ UNCHANGED <<config, delegate, mu, list, ids, active, waker>>

\* The search for &waiter stops at the first hit, which is erased.
Erased(t) == LET at == {i \in DOMAIN queue : queue[i] = t}
             IN  IF at = {} THEN queue ELSE RemoveAt(queue, Min(at))

\* Nothing was delivered: leave the list and return nullopt.
GiveUp(t) ==
  /\ Collecting(t)
  /\ CollectUnlocked
  /\ ~Collectable(t)
  /\ queue' = Erased(t)
  /\ Departs(t)
  /\ DestroyWaiter(t)
  /\ Goto(t, "idle")
  /\ UNCHANGED <<config, delegate, mu, ids, active, inner, waker>>

----------------------------------------------------------------------------
(* Wrapping the inner slot in an outer guard with an id.                   *)

NextId_Stuck == next_id

\* next_slot_id_.fetch_add(1), outside mu_
NextId == (next_id + 1) % IdMod

\* Guards that carry an id.
Numbered == {t \in Thread : pc[t] \in {"emplace", "hold"}}

DrawId(t) ==
  LET turn(u) == (drawn[u] + 1) % IdMod
      full == {u \in Numbered : turn(u) = 0}   \* t draws their id again
  IN  /\ pc[t] = "wrap"
      /\ id' = [id EXCEPT ![t] = next_id]
      /\ next_id' = NextId
      /\ drawn' = [u \in Thread |->
                     IF u \in Numbered THEN turn(u) ELSE 0]
      /\ lapped' = lapped \union full \union (IF full = {} THEN {} ELSE {t})
      /\ Goto(t, "emplace")
      /\ UNCHANGED <<config, delegate, mu, list, waiter, active, inner, waker>>

\* active_slots_.emplace: an id that is there already keeps its entry, and
\* the new inner slot is destroyed, which gives it back without an Unblock.
Emplace(t) ==
  /\ pc[t] = "emplace"
  /\ Unlocked
  /\ IF active[id[t]] = None
     THEN /\ active' = [active EXCEPT ![id[t]] = t]
          /\ UNCHANGED <<inflight, busy, missed>>
     ELSE /\ GiveBack(t, 1)
          /\ missed' = {}
          /\ UNCHANGED active
  /\ inner' = [inner EXCEPT ![t] = None]
  /\ Goto(t, "hold")
  /\ UNCHANGED <<config, limit, mu, queue, earlier, waiter, ids, waker>>

----------------------------------------------------------------------------
(* OnSlotComplete and Unblock.                                             *)

Extracted_Kept(t) == active

\* active_slots_.erase(it)
Extracted(t) == [active EXCEPT ![id[t]] = None]

\* The caller completes or drops its guard; the inner slot is looked up.
ExtractInner(t) ==
  /\ pc[t] = "hold"
  /\ Unlocked
  /\ active' = Extracted(t)
  /\ inner' = [inner EXCEPT ![t] = active[id[t]]]
  /\ Goto(t, IF active[id[t]] = None THEN "unblock" ELSE "mirror")
  /\ id' = [id EXCEPT ![t] = 0]
  /\ drawn' = [drawn EXCEPT ![t] = 0]
  /\ lapped' = lapped \ {t}
  /\ UNCHANGED <<config, delegate, mu, list, waiter, next_id, waker>>

InnerReleases_DestructorToo == 2

\* The inner guard's destructor is a no-op once a status was mirrored.
InnerReleases == 1

AfterMirror_NoUnblock == "idle"

\* Once the inner slot is completed, Unblock is called.
AfterMirror == "unblock"

\* The waiters Unblock will try for sure: it stops at the first refusal, which
\* for a partitioned delegate says nothing about other partitions.
LeadingGroup ==
  {queue[i] : i \in {j \in DOMAIN queue : \A k \in 1 .. j :
      Partitioned => PartitionOf[queue[k]] = PartitionOf[queue[j]]}}

\* The inner slot is completed, outside mu_.
MirrorStatus(t) ==
  /\ pc[t] = "mirror"
  /\ GiveBack(inner[t], InnerReleases)
  /\ inner' = [inner EXCEPT ![t] = None]
  /\ missed' = LeadingGroup
  /\ Goto(t, AfterMirror)
  /\ UNCHANGED <<config, limit, mu, queue, earlier, waiter, ids, active, waker>>

LockUnblock(t) ==
  /\ pc[t] = "unblock"
  /\ Unlocked
  /\ mu' = t
  /\ Goto(t, "walk")
  /\ UNCHANGED <<config, delegate, list, waiter, ids, active, inner, waker>>

\* The delegate admits the front waiter: put the slot there and pop it.
HandOff(t) ==
  /\ pc[t] = "walk"
  /\ queue # << >>
  /\ Admits(Head(queue))
  /\ Grant(Head(queue))
  /\ slot' = [slot EXCEPT ![Head(queue)] = TRUE]
  /\ queue' = Tail(queue)
  /\ waker' = Head(queue)
  /\ Departs(Head(queue))
  /\ Goto(t, "notify")
  /\ UNCHANGED <<config, limit, mu, ready, ids, active, inner>>

NotifyWaiter(t) ==
  /\ pc[t] = "notify"
  /\ ready' = [ready EXCEPT ![waker] = TRUE]
  /\ waker' = None
  /\ Goto(t, "walk")
  /\ UNCHANGED <<config, delegate, mu, list, slot, ids, active, inner>>

\* The front waiter is refused; the delegate may sleep, and mu_ stays locked.
RefusedInUnblock(t) ==
  /\ pc[t] = "walk"
  /\ queue # << >>
  /\ ~Admits(Head(queue))
  /\ RefusalSleeps(Head(queue))
  /\ Goto(t, "delay_locked")
  /\ UNCHANGED <<config, delegate, mu, list, waiter, ids, active, inner, waker>>

StopWalking(t) ==
  /\ \/ pc[t] = "delay_locked"
     \/ /\ pc[t] = "walk"
        /\ queue # << >> => ~Admits(Head(queue)) /\ ~RefusalSleeps(Head(queue))
  /\ mu' = None
  /\ Goto(t, "idle")
  /\ UNCHANGED <<config, delegate, list, waiter, ids, active, inner, waker>>

----------------------------------------------------------------------------
\* The application sets the delegate's cap; neither class listens to it.
SetLimit(n) ==
  /\ n # limit
  /\ limit' = n
  /\ missed' = {}
  /\ UNCHANGED <<config, inflight, busy, mu, queue, earlier, waiter, ids, active,
                 inner, pc, waker>>

Await(t) == Notified(t) \/ TimedOut(t)

Collect(t) == CollectSlot(t) \/ GiveUp(t)

DoTryAcquire(t) ==
  \/ FastPathAdmit(t) \/ FastPathReject(t) \/ DelayEnds(t)
  \/ Park(t) \/ RejectBacklogFull(t)
  \/ Await(t) \/ Collect(t)
  \/ DrawId(t) \/ Emplace(t)

Unblock(t) == \/ LockUnblock(t) \/ HandOff(t) \/ NotifyWaiter(t)
              \/ RefusedInUnblock(t) \/ StopWalking(t)

OnSlotComplete(t) == ExtractInner(t) \/ MirrorStatus(t) \/ Unblock(t)

Next == \/ \E t \in Thread : DoTryAcquire(t) \/ OnSlotComplete(t)
        \/ \E n \in SettableTo : SetLimit(n)

Spec == Init /\ [][Next]_vars

\* A call that has started, and a release, keep running, and a request for
\* mu_ is granted eventually; nobody has to start a call or complete a slot.
RunningStep(t) ==
  \/ DelayEnds(t) \/ Await(t) \/ DrawId(t) \/ MirrorStatus(t)
  \/ HandOff(t) \/ NotifyWaiter(t) \/ RefusedInUnblock(t) \/ StopWalking(t)

LockingStep(t) ==
  Park(t) \/ RejectBacklogFull(t) \/ Collect(t) \/ Emplace(t) \/ LockUnblock(t)

Fairness == \A t \in Thread : /\ WF_vars(RunningStep(t))
                              /\ SF_vars(LockingStep(t))

FairSpec == Spec /\ Fairness

----------------------------------------------------------------------------
(* Properties of both classes over both delegates.                         *)

Label == {"idle", "delay", "park", "wait", "notified", "expired", "wrap",
          "emplace", "hold", "mirror", "unblock", "walk", "notify",
          "delay_locked"}

\* Every variable keeps its type; in particular the delegate's counters are
\* never brought below zero by a slot that is given back twice, and the deque
\* never grows beyond the backlog.
TypeOK ==
  /\ limit \in Nat
  /\ inflight \in Nat
  /\ busy \in [Partition -> Nat]
  /\ mu \in Thread \union {None}
  /\ queue \in Seq(Thread) /\ (Lifo => Len(queue) <= BacklogSize)
  /\ slot \in [Thread -> BOOLEAN]
  /\ ready \in [Thread -> BOOLEAN]
  /\ next_id \in Id
  /\ id \in [Thread -> Id]
  /\ active \in [Id -> Thread \union {None}]
  /\ inner \in [Thread -> Thread \union {None}]
  /\ pc \in [Thread -> Label]
  /\ waker \in Thread \union {None}
  /\ earlier \in [Thread -> SUBSET Thread]
  /\ missed \in SUBSET Thread
  /\ drawn \in [Thread -> Id]
  /\ lapped \in SUBSET Thread

\* Of the partitions in P, the inner slots that are on a stack, in a WaiterSlot
\* and in active_slots_.
OwnedBy(P) ==
  LET Owner == {t \in Thread : PartitionOf[t] \in P}
  IN    Cardinality({t \in Thread : inner[t] \in Owner})
      + Cardinality({t \in Owner : slot[t]})
      + Cardinality({i \in Id : active[i] \in Owner})

\* No slot is lost or given back twice, to the right partition, whatever
\* timeouts race whatever deliveries and even if slot ids collide: the delegate
\* counts exactly the slots somebody owns.
NoSlotLost == /\ inflight = OwnedBy(Partition)
              /\ \A p \in Partition : busy[p] = OwnedBy({p})

\* A completion finds the inner slot its own call was granted: the slot id is
\* unique among the guards that are out, unless a guard was kept while the
\* counter made a full turn.
OwnSlotCompleted ==
  \A t \in Thread : pc[t] = "hold" /\ t \notin lapped => active[id[t]] = t

\* The list and Unblock hold raw pointers to WaiterSlots on other threads'
\* stacks; no thread leaves DoTryAcquire while one of them points at it.
NoDanglingWaiter ==
  \A t \in Thread :
    t \in Parked \/ waker = t => pc[t] = "wait" \/ Collecting(t)

\* First in, first out, or last in, first out: a slot is handed to a waiter
\* only when everyone who was parked before it (after it) has been served or
\* has given up, whoever leaves from the middle of the list by timing out.
ServedInOrder ==
  [][\A t \in Thread : slot'[t] /\ ~slot[t] =>
       IF Lifo THEN \A u \in Parked : t \notin earlier[u]
               ELSE earlier[t] = {}]_vars

\* A slot put into a WaiterSlot reaches the caller, even when the deadline
\* passes at that very moment.
DeliveredSlotIsReturned == \A t \in Thread : slot[t] ~> pc[t] = "hold"

\* Every TryAcquire returns, admitted or not, even if no slot is ever released
\* and though the delegate sleeps with mu_ held: the deadline bounds the wait.
EveryCallReturns ==
  \A t \in Thread :
    pc[t] \in {"delay", "park", "wait", "notified", "expired", "wrap",
               "emplace"}
      ~> pc[t] \in {"hold", "idle"}

Waking == \E t \in Thread : pc[t] \in {"unblock", "walk", "notify"}

\* "Release wakes a waiting thread": until something else makes room, a waiter
\* that was parked when a slot was given back, with no other partition's waiter
\* before it, never sits there with room in the delegate and nobody on the way
\* to hand it over.
ReleaseWakesParked ==
  (\E t \in missed : Admits(t)) => Waking

\* "Blocks the caller when the cap is full": a waiter stays parked with room in
\* the delegate only while somebody is on the way to wake it.
BlockedOnlyWhenFull ==
  (\E t \in Parked : Admits(t)) => Waking
=============================================================================
