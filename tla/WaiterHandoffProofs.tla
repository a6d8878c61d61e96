------------------------ MODULE WaiterHandoffProofs ------------------------
(***************************************************************************)
(* Proofs about WaiterHandoff: both blocking limiters over both delegates, *)
(* for every set of threads, partitions, shares, caps, backlog bound and   *)
(* number of slot ids.                                                     *)
(*                                                                         *)
(* The invariant follows a WaiterSlot through its life.  It is on the list *)
(* or has been handed a slot, never both and never neither (Waiters); the  *)
(* list is in the order of arrival (Arrival); Unblock has popped at most   *)
(* one waiter it has not notified yet, and holds mu_ meanwhile (Lock,      *)
(* Waiters); an inner slot is on a stack only in the few steps that move   *)
(* it (Stacks); and an entry of active_slots_ belongs to a guard that is   *)
(* still out (Ids).                                                        *)
(***************************************************************************)
EXTENDS WaiterHandoff, FiniteSetTheorems, SequenceTheorems, TLAPS

----------------------------------------------------------------------------
(* The inductive invariant.                                                *)

\* Unblock holds mu_ from the lock to the end of its walk, and nobody else
\* holds it across steps.
Lock == \A t \in Thread : mu = t <=> pc[t] \in {"walk", "notify", "delay_locked"}

Distinct(q) == \A i, j \in DOMAIN q : q[i] = q[j] => i = j

\* A waiter is parked until a slot is put into its WaiterSlot; the Notification
\* comes after that, and the waiter is gone only after both or with neither.
Waiters ==
  /\ Distinct(queue)
  /\ \A t \in Parked : pc[t] \in {"wait", "expired"} /\ ~slot[t]
  /\ \A t \in Thread : slot[t] => pc[t] \in {"wait", "notified", "expired"}
  /\ \A t \in Thread : pc[t] \in {"wait", "notified", "expired"} =>
       t \in Parked \/ slot[t]
  /\ \A t \in Thread : ready[t] => slot[t]
  /\ waker # None => slot[waker] /\ mu # None /\ pc[mu] = "notify"
  /\ \A t \in Thread : pc[t] = "notify" => waker # None

\* The inner slot is on a thread's stack only while it is moved.
Stacks ==
  \A t \in Thread :
    /\ inner[t] # None <=> pc[t] \in {"wrap", "emplace", "mirror"}
    /\ pc[t] \in {"wrap", "emplace"} => inner[t] = t

\* A waiter stands behind (in a deque: before) those who were there first.
Arrival ==
  /\ \A t \in Thread : earlier[t] \subseteq Parked
  /\ \A i, j \in DOMAIN queue : queue[j] \in earlier[queue[i]] =>
       IF Lifo THEN j > i ELSE j < i

\* Unblock, working from the front, meets the missed waiters before anybody
\* whom the delegate might treat differently.
Missed ==
  /\ missed \subseteq Parked
  /\ \A i, j \in DOMAIN queue : queue[j] \in missed /\ i < j /\ Partitioned =>
       PartitionOf[queue[i]] = PartitionOf[queue[j]]

\* n is the id that comes d + 1 draws after id a.
IsAhead(n, a, d) ==
  n = IF a + 1 + d < IdMod THEN a + 1 + d ELSE a + 1 + d - IdMod

\* The counter is one full turn or less ahead of every guard's id; two guards
\* with one id have both been lapped; an entry belongs to its guard.
Ids ==
  /\ \A t \in Numbered : IsAhead(next_id, id[t], drawn[t])
  /\ \A t, u \in Numbered : t # u /\ id[t] = id[u] => t \in lapped
  /\ \A i \in Id : active[i] # None => pc[active[i]] = "hold" /\ id[active[i]] = i

HandoffInv ==
  /\ TypeOK
  /\ Lock
  /\ Waiters
  /\ Stacks
  /\ Arrival
  /\ Missed
  /\ Ids
  /\ OwnSlotCompleted
  /\ NoSlotLost
  /\ ReleaseWakesParked

----------------------------------------------------------------------------
(* The list.                                                               *)

\* r is q without its i-th element; read the other way, q is r with an element
\* inserted at place i.
Without(q, r, i) ==
  /\ q \in Seq(Thread) /\ r \in Seq(Thread) /\ i \in 1 .. Len(q)
  /\ Len(q) = Len(r) + 1
  /\ \A j \in 1 .. Len(r) : r[j] = q[IF j < i THEN j ELSE j + 1]

\* Every place of q other than i is a place of r, in the same order.
LEMMA WithoutPlaces ==
  ASSUME NEW q, NEW r, NEW i, Without(q, r, i), NEW k \in DOMAIN q, k # i
  PROVE  /\ (IF k < i THEN k ELSE k - 1) \in DOMAIN r
         /\ r[IF k < i THEN k ELSE k - 1] = q[k]
BY SMTT(60) DEF Without

\* A list that loses one of its distinct elements loses only that one.
LEMMA WithoutElement ==
  ASSUME NEW q, NEW r, NEW i, Without(q, r, i), Distinct(q)
  PROVE  Distinct(r) /\ ToSet(r) = ToSet(q) \ {q[i]}
<1>1. \A j \in DOMAIN r : /\ (IF j < i THEN j ELSE j + 1) \in DOMAIN q
                         /\ (IF j < i THEN j ELSE j + 1) # i
                         /\ r[j] = q[IF j < i THEN j ELSE j + 1]
  BY DEF Without
<1>2. Distinct(r)
  BY <1>1 DEF Distinct, Without
<1>3. i \in DOMAIN q
  BY DEF Without
<1>4. \A x \in ToSet(r) : x \in ToSet(q) \ {q[i]}
  BY <1>1, <1>3 DEF ToSet, Distinct
<1>5. \A x \in ToSet(q) \ {q[i]} : x \in ToSet(r)
  BY WithoutPlaces DEF ToSet
<1>6. QED
  BY <1>2, <1>4, <1>5

\* A list that gains a new element stays free of duplicates.
LEMMA WithElement ==
  ASSUME NEW q, NEW r, NEW i, Without(q, r, i), Distinct(r), q[i] \notin ToSet(r)
  PROVE  Distinct(q) /\ ToSet(q) = ToSet(r) \union {q[i]}
<1>1. \A k \in DOMAIN q : k # i => q[k] \in ToSet(r)
  BY WithoutPlaces DEF ToSet
<1>2. Distinct(q)
  <2> SUFFICES ASSUME NEW j \in DOMAIN q, NEW k \in DOMAIN q, q[j] = q[k]
               PROVE  j = k
    BY DEF Distinct
  <2>1. CASE j = i \/ k = i
    BY <1>1, <2>1
  <2>2. CASE j # i /\ k # i
    <3>1. (IF j < i THEN j ELSE j - 1) = (IF k < i THEN k ELSE k - 1)
      BY <2>2, WithoutPlaces DEF Distinct
    <3>2. i \in Int /\ j \in Int /\ k \in Int
      BY DEF Without
    <3>3. QED
      BY <2>2, <3>1, <3>2
  <2>3. QED
    BY <2>1, <2>2
<1>3. i \in DOMAIN q
  BY DEF Without
<1>4. \A j \in DOMAIN r : r[j] \in ToSet(q)
  BY DEF Without, ToSet
<1>5. QED
  BY <1>1, <1>2, <1>3, <1>4 DEF ToSet

\* queue_.push_back
LEMMA PushBack ==
  ASSUME NEW q \in Seq(Thread), NEW t \in Thread
  PROVE  /\ Without(Append(q, t), q, Len(q) + 1)
         /\ Append(q, t)[Len(q) + 1] = t
BY AppendProperties DEF Without

\* deque_.push_front
LEMMA PushFront ==
  ASSUME NEW q \in Seq(Thread), NEW t \in Thread
  PROVE  /\ Without(<<t>> \o q, q, 1)
         /\ (<<t>> \o q)[1] = t
BY DEF Without

\* pop_front
LEMMA PopFront ==
  ASSUME NEW q \in Seq(Thread), q # << >>
  PROVE  Without(q, Tail(q), 1) /\ Head(q) = q[1] /\ q[1] \in Thread
BY HeadTailProperties DEF Without

\* erase(it)
LEMMA EraseAt ==
  ASSUME NEW q \in Seq(Thread), NEW i \in 1 .. Len(q)
  PROVE  Without(q, RemoveAt(q, i), i)
<1> DEFINE a == SubSeq(q, 1, i - 1)
           b == SubSeq(q, i + 1, Len(q))
<1>1. \A j \in 1 .. Len(q) : q[j] \in Thread
  OBVIOUS
<1>2. /\ a \in Seq(Thread) /\ Len(a) = i - 1
      /\ \A j \in 1 .. i - 1 : a[j] = q[j]
  BY <1>1, SubSeqProperties
<1>3. /\ b \in Seq(Thread) /\ Len(b) = Len(q) - i
      /\ \A j \in 1 .. Len(q) - i : b[j] = q[i + j]
  BY <1>1, SubSeqProperties
<1> HIDE DEF a, b
<1>4. /\ a \o b \in Seq(Thread) /\ Len(a \o b) = Len(a) + Len(b)
      /\ \A j \in 1 .. Len(a) + Len(b) :
           (a \o b)[j] = IF j <= Len(a) THEN a[j] ELSE b[j - Len(a)]
  BY <1>2, <1>3, ConcatProperties
<1>5. \A j \in 1 .. Len(q) - 1 : (a \o b)[j] = q[IF j < i THEN j ELSE j + 1]
  BY <1>2, <1>3, <1>4
<1>6. Len(a \o b) = Len(q) - 1
  BY <1>2, <1>3, <1>4
<1> DEFINE r == a \o b
<1>7. /\ r \in Seq(Thread) /\ Len(r) = Len(q) - 1
      /\ \A j \in 1 .. Len(q) - 1 : r[j] = q[IF j < i THEN j ELSE j + 1]
  BY <1>4, <1>5, <1>6
<1>8. RemoveAt(q, i) = r
  BY DEF RemoveAt, a, b
<1> HIDE DEF r
<1>9. Without(q, r, i)
  BY <1>7 DEF Without
<1>10. QED
  BY <1>8, <1>9

\* The search for a parked waiter finds it, and erases it and nothing else.
LEMMA ErasedIsWithout ==
  ASSUME queue \in Seq(Thread), Distinct(queue), NEW t \in Parked
  PROVE  \E i \in DOMAIN queue : queue[i] = t /\ Without(queue, Erased(t), i)
<1>1. PICK i \in DOMAIN queue : queue[i] = t
  BY DEF Parked, ToSet
<1>2. {j \in DOMAIN queue : queue[j] = t} = {i}
  BY <1>1 DEF Distinct
<1>3. Min({i}) = i
  BY <1>1 DEF Min
<1>4. Erased(t) = RemoveAt(queue, i)
  BY <1>2, <1>3 DEF Erased
<1>5. QED
  BY <1>1, <1>4, EraseAt

\* Park inserts the caller, at the end its class parks at.
LEMMA ParkQueue ==
  ASSUME HandoffInv, NEW t \in Thread, Park(t)
  PROVE  /\ t \notin Parked /\ Distinct(queue') /\ Parked' = Parked \union {t}
         /\ \E i \in DOMAIN queue' :
              /\ Without(queue', queue, i) /\ queue'[i] = t
              /\ i = IF Lifo THEN 1 ELSE Len(queue) + 1
<1>1. t \notin Parked /\ queue \in Seq(Thread) /\ Distinct(queue)
  BY DEF HandoffInv, TypeOK, Waiters, Park
<1>2. queue' = IF Lifo THEN <<t>> \o queue ELSE Append(queue, t)
  BY DEF Park, ParkedList
<1>3. PICK i : /\ Without(queue', queue, i) /\ queue'[i] = t
               /\ i = IF Lifo THEN 1 ELSE Len(queue) + 1
  BY <1>1, <1>2, PushBack, PushFront
<1>4. i \in DOMAIN queue'
  BY <1>3 DEF Without
<1>5. Distinct(queue') /\ ToSet(queue') = ToSet(queue) \union {t}
  BY <1>1, <1>3, WithElement DEF Parked
<1>6. QED
  BY <1>1, <1>3, <1>4, <1>5 DEF Parked

\* A waiter that gives up is on the list, and is all that leaves it.
LEMMA GiveUpQueue ==
  ASSUME HandoffInv, NEW t \in Thread, GiveUp(t)
  PROVE  /\ t \in Parked /\ Distinct(queue') /\ Parked' = Parked \ {t}
         /\ \E i \in DOMAIN queue : Without(queue, queue', i) /\ queue[i] = t
<1>1. t \in Parked /\ queue \in Seq(Thread) /\ Distinct(queue) /\ queue' = Erased(t)
  BY DEF HandoffInv, TypeOK, Waiters, GiveUp, Collecting, Collectable
<1>2. PICK i \in DOMAIN queue : queue[i] = t /\ Without(queue, queue', i)
  BY <1>1, ErasedIsWithout
<1>3. Distinct(queue') /\ ToSet(queue') = ToSet(queue) \ {t}
  BY <1>1, <1>2, WithoutElement
<1>4. QED
  BY <1>1, <1>2, <1>3 DEF Parked

\* Unblock pops the waiter at the front.
LEMMA HandOffQueue ==
  ASSUME HandoffInv, NEW t \in Thread, HandOff(t)
  PROVE  /\ Head(queue) \in Thread /\ Head(queue) = queue[1] /\ 1 \in DOMAIN queue
         /\ Head(queue) \in Parked /\ Distinct(queue')
         /\ Parked' = Parked \ {Head(queue)} /\ Without(queue, queue', 1)
<1>1. queue \in Seq(Thread) /\ Distinct(queue) /\ queue # << >> /\ queue' = Tail(queue)
  BY DEF HandoffInv, TypeOK, Waiters, HandOff
<1>2. Without(queue, queue', 1) /\ Head(queue) = queue[1] /\ queue[1] \in Thread
  BY <1>1, PopFront
<1>3. Distinct(queue') /\ ToSet(queue') = ToSet(queue) \ {queue[1]}
  BY <1>1, <1>2, WithoutElement
<1>4. 1 \in DOMAIN queue /\ queue[1] \in ToSet(queue)
  BY <1>2 DEF Without, ToSet
<1>5. QED
  BY <1>2, <1>3, <1>4 DEF Parked

----------------------------------------------------------------------------
(* mu_, the stacks and the waiters.                                        *)

\* mu_ passes from one Unblock to the next.
LEMMA LockStep == HandoffInv /\ [Next]_vars => Lock'
<1> SUFFICES ASSUME HandoffInv, [Next]_vars PROVE Lock'
  OBVIOUS
<1> USE HandoffAssumption DEF HandoffInv, TypeOK, Lock, None
<1>1. ASSUME NEW t \in Thread, FastPathAdmit(t)
      PROVE  Lock'
  BY <1>1 DEF FastPathAdmit, Grant, Goto, Unlocked, delegate, list, waiter,
     ids
<1>2. ASSUME NEW t \in Thread, FastPathReject(t)
      PROVE  Lock'
  BY <1>2 DEF FastPathReject, Goto, Unlocked, delegate, list, waiter, ids
<1>3. ASSUME NEW t \in Thread, DelayEnds(t)
      PROVE  Lock'
  BY <1>3 DEF DelayEnds, Goto, Unlocked, delegate, list, waiter, ids
<1>4. ASSUME NEW t \in Thread, Park(t)
      PROVE  Lock'
  BY <1>4 DEF Park, Goto, Unlocked, delegate, list, waiter, ids
<1>5. ASSUME NEW t \in Thread, RejectBacklogFull(t)
      PROVE  Lock'
  BY <1>5 DEF RejectBacklogFull, Goto, Unlocked, delegate, list, waiter, ids
<1>6. ASSUME NEW t \in Thread, Notified(t)
      PROVE  Lock'
  BY <1>6 DEF Notified, Goto, Unlocked, delegate, list, waiter, ids
<1>7. ASSUME NEW t \in Thread, TimedOut(t)
      PROVE  Lock'
  BY <1>7 DEF TimedOut, Goto, Unlocked, delegate, list, waiter, ids
<1>8. ASSUME NEW t \in Thread, CollectSlot(t)
      PROVE  Lock'
  BY <1>8 DEF CollectSlot, DestroyWaiter, Collecting, CollectUnlocked,
     Collectable, Goto, Unlocked, delegate, list, waiter, ids
<1>9. ASSUME NEW t \in Thread, GiveUp(t)
      PROVE  Lock'
  BY <1>9 DEF GiveUp, Departs, DestroyWaiter, Collecting, CollectUnlocked,
     Collectable, Goto, Unlocked, delegate, list, waiter, ids
<1>10. ASSUME NEW t \in Thread, DrawId(t)
      PROVE  Lock'
  BY <1>10 DEF DrawId, Goto, Unlocked, delegate, list, waiter, ids
<1>11. ASSUME NEW t \in Thread, Emplace(t)
      PROVE  Lock'
  BY <1>11 DEF Emplace, GiveBack, Goto, Unlocked, delegate, list, waiter, ids
<1>12. ASSUME NEW t \in Thread, ExtractInner(t)
      PROVE  Lock'
  <2>1. mu' = mu /\ pc[t] = "hold" /\ pc' \in {[pc EXCEPT ![t] = "unblock"], [pc EXCEPT ![t] = "mirror"]}
    BY <1>12 DEF ExtractInner, Goto
  <2>2. QED
    BY <2>1
<1>13. ASSUME NEW t \in Thread, MirrorStatus(t)
      PROVE  Lock'
  BY <1>13 DEF MirrorStatus, GiveBack, AfterMirror, InnerReleases, Goto,
     Unlocked, delegate, list, waiter, ids
<1>14. ASSUME NEW t \in Thread, LockUnblock(t)
      PROVE  Lock'
  BY <1>14 DEF LockUnblock, Goto, Unlocked, delegate, list, waiter, ids
<1>15. ASSUME NEW t \in Thread, HandOff(t)
      PROVE  Lock'
  BY <1>15 DEF HandOff, Grant, Departs, Goto, Unlocked, delegate, list,
     waiter, ids
<1>16. ASSUME NEW t \in Thread, NotifyWaiter(t)
      PROVE  Lock'
  BY <1>16 DEF NotifyWaiter, Goto, Unlocked, delegate, list, waiter, ids
<1>17. ASSUME NEW t \in Thread, RefusedInUnblock(t)
      PROVE  Lock'
  BY <1>17 DEF RefusedInUnblock, Goto, Unlocked, delegate, list, waiter, ids
<1>18. ASSUME NEW t \in Thread, StopWalking(t)
      PROVE  Lock'
  BY <1>18 DEF StopWalking, Goto, Unlocked, delegate, list, waiter, ids
<1>19. ASSUME NEW n \in SettableTo, SetLimit(n)
      PROVE  Lock'
  BY <1>19 DEF SetLimit, Goto, Unlocked, delegate, list, waiter, ids
<1>20. ASSUME UNCHANGED vars PROVE Lock'
  BY <1>20 DEF vars, Goto, Unlocked, delegate, list, waiter, ids
<1>21. QED
  BY <1>1, <1>2, <1>3, <1>4, <1>5, <1>6, <1>7, <1>8, <1>9, <1>10, <1>11,
     <1>12, <1>13, <1>14, <1>15, <1>16, <1>17, <1>18, <1>19, <1>20 DEF Next,
     DoTryAcquire, Await, Collect, OnSlotComplete, Unblock

\* An inner slot is on the stack of the thread that moves it, and of no other.
LEMMA StacksStep == HandoffInv /\ [Next]_vars => Stacks'
<1> SUFFICES ASSUME HandoffInv, [Next]_vars PROVE Stacks'
  OBVIOUS
<1> USE HandoffAssumption DEF HandoffInv, TypeOK, Stacks, None
<1>1. ASSUME NEW t \in Thread, FastPathAdmit(t)
      PROVE  Stacks'
  BY <1>1 DEF FastPathAdmit, Grant, Goto, Unlocked, delegate, list, waiter,
     ids
<1>2. ASSUME NEW t \in Thread, FastPathReject(t)
      PROVE  Stacks'
  BY <1>2 DEF FastPathReject, Goto, Unlocked, delegate, list, waiter, ids
<1>3. ASSUME NEW t \in Thread, DelayEnds(t)
      PROVE  Stacks'
  BY <1>3 DEF DelayEnds, Goto, Unlocked, delegate, list, waiter, ids
<1>4. ASSUME NEW t \in Thread, Park(t)
      PROVE  Stacks'
  BY <1>4 DEF Park, Goto, Unlocked, delegate, list, waiter, ids
<1>5. ASSUME NEW t \in Thread, RejectBacklogFull(t)
      PROVE  Stacks'
  BY <1>5 DEF RejectBacklogFull, Goto, Unlocked, delegate, list, waiter, ids
<1>6. ASSUME NEW t \in Thread, Notified(t)
      PROVE  Stacks'
  BY <1>6 DEF Notified, Goto, Unlocked, delegate, list, waiter, ids
<1>7. ASSUME NEW t \in Thread, TimedOut(t)
      PROVE  Stacks'
  BY <1>7 DEF TimedOut, Goto, Unlocked, delegate, list, waiter, ids
<1>8. ASSUME NEW t \in Thread, CollectSlot(t)
      PROVE  Stacks'
  BY <1>8 DEF CollectSlot, DestroyWaiter, Collecting, CollectUnlocked,
     Collectable, Goto, Unlocked, delegate, list, waiter, ids
<1>9. ASSUME NEW t \in Thread, GiveUp(t)
      PROVE  Stacks'
  BY <1>9 DEF GiveUp, Departs, DestroyWaiter, Collecting, CollectUnlocked,
     Collectable, Goto, Unlocked, delegate, list, waiter, ids
<1>10. ASSUME NEW t \in Thread, DrawId(t)
      PROVE  Stacks'
  BY <1>10 DEF DrawId, Goto, Unlocked, delegate, list, waiter, ids
<1>11. ASSUME NEW t \in Thread, Emplace(t)
      PROVE  Stacks'
  BY <1>11 DEF Emplace, GiveBack, Goto, Unlocked, delegate, list, waiter, ids
<1>12. ASSUME NEW t \in Thread, ExtractInner(t)
      PROVE  Stacks'
  BY <1>12 DEF ExtractInner, Extracted, Goto, Unlocked, delegate, list,
     waiter, ids
<1>13. ASSUME NEW t \in Thread, MirrorStatus(t)
      PROVE  Stacks'
  BY <1>13 DEF MirrorStatus, GiveBack, AfterMirror, InnerReleases, Goto,
     Unlocked, delegate, list, waiter, ids
<1>14. ASSUME NEW t \in Thread, LockUnblock(t)
      PROVE  Stacks'
  BY <1>14 DEF LockUnblock, Goto, Unlocked, delegate, list, waiter, ids
<1>15. ASSUME NEW t \in Thread, HandOff(t)
      PROVE  Stacks'
  BY <1>15 DEF HandOff, Grant, Departs, Goto, Unlocked, delegate, list,
     waiter, ids
<1>16. ASSUME NEW t \in Thread, NotifyWaiter(t)
      PROVE  Stacks'
  BY <1>16 DEF NotifyWaiter, Goto, Unlocked, delegate, list, waiter, ids
<1>17. ASSUME NEW t \in Thread, RefusedInUnblock(t)
      PROVE  Stacks'
  BY <1>17 DEF RefusedInUnblock, Goto, Unlocked, delegate, list, waiter, ids
<1>18. ASSUME NEW t \in Thread, StopWalking(t)
      PROVE  Stacks'
  BY <1>18 DEF StopWalking, Goto, Unlocked, delegate, list, waiter, ids
<1>19. ASSUME NEW n \in SettableTo, SetLimit(n)
      PROVE  Stacks'
  BY <1>19 DEF SetLimit, Goto, Unlocked, delegate, list, waiter, ids
<1>20. ASSUME UNCHANGED vars PROVE Stacks'
  BY <1>20 DEF vars, Goto, Unlocked, delegate, list, waiter, ids
<1>21. QED
  BY <1>1, <1>2, <1>3, <1>4, <1>5, <1>6, <1>7, <1>8, <1>9, <1>10, <1>11,
     <1>12, <1>13, <1>14, <1>15, <1>16, <1>17, <1>18, <1>19, <1>20 DEF Next,
     DoTryAcquire, Await, Collect, OnSlotComplete, Unblock

\* A waiter stays on the list until it is handed a slot or gives up; a slot
\* stays in its WaiterSlot until the waiter collects it.
LEMMA WaitersStep == HandoffInv /\ [Next]_vars => Waiters'
<1> SUFFICES ASSUME HandoffInv, [Next]_vars PROVE Waiters'
  OBVIOUS
<1> USE HandoffAssumption DEF HandoffInv, TypeOK, Lock, Waiters, None
<1>1. ASSUME NEW t \in Thread, FastPathAdmit(t)
      PROVE  Waiters'
  BY <1>1 DEF FastPathAdmit, Grant, Goto, Unlocked, Parked, delegate, list,
     waiter, ids
<1>2. ASSUME NEW t \in Thread, FastPathReject(t)
      PROVE  Waiters'
  BY <1>2 DEF FastPathReject, Goto, Unlocked, Parked, delegate, list, waiter,
     ids
<1>3. ASSUME NEW t \in Thread, DelayEnds(t)
      PROVE  Waiters'
  BY <1>3 DEF DelayEnds, Goto, Unlocked, Parked, delegate, list, waiter, ids
<1>4. ASSUME NEW t \in Thread, Park(t)
      PROVE  Waiters'
  <2>1. t \notin Parked /\ Distinct(queue') /\ Parked' = Parked \union {t}
    BY <1>4, ParkQueue
  <2>2. QED
    BY <1>4, <2>1 DEF Park, Goto, Unlocked
<1>5. ASSUME NEW t \in Thread, RejectBacklogFull(t)
      PROVE  Waiters'
  BY <1>5 DEF RejectBacklogFull, Goto, Unlocked, Parked, delegate, list,
     waiter, ids
<1>6. ASSUME NEW t \in Thread, Notified(t)
      PROVE  Waiters'
  BY <1>6 DEF Notified, Goto, Unlocked, Parked, delegate, list, waiter, ids
<1>7. ASSUME NEW t \in Thread, TimedOut(t)
      PROVE  Waiters'
  BY <1>7 DEF TimedOut, Goto, Unlocked, Parked, delegate, list, waiter, ids
<1>8. ASSUME NEW t \in Thread, CollectSlot(t)
      PROVE  Waiters'
  BY <1>8 DEF CollectSlot, DestroyWaiter, Collecting, CollectUnlocked,
     Collectable, Goto, Unlocked, Parked, delegate, list, waiter, ids
<1>9. ASSUME NEW t \in Thread, GiveUp(t)
      PROVE  Waiters'
  <2>1. t \in Parked /\ Distinct(queue') /\ Parked' = Parked \ {t}
    BY <1>9, GiveUpQueue
  <2>2. QED
    BY <1>9, <2>1 DEF GiveUp, DestroyWaiter, Collecting, CollectUnlocked, Unlocked,
       Collectable, Goto
<1>10. ASSUME NEW t \in Thread, DrawId(t)
      PROVE  Waiters'
  BY <1>10 DEF DrawId, Goto, Unlocked, Parked, delegate, list, waiter, ids
<1>11. ASSUME NEW t \in Thread, Emplace(t)
      PROVE  Waiters'
  BY <1>11 DEF Emplace, GiveBack, Goto, Unlocked, Parked, delegate, list,
     waiter, ids
<1>12. ASSUME NEW t \in Thread, ExtractInner(t)
      PROVE  Waiters'
  BY <1>12 DEF ExtractInner, Extracted, Goto, Unlocked, Parked, delegate,
     list, waiter, ids
<1>13. ASSUME NEW t \in Thread, MirrorStatus(t)
      PROVE  Waiters'
  BY <1>13 DEF MirrorStatus, GiveBack, AfterMirror, InnerReleases, Goto,
     Unlocked, Parked, delegate, list, waiter, ids
<1>14. ASSUME NEW t \in Thread, LockUnblock(t)
      PROVE  Waiters'
  BY <1>14 DEF LockUnblock, Goto, Unlocked, Parked, delegate, list, waiter,
     ids
<1>15. ASSUME NEW t \in Thread, HandOff(t)
      PROVE  Waiters'
  <2>1. /\ Head(queue) \in Thread /\ Head(queue) \in Parked /\ Distinct(queue')
        /\ Parked' = Parked \ {Head(queue)}
    BY <1>15, HandOffQueue
  <2>2. QED
    BY <1>15, <2>1 DEF HandOff, Goto
<1>16. ASSUME NEW t \in Thread, NotifyWaiter(t)
      PROVE  Waiters'
  BY <1>16 DEF NotifyWaiter, Goto, Unlocked, Parked, delegate, list, waiter,
     ids
<1>17. ASSUME NEW t \in Thread, RefusedInUnblock(t)
      PROVE  Waiters'
  BY <1>17 DEF RefusedInUnblock, Goto, Unlocked, Parked, delegate, list,
     waiter, ids
<1>18. ASSUME NEW t \in Thread, StopWalking(t)
      PROVE  Waiters'
  BY <1>18 DEF StopWalking, Goto, Unlocked, Parked, delegate, list, waiter,
     ids
<1>19. ASSUME NEW n \in SettableTo, SetLimit(n)
      PROVE  Waiters'
  BY <1>19 DEF SetLimit, Goto, Unlocked, Parked, delegate, list, waiter, ids
<1>20. ASSUME UNCHANGED vars PROVE Waiters'
  BY <1>20 DEF vars, Goto, Unlocked, Parked, delegate, list, waiter, ids
<1>21. QED
  BY <1>1, <1>2, <1>3, <1>4, <1>5, <1>6, <1>7, <1>8, <1>9, <1>10, <1>11,
     <1>12, <1>13, <1>14, <1>15, <1>16, <1>17, <1>18, <1>19, <1>20 DEF Next,
     DoTryAcquire, Await, Collect, OnSlotComplete, Unblock

\* Whoever leaves the list, the others stay in order.
LEMMA LeavesInOrder ==
  ASSUME HandoffInv, NEW x, NEW i, Without(queue, queue', i),
         Parked' = Parked \ {x}, Lifo' = Lifo,
         earlier' = [u \in Thread |-> IF u = x THEN {} ELSE earlier[u] \ {x}]
  PROVE  Arrival'
<1>1. \A u \in Thread : earlier'[u] \subseteq Parked' /\ earlier'[u] \subseteq earlier[u]
  BY DEF HandoffInv, TypeOK, Arrival
<1>2. ASSUME NEW j \in DOMAIN queue', NEW k \in DOMAIN queue',
             queue'[k] \in earlier'[queue'[j]]
      PROVE  IF Lifo THEN k > j ELSE k < j
  <2> DEFINE jj == IF j < i THEN j ELSE j + 1
             kk == IF k < i THEN k ELSE k + 1
  <2>1. /\ jj \in DOMAIN queue /\ queue[jj] = queue'[j]
        /\ kk \in DOMAIN queue /\ queue[kk] = queue'[k]
        /\ queue'[j] \in Thread /\ i \in Int /\ j \in Int /\ k \in Int
    BY DEF Without
  <2>2. queue[kk] \in earlier[queue[jj]]
    BY <1>1, <1>2, <2>1
  <2>3. IF Lifo THEN kk > jj ELSE kk < jj
    BY <2>1, <2>2 DEF HandoffInv, Arrival
  <2>4. QED
    BY <2>1, <2>3
<1>3. QED
  BY <1>1, <1>2 DEF Arrival

\* Nobody on the list ever overtakes.
LEMMA ArrivalStep == HandoffInv /\ [Next]_vars => Arrival'
<1> SUFFICES ASSUME HandoffInv, [Next]_vars PROVE Arrival'
  OBVIOUS
<1> USE DEF HandoffInv, TypeOK, Arrival
<1>1. ASSUME NEW t \in Thread, FastPathAdmit(t)
      PROVE  Arrival'
  BY <1>1 DEF FastPathAdmit, Grant, Goto, Unlocked, Parked, Lifo, delegate,
     list, waiter, ids
<1>2. ASSUME NEW t \in Thread, FastPathReject(t)
      PROVE  Arrival'
  BY <1>2 DEF FastPathReject, Goto, Unlocked, Parked, Lifo, delegate, list,
     waiter, ids
<1>3. ASSUME NEW t \in Thread, DelayEnds(t)
      PROVE  Arrival'
  BY <1>3 DEF DelayEnds, Goto, Unlocked, Parked, Lifo, delegate, list,
     waiter, ids
<1>4. ASSUME NEW t \in Thread, Park(t)
      PROVE  Arrival'
  <2>1. /\ t \notin Parked /\ Distinct(queue') /\ Parked' = Parked \union {t}
        /\ queue \in Seq(Thread) /\ Lifo' = Lifo
        /\ earlier' = [earlier EXCEPT ![t] = Parked]
    BY <1>4, ParkQueue DEF Park, Lifo
  <2>2. PICK i \in DOMAIN queue' :
          /\ Without(queue', queue, i) /\ queue'[i] = t
          /\ i = IF Lifo THEN 1 ELSE Len(queue) + 1
    BY <1>4, ParkQueue
  <2>3. \A u \in Thread : earlier'[u] \subseteq Parked'
    BY <2>1
  <2>4. ASSUME NEW j \in DOMAIN queue', NEW k \in DOMAIN queue',
               queue'[k] \in earlier'[queue'[j]]
        PROVE  IF Lifo THEN k > j ELSE k < j
    <3>1. j \in 1 .. Len(queue) + 1 /\ k \in 1 .. Len(queue) + 1
      BY <2>2 DEF Without
    <3>2. CASE k = i
      <4>1. queue'[j] \in Thread
        BY <2>2 DEF Without
      <4>2. earlier'[queue'[j]] \subseteq Parked
        BY <2>1, <4>1
      <4>3. QED
        BY <2>1, <2>2, <2>4, <3>2, <4>2
    <3>3. CASE k # i /\ j = i
      BY <2>1, <2>2, <3>1, <3>3
    <3>4. CASE k # i /\ j # i
      <4> DEFINE jj == IF j < i THEN j ELSE j - 1
                 kk == IF k < i THEN k ELSE k - 1
      <4>1. jj \in DOMAIN queue /\ queue[jj] = queue'[j]
        BY <2>2, <3>4, WithoutPlaces
      <4>2. kk \in DOMAIN queue /\ queue[kk] = queue'[k]
        BY <2>2, <3>4, WithoutPlaces
      <4>3. queue'[j] \in Thread /\ queue'[j] # t
        BY <2>1, <4>1 DEF Parked, ToSet
      <4>4. queue[kk] \in earlier[queue[jj]]
        BY <2>1, <2>4, <4>1, <4>2, <4>3
      <4>5. IF Lifo THEN kk > jj ELSE kk < jj
        BY <4>1, <4>2, <4>4
      <4>6. QED
        BY <2>2, <3>1, <3>4, <4>5
    <3>5. QED
      BY <3>2, <3>3, <3>4
  <2>5. QED
    BY <2>1, <2>3, <2>4
<1>5. ASSUME NEW t \in Thread, RejectBacklogFull(t)
      PROVE  Arrival'
  BY <1>5 DEF RejectBacklogFull, Goto, Unlocked, Parked, Lifo, delegate,
     list, waiter, ids
<1>6. ASSUME NEW t \in Thread, Notified(t)
      PROVE  Arrival'
  BY <1>6 DEF Notified, Goto, Unlocked, Parked, Lifo, delegate, list, waiter,
     ids
<1>7. ASSUME NEW t \in Thread, TimedOut(t)
      PROVE  Arrival'
  BY <1>7 DEF TimedOut, Goto, Unlocked, Parked, Lifo, delegate, list, waiter,
     ids
<1>8. ASSUME NEW t \in Thread, CollectSlot(t)
      PROVE  Arrival'
  BY <1>8 DEF CollectSlot, DestroyWaiter, Collecting, CollectUnlocked,
     Collectable, Goto, Unlocked, Parked, Lifo, delegate, list, waiter, ids
<1>9. ASSUME NEW t \in Thread, GiveUp(t)
      PROVE  Arrival'
  <2>1. /\ Parked' = Parked \ {t} /\ Lifo' = Lifo
        /\ earlier' = [u \in Thread |-> IF u = t THEN {} ELSE earlier[u] \ {t}]
    BY <1>9, GiveUpQueue DEF GiveUp, Departs, Lifo
  <2>2. PICK i : Without(queue, queue', i)
    BY <1>9, GiveUpQueue
  <2>3. QED
    BY <2>1, <2>2, LeavesInOrder
<1>10. ASSUME NEW t \in Thread, DrawId(t)
      PROVE  Arrival'
  BY <1>10 DEF DrawId, Goto, Unlocked, Parked, Lifo, delegate, list, waiter,
     ids
<1>11. ASSUME NEW t \in Thread, Emplace(t)
      PROVE  Arrival'
  BY <1>11 DEF Emplace, GiveBack, Goto, Unlocked, Parked, Lifo, delegate,
     list, waiter, ids
<1>12. ASSUME NEW t \in Thread, ExtractInner(t)
      PROVE  Arrival'
  BY <1>12 DEF ExtractInner, Extracted, Goto, Unlocked, Parked, Lifo,
     delegate, list, waiter, ids
<1>13. ASSUME NEW t \in Thread, MirrorStatus(t)
      PROVE  Arrival'
  BY <1>13 DEF MirrorStatus, GiveBack, AfterMirror, InnerReleases, Goto,
     Unlocked, Parked, Lifo, delegate, list, waiter, ids
<1>14. ASSUME NEW t \in Thread, LockUnblock(t)
      PROVE  Arrival'
  BY <1>14 DEF LockUnblock, Goto, Unlocked, Parked, Lifo, delegate, list,
     waiter, ids
<1>15. ASSUME NEW t \in Thread, HandOff(t)
      PROVE  Arrival'
  <2>1. /\ Parked' = Parked \ {Head(queue)} /\ Lifo' = Lifo
        /\ Without(queue, queue', 1)
        /\ earlier' = [u \in Thread |-> IF u = Head(queue) THEN {}
                                        ELSE earlier[u] \ {Head(queue)}]
    BY <1>15, HandOffQueue DEF HandOff, Departs, Lifo
  <2>2. QED
    BY <2>1, LeavesInOrder
<1>16. ASSUME NEW t \in Thread, NotifyWaiter(t)
      PROVE  Arrival'
  BY <1>16 DEF NotifyWaiter, Goto, Unlocked, Parked, Lifo, delegate, list,
     waiter, ids
<1>17. ASSUME NEW t \in Thread, RefusedInUnblock(t)
      PROVE  Arrival'
  BY <1>17 DEF RefusedInUnblock, Goto, Unlocked, Parked, Lifo, delegate,
     list, waiter, ids
<1>18. ASSUME NEW t \in Thread, StopWalking(t)
      PROVE  Arrival'
  BY <1>18 DEF StopWalking, Goto, Unlocked, Parked, Lifo, delegate, list,
     waiter, ids
<1>19. ASSUME NEW n \in SettableTo, SetLimit(n)
      PROVE  Arrival'
  BY <1>19 DEF SetLimit, Goto, Unlocked, Parked, Lifo, delegate, list,
     waiter, ids
<1>20. ASSUME UNCHANGED vars PROVE Arrival'
  BY <1>20 DEF vars, Goto, Unlocked, Parked, Lifo, delegate, list, waiter,
     ids
<1>21. QED
  BY <1>1, <1>2, <1>3, <1>4, <1>5, <1>6, <1>7, <1>8, <1>9, <1>10, <1>11,
     <1>12, <1>13, <1>14, <1>15, <1>16, <1>17, <1>18, <1>19, <1>20 DEF Next,
     DoTryAcquire, Await, Collect, OnSlotComplete, Unblock

\* Whoever leaves the list, the missed waiters still come first.
LEMMA LeavesMissed ==
  ASSUME HandoffInv, NEW x, NEW i, Without(queue, queue', i),
         Parked' = Parked \ {x}, Partitioned' = Partitioned,
         missed' = missed \ {x}
  PROVE  Missed'
<1>1. missed' \subseteq Parked'
  BY DEF HandoffInv, Missed
<1>2. ASSUME NEW j \in DOMAIN queue', NEW k \in DOMAIN queue',
             queue'[k] \in missed', j < k, Partitioned
      PROVE  PartitionOf[queue'[j]] = PartitionOf[queue'[k]]
  <2> DEFINE jj == IF j < i THEN j ELSE j + 1
             kk == IF k < i THEN k ELSE k + 1
  <2>1. /\ jj \in DOMAIN queue /\ queue[jj] = queue'[j]
        /\ kk \in DOMAIN queue /\ queue[kk] = queue'[k]
        /\ i \in Int /\ j \in Int /\ k \in Int
    BY DEF Without
  <2>2. jj < kk /\ queue[kk] \in missed
    BY <1>2, <2>1
  <2>3. QED
    BY <1>2, <2>1, <2>2 DEF HandoffInv, Missed
<1>3. QED
  BY <1>1, <1>2 DEF Missed

\* The missed waiters stay in front of everyone who may be treated otherwise:
\* a newcomer that cuts in before them makes the model forget them.
LEMMA MissedStep == HandoffInv /\ [Next]_vars => Missed'
<1> SUFFICES ASSUME HandoffInv, [Next]_vars PROVE Missed'
  OBVIOUS
<1> USE DEF HandoffInv, TypeOK, Missed
<1>1. ASSUME NEW t \in Thread, FastPathAdmit(t)
      PROVE  Missed'
  BY <1>1 DEF FastPathAdmit, Grant, Goto, Unlocked, Parked, Partitioned,
     delegate, list, waiter, ids
<1>2. ASSUME NEW t \in Thread, FastPathReject(t)
      PROVE  Missed'
  BY <1>2 DEF FastPathReject, Goto, Unlocked, Parked, Partitioned, delegate,
     list, waiter, ids
<1>3. ASSUME NEW t \in Thread, DelayEnds(t)
      PROVE  Missed'
  BY <1>3 DEF DelayEnds, Goto, Unlocked, Parked, Partitioned, delegate, list,
     waiter, ids
<1>4. ASSUME NEW t \in Thread, Park(t)
      PROVE  Missed'
  <2>1. /\ t \notin Parked /\ Parked' = Parked \union {t}
        /\ queue \in Seq(Thread) /\ Partitioned' = Partitioned
        /\ missed' = IF CutsIn(t) THEN {} ELSE missed
    BY <1>4, ParkQueue DEF Park, Partitioned
  <2>2. PICK i \in DOMAIN queue' :
          /\ Without(queue', queue, i) /\ queue'[i] = t
          /\ i = IF Lifo THEN 1 ELSE Len(queue) + 1
    BY <1>4, ParkQueue
  <2>3. ASSUME NEW j \in DOMAIN queue', NEW k \in DOMAIN queue',
               queue'[k] \in missed', j < k, Partitioned
        PROVE  PartitionOf[queue'[j]] = PartitionOf[queue'[k]]
    <3>1. j \in 1 .. Len(queue) + 1 /\ k \in 1 .. Len(queue) + 1
      BY <2>2 DEF Without
    <3>2. missed' = missed /\ ~CutsIn(t)
      BY <2>1, <2>3
    <3>3. k # i
      BY <2>1, <2>2, <2>3, <3>2
    <3>4. CASE j = i
      <4>1. Lifo
        BY <2>2, <2>3, <3>1, <3>4
      <4>2. QED
        BY <2>2, <2>3, <3>2, <3>4, <4>1 DEF CutsIn
    <3>5. CASE j # i
      <4> DEFINE jj == IF j < i THEN j ELSE j - 1
                 kk == IF k < i THEN k ELSE k - 1
      <4>1. jj \in DOMAIN queue /\ queue[jj] = queue'[j]
        BY <2>2, <3>5, WithoutPlaces
      <4>2. kk \in DOMAIN queue /\ queue[kk] = queue'[k]
        BY <2>2, <3>3, WithoutPlaces
      <4>3. jj < kk
        BY <2>2, <2>3, <3>1, <3>3, <3>5
      <4>4. QED
        BY <2>3, <3>2, <4>1, <4>2, <4>3
    <3>6. QED
      BY <3>4, <3>5
  <2>4. missed' \subseteq Parked'
    BY <2>1
  <2>5. QED
    BY <2>1, <2>3, <2>4
<1>5. ASSUME NEW t \in Thread, RejectBacklogFull(t)
      PROVE  Missed'
  BY <1>5 DEF RejectBacklogFull, Goto, Unlocked, Parked, Partitioned,
     delegate, list, waiter, ids
<1>6. ASSUME NEW t \in Thread, Notified(t)
      PROVE  Missed'
  BY <1>6 DEF Notified, Goto, Unlocked, Parked, Partitioned, delegate, list,
     waiter, ids
<1>7. ASSUME NEW t \in Thread, TimedOut(t)
      PROVE  Missed'
  BY <1>7 DEF TimedOut, Goto, Unlocked, Parked, Partitioned, delegate, list,
     waiter, ids
<1>8. ASSUME NEW t \in Thread, CollectSlot(t)
      PROVE  Missed'
  BY <1>8 DEF CollectSlot, DestroyWaiter, Collecting, CollectUnlocked,
     Collectable, Goto, Unlocked, Parked, Partitioned, delegate, list,
     waiter, ids
<1>9. ASSUME NEW t \in Thread, GiveUp(t)
      PROVE  Missed'
  <2>1. /\ Parked' = Parked \ {t} /\ Partitioned' = Partitioned
        /\ missed' = missed \ {t}
    BY <1>9, GiveUpQueue DEF GiveUp, Departs, Partitioned
  <2>2. PICK i : Without(queue, queue', i)
    BY <1>9, GiveUpQueue
  <2>3. QED
    BY <2>1, <2>2, LeavesMissed
<1>10. ASSUME NEW t \in Thread, DrawId(t)
      PROVE  Missed'
  BY <1>10 DEF DrawId, Goto, Unlocked, Parked, Partitioned, delegate, list,
     waiter, ids
<1>11. ASSUME NEW t \in Thread, Emplace(t)
      PROVE  Missed'
  BY <1>11 DEF Emplace, GiveBack, Goto, Unlocked, Parked, Partitioned,
     delegate, list, waiter, ids
<1>12. ASSUME NEW t \in Thread, ExtractInner(t)
      PROVE  Missed'
  BY <1>12 DEF ExtractInner, Extracted, Goto, Unlocked, Parked, Partitioned,
     delegate, list, waiter, ids
<1>13. ASSUME NEW t \in Thread, MirrorStatus(t)
      PROVE  Missed'
  <2>1. queue' = queue /\ Partitioned' = Partitioned /\ missed' = LeadingGroup
    BY <1>13 DEF MirrorStatus, Partitioned
  <2>2. LeadingGroup \subseteq Parked
    BY DEF LeadingGroup, Parked, ToSet
  <2>3. ASSUME NEW j \in DOMAIN queue, NEW k \in DOMAIN queue,
               queue[k] \in LeadingGroup, j < k, Partitioned
        PROVE  PartitionOf[queue[j]] = PartitionOf[queue[k]]
    <3>1. PICK m \in DOMAIN queue :
            /\ queue[k] = queue[m]
            /\ \A l \in 1 .. m : Partitioned => PartitionOf[queue[l]] = PartitionOf[queue[m]]
      BY <2>3 DEF LeadingGroup
    <3>2. m = k
      BY <3>1 DEF Waiters, Distinct
    <3>3. j \in 1 .. m
      BY <2>3, <3>2
    <3>4. QED
      BY <2>3, <3>1, <3>3
  <2>4. QED
    BY <2>1, <2>2, <2>3 DEF Parked
<1>14. ASSUME NEW t \in Thread, LockUnblock(t)
      PROVE  Missed'
  BY <1>14 DEF LockUnblock, Goto, Unlocked, Parked, Partitioned, delegate,
     list, waiter, ids
<1>15. ASSUME NEW t \in Thread, HandOff(t)
      PROVE  Missed'
  <2>1. /\ Parked' = Parked \ {Head(queue)} /\ Partitioned' = Partitioned
        /\ Without(queue, queue', 1) /\ missed' = missed \ {Head(queue)}
    BY <1>15, HandOffQueue DEF HandOff, Departs, Partitioned
  <2>2. QED
    BY <2>1, LeavesMissed
<1>16. ASSUME NEW t \in Thread, NotifyWaiter(t)
      PROVE  Missed'
  BY <1>16 DEF NotifyWaiter, Goto, Unlocked, Parked, Partitioned, delegate,
     list, waiter, ids
<1>17. ASSUME NEW t \in Thread, RefusedInUnblock(t)
      PROVE  Missed'
  BY <1>17 DEF RefusedInUnblock, Goto, Unlocked, Parked, Partitioned,
     delegate, list, waiter, ids
<1>18. ASSUME NEW t \in Thread, StopWalking(t)
      PROVE  Missed'
  BY <1>18 DEF StopWalking, Goto, Unlocked, Parked, Partitioned, delegate,
     list, waiter, ids
<1>19. ASSUME NEW n \in SettableTo, SetLimit(n)
      PROVE  Missed'
  BY <1>19 DEF SetLimit, Goto, Unlocked, Parked, Partitioned, delegate, list,
     waiter, ids
<1>20. ASSUME UNCHANGED vars PROVE Missed'
  BY <1>20 DEF vars, Goto, Unlocked, Parked, Partitioned, delegate, list,
     waiter, ids
<1>21. QED
  BY <1>1, <1>2, <1>3, <1>4, <1>5, <1>6, <1>7, <1>8, <1>9, <1>10, <1>11,
     <1>12, <1>13, <1>14, <1>15, <1>16, <1>17, <1>18, <1>19, <1>20 DEF Next,
     DoTryAcquire, Await, Collect, OnSlotComplete, Unblock

----------------------------------------------------------------------------
(* Slot ids.                                                               *)

\* fetch_add on a counter that wraps.
LEMMA Wraps ==
  ASSUME NEW n \in Id
  PROVE  (n + 1) % IdMod = IF n + 1 < IdMod THEN n + 1 ELSE 0
BY HandoffAssumption DEF Id

\* The id that comes d + 1 draws after id a is a again only when d + 1 is a
\* full turn; one more draw moves both on by one place.
LEMMA Ahead ==
  ASSUME NEW a \in Id, NEW d \in Id, NEW n \in Id, IsAhead(n, a, d)
  PROVE  /\ n = a => (d + 1) % IdMod = 0
         /\ IsAhead((n + 1) % IdMod, a, (d + 1) % IdMod)
<1>1. /\ IdMod \in Nat /\ a \in 0 .. IdMod - 1 /\ d \in 0 .. IdMod - 1
      /\ n \in 0 .. IdMod - 1
      /\ n = IF a + 1 + d < IdMod THEN a + 1 + d ELSE a + 1 + d - IdMod
  BY HandoffAssumption DEF Id, IsAhead
<1>2. /\ (n + 1) % IdMod = IF n + 1 < IdMod THEN n + 1 ELSE 0
      /\ (d + 1) % IdMod = IF d + 1 < IdMod THEN d + 1 ELSE 0
  BY Wraps
<1>3. CASE a + 1 + d < IdMod
  BY <1>1, <1>2, <1>3 DEF IsAhead
<1>4. CASE ~(a + 1 + d < IdMod)
  BY <1>1, <1>2, <1>4 DEF IsAhead
<1>5. QED
  BY <1>3, <1>4

\* A guard with a new id is one draw behind the counter.
LEMMA JustDrawn ==
  ASSUME NEW n \in Id
  PROVE  IsAhead((n + 1) % IdMod, n, 0)
<1>1. IdMod \in Nat /\ n \in 0 .. IdMod - 1
  BY HandoffAssumption DEF Id
<1>2. (n + 1) % IdMod = IF n + 1 < IdMod THEN n + 1 ELSE 0
  BY Wraps
<1>3. QED
  BY <1>1, <1>2 DEF IsAhead

\* The ids of the guards that are out: each knows how far the counter is ahead.
LEMMA IdsStep == HandoffInv /\ [Next]_vars => Ids'
<1> SUFFICES ASSUME HandoffInv, [Next]_vars PROVE Ids'
  OBVIOUS
<1> USE HandoffAssumption DEF HandoffInv, TypeOK, Ids, Numbered, None
<1>1. ASSUME NEW t \in Thread, FastPathAdmit(t)
      PROVE  Ids'
  BY <1>1 DEF FastPathAdmit, Grant, Goto, Unlocked, delegate, list, waiter,
     ids
<1>2. ASSUME NEW t \in Thread, FastPathReject(t)
      PROVE  Ids'
  BY <1>2 DEF FastPathReject, Goto, Unlocked, delegate, list, waiter, ids
<1>3. ASSUME NEW t \in Thread, DelayEnds(t)
      PROVE  Ids'
  BY <1>3 DEF DelayEnds, Goto, Unlocked, delegate, list, waiter, ids
<1>4. ASSUME NEW t \in Thread, Park(t)
      PROVE  Ids'
  BY <1>4 DEF Park, Goto, Unlocked, delegate, list, waiter, ids
<1>5. ASSUME NEW t \in Thread, RejectBacklogFull(t)
      PROVE  Ids'
  BY <1>5 DEF RejectBacklogFull, Goto, Unlocked, delegate, list, waiter, ids
<1>6. ASSUME NEW t \in Thread, Notified(t)
      PROVE  Ids'
  BY <1>6 DEF Notified, Goto, Unlocked, delegate, list, waiter, ids
<1>7. ASSUME NEW t \in Thread, TimedOut(t)
      PROVE  Ids'
  BY <1>7 DEF TimedOut, Goto, Unlocked, delegate, list, waiter, ids
<1>8. ASSUME NEW t \in Thread, CollectSlot(t)
      PROVE  Ids'
  BY <1>8 DEF CollectSlot, DestroyWaiter, Collecting, CollectUnlocked,
     Collectable, Goto, Unlocked, delegate, list, waiter, ids
<1>9. ASSUME NEW t \in Thread, GiveUp(t)
      PROVE  Ids'
  BY <1>9 DEF GiveUp, Departs, DestroyWaiter, Collecting, CollectUnlocked,
     Collectable, Goto, Unlocked, delegate, list, waiter, ids
<1>10. ASSUME NEW t \in Thread, DrawId(t)
      PROVE  Ids'
  <2> DEFINE turn(u) == (drawn[u] + 1) % IdMod
             full == {u \in Numbered : turn(u) = 0}
  <2>1. /\ pc[t] = "wrap" /\ pc' = [pc EXCEPT ![t] = "emplace"]
        /\ id' = [id EXCEPT ![t] = next_id] /\ next_id' = (next_id + 1) % IdMod
        /\ drawn' = [u \in Thread |-> IF u \in Numbered THEN turn(u) ELSE 0]
        /\ lapped' = lapped \union full \union (IF full = {} THEN {} ELSE {t})
        /\ active' = active
    BY <1>10 DEF DrawId, Goto, NextId
  <2>2. Numbered' = Numbered \union {t} /\ t \notin Numbered
    BY <2>1
  <2>3. \A u \in Numbered : id[u] = next_id => u \in full /\ u \in lapped'
    BY <2>1, Ahead
  <2>4. ASSUME NEW u \in Numbered' PROVE IsAhead(next_id', id'[u], drawn'[u])
    <3>1. CASE u = t
      <4>1. id'[u] = next_id /\ drawn'[u] = 0
        BY <2>1, <2>2, <3>1
      <4>2. QED
        BY <2>1, <4>1, JustDrawn
    <3>2. CASE u # t
      <4>1. u \in Numbered /\ id'[u] = id[u] /\ drawn'[u] = turn(u)
        BY <2>1, <2>2, <2>4, <3>2
      <4>2. IsAhead(next_id, id[u], drawn[u])
        BY <4>1
      <4>3. IsAhead((next_id + 1) % IdMod, id[u], (drawn[u] + 1) % IdMod)
        BY <4>1, <4>2, Ahead
      <4>4. QED
        BY <2>1, <4>1, <4>3
    <3>3. QED
      BY <3>1, <3>2
  <2>5. ASSUME NEW u \in Numbered', NEW v \in Numbered', u # v, id'[u] = id'[v]
        PROVE  u \in lapped'
    <3>1. CASE u = t
      <4>1. v \in Numbered /\ id[v] = next_id
        BY <2>1, <2>2, <2>5, <3>1
      <4>2. QED
        BY <2>1, <2>3, <3>1, <4>1
    <3>2. CASE v = t
      <4>1. u \in Numbered /\ id[u] = next_id
        BY <2>1, <2>2, <2>5, <3>2
      <4>2. QED
        BY <2>3, <4>1
    <3>3. CASE u # t /\ v # t
      BY <2>1, <2>2, <2>5, <3>3
    <3>4. QED
      BY <3>1, <3>2, <3>3
  <2>6. \A i \in Id : active'[i] # None =>
          pc'[active'[i]] = "hold" /\ id'[active'[i]] = i
    BY <2>1
  <2>7. QED
    BY <2>4, <2>5, <2>6
<1>11. ASSUME NEW t \in Thread, Emplace(t)
      PROVE  Ids'
  <2>1. /\ pc[t] = "emplace" /\ pc' = [pc EXCEPT ![t] = "hold"]
        /\ active' \in {active, [active EXCEPT ![id[t]] = t]}
        /\ UNCHANGED <<next_id, id, drawn, lapped>>
    BY <1>11 DEF Emplace, Goto, ids
  <2>2. Numbered' = Numbered
    BY <2>1
  <2>3. \A i \in Id : active'[i] # None =>
          pc'[active'[i]] = "hold" /\ id'[active'[i]] = i
    BY <2>1
  <2> HIDE DEF Numbered
  <2>4. QED
    BY <2>1, <2>2, <2>3
<1>12. ASSUME NEW t \in Thread, ExtractInner(t)
      PROVE  Ids'
  BY <1>12 DEF ExtractInner, Extracted, Goto, Unlocked, delegate, list,
     waiter, ids
<1>13. ASSUME NEW t \in Thread, MirrorStatus(t)
      PROVE  Ids'
  BY <1>13 DEF MirrorStatus, GiveBack, AfterMirror, InnerReleases, Goto,
     Unlocked, delegate, list, waiter, ids
<1>14. ASSUME NEW t \in Thread, LockUnblock(t)
      PROVE  Ids'
  BY <1>14 DEF LockUnblock, Goto, Unlocked, delegate, list, waiter, ids
<1>15. ASSUME NEW t \in Thread, HandOff(t)
      PROVE  Ids'
  BY <1>15 DEF HandOff, Grant, Departs, Goto, Unlocked, delegate, list,
     waiter, ids
<1>16. ASSUME NEW t \in Thread, NotifyWaiter(t)
      PROVE  Ids'
  BY <1>16 DEF NotifyWaiter, Goto, Unlocked, delegate, list, waiter, ids
<1>17. ASSUME NEW t \in Thread, RefusedInUnblock(t)
      PROVE  Ids'
  BY <1>17 DEF RefusedInUnblock, Goto, Unlocked, delegate, list, waiter, ids
<1>18. ASSUME NEW t \in Thread, StopWalking(t)
      PROVE  Ids'
  BY <1>18 DEF StopWalking, Goto, Unlocked, delegate, list, waiter, ids
<1>19. ASSUME NEW n \in SettableTo, SetLimit(n)
      PROVE  Ids'
  BY <1>19 DEF SetLimit, Goto, Unlocked, delegate, list, waiter, ids
<1>20. ASSUME UNCHANGED vars PROVE Ids'
  BY <1>20 DEF vars, Goto, Unlocked, delegate, list, waiter, ids
<1>21. QED
  BY <1>1, <1>2, <1>3, <1>4, <1>5, <1>6, <1>7, <1>8, <1>9, <1>10, <1>11,
     <1>12, <1>13, <1>14, <1>15, <1>16, <1>17, <1>18, <1>19, <1>20 DEF Next,
     DoTryAcquire, Await, Collect, OnSlotComplete, Unblock

\* A completion finds its own inner slot unless its id was drawn again.
LEMMA OwnSlotStep == HandoffInv /\ [Next]_vars => OwnSlotCompleted'
<1> SUFFICES ASSUME HandoffInv, [Next]_vars PROVE OwnSlotCompleted'
  OBVIOUS
<1> USE HandoffAssumption DEF HandoffInv, TypeOK, Ids, Numbered, OwnSlotCompleted, None
<1>1. ASSUME NEW t \in Thread, FastPathAdmit(t)
      PROVE  OwnSlotCompleted'
  BY <1>1 DEF FastPathAdmit, Grant, Goto, Unlocked, delegate, list, waiter,
     ids
<1>2. ASSUME NEW t \in Thread, FastPathReject(t)
      PROVE  OwnSlotCompleted'
  BY <1>2 DEF FastPathReject, Goto, Unlocked, delegate, list, waiter, ids
<1>3. ASSUME NEW t \in Thread, DelayEnds(t)
      PROVE  OwnSlotCompleted'
  BY <1>3 DEF DelayEnds, Goto, Unlocked, delegate, list, waiter, ids
<1>4. ASSUME NEW t \in Thread, Park(t)
      PROVE  OwnSlotCompleted'
  BY <1>4 DEF Park, Goto, Unlocked, delegate, list, waiter, ids
<1>5. ASSUME NEW t \in Thread, RejectBacklogFull(t)
      PROVE  OwnSlotCompleted'
  BY <1>5 DEF RejectBacklogFull, Goto, Unlocked, delegate, list, waiter, ids
<1>6. ASSUME NEW t \in Thread, Notified(t)
      PROVE  OwnSlotCompleted'
  BY <1>6 DEF Notified, Goto, Unlocked, delegate, list, waiter, ids
<1>7. ASSUME NEW t \in Thread, TimedOut(t)
      PROVE  OwnSlotCompleted'
  BY <1>7 DEF TimedOut, Goto, Unlocked, delegate, list, waiter, ids
<1>8. ASSUME NEW t \in Thread, CollectSlot(t)
      PROVE  OwnSlotCompleted'
  BY <1>8 DEF CollectSlot, DestroyWaiter, Collecting, CollectUnlocked,
     Collectable, Goto, Unlocked, delegate, list, waiter, ids
<1>9. ASSUME NEW t \in Thread, GiveUp(t)
      PROVE  OwnSlotCompleted'
  BY <1>9 DEF GiveUp, Departs, DestroyWaiter, Collecting, CollectUnlocked,
     Collectable, Goto, Unlocked, delegate, list, waiter, ids
<1>10. ASSUME NEW t \in Thread, DrawId(t)
      PROVE  OwnSlotCompleted'
  BY <1>10 DEF DrawId, Goto, Unlocked, delegate, list, waiter, ids
<1>11. ASSUME NEW t \in Thread, Emplace(t)
      PROVE  OwnSlotCompleted'
  <2>1. /\ pc[t] = "emplace" /\ pc' = [pc EXCEPT ![t] = "hold"]
        /\ active' = IF active[id[t]] = None THEN [active EXCEPT ![id[t]] = t]
                     ELSE active
        /\ UNCHANGED <<id, lapped>>
    BY <1>11 DEF Emplace, Goto, ids
  <2>2. CASE active[id[t]] = None
    BY <2>1, <2>2
  <2>3. CASE active[id[t]] # None
    <3>1. active[id[t]] \in Numbered /\ active[id[t]] # t /\ t \in Numbered
      BY <2>1, <2>3
    <3>2. t \in lapped
      BY <2>3, <3>1
    <3>3. QED
      BY <2>1, <2>3, <3>2
  <2>4. QED
    BY <2>2, <2>3
<1>12. ASSUME NEW t \in Thread, ExtractInner(t)
      PROVE  OwnSlotCompleted'
  BY <1>12 DEF ExtractInner, Extracted, Goto, Unlocked, delegate, list,
     waiter, ids
<1>13. ASSUME NEW t \in Thread, MirrorStatus(t)
      PROVE  OwnSlotCompleted'
  BY <1>13 DEF MirrorStatus, GiveBack, AfterMirror, InnerReleases, Goto,
     Unlocked, delegate, list, waiter, ids
<1>14. ASSUME NEW t \in Thread, LockUnblock(t)
      PROVE  OwnSlotCompleted'
  BY <1>14 DEF LockUnblock, Goto, Unlocked, delegate, list, waiter, ids
<1>15. ASSUME NEW t \in Thread, HandOff(t)
      PROVE  OwnSlotCompleted'
  BY <1>15 DEF HandOff, Grant, Departs, Goto, Unlocked, delegate, list,
     waiter, ids
<1>16. ASSUME NEW t \in Thread, NotifyWaiter(t)
      PROVE  OwnSlotCompleted'
  BY <1>16 DEF NotifyWaiter, Goto, Unlocked, delegate, list, waiter, ids
<1>17. ASSUME NEW t \in Thread, RefusedInUnblock(t)
      PROVE  OwnSlotCompleted'
  BY <1>17 DEF RefusedInUnblock, Goto, Unlocked, delegate, list, waiter, ids
<1>18. ASSUME NEW t \in Thread, StopWalking(t)
      PROVE  OwnSlotCompleted'
  BY <1>18 DEF StopWalking, Goto, Unlocked, delegate, list, waiter, ids
<1>19. ASSUME NEW n \in SettableTo, SetLimit(n)
      PROVE  OwnSlotCompleted'
  BY <1>19 DEF SetLimit, Goto, Unlocked, delegate, list, waiter, ids
<1>20. ASSUME UNCHANGED vars PROVE OwnSlotCompleted'
  BY <1>20 DEF vars, Goto, Unlocked, delegate, list, waiter, ids
<1>21. QED
  BY <1>1, <1>2, <1>3, <1>4, <1>5, <1>6, <1>7, <1>8, <1>9, <1>10, <1>11,
     <1>12, <1>13, <1>14, <1>15, <1>16, <1>17, <1>18, <1>19, <1>20 DEF Next,
     DoTryAcquire, Await, Collect, OnSlotComplete, Unblock

----------------------------------------------------------------------------
(* Counting slots.                                                         *)

Bit(b) == IF b THEN 1 ELSE 0

\* The callers of the partitions in P, and where their inner slots are.
Owner(P) == {t \in Thread : PartitionOf[t] \in P}
OnStack(P) == {t \in Thread : inner[t] \in Owner(P)}
Delivered(P) == {t \in Owner(P) : slot[t]}
Registered(P) == {i \in Id : active[i] \in Owner(P)}

\* The three sets are finite, and OwnedBy is the sum of their sizes.
LEMMA OwnedSum ==
  ASSUME NEW P
  PROVE  /\ OwnedBy(P) = Cardinality(OnStack(P)) + Cardinality(Delivered(P))
                           + Cardinality(Registered(P))
         /\ IsFiniteSet(OnStack(P)) /\ IsFiniteSet(Delivered(P))
         /\ IsFiniteSet(Registered(P))
         /\ Cardinality(OnStack(P)) \in Nat /\ Cardinality(Delivered(P)) \in Nat
         /\ Cardinality(Registered(P)) \in Nat
<1>1. IsFiniteSet(Id)
  <2>1. IdMod - 1 \in Int
    BY HandoffAssumption
  <2>2. QED
    BY <2>1, FS_Interval DEF Id
<1>2. /\ OnStack(P) \in SUBSET Thread /\ Delivered(P) \in SUBSET Thread
      /\ Registered(P) \in SUBSET Id
  BY DEF OnStack, Delivered, Registered, Owner
<1>3. IsFiniteSet(OnStack(P)) /\ IsFiniteSet(Delivered(P)) /\ IsFiniteSet(Registered(P))
  BY <1>1, <1>2, HandoffAssumption, FS_Subset
<1>4. OwnedBy(P) = Cardinality(OnStack(P)) + Cardinality(Delivered(P))
                     + Cardinality(Registered(P))
  BY DEF OwnedBy, OnStack, Delivered, Registered, Owner
<1>5. QED
  BY <1>3, <1>4, FS_CardinalityType

\* So are their primed versions.
LEMMA OwnedSumPrime ==
  ASSUME NEW P
  PROVE  /\ OwnedBy(P)' = Cardinality(OnStack(P)') + Cardinality(Delivered(P)')
                            + Cardinality(Registered(P)')
         /\ IsFiniteSet(OnStack(P)') /\ IsFiniteSet(Delivered(P)')
         /\ IsFiniteSet(Registered(P)')
<1>1. IsFiniteSet(Id)
  <2>1. IdMod - 1 \in Int
    BY HandoffAssumption
  <2>2. QED
    BY <2>1, FS_Interval DEF Id
<1>2. /\ OnStack(P)' \in SUBSET Thread /\ Delivered(P)' \in SUBSET Thread
      /\ Registered(P)' \in SUBSET Id
  BY DEF OnStack, Delivered, Registered, Owner
<1>3. /\ IsFiniteSet(OnStack(P)') /\ IsFiniteSet(Delivered(P)')
      /\ IsFiniteSet(Registered(P)')
  BY <1>1, <1>2, HandoffAssumption, FS_Subset
<1>4. OwnedBy(P)' = Cardinality(OnStack(P)') + Cardinality(Delivered(P)')
                      + Cardinality(Registered(P)')
  BY DEF OwnedBy, OnStack, Delivered, Registered, Owner
<1>5. QED
  BY <1>3, <1>4

\* The size of a set after one element may have come or gone.
LEMMA OneChange ==
  ASSUME NEW S, NEW T, IsFiniteSet(S), IsFiniteSet(T), NEW x, S \ {x} = T \ {x}
  PROVE  Cardinality(T) = Cardinality(S) + Bit(x \in T) - Bit(x \in S)
<1>1. /\ Cardinality(S) \in Nat /\ Cardinality(T) \in Nat
      /\ Cardinality(S \ {x}) = IF x \in S THEN Cardinality(S) - 1 ELSE Cardinality(S)
      /\ Cardinality(T \ {x}) = IF x \in T THEN Cardinality(T) - 1 ELSE Cardinality(T)
  BY FS_CardinalityType, FS_RemoveElement
<1>2. QED
  BY <1>1 DEF Bit

\* What a grant, a release and any other step must do to the owned slots.
Gains(u) == \A P \in SUBSET Partition : OwnedBy(P)' = OwnedBy(P) + Bit(u \in Owner(P))
Loses(u) == \A P \in SUBSET Partition : OwnedBy(P)' = OwnedBy(P) - Bit(u \in Owner(P))
Keeps == \A P \in SUBSET Partition : OwnedBy(P)' = OwnedBy(P)

\* Everybody owns a slot of some partition, and of one only.
LEMMA OwnerBits ==
  ASSUME NEW u \in Thread
  PROVE  /\ PartitionOf[u] \in Partition /\ Bit(u \in Owner(Partition)) = 1
         /\ \A p \in Partition :
              Bit(u \in Owner({p})) = IF p = PartitionOf[u] THEN 1 ELSE 0
BY HandoffAssumption DEF Owner, Bit

\* A grant of the delegate matches a slot that somebody now owns.
LEMMA GrantCounts ==
  ASSUME HandoffInv, NEW u \in Thread, Grant(u), Gains(u)
  PROVE  NoSlotLost'
<1>1. /\ OwnedBy(Partition)' = OwnedBy(Partition) + 1
      /\ \A p \in Partition : OwnedBy({p})' = OwnedBy({p})
                                + IF p = PartitionOf[u] THEN 1 ELSE 0
  BY OwnerBits DEF Gains
<1>2. /\ inflight' = inflight + 1
      /\ \A p \in Partition : busy'[p] = busy[p] + IF p = PartitionOf[u] THEN 1 ELSE 0
  BY OwnerBits DEF Grant, HandoffInv, TypeOK
<1>3. QED
  BY <1>1, <1>2 DEF HandoffInv, NoSlotLost

\* A release matches a slot that nobody owns any more.
LEMMA ReleaseCounts ==
  ASSUME HandoffInv, NEW u \in Thread, GiveBack(u, 1), Loses(u)
  PROVE  NoSlotLost'
<1>1. /\ OwnedBy(Partition)' = OwnedBy(Partition) - 1
      /\ \A p \in Partition : OwnedBy({p})' = OwnedBy({p})
                                - IF p = PartitionOf[u] THEN 1 ELSE 0
  BY OwnerBits DEF Loses
<1>2. /\ inflight' = inflight - 1
      /\ \A p \in Partition : busy'[p] = busy[p] - IF p = PartitionOf[u] THEN 1 ELSE 0
  BY OwnerBits DEF GiveBack, HandoffInv, TypeOK
<1>3. QED
  BY <1>1, <1>2 DEF HandoffInv, NoSlotLost

\* A step that moves slots about, or none, leaves the counts alone.
LEMMA KeepCounts ==
  ASSUME HandoffInv, UNCHANGED <<inflight, busy>>, Keeps
  PROVE  NoSlotLost'
BY DEF HandoffInv, NoSlotLost, Keeps

\* A step that touches no inner slot.
LEMMA KeepOwners ==
  ASSUME UNCHANGED <<inner, slot, active>>
  PROVE  Keeps
BY DEF Keeps, OwnedBy

\* Who has an inner slot on its stack has it counted: no release underflows.
LEMMA NoUnderflow ==
  ASSUME HandoffInv, NEW t \in Thread, inner[t] \in Thread
  PROVE  inflight >= 1 /\ busy[PartitionOf[inner[t]]] >= 1
<1>1. ASSUME NEW P, inner[t] \in Owner(P) PROVE OwnedBy(P) \in Nat /\ OwnedBy(P) >= 1
  <2>1. t \in OnStack(P)
    BY <1>1 DEF OnStack
  <2>2. Cardinality(OnStack(P)) # 0
    BY <2>1, OwnedSum, FS_EmptySet
  <2>3. QED
    BY <2>2, OwnedSum
<1>2. /\ PartitionOf[inner[t]] \in Partition /\ inner[t] \in Owner(Partition)
      /\ inner[t] \in Owner({PartitionOf[inner[t]]})
  BY HandoffAssumption DEF Owner
<1>3. OwnedBy(Partition) >= 1
  BY <1>1, <1>2
<1>4. OwnedBy({PartitionOf[inner[t]]}) >= 1
  BY <1>1, <1>2
<1>5. QED
  BY <1>2, <1>3, <1>4 DEF HandoffInv, NoSlotLost

\* Every slot the delegate counts is somewhere, and every slot that is
\* somewhere is counted, after every step.
LEMMA SlotsStep == HandoffInv /\ [Next]_vars => NoSlotLost'
<1> SUFFICES ASSUME HandoffInv, [Next]_vars PROVE NoSlotLost'
  OBVIOUS
<1>0. /\ None \notin Thread /\ PartitionOf \in [Thread -> Partition]
      /\ inner \in [Thread -> Thread \union {None}]
      /\ slot \in [Thread -> BOOLEAN]
      /\ active \in [Id -> Thread \union {None}]
  BY HandoffAssumption DEF HandoffInv, TypeOK, None
<1>1. ASSUME NEW t \in Thread, FastPathAdmit(t)
      PROVE  NoSlotLost'
  <2>1. /\ inner' = [inner EXCEPT ![t] = t] /\ inner[t] = None
        /\ UNCHANGED <<slot, active>> /\ Grant(t)
    BY <1>1 DEF FastPathAdmit, waiter, HandoffInv, Stacks
  <2>2. ASSUME NEW P \in SUBSET Partition
        PROVE  OwnedBy(P)' = OwnedBy(P) + Bit(t \in Owner(P))
    <3>1. /\ OnStack(P) \ {t} = OnStack(P)' \ {t}
          /\ t \in OnStack(P)' <=> t \in Owner(P)
          /\ t \notin OnStack(P)
          /\ Delivered(P)' = Delivered(P) /\ Registered(P)' = Registered(P)
      BY <2>1, <1>0 DEF OnStack, Delivered, Registered, Owner
    <3>2. Cardinality(OnStack(P)') = Cardinality(OnStack(P)) + Bit(t \in Owner(P))
      BY <3>1, OwnedSum, OwnedSumPrime, OneChange DEF Bit
    <3>3. QED
      BY <3>1, <3>2, OwnedSum, OwnedSumPrime DEF Bit
  <2>3. QED
    BY <2>1, <2>2, GrantCounts DEF Gains
<1>2. ASSUME NEW t \in Thread, FastPathReject(t)
      PROVE  NoSlotLost'
  <2>1. UNCHANGED <<inner, slot, active, inflight, busy>>
    BY <1>2 DEF FastPathReject, delegate, waiter, ids
  <2>2. QED
    BY <2>1, KeepOwners, KeepCounts
<1>3. ASSUME NEW t \in Thread, DelayEnds(t)
      PROVE  NoSlotLost'
  <2>1. UNCHANGED <<inner, slot, active, inflight, busy>>
    BY <1>3 DEF DelayEnds, delegate, waiter, ids
  <2>2. QED
    BY <2>1, KeepOwners, KeepCounts
<1>4. ASSUME NEW t \in Thread, Park(t)
      PROVE  NoSlotLost'
  <2>1. slot' = slot /\ UNCHANGED <<inner, active, inflight, busy>>
    BY <1>4 DEF Park, delegate, HandoffInv, TypeOK, Waiters
  <2>2. QED
    BY <2>1, KeepOwners, KeepCounts
<1>5. ASSUME NEW t \in Thread, RejectBacklogFull(t)
      PROVE  NoSlotLost'
  <2>1. UNCHANGED <<inner, slot, active, inflight, busy>>
    BY <1>5 DEF RejectBacklogFull, delegate, waiter, ids
  <2>2. QED
    BY <2>1, KeepOwners, KeepCounts
<1>6. ASSUME NEW t \in Thread, Notified(t)
      PROVE  NoSlotLost'
  <2>1. UNCHANGED <<inner, slot, active, inflight, busy>>
    BY <1>6 DEF Notified, delegate, waiter, ids
  <2>2. QED
    BY <2>1, KeepOwners, KeepCounts
<1>7. ASSUME NEW t \in Thread, TimedOut(t)
      PROVE  NoSlotLost'
  <2>1. UNCHANGED <<inner, slot, active, inflight, busy>>
    BY <1>7 DEF TimedOut, delegate, waiter, ids
  <2>2. QED
    BY <2>1, KeepOwners, KeepCounts
<1>8. ASSUME NEW t \in Thread, CollectSlot(t)
      PROVE  NoSlotLost'
  <2>1. /\ inner' = [inner EXCEPT ![t] = t] /\ inner[t] = None
        /\ slot' = [slot EXCEPT ![t] = FALSE] /\ slot[t] = TRUE
        /\ UNCHANGED <<active, inflight, busy>>
    BY <1>8 DEF CollectSlot, Collecting, Collectable, DestroyWaiter, delegate,
       HandoffInv, TypeOK, Stacks
  <2>2. ASSUME NEW P \in SUBSET Partition PROVE OwnedBy(P)' = OwnedBy(P)
    <3>1. /\ OnStack(P) \ {t} = OnStack(P)' \ {t}
          /\ t \in OnStack(P)' <=> t \in Owner(P)
          /\ t \notin OnStack(P)
      BY <2>1, <1>0 DEF OnStack, Owner
    <3>2. /\ Delivered(P) \ {t} = Delivered(P)' \ {t}
          /\ t \notin Delivered(P)'
          /\ t \in Delivered(P) <=> t \in Owner(P)
          /\ Registered(P)' = Registered(P)
      BY <2>1, <1>0 DEF Delivered, Registered, Owner
    <3>3. Cardinality(OnStack(P)') = Cardinality(OnStack(P)) + Bit(t \in Owner(P))
      BY <3>1, OwnedSum, OwnedSumPrime, OneChange DEF Bit
    <3>4. Cardinality(Delivered(P)') = Cardinality(Delivered(P)) - Bit(t \in Owner(P))
      BY <3>2, OwnedSum, OwnedSumPrime, OneChange DEF Bit
    <3>5. QED
      BY <3>2, <3>3, <3>4, OwnedSum, OwnedSumPrime DEF Bit
  <2>3. QED
    BY <2>1, <2>2, KeepCounts DEF Keeps
<1>9. ASSUME NEW t \in Thread, GiveUp(t)
      PROVE  NoSlotLost'
  <2>1. slot' = slot /\ UNCHANGED <<inner, active, inflight, busy>>
    BY <1>9 DEF GiveUp, DestroyWaiter, Collectable, delegate, HandoffInv, TypeOK
  <2>2. QED
    BY <2>1, KeepOwners, KeepCounts
<1>10. ASSUME NEW t \in Thread, DrawId(t)
      PROVE  NoSlotLost'
  <2>1. UNCHANGED <<inner, slot, active, inflight, busy>>
    BY <1>10 DEF DrawId, delegate, waiter, ids
  <2>2. QED
    BY <2>1, KeepOwners, KeepCounts
<1>11. ASSUME NEW t \in Thread, Emplace(t)
      PROVE  NoSlotLost'
  <2>1. /\ inner' = [inner EXCEPT ![t] = None] /\ inner[t] = t /\ slot' = slot
        /\ id[t] \in Id
    BY <1>11 DEF Emplace, waiter, HandoffInv, TypeOK, Stacks
  <2>2. ASSUME NEW P \in SUBSET Partition
        PROVE  /\ Cardinality(OnStack(P)') = Cardinality(OnStack(P)) - Bit(t \in Owner(P))
               /\ Delivered(P)' = Delivered(P)
    <3>1. /\ OnStack(P) \ {t} = OnStack(P)' \ {t}
          /\ t \notin OnStack(P)'
          /\ t \in OnStack(P) <=> t \in Owner(P)
          /\ Delivered(P)' = Delivered(P)
      BY <2>1, <1>0 DEF OnStack, Delivered, Owner
    <3>2. QED
      BY <3>1, OwnedSum, OwnedSumPrime, OneChange DEF Bit
  <2>3. CASE active[id[t]] = None
    <3>1. active' = [active EXCEPT ![id[t]] = t] /\ UNCHANGED <<inflight, busy>>
      BY <1>11, <2>3 DEF Emplace
    <3>2. ASSUME NEW P \in SUBSET Partition PROVE OwnedBy(P)' = OwnedBy(P)
      <4>1. /\ Registered(P) \ {id[t]} = Registered(P)' \ {id[t]}
            /\ id[t] \notin Registered(P)
            /\ id[t] \in Registered(P)' <=> t \in Owner(P)
        BY <1>0, <2>1, <2>3, <3>1 DEF Registered, Owner
      <4>2. Cardinality(Registered(P)') = Cardinality(Registered(P)) + Bit(t \in Owner(P))
        BY <4>1, OwnedSum, OwnedSumPrime, OneChange DEF Bit
      <4>3. QED
        BY <2>2, <4>2, OwnedSum, OwnedSumPrime DEF Bit
    <3>3. QED
      BY <3>1, <3>2, KeepCounts DEF Keeps
  <2>4. CASE active[id[t]] # None
    <3>1. active' = active /\ GiveBack(t, 1)
      BY <1>11, <2>4 DEF Emplace
    <3>2. ASSUME NEW P \in SUBSET Partition
          PROVE  OwnedBy(P)' = OwnedBy(P) - Bit(t \in Owner(P))
      <4>1. Registered(P)' = Registered(P)
        BY <3>1 DEF Registered
      <4>2. QED
        BY <2>2, <4>1, OwnedSum, OwnedSumPrime DEF Bit
    <3>3. QED
      BY <3>1, <3>2, ReleaseCounts DEF Loses
  <2>5. QED
    BY <2>3, <2>4
<1>12. ASSUME NEW t \in Thread, ExtractInner(t)
      PROVE  NoSlotLost'
  <2> DEFINE i == id[t]
             u == active[i]
  <2>1. /\ inner' = [inner EXCEPT ![t] = u] /\ inner[t] = None /\ i \in Id
        /\ active' = [active EXCEPT ![i] = None]
        /\ UNCHANGED <<slot, inflight, busy>>
    BY <1>12 DEF ExtractInner, Extracted, waiter, delegate, HandoffInv, TypeOK, Stacks
  <2>2. ASSUME NEW P \in SUBSET Partition PROVE OwnedBy(P)' = OwnedBy(P)
    <3>1. /\ OnStack(P) \ {t} = OnStack(P)' \ {t}
          /\ t \in OnStack(P)' <=> u \in Owner(P)
          /\ t \notin OnStack(P)
          /\ Delivered(P)' = Delivered(P)
      BY <2>1, <1>0 DEF OnStack, Delivered, Owner
    <3>2. /\ Registered(P) \ {i} = Registered(P)' \ {i}
          /\ i \notin Registered(P)'
          /\ i \in Registered(P) <=> u \in Owner(P)
      BY <2>1, <1>0 DEF Registered, Owner
    <3>3. Cardinality(OnStack(P)') = Cardinality(OnStack(P)) + Bit(u \in Owner(P))
      BY <3>1, OwnedSum, OwnedSumPrime, OneChange DEF Bit
    <3>4. Cardinality(Registered(P)') = Cardinality(Registered(P)) - Bit(u \in Owner(P))
      BY <3>2, OwnedSum, OwnedSumPrime, OneChange DEF Bit
    <3>5. QED
      BY <3>1, <3>3, <3>4, OwnedSum, OwnedSumPrime DEF Bit
  <2>3. QED
    BY <2>1, <2>2, KeepCounts DEF Keeps
<1>13. ASSUME NEW t \in Thread, MirrorStatus(t)
      PROVE  NoSlotLost'
  <2> DEFINE u == inner[t]
  <2>1. /\ u \in Thread /\ inner' = [inner EXCEPT ![t] = None]
        /\ UNCHANGED <<slot, active>> /\ GiveBack(u, 1)
    BY <1>13 DEF MirrorStatus, InnerReleases, waiter, HandoffInv, TypeOK, Stacks
  <2>2. ASSUME NEW P \in SUBSET Partition
        PROVE  OwnedBy(P)' = OwnedBy(P) - Bit(u \in Owner(P))
    <3>1. /\ OnStack(P) \ {t} = OnStack(P)' \ {t}
          /\ t \notin OnStack(P)'
          /\ t \in OnStack(P) <=> u \in Owner(P)
          /\ Delivered(P)' = Delivered(P) /\ Registered(P)' = Registered(P)
      BY <2>1, <1>0 DEF OnStack, Delivered, Registered, Owner
    <3>2. Cardinality(OnStack(P)') = Cardinality(OnStack(P)) - Bit(u \in Owner(P))
      BY <3>1, OwnedSum, OwnedSumPrime, OneChange DEF Bit
    <3>3. QED
      BY <3>1, <3>2, OwnedSum, OwnedSumPrime DEF Bit
  <2>3. QED
    BY <2>1, <2>2, ReleaseCounts DEF Loses
<1>14. ASSUME NEW t \in Thread, LockUnblock(t)
      PROVE  NoSlotLost'
  <2>1. UNCHANGED <<inner, slot, active, inflight, busy>>
    BY <1>14 DEF LockUnblock, delegate, waiter, ids
  <2>2. QED
    BY <2>1, KeepOwners, KeepCounts
<1>15. ASSUME NEW t \in Thread, HandOff(t)
      PROVE  NoSlotLost'
  <2> DEFINE h == Head(queue)
  <2>1. /\ h \in Thread /\ slot[h] = FALSE /\ slot' = [slot EXCEPT ![h] = TRUE]
        /\ UNCHANGED <<inner, active>> /\ Grant(h)
    BY <1>15, HandOffQueue DEF HandOff, HandoffInv, TypeOK, Waiters
  <2> HIDE DEF h
  <2>2. ASSUME NEW P \in SUBSET Partition
        PROVE  OwnedBy(P)' = OwnedBy(P) + Bit(h \in Owner(P))
    <3>1. /\ Delivered(P) \ {h} = Delivered(P)' \ {h}
          /\ h \in Delivered(P)' <=> h \in Owner(P)
          /\ h \notin Delivered(P)
          /\ OnStack(P)' = OnStack(P) /\ Registered(P)' = Registered(P)
      BY <2>1, <1>0 DEF OnStack, Delivered, Registered, Owner
    <3>2. Cardinality(Delivered(P)') = Cardinality(Delivered(P)) + Bit(h \in Owner(P))
      BY <3>1, OwnedSum, OwnedSumPrime, OneChange DEF Bit
    <3>3. QED
      BY <3>1, <3>2, OwnedSum, OwnedSumPrime DEF Bit
  <2>3. QED
    BY <2>1, <2>2, GrantCounts DEF Gains
<1>16. ASSUME NEW t \in Thread, NotifyWaiter(t)
      PROVE  NoSlotLost'
  <2>1. UNCHANGED <<inner, slot, active, inflight, busy>>
    BY <1>16 DEF NotifyWaiter, delegate, waiter, ids
  <2>2. QED
    BY <2>1, KeepOwners, KeepCounts
<1>17. ASSUME NEW t \in Thread, RefusedInUnblock(t)
      PROVE  NoSlotLost'
  <2>1. UNCHANGED <<inner, slot, active, inflight, busy>>
    BY <1>17 DEF RefusedInUnblock, delegate, waiter, ids
  <2>2. QED
    BY <2>1, KeepOwners, KeepCounts
<1>18. ASSUME NEW t \in Thread, StopWalking(t)
      PROVE  NoSlotLost'
  <2>1. UNCHANGED <<inner, slot, active, inflight, busy>>
    BY <1>18 DEF StopWalking, delegate, waiter, ids
  <2>2. QED
    BY <2>1, KeepOwners, KeepCounts
<1>19. ASSUME NEW n \in SettableTo, SetLimit(n)
      PROVE  NoSlotLost'
  <2>1. UNCHANGED <<inner, slot, active, inflight, busy>>
    BY <1>19 DEF SetLimit, delegate, waiter, ids
  <2>2. QED
    BY <2>1, KeepOwners, KeepCounts
<1>20. ASSUME UNCHANGED vars PROVE NoSlotLost'
  <2>1. UNCHANGED <<inner, slot, active, inflight, busy>>
    BY <1>20 DEF vars, delegate, waiter
  <2>2. QED
    BY <2>1, KeepOwners, KeepCounts
<1>21. QED
  BY <1>20, <1>1, <1>2, <1>3, <1>4, <1>5, <1>6, <1>7, <1>8, <1>9, <1>10,
     <1>11, <1>12, <1>13, <1>14, <1>15, <1>16, <1>17, <1>18, <1>19 DEF Next,
     DoTryAcquire, Await, Collect, OnSlotComplete, Unblock

----------------------------------------------------------------------------
(* The types: neither the counters nor the list leave their bounds.        *)

\* Every step keeps the types.
LEMMA TypeStep == HandoffInv /\ [Next]_vars => TypeOK'
<1> SUFFICES ASSUME HandoffInv, [Next]_vars PROVE TypeOK'
  OBVIOUS
<1>0. TypeOK
  BY DEF HandoffInv
<1> USE <1>0 DEF TypeOK
<1>1. ASSUME NEW t \in Thread, FastPathAdmit(t)
      PROVE  TypeOK'
  <2>1. PartitionOf[t] \in Partition
    BY HandoffAssumption
  <2>2. inflight' \in Nat /\ busy' \in [Partition -> Nat]
    BY <1>1, <2>1 DEF FastPathAdmit, Grant
  <2>3. QED
    BY <1>1, <2>2 DEF FastPathAdmit, Goto, Label, Lifo, list, waiter, ids
<1>2. ASSUME NEW t \in Thread, FastPathReject(t)
      PROVE  TypeOK'
  <2>1. pc' \in [Thread -> Label]
    BY <1>2 DEF FastPathReject, Goto, Label
  <2>2. QED
    BY <1>2, <2>1 DEF FastPathReject, Lifo, delegate, list, waiter, ids
<1>3. ASSUME NEW t \in Thread, DelayEnds(t)
      PROVE  TypeOK'
  BY <1>3 DEF DelayEnds, Goto, Label, Lifo, delegate, list, waiter, ids
<1>4. ASSUME NEW t \in Thread, Park(t)
      PROVE  TypeOK'
  <2>1. PICK i \in DOMAIN queue' :
          /\ Without(queue', queue, i) /\ i = IF Lifo THEN 1 ELSE Len(queue) + 1
    BY <1>4, ParkQueue
  <2>2. queue' \in Seq(Thread) /\ Len(queue') = Len(queue) + 1
    BY <2>1 DEF Without
  <2>3. Lifo' => Len(queue') <= BacklogSize
    BY <1>4, <2>2, HandoffAssumption DEF Park, BacklogFull, Lifo
  <2>4. Parked \subseteq Thread /\ missed' \in SUBSET Thread
    BY <1>4 DEF Park, HandoffInv, Waiters, Missed, Parked, ToSet
  <2>5. earlier' \in [Thread -> SUBSET Thread]
    BY <1>4, <2>4 DEF Park
  <2>6. QED
    BY <1>4, <2>2, <2>3, <2>4, <2>5
       DEF Park, Goto, Label, delegate, ids
<1>5. ASSUME NEW t \in Thread, RejectBacklogFull(t)
      PROVE  TypeOK'
  BY <1>5 DEF RejectBacklogFull, Goto, Label, Lifo, delegate, list, waiter,
     ids
<1>6. ASSUME NEW t \in Thread, Notified(t)
      PROVE  TypeOK'
  BY <1>6 DEF Notified, Goto, Label, Lifo, delegate, list, waiter, ids
<1>7. ASSUME NEW t \in Thread, TimedOut(t)
      PROVE  TypeOK'
  BY <1>7 DEF TimedOut, Goto, Label, Lifo, delegate, list, waiter, ids
<1>8. ASSUME NEW t \in Thread, CollectSlot(t)
      PROVE  TypeOK'
  BY <1>8 DEF CollectSlot, DestroyWaiter, Collecting, CollectUnlocked,
     Collectable, Goto, Label, Lifo, delegate, list, waiter, ids
<1>9. ASSUME NEW t \in Thread, GiveUp(t)
      PROVE  TypeOK'
  <2>1. PICK i \in DOMAIN queue : Without(queue, queue', i)
    BY <1>9, GiveUpQueue
  <2>2. queue' \in Seq(Thread) /\ Len(queue) = Len(queue') + 1
    BY <2>1 DEF Without
  <2>3. Lifo' => Len(queue') <= BacklogSize
    BY <1>9, <2>2, HandoffAssumption DEF GiveUp, Lifo
  <2>4. earlier' \in [Thread -> SUBSET Thread] /\ missed' \in SUBSET Thread
    BY <1>9 DEF GiveUp, Departs
  <2>5. QED
    BY <1>9, <2>2, <2>3, <2>4
       DEF GiveUp, DestroyWaiter, Goto, Label, delegate, ids
<1>10. ASSUME NEW t \in Thread, DrawId(t)
      PROVE  TypeOK'
  <2>1. next_id' \in Id
    BY <1>10, Wraps, HandoffAssumption DEF DrawId, NextId, Id
  <2>2. \A u \in Thread : (drawn[u] + 1) % IdMod \in Id /\ 0 \in Id
    <3>1. ASSUME NEW d \in Id PROVE (d + 1) % IdMod \in Id /\ 0 \in Id
      <4>1. (d + 1) % IdMod = IF d + 1 < IdMod THEN d + 1 ELSE 0
        BY Wraps
      <4>2. QED
        BY <4>1, HandoffAssumption DEF Id
    <3>2. QED
      BY <3>1
  <2>3. drawn' \in [Thread -> Id]
    BY <1>10, <2>2 DEF DrawId
  <2>4. lapped' \in SUBSET Thread
    BY <1>10 DEF DrawId, Numbered
  <2>5. QED
    BY <1>10, <2>1, <2>3, <2>4 DEF DrawId, Goto, Label, Lifo, delegate, list, waiter
<1>11. ASSUME NEW t \in Thread, Emplace(t)
      PROVE  TypeOK'
  <2>1. inner[t] = t /\ PartitionOf[t] \in Partition /\ id[t] \in Id
    BY <1>11, HandoffAssumption DEF Emplace, HandoffInv, Stacks
  <2>2. inflight >= 1 /\ busy[PartitionOf[t]] >= 1
    BY <2>1, NoUnderflow
  <2>3. /\ inflight' \in Nat /\ busy' \in [Partition -> Nat]
        /\ missed' \in SUBSET Thread
        /\ active' \in [Id -> Thread \union {None}]
    <3>1. CASE active[id[t]] = None
      BY <1>11, <2>1, <3>1 DEF Emplace
    <3>2. CASE active[id[t]] # None
      <4>1. inflight' = inflight - 1 /\ missed' = {} /\ active' = active
        BY <1>11, <3>2 DEF Emplace, GiveBack
      <4>2. busy' = [busy EXCEPT ![PartitionOf[t]] = @ - 1]
        BY <1>11, <3>2 DEF Emplace, GiveBack
      <4>3. busy' \in [Partition -> Nat]
        BY <2>1, <2>2, <4>2
      <4>4. QED
        BY <2>2, <4>1, <4>3
    <3>3. QED
      BY <3>1, <3>2
  <2>4. QED
    BY <1>11, <2>3 DEF Emplace, Goto, Label, Lifo, waiter, ids
<1>12. ASSUME NEW t \in Thread, ExtractInner(t)
      PROVE  TypeOK'
  <2>1. 0 \in Id /\ id[t] \in Id
    BY HandoffAssumption DEF Id
  <2>2. /\ active' \in [Id -> Thread \union {None}]
        /\ inner' \in [Thread -> Thread \union {None}]
    BY <1>12, <2>1 DEF ExtractInner, Extracted
  <2>3. pc' \in [Thread -> Label]
    BY <1>12 DEF ExtractInner, Goto, Label
  <2>4. QED
    BY <1>12, <2>1, <2>2, <2>3 DEF ExtractInner, Lifo, delegate, list, waiter
<1>13. ASSUME NEW t \in Thread, MirrorStatus(t)
      PROVE  TypeOK'
  <2>1. inner[t] \in Thread /\ PartitionOf[inner[t]] \in Partition
    BY <1>13, HandoffAssumption DEF MirrorStatus, HandoffInv, Stacks
  <2>2. inflight' \in Nat /\ busy' \in [Partition -> Nat]
    BY <1>13, <2>1, NoUnderflow DEF MirrorStatus, InnerReleases, GiveBack
  <2>3. missed' \in SUBSET Thread
    BY <1>13 DEF MirrorStatus, LeadingGroup
  <2>4. QED
    BY <1>13, <2>2, <2>3
       DEF MirrorStatus, AfterMirror, Goto, Label, Lifo, waiter, ids
<1>14. ASSUME NEW t \in Thread, LockUnblock(t)
      PROVE  TypeOK'
  BY <1>14 DEF LockUnblock, Goto, Label, Lifo, delegate, list, waiter, ids
<1>15. ASSUME NEW t \in Thread, HandOff(t)
      PROVE  TypeOK'
  <2> DEFINE h == Head(queue)
  <2>1. /\ h \in Thread /\ Without(queue, queue', 1) /\ PartitionOf[h] \in Partition
    BY <1>15, HandOffQueue, HandoffAssumption
  <2>2. queue' \in Seq(Thread) /\ Len(queue) = Len(queue') + 1
    BY <2>1 DEF Without
  <2>3. Lifo' => Len(queue') <= BacklogSize
    BY <1>15, <2>2, HandoffAssumption DEF HandOff, Lifo
  <2>4. earlier' \in [Thread -> SUBSET Thread] /\ missed' \in SUBSET Thread
    BY <1>15 DEF HandOff, Departs
  <2>5. inflight' \in Nat /\ busy' \in [Partition -> Nat]
    BY <1>15, <2>1 DEF HandOff, Grant
  <2>6. QED
    BY <1>15, <2>1, <2>2, <2>3, <2>4, <2>5 DEF HandOff, Goto, Label, ids
<1>16. ASSUME NEW t \in Thread, NotifyWaiter(t)
      PROVE  TypeOK'
  BY <1>16 DEF NotifyWaiter, Goto, Label, Lifo, delegate, list, waiter, ids
<1>17. ASSUME NEW t \in Thread, RefusedInUnblock(t)
      PROVE  TypeOK'
  BY <1>17 DEF RefusedInUnblock, Goto, Label, Lifo, delegate, list, waiter,
     ids
<1>18. ASSUME NEW t \in Thread, StopWalking(t)
      PROVE  TypeOK'
  BY <1>18 DEF StopWalking, Goto, Label, Lifo, delegate, list, waiter, ids
<1>19. ASSUME NEW n \in SettableTo, SetLimit(n)
      PROVE  TypeOK'
  BY <1>19, HandoffAssumption DEF SetLimit, Goto, Label, Lifo, delegate, list, waiter, ids
<1>20. ASSUME UNCHANGED vars PROVE TypeOK'
  BY <1>20 DEF vars, Goto, Label, Lifo, delegate, list, waiter, ids
<1>21. QED
  BY <1>1, <1>2, <1>3, <1>4, <1>5, <1>6, <1>7, <1>8, <1>9, <1>10, <1>11,
     <1>12, <1>13, <1>14, <1>15, <1>16, <1>17, <1>18, <1>19, <1>20 DEF Next,
     DoTryAcquire, Await, Collect, OnSlotComplete, Unblock

----------------------------------------------------------------------------
(* A release wakes those who were parked.                                  *)

\* No waiter that was refused would now be admitted, and nobody joins missed.
NoNewRoom ==
  /\ config' = config /\ limit' = limit
  /\ inflight' >= inflight
  /\ \A p \in Partition : busy'[p] >= busy[p]
  /\ missed' \subseteq missed

\* A step that leaves the limit and the slots alone makes no room.
LEMMA SameRoom ==
  ASSUME TypeOK, UNCHANGED <<config, limit, inflight, busy>>, missed' \subseteq missed
  PROVE  NoNewRoom
BY DEF TypeOK, NoNewRoom

\* A product of naturals is one.
LEMMA NatTimes == ASSUME NEW a \in Nat, NEW b \in Nat PROVE a * b \in Nat
  OBVIOUS

\* The greater of two numbers.
LEMMA MaxOfTwo ==
  ASSUME NEW a \in Int, NEW b \in Int
  PROVE  Max({a, b}) = IF a >= b THEN a ELSE b
BY DEF Max

\* A quota is a number.
LEMMA QuotaInt ==
  ASSUME limit \in Nat, NEW p \in Partition
  PROVE  Quota(p) \in Int
<1> DEFINE q == (limit * Share[p] + ShareBase - 1) \div ShareBase
<1>1. Share[p] \in Nat /\ ShareBase \in Nat \ {0}
  BY HandoffAssumption
<1>2. limit * Share[p] \in Nat
  BY <1>1, NatTimes
<1>3. q \in Int
  BY <1>1, <1>2
<1> HIDE DEF q
<1>4. Max({1, q}) \in Int
  BY <1>3, MaxOfTwo
<1>5. QED
  BY <1>4 DEF Quota, q

\* A step that gives no slot back and keeps the cap admits nobody new.
LEMMA AdmitsOnlyIfBefore ==
  ASSUME TypeOK, TypeOK', NoNewRoom, NEW u \in Thread, Admits(u)'
  PROVE  Admits(u)
<1>1. PartitionOf[u] \in Partition
  BY HandoffAssumption
<1>2. Quota(PartitionOf[u])' = Quota(PartitionOf[u]) /\ Partitioned' = Partitioned
  BY DEF NoNewRoom, Quota, Partitioned
<1>3. Quota(PartitionOf[u]) \in Int
  BY <1>1, QuotaInt DEF TypeOK
<1>4. CASE inflight' < limit'
  BY <1>4 DEF Admits, NoNewRoom, TypeOK
<1>5. CASE Partitioned /\ busy'[PartitionOf[u]] < Quota(PartitionOf[u])
  BY <1>1, <1>3, <1>5 DEF Admits, NoNewRoom, TypeOK
<1>6. QED
  BY <1>2, <1>4, <1>5 DEF Admits

\* Without new room, whoever was on the way to wake the waiters still is.
LEMMA StillAwake ==
  ASSUME TypeOK, TypeOK', ReleaseWakesParked, NoNewRoom, Waking => Waking'
  PROVE  ReleaseWakesParked'
BY AdmitsOnlyIfBefore DEF ReleaseWakesParked, NoNewRoom, TypeOK

\* Without new room, nobody needs waking if nobody did.
LEMMA NobodyToWake ==
  ASSUME TypeOK, TypeOK', NoNewRoom, ~ \E u \in missed : Admits(u)
  PROVE  ReleaseWakesParked'
BY AdmitsOnlyIfBefore DEF ReleaseWakesParked, NoNewRoom, TypeOK

\* The delegate treats all the missed waiters as it treats the one at the front,
\* so Unblock may stop at the first refusal.
LEMMA FrontRefused ==
  ASSUME HandoffInv, queue # << >>, ~Admits(Head(queue))
  PROVE  ~ \E u \in missed : Admits(u)
<1> SUFFICES ASSUME NEW u \in missed, Admits(u) PROVE FALSE
  OBVIOUS
<1>1. queue \in Seq(Thread) /\ Head(queue) = queue[1] /\ 1 \in DOMAIN queue
  BY HeadTailProperties DEF HandoffInv, TypeOK
<1>2. PICK j \in DOMAIN queue : queue[j] = u
  BY DEF HandoffInv, Missed, Parked, ToSet
<1>3. CASE j = 1
  BY <1>1, <1>2, <1>3
<1>4. CASE j # 1
  <2>1. 1 < j
    BY <1>1, <1>2, <1>4
  <2>2. Partitioned => PartitionOf[queue[1]] = PartitionOf[u]
    BY <1>1, <1>2, <2>1 DEF HandoffInv, Missed
  <2>3. QED
    BY <1>1, <2>2 DEF Admits
<1>5. QED
  BY <1>3, <1>4

\* Every step keeps the promise that a release wakes a parked caller.
LEMMA ReleaseWakesStep == HandoffInv /\ [Next]_vars => ReleaseWakesParked'
<1> SUFFICES ASSUME HandoffInv, [Next]_vars PROVE ReleaseWakesParked'
  OBVIOUS
<1>0. TypeOK /\ TypeOK'
  BY TypeStep DEF HandoffInv
<1> USE <1>0
<1>1. ASSUME NEW t \in Thread, FastPathAdmit(t)
      PROVE  ReleaseWakesParked'
  <2>1. NoNewRoom
    <3>1. PartitionOf[t] \in Partition
      BY HandoffAssumption
    <3>2. QED
      BY <1>1, <3>1 DEF FastPathAdmit, Grant, NoNewRoom, TypeOK, list
  <2>2. Waking => Waking'
    BY <1>1 DEF FastPathAdmit, Waking, Goto, TypeOK
  <2>3. QED
    BY <2>1, <2>2, StillAwake DEF HandoffInv
<1>2. ASSUME NEW t \in Thread, FastPathReject(t)
      PROVE  ReleaseWakesParked'
  <2>1. NoNewRoom
    BY <1>2, SameRoom DEF FastPathReject, delegate, list
  <2>2. Waking => Waking'
    BY <1>2 DEF FastPathReject, Waking, Goto, TypeOK
  <2>3. QED
    BY <2>1, <2>2, StillAwake DEF HandoffInv
<1>3. ASSUME NEW t \in Thread, DelayEnds(t)
      PROVE  ReleaseWakesParked'
  <2>1. NoNewRoom
    BY <1>3, SameRoom DEF DelayEnds, delegate, list
  <2>2. Waking => Waking'
    BY <1>3 DEF DelayEnds, Waking, Goto, TypeOK
  <2>3. QED
    BY <2>1, <2>2, StillAwake DEF HandoffInv
<1>4. ASSUME NEW t \in Thread, Park(t)
      PROVE  ReleaseWakesParked'
  <2>1. NoNewRoom
    BY <1>4, SameRoom DEF Park, delegate, list
  <2>2. Waking => Waking'
    BY <1>4 DEF Park, Waking, Goto, TypeOK
  <2>3. QED
    BY <2>1, <2>2, StillAwake DEF HandoffInv
<1>5. ASSUME NEW t \in Thread, RejectBacklogFull(t)
      PROVE  ReleaseWakesParked'
  <2>1. NoNewRoom
    BY <1>5, SameRoom DEF RejectBacklogFull, delegate, list
  <2>2. Waking => Waking'
    BY <1>5 DEF RejectBacklogFull, Waking, Goto, TypeOK
  <2>3. QED
    BY <2>1, <2>2, StillAwake DEF HandoffInv
<1>6. ASSUME NEW t \in Thread, Notified(t)
      PROVE  ReleaseWakesParked'
  <2>1. NoNewRoom
    BY <1>6, SameRoom DEF Notified, delegate, list
  <2>2. Waking => Waking'
    BY <1>6 DEF Notified, Waking, Goto, TypeOK
  <2>3. QED
    BY <2>1, <2>2, StillAwake DEF HandoffInv
<1>7. ASSUME NEW t \in Thread, TimedOut(t)
      PROVE  ReleaseWakesParked'
  <2>1. NoNewRoom
    BY <1>7, SameRoom DEF TimedOut, delegate, list
  <2>2. Waking => Waking'
    BY <1>7 DEF TimedOut, Waking, Goto, TypeOK
  <2>3. QED
    BY <2>1, <2>2, StillAwake DEF HandoffInv
<1>8. ASSUME NEW t \in Thread, CollectSlot(t)
      PROVE  ReleaseWakesParked'
  <2>1. NoNewRoom
    BY <1>8, SameRoom DEF CollectSlot, delegate, list
  <2>2. Waking => Waking'
    BY <1>8 DEF CollectSlot, Collecting, Waking, Goto, TypeOK
  <2>3. QED
    BY <2>1, <2>2, StillAwake DEF HandoffInv
<1>9. ASSUME NEW t \in Thread, GiveUp(t)
      PROVE  ReleaseWakesParked'
  <2>1. NoNewRoom
    BY <1>9, SameRoom DEF GiveUp, Departs, delegate, list
  <2>2. Waking => Waking'
    BY <1>9 DEF GiveUp, Collecting, Waking, Goto, TypeOK
  <2>3. QED
    BY <2>1, <2>2, StillAwake DEF HandoffInv
<1>10. ASSUME NEW t \in Thread, DrawId(t)
      PROVE  ReleaseWakesParked'
  <2>1. NoNewRoom
    BY <1>10, SameRoom DEF DrawId, delegate, list
  <2>2. Waking => Waking'
    BY <1>10 DEF DrawId, Waking, Goto, TypeOK
  <2>3. QED
    BY <2>1, <2>2, StillAwake DEF HandoffInv
<1>11. ASSUME NEW t \in Thread, Emplace(t)
      PROVE  ReleaseWakesParked'
  <2>1. CASE active[id[t]] = None
    <3>1. NoNewRoom
      BY <1>11, <2>1, SameRoom DEF Emplace
    <3>2. Waking => Waking'
      BY <1>11 DEF Emplace, Waking, Goto, TypeOK
    <3>3. QED
      BY <3>1, <3>2, StillAwake DEF HandoffInv
  <2>2. CASE active[id[t]] # None
    BY <1>11, <2>2 DEF Emplace, ReleaseWakesParked
  <2>3. QED
    BY <2>1, <2>2
<1>12. ASSUME NEW t \in Thread, ExtractInner(t)
      PROVE  ReleaseWakesParked'
  <2>1. NoNewRoom
    BY <1>12, SameRoom DEF ExtractInner, delegate, list
  <2>2. Waking => Waking'
    BY <1>12 DEF ExtractInner, Waking, Goto, TypeOK
  <2>3. QED
    BY <2>1, <2>2, StillAwake DEF HandoffInv
<1>13. ASSUME NEW t \in Thread, MirrorStatus(t)
      PROVE  ReleaseWakesParked'
  BY <1>13 DEF MirrorStatus, AfterMirror, Goto, ReleaseWakesParked, Waking, TypeOK
<1>14. ASSUME NEW t \in Thread, LockUnblock(t)
      PROVE  ReleaseWakesParked'
  BY <1>14 DEF LockUnblock, Goto, ReleaseWakesParked, Waking, TypeOK
<1>15. ASSUME NEW t \in Thread, HandOff(t)
      PROVE  ReleaseWakesParked'
  BY <1>15 DEF HandOff, Goto, ReleaseWakesParked, Waking, TypeOK
<1>16. ASSUME NEW t \in Thread, NotifyWaiter(t)
      PROVE  ReleaseWakesParked'
  BY <1>16 DEF NotifyWaiter, Goto, ReleaseWakesParked, Waking, TypeOK
<1>17. ASSUME NEW t \in Thread, RefusedInUnblock(t)
      PROVE  ReleaseWakesParked'
  <2>1. NoNewRoom
    BY <1>17, SameRoom DEF RefusedInUnblock, delegate, list
  <2>2. ~ \E u \in missed : Admits(u)
    BY <1>17, FrontRefused DEF RefusedInUnblock
  <2>3. QED
    BY <2>1, <2>2, NobodyToWake
<1>18. ASSUME NEW t \in Thread, StopWalking(t)
      PROVE  ReleaseWakesParked'
  <2>1. NoNewRoom
    BY <1>18, SameRoom DEF StopWalking, delegate, list
  <2>2. CASE pc[t] = "walk"
    <3>1. CASE queue = << >>
      BY <1>18, <3>1 DEF StopWalking, list, HandoffInv, Missed, Parked, ToSet,
         ReleaseWakesParked
    <3>2. CASE queue # << >>
      <4>1. ~ \E u \in missed : Admits(u)
        BY <1>18, <2>2, <3>2, FrontRefused DEF StopWalking
      <4>2. QED
        BY <2>1, <4>1, NobodyToWake
    <3>3. QED
      BY <3>1, <3>2
  <2>3. CASE pc[t] = "delay_locked"
    <3>1. Waking => Waking'
      BY <1>18, <2>3 DEF StopWalking, Waking, Goto, TypeOK
    <3>2. QED
      BY <2>1, <3>1, StillAwake DEF HandoffInv
  <2>4. QED
    BY <1>18, <2>2, <2>3 DEF StopWalking
<1>19. ASSUME NEW n \in SettableTo, SetLimit(n)
      PROVE  ReleaseWakesParked'
  BY <1>19 DEF SetLimit, ReleaseWakesParked
<1>20. ASSUME UNCHANGED vars PROVE ReleaseWakesParked'
  <2>1. NoNewRoom
    BY <1>20, SameRoom DEF vars, delegate, list
  <2>2. Waking => Waking'
    BY <1>20 DEF vars, Waking
  <2>3. QED
    BY <2>1, <2>2, StillAwake DEF HandoffInv
<1>21. QED
  BY <1>20, <1>1, <1>2, <1>3, <1>4, <1>5, <1>6, <1>7, <1>8, <1>9, <1>10, <1>11,
     <1>12, <1>13, <1>14, <1>15, <1>16, <1>17, <1>18, <1>19 DEF Next,
     DoTryAcquire, Await, Collect, OnSlotComplete, Unblock

----------------------------------------------------------------------------
(* The theorems.                                                           *)

\* Before the first call the invariant holds.
LEMMA InitInv == Init => HandoffInv
<1> SUFFICES ASSUME Init PROVE HandoffInv
  OBVIOUS
<1>0. None \notin Thread /\ 0 \in Id /\ IsFiniteSet(Thread) /\ Parked = {}
  BY HandoffAssumption DEF Init, None, Id, Parked, ToSet
<1>1. TypeOK
  BY <1>0, HandoffAssumption DEF Init, TypeOK, Label, Lifo
<1>2. Lock
  BY <1>0 DEF Init, Lock
<1>3. Waiters
  BY <1>0 DEF Init, Waiters, Distinct
<1>4. Stacks
  BY DEF Init, Stacks
<1>5. Arrival
  BY <1>0 DEF Init, Arrival
<1>6. Missed
  BY <1>0 DEF Init, Missed
<1>7. Ids
  BY DEF Init, Ids, Numbered
<1>8. OwnSlotCompleted
  BY DEF Init, OwnSlotCompleted
<1>9. NoSlotLost
  <2>1. ASSUME NEW P PROVE OwnedBy(P) = 0
    <3>1. OnStack(P) = {} /\ Delivered(P) = {} /\ Registered(P) = {}
      BY <1>0 DEF Init, OnStack, Delivered, Registered, Owner
    <3>2. QED
      BY <1>1, <3>1, OwnedSum, FS_EmptySet
  <2>2. inflight = 0 /\ \A p \in Partition : busy[p] = 0
    BY DEF Init
  <2>3. QED
    BY <2>1, <2>2 DEF NoSlotLost
<1>10. ReleaseWakesParked
  BY DEF Init, ReleaseWakesParked
<1>11. QED
  BY <1>1, <1>2, <1>3, <1>4, <1>5, <1>6, <1>7, <1>8, <1>9, <1>10
     DEF HandoffInv

\* The invariant holds in every reachable state.
LEMMA Invariance == Spec => []HandoffInv
<1>1. HandoffInv /\ [Next]_vars => HandoffInv'
  BY TypeStep, LockStep, WaitersStep, StacksStep, ArrivalStep, MissedStep,
     IdsStep, OwnSlotStep, SlotsStep, ReleaseWakesStep DEF HandoffInv
<1>2. QED
  BY <1>1, InitInv, PTL DEF Spec

\* Every variable keeps its type, whatever the threads do: the delegate's
\* counters never go below zero, since a slot is given back only by the thread
\* on whose stack it is, and the deque never outgrows backlog_size_.
THEOREM TypeCorrect == Spec => []TypeOK
<1>1. HandoffInv => TypeOK
  BY DEF HandoffInv
<1>2. QED
  BY <1>1, Invariance, PTL

\* OnSlotComplete, Unblock and a caller whose deadline passes while a slot is
\* being put into its WaiterSlot neither lose a slot nor give one back twice:
\* the delegate counts, in total and per partition, exactly the slots that are
\* on a stack, in a WaiterSlot or in active_slots_.
THEOREM SlotsConserved == Spec => []NoSlotLost
<1>1. HandoffInv => NoSlotLost
  BY DEF HandoffInv
<1>2. QED
  BY <1>1, Invariance, PTL

\* A completion finds in active_slots_ the inner slot its own call was granted,
\* unless the 32-bit counter of slot ids went all the way round while the guard
\* was out.
THEOREM OwnSlotFound == Spec => []OwnSlotCompleted
<1>1. HandoffInv => OwnSlotCompleted
  BY DEF HandoffInv
<1>2. QED
  BY <1>1, Invariance, PTL

\* No thread leaves DoTryAcquire, and destroys the WaiterSlot on its stack,
\* while the list or an Unblock that has yet to notify it points there.
THEOREM NoDangling == Spec => []NoDanglingWaiter
<1>1. HandoffInv => NoDanglingWaiter
  BY HandoffAssumption DEF HandoffInv, Waiters, NoDanglingWaiter, Collecting, None
<1>2. QED
  BY <1>1, Invariance, PTL

\* A waiter that was parked when a slot was given back, with nobody of another
\* partition before it, does not sit there with room in the delegate unless some
\* thread is between MirrorStatus and the end of its Unblock.
THEOREM ReleaseWakes == Spec => []ReleaseWakesParked
<1>1. HandoffInv => ReleaseWakesParked
  BY DEF HandoffInv
<1>2. QED
  BY <1>1, Invariance, PTL

\* Only Unblock puts a slot into a WaiterSlot, and into the one at the front.
LEMMA OnlyTheFront ==
  ASSUME HandoffInv, Next, NEW t \in Thread, slot'[t], ~slot[t]
  PROVE  /\ t \in Parked /\ queue \in Seq(Thread) /\ 1 \in DOMAIN queue
         /\ t = queue[1]
<1>1. TypeOK
  BY DEF HandoffInv
<1>2. PICK u \in Thread : HandOff(u)
  BY <1>1 DEF Next, DoTryAcquire, Await, Collect, OnSlotComplete, Unblock,
     FastPathAdmit, FastPathReject, DelayEnds, Park, RejectBacklogFull,
     Notified, TimedOut, CollectSlot, GiveUp, DestroyWaiter, DrawId, Emplace,
     ExtractInner, MirrorStatus, LockUnblock, NotifyWaiter, RefusedInUnblock,
     StopWalking, SetLimit, waiter, TypeOK
<1>3. t = Head(queue)
  BY <1>1, <1>2 DEF HandOff, TypeOK
<1>4. QED
  BY <1>1, <1>2, <1>3, HandOffQueue DEF TypeOK

\* BlockingLimiter serves first in, first out, and LifoBlockingLimiter last in,
\* first out, although waiters that time out leave from the middle of the list.
THEOREM InOrder == Spec => ServedInOrder
<1>1. HandoffInv /\ [Next]_vars =>
        [\A t \in Thread : slot'[t] /\ ~slot[t] =>
           IF Lifo THEN \A u \in Parked : t \notin earlier[u]
                   ELSE earlier[t] = {}]_vars
  <2> SUFFICES ASSUME HandoffInv, Next, NEW t \in Thread, slot'[t], ~slot[t]
               PROVE  IF Lifo THEN \A u \in Parked : t \notin earlier[u]
                              ELSE earlier[t] = {}
    OBVIOUS
  <2>1. t \in Parked /\ queue \in Seq(Thread) /\ 1 \in DOMAIN queue /\ t = queue[1]
    BY OnlyTheFront
  <2>2. \A u \in Parked : \E i \in DOMAIN queue : queue[i] = u
    BY DEF Parked, ToSet
  <2>3. CASE Lifo
    <3>1. ASSUME NEW i \in DOMAIN queue PROVE t \notin earlier[queue[i]]
      <4>1. i >= 1
        BY <2>1
      <4>2. QED
        BY <2>1, <2>3, <4>1 DEF HandoffInv, Arrival
    <3>2. QED
      BY <2>2, <2>3, <3>1
  <2>4. CASE ~Lifo
    <3>1. ASSUME NEW j \in DOMAIN queue PROVE queue[j] \notin earlier[t]
      <4>1. j >= 1
        BY <2>1
      <4>2. QED
        BY <2>1, <2>4, <4>1 DEF HandoffInv, Arrival
    <3>2. earlier[t] \subseteq Parked
      BY DEF HandoffInv, Arrival
    <3>3. earlier[t] = {}
      BY <2>2, <3>1, <3>2
    <3>4. QED
      BY <2>4, <3>3
  <2>5. QED
    BY <2>3, <2>4
<1>2. QED
  BY <1>1, Invariance, PTL DEF Spec, ServedInOrder
=============================================================================
