------------------ MODULE AbstractPartitionedLimiterProofs ------------------
(***************************************************************************)
(* Proofs about AbstractPartitionedLimiter for every number of calls,      *)
(* threads, partitions, resolvers and shares and every set of caps.        *)
(*                                                                         *)
(* IndInv is needed as a whole.  The counters stay natural only because    *)
(* they count calls (SlotsAddUp, DelayBudget).  The quotas follow the cap  *)
(* only because the call that changed it keeps mu_ until its listener has  *)
(* stored the last one (ListenerHoldsLock), and because the constructor    *)
(* computes them from the initial cap (Construction).  The two promises to *)
(* callers rest on what the stale registers of a call that has not yet     *)
(* been refused can still say (ShortRegisters, RoomyRegisters).            *)
(***************************************************************************)
EXTENDS AbstractPartitionedLimiter, FiniteSetTheorems, TLAPS

----------------------------------------------------------------------------
(* The inductive invariant.                                                *)

\* mu_ is held across steps exactly by the call that runs the listener, which
\* has stored every quota before the one it is at, for the cap in force.
ListenerHoldsLock ==
  /\ \A c \in Call : mu = c <=> pc[c] = "listener"
  /\ \A c \in Call : pc[c] = "listener" =>
       /\ building = Built
       /\ reg[c] = limit
       /\ \A p \in Partition :
            p < part[c] => quota[p] = ComputePartitionLimit(limit, p)

\* Until the constructor returns no call is under way, and the quotas it has
\* stored so far are those of the initial cap.
Construction ==
  /\ building # Built =>
       /\ \A c \in Call : pc[c] = "idle"
       /\ \A p \in Partition : p < building =>
            quota[p] = ComputePartitionLimit(InitialLimit, p)
       /\ changed # "heard"
  /\ changed = "no" => limit = InitialLimit

\* A call whose partition has been below its quota all along has not loaded a
\* busy count that says otherwise.
ShortRegisters ==
  \A c \in short :
    /\ pc[c] \in Deciding
    /\ busy[part[c]] < quota[part[c]]
    /\ pc[c] \in {"gate", "swap_busy"} => reg[c] < quota[part[c]]

\* A call that has seen idle capacity all along is on the way to a burst.
RoomyRegisters ==
  \A c \in roomy :
    /\ pc[c] \in {"global", "against_limit", "against_inflight", "burst"}
    /\ inflight < limit
    /\ pc[c] = "against_limit" => reg[c] < limit
    /\ pc[c] = "against_inflight" => reg[c] = limit

IndInv ==
  /\ TypeOK
  /\ SlotsAddUp
  /\ DelayBudget
  /\ ListenerHoldsLock
  /\ Construction
  /\ QuotasFollowCap
  /\ ShortRegisters
  /\ RoomyRegisters

----------------------------------------------------------------------------
(* The operators the model is built from.                                  *)

\* A non-empty set of naturals has a least element, which Min names.
LEMMA LeastElement ==
  ASSUME NEW S \in SUBSET Nat, S # {}
  PROVE  Min(S) \in S
<1> DEFINE Below(x) == {y \in S : y < x}
           Initial == {Below(x) : x \in S}
<1>1. Initial \subseteq FiniteSubsetsOf(Nat)
  <2>1. ASSUME NEW x \in S PROVE Below(x) \in SUBSET Nat /\ IsFiniteSet(Below(x))
    <3>1. IsFiniteSet(0 .. x)
      BY FS_Interval
    <3>2. x \in Nat /\ \A y \in S : y \in Nat
      OBVIOUS
    <3>3. \A y \in Below(x) : y \in 0 .. x
      BY <3>2
    <3>4. Below(x) \in SUBSET (0 .. x)
      BY <3>3
    <3>5. QED
      BY <3>1, <3>4, FS_Subset
  <2>2. QED
    BY <2>1 DEF FiniteSubsetsOf
<1>2. PICK I \in Initial :
        \A J \in Initial : ~(<<J, I>> \in StrictSubsetOrdering(Nat))
  <2>1. Initial # {}
    OBVIOUS
  <2>2. IsWellFoundedOn(StrictSubsetOrdering(Nat), FiniteSubsetsOf(Nat))
    BY FS_StrictSubsetOrderingWellFounded
  <2> HIDE DEF Initial
  <2>3. QED
    BY <1>1, <2>1, <2>2, WFMin
<1>3. PICK x \in S : I = Below(x)
  OBVIOUS
<1>4. ASSUME NEW z \in S, z < x PROVE FALSE
  <2>1. Below(z) \in Initial
    OBVIOUS
  <2>2. Below(z) \subseteq Below(x)
    <3>1. x \in Nat /\ z \in Nat /\ \A y \in S : y \in Nat
      OBVIOUS
    <3>2. \A y \in Below(z) : y \in Below(x)
      BY <1>4, <3>1
    <3>3. QED
      BY <3>2
  <2>3. z \in Below(x) /\ z \notin Below(z)
    BY <1>4
  <2>4. <<Below(z), Below(x)>> \in StrictSubsetOrdering(Nat)
    BY <2>2, <2>3 DEF StrictSubsetOrdering
  <2>5. QED
    BY <1>2, <1>3, <2>1, <2>4
<1>5. \A y \in S : x <= y
  BY <1>4
<1>6. QED
  BY <1>5 DEF Min

\* max(1, n), the floor of every quota.
LEMMA AtLeastOne ==
  ASSUME NEW n \in Int
  PROVE  Max({1, n}) \in Nat /\ Max({1, n}) >= 1
<1>1. \E x \in {1, n} : \A y \in {1, n} : x >= y
  BY SMT
<1>2. Max({1, n}) \in {1, n} /\ \A y \in {1, n} : Max({1, n}) >= y
  BY <1>1 DEF Max
<1>3. QED
  BY <1>2

\* The declared partitions and the synthetic one are the numbers up to its index.
LEMMA PartitionIsInterval ==
  /\ unknown_partition_index \in Nat
  /\ unknown_partition_index >= 2
  /\ unknown_partition_index \in Partition
  /\ Partition \subseteq Nat
  /\ 1 \in Partition
  /\ \A p \in Partition : percent(p) \in Nat
  /\ Built \in Nat /\ Registering \in Nat
BY PartitionAssumption
   DEF ValidConfiguration, unknown_partition_index, Partition, percent, Built,
       Registering

\* A quota is a positive count, whatever the cap: even a partition with
\* percent 0, such as "unknown", may hold one slot.
LEMMA QuotaPositive ==
  ASSUME NEW n \in Nat, NEW p \in Partition
  PROVE  /\ ComputePartitionLimit(n, p) \in Nat
         /\ ComputePartitionLimit(n, p) >= 1
<1>1. percent(p) \in Nat /\ ShareBase \in Nat \ {0}
  BY PartitionIsInterval, PartitionAssumption
<1>2. n * percent(p) \in Nat
  BY <1>1
<1>3. (n * percent(p) + ShareBase - 1) \div ShareBase \in Int
  BY <1>1, <1>2
<1>4. QED
  BY <1>3, AtLeastOne DEF ComputePartitionLimit

\* Whatever the resolvers say, a call is charged to a configured partition.
LEMMA ResolvedIsPartition ==
  ASSUME NEW x \in Context
  PROVE  ResolvePartition(x) \in Partition
<1> DEFINE matches == {i \in DOMAIN Resolvers : Resolvers[i][x] # NoMatch}
<1>1. CASE matches = {}
  BY <1>1, PartitionIsInterval DEF ResolvePartition
<1>2. CASE matches # {}
  <2>1. matches \in SUBSET Nat
    BY PartitionAssumption DEF ValidConfiguration
  <2>2. Min(matches) \in matches
    BY <1>2, <2>1, LeastElement
  <2>3. Resolvers[Min(matches)][x] \in Partition
    BY <2>2, PartitionAssumption DEF ValidConfiguration
  <2>4. QED
    BY <1>2, <2>3 DEF ResolvePartition
<1>3. QED
  BY <1>1, <1>2
----------------------------------------------------------------------------
(* Counting calls.                                                         *)

\* A call that enters a set of calls adds one to its size.
LEMMA Enters ==
  ASSUME NEW S \in SUBSET Call, NEW c \in Call, c \notin S
  PROVE  Cardinality(S) \in Nat /\ Cardinality(S \union {c}) = Cardinality(S) + 1
BY PartitionAssumption, FS_Subset, FS_CardinalityType, FS_AddElement

\* A call that leaves one takes one off, and there was one to take.
LEMMA Leaves ==
  ASSUME NEW S \in SUBSET Call, NEW c \in S
  PROVE  /\ Cardinality(S) \in Nat \ {0}
         /\ Cardinality(S \ {c}) = Cardinality(S) - 1
<1>1. IsFiniteSet(S) /\ S # {}
  BY PartitionAssumption, FS_Subset
<1>2. QED
  BY <1>1, FS_CardinalityType, FS_RemoveElement, FS_EmptySet

\* The sleeping calls.
Sleepers == {c \in Call : pc[c] = "sleep"}

\* No fetch_sub takes a counter below zero: the caller is in the count.
LEMMA NoUnderflow ==
  ASSUME IndInv, NEW c \in Call
  PROVE  /\ pc[c] = "held" => inflight > 0
         /\ pc[c] = "release_partition" => busy[part[c]] > 0
         /\ pc[c] = "sleep" => delayed > 0
<1>1. ASSUME pc[c] = "held" PROVE inflight > 0
  <2>1. c \in InGlobal /\ InGlobal \in SUBSET Call
    BY <1>1 DEF InGlobal
  <2>2. Cardinality(InGlobal) \in Nat \ {0}
    BY <2>1, Leaves
  <2>3. QED
    BY <2>2 DEF IndInv, SlotsAddUp
<1>2. ASSUME pc[c] = "release_partition" PROVE busy[part[c]] > 0
  <2>1. c \in InPartition(part[c]) /\ InPartition(part[c]) \in SUBSET Call
    BY <1>2 DEF InPartition
  <2>2. Cardinality(InPartition(part[c])) \in Nat \ {0}
    BY <2>1, Leaves
  <2>3. QED
    BY <2>2 DEF IndInv, SlotsAddUp, TypeOK
<1>3. ASSUME pc[c] = "sleep" PROVE delayed > 0
  <2>1. c \in Sleepers /\ Sleepers \in SUBSET Call /\ delayed = Cardinality(Sleepers)
    BY <1>3 DEF Sleepers, IndInv, DelayBudget
  <2>2. Cardinality(Sleepers) \in Nat \ {0}
    BY <2>1, Leaves
  <2>3. QED
    BY <2>1, <2>2
<1>4. QED
  BY <1>1, <1>2, <1>3

----------------------------------------------------------------------------
(* Every step preserves each part of the invariant.                        *)

\* The history variables keep their types, whatever the step.
LEMMA HistoryType ==
  ASSUME TypeOK, Watch
  PROVE  /\ short' \subseteq Call /\ roomy' \subseteq Call
         /\ changed' \in {"no", "heard", "unheard"}
BY DEF Watch, TypeOK

\* The words a step writes.
Words ==
  /\ limit \in Nat /\ mu \in Call \union {None} /\ inflight \in Nat
  /\ busy \in [Partition -> Nat] /\ quota \in [Partition -> Nat]
  /\ delayed \in Nat /\ building \in 1 .. Built
  /\ pc \in [Call -> Label] /\ part \in [Call -> Partition]
  /\ reg \in [Call -> Nat]

\* The words a step writes keep their types.
LEMMA WordsStep == IndInv /\ Step => Words'
<1> SUFFICES ASSUME IndInv, Words, Step PROVE Words'
  BY DEF IndInv, TypeOK, Words
<1> USE DEF Words, Label, Deciding
<1>0. /\ unknown_partition_index \in Partition /\ 1 \in Partition
      /\ InitialLimit \in Nat /\ SettableTo \subseteq Nat /\ AdaptsTo \subseteq Nat
  BY PartitionAssumption, PartitionIsInterval
<1>1. ASSUME BuildQuota PROVE Words'
  <2>1. ComputePartitionLimit(InitialLimit, building) \in Nat
    BY <1>0, <1>1, QuotaPositive DEF BuildQuota
  <2>2. building + 1 \in 1 .. Built
    BY <1>1, PartitionIsInterval DEF BuildQuota, Built, Partition
  <2>3. QED
    BY <1>1, <2>1, <2>2 DEF BuildQuota, counters
<1>2. ASSUME RegisterListener PROVE Words'
  <2>1. Built \in 1 .. Built
    BY PartitionIsInterval DEF Built
  <2>2. QED
    BY <1>2, <2>1 DEF RegisterListener, cap, counters
<1>3. ASSUME NEW c \in Call, NEW x \in Context, Begin(c, x)
      PROVE  Words'
  BY <1>0, <1>3, ResolvedIsPartition DEF Begin, Goto, cap, counters
<1>4. ASSUME NEW c \in Call, LoadGlobal(c)
      PROVE  Words'
  BY <1>0, <1>4 DEF LoadGlobal, Return, Goto, Load, cap, counters
<1>5. ASSUME NEW c \in Call, TestGlobal(c)
      PROVE  Words'
  BY <1>0, <1>5 DEF TestGlobal, Return, Goto, Load, cap, counters
<1>6. ASSUME NEW c \in Call, Burst(c)
      PROVE  Words'
  BY <1>0, <1>6 DEF Burst, BurstAdds, Goto, cap
<1>7. ASSUME NEW c \in Call, LoadBusy(c)
      PROVE  Words'
  BY <1>0, <1>7 DEF LoadBusy, Return, Goto, Load, cap, counters
<1>8. ASSUME NEW c \in Call, GateRefuses(c)
      PROVE  Words'
  BY <1>0, <1>8 DEF GateRefuses, Return, Goto, Load, cap, counters
<1>9. ASSUME NEW c \in Call, GatePasses(c)
      PROVE  Words'
  BY <1>0, <1>9 DEF GatePasses, Return, Goto, Load, cap, counters
<1>10. ASSUME NEW c \in Call, SwapBusy(c)
      PROVE  Words'
  BY <1>0, <1>10 DEF SwapBusy, Return, Goto, Load, cap, counters
<1>11. ASSUME NEW c \in Call, SwapBusyFails(c)
      PROVE  Words'
  BY <1>0, <1>11 DEF SwapBusyFails, Return, Goto, Load, cap, counters
<1>12. ASSUME NEW c \in Call, CountInflight(c)
      PROVE  Words'
  BY <1>0, <1>12 DEF CountInflight, Return, Goto, Load, cap, counters
<1>13. ASSUME NEW c \in Call, LoadDelayed(c)
      PROVE  Words'
  BY <1>0, <1>13 DEF LoadDelayed, Return, Goto, Load, cap, counters
<1>14. ASSUME NEW c \in Call, BudgetExhausted(c)
      PROVE  Words'
  BY <1>0, <1>14 DEF BudgetExhausted, Return, Goto, Load, cap, counters
<1>15. ASSUME NEW c \in Call, ReserveDelay(c)
      PROVE  Words'
  BY <1>0, <1>15 DEF ReserveDelay, Return, Goto, Load, cap, counters
<1>16. ASSUME NEW c \in Call, ReserveDelayFails(c)
      PROVE  Words'
  BY <1>0, <1>16 DEF ReserveDelayFails, Return, Goto, Load, cap, counters
<1>17. ASSUME NEW c \in Call, WakeUp(c)
      PROVE  Words'
  BY <1>0, <1>17, NoUnderflow DEF WakeUp, Return, Goto, Load, cap, counters
<1>18. ASSUME NEW c \in Call, ReleaseInflight(c)
      PROVE  Words'
  BY <1>0, <1>18, NoUnderflow DEF ReleaseInflight, Goto, cap
<1>19. ASSUME NEW c \in Call, ReleasePartition(c)
      PROVE  Words'
  <2>1. busy[part[c]] - 1 \in Nat
    BY <1>19, NoUnderflow DEF ReleasePartition
  <2>2. QED
    BY <1>0, <1>19, <2>1 DEF ReleasePartition, ReleasedPartition, Return, Goto, Load, cap
<1>20. ASSUME NEW c \in Call, OnSample(c)
      PROVE  Words'
  BY <1>0, <1>20 DEF OnSample, ChangeCap, Return, Goto, Load, cap, counters
<1>21. ASSUME NEW c \in Call, NEW n \in SettableTo, SetLimit(c, n)
      PROVE  Words'
  BY <1>0, <1>21 DEF SetLimit, ChangeCap, Return, Goto, Load, cap, counters
<1>22. ASSUME NEW c \in Call, Listener(c)
      PROVE  Words'
  <2>1. ComputePartitionLimit(reg[c], part[c]) \in Nat
    BY QuotaPositive
  <2>2. part[c] < unknown_partition_index => part[c] + 1 \in Partition
    BY SMTT(60), PartitionIsInterval DEF Partition
  <2>3. QED
    BY <1>0, <1>22, <2>1, <2>2 DEF Listener, Return, Goto, Load, counters
<1>23. QED
  BY <1>1, <1>2, <1>3, <1>4, <1>5, <1>6, <1>7, <1>8, <1>9, <1>10, <1>11,
     <1>12, <1>13, <1>14, <1>15, <1>16, <1>17, <1>18, <1>19, <1>20, <1>21,
     <1>22 DEF Next, Step, DoAcquire, MaybeBackoffDelay, OnSlotComplete

\* Every variable keeps its type.
LEMMA TypeStep == IndInv /\ [Next]_vars => TypeOK'
<1>1. IndInv /\ Next => TypeOK'
  BY WordsStep, HistoryType DEF Next, IndInv, TypeOK, Words
<1>2. IndInv /\ UNCHANGED vars => TypeOK'
  BY DEF vars, cap, counters, IndInv, TypeOK
<1>3. QED
  BY <1>1, <1>2

\* Every partition counts the calls charged to it: each fetch_add, each
\* compare-exchange and each fetch_sub moves exactly one call.
LEMMA BusyStep ==
  IndInv /\ [Next]_vars =>
    \A p \in Partition : busy'[p] = Cardinality(InPartition(p)')
<1> SUFFICES ASSUME IndInv, [Next]_vars, NEW p \in Partition
             PROVE  busy'[p] = Cardinality(InPartition(p)')
  OBVIOUS
<1> USE DEF IndInv, TypeOK
<1>0. busy[p] = Cardinality(InPartition(p))
  BY DEF SlotsAddUp
<1>1. ASSUME BuildQuota PROVE busy'[p] = busy[p] /\ InPartition(p)' = InPartition(p)
  BY <1>1 DEF BuildQuota, Return, Goto, Load, cap, counters, InPartition
<1>2. ASSUME RegisterListener PROVE busy'[p] = busy[p] /\ InPartition(p)' = InPartition(p)
  BY <1>2 DEF RegisterListener, Return, Goto, Load, cap, counters,
     InPartition
<1>3. ASSUME NEW c \in Call, NEW x \in Context, Begin(c, x)
      PROVE  busy'[p] = busy[p] /\ InPartition(p)' = InPartition(p)
  BY <1>3 DEF Begin, Return, Goto, Load, cap, counters, InPartition
<1>4. ASSUME NEW c \in Call, LoadGlobal(c)
      PROVE  busy'[p] = busy[p] /\ InPartition(p)' = InPartition(p)
  BY <1>4 DEF LoadGlobal, Return, Goto, Load, cap, counters, InPartition
<1>5. ASSUME NEW c \in Call, TestGlobal(c)
      PROVE  busy'[p] = busy[p] /\ InPartition(p)' = InPartition(p)
  BY <1>5 DEF TestGlobal, Return, Goto, Load, cap, counters, InPartition
<1>6. ASSUME NEW c \in Call, Burst(c)
      PROVE  busy'[p] = Cardinality(InPartition(p)')
  <2>1. CASE p = part[c]
    <3>1. /\ InPartition(p)' = InPartition(p) \union {c} /\ c \notin InPartition(p)
          /\ InPartition(p) \in SUBSET Call /\ busy'[p] = busy[p] + 1
      BY <1>6, <2>1 DEF Burst, BurstAdds, Goto, Load, InPartition
    <3>2. QED
      BY <1>0, <3>1, Enters
  <2>2. CASE p # part[c]
    <3>1. InPartition(p)' = InPartition(p) /\ busy'[p] = busy[p]
      BY <1>6, <2>2 DEF Burst, BurstAdds, Goto, Load, InPartition
    <3>2. QED
      BY <1>0, <3>1
  <2>3. QED
    BY <2>1, <2>2
<1>7. ASSUME NEW c \in Call, LoadBusy(c)
      PROVE  busy'[p] = busy[p] /\ InPartition(p)' = InPartition(p)
  BY <1>7 DEF LoadBusy, Return, Goto, Load, cap, counters, InPartition
<1>8. ASSUME NEW c \in Call, GateRefuses(c)
      PROVE  busy'[p] = busy[p] /\ InPartition(p)' = InPartition(p)
  BY <1>8 DEF GateRefuses, Return, Goto, Load, cap, counters, InPartition
<1>9. ASSUME NEW c \in Call, GatePasses(c)
      PROVE  busy'[p] = busy[p] /\ InPartition(p)' = InPartition(p)
  BY <1>9 DEF GatePasses, Return, Goto, Load, cap, counters, InPartition
<1>10. ASSUME NEW c \in Call, SwapBusy(c)
      PROVE  busy'[p] = Cardinality(InPartition(p)')
  <2>1. CASE p = part[c]
    <3>1. /\ InPartition(p)' = InPartition(p) \union {c} /\ c \notin InPartition(p)
          /\ InPartition(p) \in SUBSET Call /\ busy'[p] = busy[p] + 1
      BY <1>10, <2>1 DEF SwapBusy, Goto, Load, InPartition
    <3>2. QED
      BY <1>0, <3>1, Enters
  <2>2. CASE p # part[c]
    <3>1. InPartition(p)' = InPartition(p) /\ busy'[p] = busy[p]
      BY <1>10, <2>2 DEF SwapBusy, Goto, Load, InPartition
    <3>2. QED
      BY <1>0, <3>1
  <2>3. QED
    BY <2>1, <2>2
<1>11. ASSUME NEW c \in Call, SwapBusyFails(c)
      PROVE  busy'[p] = busy[p] /\ InPartition(p)' = InPartition(p)
  BY <1>11 DEF SwapBusyFails, Return, Goto, Load, cap, counters, InPartition
<1>12. ASSUME NEW c \in Call, CountInflight(c)
      PROVE  busy'[p] = busy[p] /\ InPartition(p)' = InPartition(p)
  BY <1>12 DEF CountInflight, Return, Goto, Load, cap, counters, InPartition
<1>13. ASSUME NEW c \in Call, LoadDelayed(c)
      PROVE  busy'[p] = busy[p] /\ InPartition(p)' = InPartition(p)
  BY <1>13 DEF LoadDelayed, Return, Goto, Load, cap, counters, InPartition
<1>14. ASSUME NEW c \in Call, BudgetExhausted(c)
      PROVE  busy'[p] = busy[p] /\ InPartition(p)' = InPartition(p)
  BY <1>14 DEF BudgetExhausted, Return, Goto, Load, cap, counters,
     InPartition
<1>15. ASSUME NEW c \in Call, ReserveDelay(c)
      PROVE  busy'[p] = busy[p] /\ InPartition(p)' = InPartition(p)
  BY <1>15 DEF ReserveDelay, Return, Goto, Load, cap, counters, InPartition
<1>16. ASSUME NEW c \in Call, ReserveDelayFails(c)
      PROVE  busy'[p] = busy[p] /\ InPartition(p)' = InPartition(p)
  BY <1>16 DEF ReserveDelayFails, Return, Goto, Load, cap, counters,
     InPartition
<1>17. ASSUME NEW c \in Call, WakeUp(c)
      PROVE  busy'[p] = busy[p] /\ InPartition(p)' = InPartition(p)
  BY <1>17 DEF WakeUp, Return, Goto, Load, cap, counters, InPartition
<1>18. ASSUME NEW c \in Call, ReleaseInflight(c)
      PROVE  busy'[p] = busy[p] /\ InPartition(p)' = InPartition(p)
  BY <1>18 DEF ReleaseInflight, Return, Goto, Load, cap, counters,
     InPartition
<1>19. ASSUME NEW c \in Call, ReleasePartition(c)
      PROVE  busy'[p] = Cardinality(InPartition(p)')
  <2>1. CASE p = part[c]
    <3>1. /\ InPartition(p)' = InPartition(p) \ {c} /\ c \in InPartition(p)
          /\ InPartition(p) \in SUBSET Call /\ busy'[p] = busy[p] - 1
      BY <1>19, <2>1 DEF ReleasePartition, ReleasedPartition, Return, Goto, Load,
         InPartition
    <3>2. QED
      BY <1>0, <3>1, Leaves
  <2>2. CASE p # part[c]
    <3>1. InPartition(p)' = InPartition(p) /\ busy'[p] = busy[p]
      BY <1>19, <2>2 DEF ReleasePartition, ReleasedPartition, Return, Goto, Load,
         InPartition
    <3>2. QED
      BY <1>0, <3>1
  <2>3. QED
    BY <2>1, <2>2
<1>20. ASSUME NEW c \in Call, OnSample(c)
      PROVE  busy'[p] = busy[p] /\ InPartition(p)' = InPartition(p)
  BY <1>20 DEF OnSample, ChangeCap, Return, Goto, Load, cap, counters,
     InPartition
<1>21. ASSUME NEW c \in Call, NEW n \in SettableTo, SetLimit(c, n)
      PROVE  busy'[p] = busy[p] /\ InPartition(p)' = InPartition(p)
  BY <1>21 DEF SetLimit, ChangeCap, Return, Goto, Load, cap, counters,
     InPartition
<1>22. ASSUME NEW c \in Call, Listener(c)
      PROVE  busy'[p] = busy[p] /\ InPartition(p)' = InPartition(p)
  BY <1>22 DEF Listener, Return, Goto, Load, cap, counters, InPartition
<1>23. CASE UNCHANGED vars
  <2>1. busy'[p] = busy[p] /\ InPartition(p)' = InPartition(p)
    BY <1>23 DEF vars, Return, Goto, Load, cap, counters, InPartition
  <2>2. QED
    BY <1>0, <2>1
<1>24. QED
  BY <1>0, <1>1, <1>2, <1>3, <1>4, <1>5, <1>6, <1>7, <1>8, <1>9, <1>10,
     <1>11, <1>12, <1>13, <1>14, <1>15, <1>16, <1>17, <1>18, <1>19, <1>20,
     <1>21, <1>22, <1>23 DEF Next, Step, DoAcquire, MaybeBackoffDelay,
     OnSlotComplete

\* inflight_ counts the slots that are held.
LEMMA InflightStep == IndInv /\ [Next]_vars => inflight' = Cardinality(InGlobal')
<1> SUFFICES ASSUME IndInv, [Next]_vars
             PROVE  inflight' = Cardinality(InGlobal')
  OBVIOUS
<1> USE DEF IndInv, TypeOK
<1>0. inflight = Cardinality(InGlobal)
  BY DEF SlotsAddUp
<1>1. ASSUME BuildQuota PROVE inflight' = inflight /\ InGlobal' = InGlobal
  BY <1>1 DEF BuildQuota, Return, Goto, Load, cap, counters, InGlobal
<1>2. ASSUME RegisterListener PROVE inflight' = inflight /\ InGlobal' = InGlobal
  BY <1>2 DEF RegisterListener, Return, Goto, Load, cap, counters, InGlobal
<1>3. ASSUME NEW c \in Call, NEW x \in Context, Begin(c, x)
      PROVE  inflight' = inflight /\ InGlobal' = InGlobal
  BY <1>3 DEF Begin, Return, Goto, Load, cap, counters, InGlobal
<1>4. ASSUME NEW c \in Call, LoadGlobal(c)
      PROVE  inflight' = inflight /\ InGlobal' = InGlobal
  BY <1>4 DEF LoadGlobal, Return, Goto, Load, cap, counters, InGlobal
<1>5. ASSUME NEW c \in Call, TestGlobal(c)
      PROVE  inflight' = inflight /\ InGlobal' = InGlobal
  BY <1>5 DEF TestGlobal, Return, Goto, Load, cap, counters, InGlobal
<1>6. ASSUME NEW c \in Call, Burst(c)
      PROVE  inflight' = inflight /\ InGlobal' = InGlobal
  BY <1>6 DEF Burst, BurstAdds, Return, Goto, Load, cap, counters, InGlobal
<1>7. ASSUME NEW c \in Call, LoadBusy(c)
      PROVE  inflight' = inflight /\ InGlobal' = InGlobal
  BY <1>7 DEF LoadBusy, Return, Goto, Load, cap, counters, InGlobal
<1>8. ASSUME NEW c \in Call, GateRefuses(c)
      PROVE  inflight' = inflight /\ InGlobal' = InGlobal
  BY <1>8 DEF GateRefuses, Return, Goto, Load, cap, counters, InGlobal
<1>9. ASSUME NEW c \in Call, GatePasses(c)
      PROVE  inflight' = inflight /\ InGlobal' = InGlobal
  BY <1>9 DEF GatePasses, Return, Goto, Load, cap, counters, InGlobal
<1>10. ASSUME NEW c \in Call, SwapBusy(c)
      PROVE  inflight' = inflight /\ InGlobal' = InGlobal
  BY <1>10 DEF SwapBusy, Return, Goto, Load, cap, counters, InGlobal
<1>11. ASSUME NEW c \in Call, SwapBusyFails(c)
      PROVE  inflight' = inflight /\ InGlobal' = InGlobal
  BY <1>11 DEF SwapBusyFails, Return, Goto, Load, cap, counters, InGlobal
<1>12. ASSUME NEW c \in Call, CountInflight(c)
      PROVE  inflight' = Cardinality(InGlobal')
  <2>1. /\ InGlobal' = InGlobal \union {c} /\ c \notin InGlobal
        /\ InGlobal \in SUBSET Call /\ inflight' = inflight + 1
    BY <1>12 DEF CountInflight, Goto, InGlobal
  <2>2. QED
    BY <1>0, <2>1, Enters
<1>13. ASSUME NEW c \in Call, LoadDelayed(c)
      PROVE  inflight' = inflight /\ InGlobal' = InGlobal
  BY <1>13 DEF LoadDelayed, Return, Goto, Load, cap, counters, InGlobal
<1>14. ASSUME NEW c \in Call, BudgetExhausted(c)
      PROVE  inflight' = inflight /\ InGlobal' = InGlobal
  BY <1>14 DEF BudgetExhausted, Return, Goto, Load, cap, counters, InGlobal
<1>15. ASSUME NEW c \in Call, ReserveDelay(c)
      PROVE  inflight' = inflight /\ InGlobal' = InGlobal
  BY <1>15 DEF ReserveDelay, Return, Goto, Load, cap, counters, InGlobal
<1>16. ASSUME NEW c \in Call, ReserveDelayFails(c)
      PROVE  inflight' = inflight /\ InGlobal' = InGlobal
  BY <1>16 DEF ReserveDelayFails, Return, Goto, Load, cap, counters, InGlobal
<1>17. ASSUME NEW c \in Call, WakeUp(c)
      PROVE  inflight' = inflight /\ InGlobal' = InGlobal
  BY <1>17 DEF WakeUp, Return, Goto, Load, cap, counters, InGlobal
<1>18. ASSUME NEW c \in Call, ReleaseInflight(c)
      PROVE  inflight' = Cardinality(InGlobal')
  <2>1. /\ InGlobal' = InGlobal \ {c} /\ c \in InGlobal
        /\ InGlobal \in SUBSET Call /\ inflight' = inflight - 1
    BY <1>18 DEF ReleaseInflight, Goto, InGlobal
  <2>2. QED
    BY <1>0, <2>1, Leaves
<1>19. ASSUME NEW c \in Call, ReleasePartition(c)
      PROVE  inflight' = inflight /\ InGlobal' = InGlobal
  BY <1>19 DEF ReleasePartition, ReleasedPartition, Return, Goto, Load, cap,
     counters, InGlobal
<1>20. ASSUME NEW c \in Call, OnSample(c)
      PROVE  inflight' = inflight /\ InGlobal' = InGlobal
  BY <1>20 DEF OnSample, ChangeCap, Return, Goto, Load, cap, counters,
     InGlobal
<1>21. ASSUME NEW c \in Call, NEW n \in SettableTo, SetLimit(c, n)
      PROVE  inflight' = inflight /\ InGlobal' = InGlobal
  BY <1>21 DEF SetLimit, ChangeCap, Return, Goto, Load, cap, counters,
     InGlobal
<1>22. ASSUME NEW c \in Call, Listener(c)
      PROVE  inflight' = inflight /\ InGlobal' = InGlobal
  BY <1>22 DEF Listener, Return, Goto, Load, cap, counters, InGlobal
<1>23. CASE UNCHANGED vars
  <2>1. inflight' = inflight /\ InGlobal' = InGlobal
    BY <1>23 DEF vars, Return, Goto, Load, cap, counters, InGlobal
  <2>2. QED
    BY <1>0, <2>1
<1>24. QED
  BY <1>0, <1>1, <1>2, <1>3, <1>4, <1>5, <1>6, <1>7, <1>8, <1>9, <1>10,
     <1>11, <1>12, <1>13, <1>14, <1>15, <1>16, <1>17, <1>18, <1>19, <1>20,
     <1>21, <1>22, <1>23 DEF Next, Step, DoAcquire, MaybeBackoffDelay,
     OnSlotComplete

\* A place in the delay budget is taken only by a compare-exchange from a
\* count below the budget, and is given back by the thread that took it.
LEMMA DelayStep == IndInv /\ [Next]_vars => DelayBudget'
<1> SUFFICES ASSUME IndInv, [Next]_vars
             PROVE  delayed' = Cardinality(Sleepers') /\ delayed' <= MaxDelayedThreads
  BY DEF DelayBudget, Sleepers
<1> USE DEF IndInv, TypeOK
<1>0. delayed = Cardinality(Sleepers) /\ delayed <= MaxDelayedThreads
  BY DEF DelayBudget, Sleepers
<1>1. ASSUME BuildQuota PROVE delayed' = delayed /\ Sleepers' = Sleepers
  BY <1>1 DEF BuildQuota, Return, Goto, Load, cap, counters, Sleepers
<1>2. ASSUME RegisterListener PROVE delayed' = delayed /\ Sleepers' = Sleepers
  BY <1>2 DEF RegisterListener, Return, Goto, Load, cap, counters, Sleepers
<1>3. ASSUME NEW c \in Call, NEW x \in Context, Begin(c, x)
      PROVE  delayed' = delayed /\ Sleepers' = Sleepers
  BY <1>3 DEF Begin, Return, Goto, Load, cap, counters, Sleepers
<1>4. ASSUME NEW c \in Call, LoadGlobal(c)
      PROVE  delayed' = delayed /\ Sleepers' = Sleepers
  BY <1>4 DEF LoadGlobal, Return, Goto, Load, cap, counters, Sleepers
<1>5. ASSUME NEW c \in Call, TestGlobal(c)
      PROVE  delayed' = delayed /\ Sleepers' = Sleepers
  BY <1>5 DEF TestGlobal, Return, Goto, Load, cap, counters, Sleepers
<1>6. ASSUME NEW c \in Call, Burst(c)
      PROVE  delayed' = delayed /\ Sleepers' = Sleepers
  BY <1>6 DEF Burst, BurstAdds, Return, Goto, Load, cap, counters, Sleepers
<1>7. ASSUME NEW c \in Call, LoadBusy(c)
      PROVE  delayed' = delayed /\ Sleepers' = Sleepers
  BY <1>7 DEF LoadBusy, Return, Goto, Load, cap, counters, Sleepers
<1>8. ASSUME NEW c \in Call, GateRefuses(c)
      PROVE  delayed' = delayed /\ Sleepers' = Sleepers
  BY <1>8 DEF GateRefuses, Return, Goto, Load, cap, counters, Sleepers
<1>9. ASSUME NEW c \in Call, GatePasses(c)
      PROVE  delayed' = delayed /\ Sleepers' = Sleepers
  BY <1>9 DEF GatePasses, Return, Goto, Load, cap, counters, Sleepers
<1>10. ASSUME NEW c \in Call, SwapBusy(c)
      PROVE  delayed' = delayed /\ Sleepers' = Sleepers
  BY <1>10 DEF SwapBusy, Return, Goto, Load, cap, counters, Sleepers
<1>11. ASSUME NEW c \in Call, SwapBusyFails(c)
      PROVE  delayed' = delayed /\ Sleepers' = Sleepers
  BY <1>11 DEF SwapBusyFails, Return, Goto, Load, cap, counters, Sleepers
<1>12. ASSUME NEW c \in Call, CountInflight(c)
      PROVE  delayed' = delayed /\ Sleepers' = Sleepers
  BY <1>12 DEF CountInflight, Return, Goto, Load, cap, counters, Sleepers
<1>13. ASSUME NEW c \in Call, LoadDelayed(c)
      PROVE  delayed' = delayed /\ Sleepers' = Sleepers
  BY <1>13 DEF LoadDelayed, Return, Goto, Load, cap, counters, Sleepers
<1>14. ASSUME NEW c \in Call, BudgetExhausted(c)
      PROVE  delayed' = delayed /\ Sleepers' = Sleepers
  BY <1>14 DEF BudgetExhausted, Return, Goto, Load, cap, counters, Sleepers
<1>15. ASSUME NEW c \in Call, ReserveDelay(c)
      PROVE  delayed' = Cardinality(Sleepers') /\ delayed' <= MaxDelayedThreads
  <2>1. /\ Sleepers' = Sleepers \union {c} /\ c \notin Sleepers
        /\ Sleepers \in SUBSET Call /\ delayed' = delayed + 1
        /\ delayed < MaxDelayedThreads
    BY <1>15 DEF ReserveDelay, DelayedMatches, Goto, Sleepers
  <2>2. MaxDelayedThreads \in Nat
    BY PartitionAssumption DEF ValidConfiguration
  <2>3. QED
    BY <1>0, <2>1, <2>2, Enters
<1>16. ASSUME NEW c \in Call, ReserveDelayFails(c)
      PROVE  delayed' = delayed /\ Sleepers' = Sleepers
  BY <1>16 DEF ReserveDelayFails, Return, Goto, Load, cap, counters, Sleepers
<1>17. ASSUME NEW c \in Call, WakeUp(c)
      PROVE  delayed' = Cardinality(Sleepers') /\ delayed' <= MaxDelayedThreads
  <2>1. /\ Sleepers' = Sleepers \ {c} /\ c \in Sleepers
        /\ Sleepers \in SUBSET Call /\ delayed' = delayed - 1
    BY <1>17 DEF WakeUp, Return, Goto, Sleepers
  <2>2. MaxDelayedThreads \in Nat
    BY PartitionAssumption DEF ValidConfiguration
  <2>3. QED
    BY <1>0, <2>1, <2>2, Leaves
<1>18. ASSUME NEW c \in Call, ReleaseInflight(c)
      PROVE  delayed' = delayed /\ Sleepers' = Sleepers
  BY <1>18 DEF ReleaseInflight, Return, Goto, Load, cap, counters, Sleepers
<1>19. ASSUME NEW c \in Call, ReleasePartition(c)
      PROVE  delayed' = delayed /\ Sleepers' = Sleepers
  BY <1>19 DEF ReleasePartition, ReleasedPartition, Return, Goto, Load, cap,
     counters, Sleepers
<1>20. ASSUME NEW c \in Call, OnSample(c)
      PROVE  delayed' = delayed /\ Sleepers' = Sleepers
  BY <1>20 DEF OnSample, ChangeCap, Return, Goto, Load, cap, counters,
     Sleepers
<1>21. ASSUME NEW c \in Call, NEW n \in SettableTo, SetLimit(c, n)
      PROVE  delayed' = delayed /\ Sleepers' = Sleepers
  BY <1>21 DEF SetLimit, ChangeCap, Return, Goto, Load, cap, counters,
     Sleepers
<1>22. ASSUME NEW c \in Call, Listener(c)
      PROVE  delayed' = delayed /\ Sleepers' = Sleepers
  BY <1>22 DEF Listener, Return, Goto, Load, cap, counters, Sleepers
<1>23. CASE UNCHANGED vars
  <2>1. delayed' = delayed /\ Sleepers' = Sleepers
    BY <1>23 DEF vars, Return, Goto, Load, cap, counters, Sleepers
  <2>2. QED
    BY <1>0, <2>1
<1>24. QED
  BY <1>0, <1>1, <1>2, <1>3, <1>4, <1>5, <1>6, <1>7, <1>8, <1>9, <1>10,
     <1>11, <1>12, <1>13, <1>14, <1>15, <1>16, <1>17, <1>18, <1>19, <1>20,
     <1>21, <1>22, <1>23 DEF Next, Step, DoAcquire, MaybeBackoffDelay,
     OnSlotComplete

\* A caller of SetLimitLocked found mu_ free: nobody runs the listener, and it
\* runs it next, from the first partition on, if the cap really changes.
LEMMA ChangeCapListener ==
  ASSUME IndInv, NEW c \in Call, pc[c] # "listener", NEW n \in Nat, ChangeCap(c, n)
  PROVE  ListenerHoldsLock'
<1>1. mu = None /\ \A d \in Call : d # mu /\ pc[d] # "listener"
  BY PartitionAssumption
     DEF ChangeCap, LimitUnlocked, None, IndInv, ListenerHoldsLock
<1>2. CASE n = limit \/ building # Built
  <2>1. mu' = mu /\ Return(c)
    BY <1>2 DEF ChangeCap
  <2>2. \A d \in Call : pc'[d] # "listener"
    BY <1>1, <2>1 DEF Return, Goto, IndInv, TypeOK
  <2>3. QED
    BY <1>1, <2>1, <2>2 DEF ListenerHoldsLock
<1>3. CASE ~(n = limit \/ building # Built)
  <2>1. /\ mu' = c /\ pc' = [pc EXCEPT ![c] = "listener"]
        /\ part' = [part EXCEPT ![c] = 1] /\ reg' = [reg EXCEPT ![c] = n]
        /\ limit' = n /\ building' = Built
    BY <1>3 DEF ChangeCap, Goto, Load
  <2>2. \A d \in Call : pc'[d] = "listener" <=> d = c
    BY <1>1, <2>1 DEF IndInv, TypeOK
  <2>3. reg'[c] = limit' /\ part'[c] = 1
    BY <2>1 DEF IndInv, TypeOK
  <2>4. \A p \in Partition : ~(p < 1)
    BY PartitionIsInterval DEF Partition
  <2>5. QED
    BY <2>1, <2>2, <2>3, <2>4 DEF ListenerHoldsLock
<1>4. QED
  BY <1>2, <1>3

\* Only the call that found mu_ free runs the listener, and it writes the
\* quotas in order, for a cap that nobody changes meanwhile.
LEMMA ListenerStep == IndInv /\ [Next]_vars => ListenerHoldsLock'
<1> SUFFICES ASSUME IndInv, [Next]_vars PROVE ListenerHoldsLock'
  OBVIOUS
<1> USE DEF IndInv, TypeOK, ListenerHoldsLock
<1>1. ASSUME BuildQuota PROVE ListenerHoldsLock'
  <2>1. building # Built
    BY <1>1, PartitionIsInterval DEF BuildQuota, Partition, Built
  <2>2. \A d \in Call : mu # d /\ pc[d] # "listener"
    BY <2>1
  <2>3. QED
    BY <1>1, <2>2 DEF BuildQuota
<1>2. ASSUME RegisterListener PROVE ListenerHoldsLock'
  BY <1>2 DEF RegisterListener, Return, Goto, Load, cap, counters
<1>3. ASSUME NEW c \in Call, NEW x \in Context, Begin(c, x)
      PROVE  ListenerHoldsLock'
  BY <1>3 DEF Begin, Return, Goto, Load, cap, counters
<1>4. ASSUME NEW c \in Call, LoadGlobal(c)
      PROVE  ListenerHoldsLock'
  BY <1>4 DEF LoadGlobal, Return, Goto, Load, cap, counters
<1>5. ASSUME NEW c \in Call, TestGlobal(c)
      PROVE  ListenerHoldsLock'
  BY <1>5 DEF TestGlobal, Return, Goto, Load, cap, counters
<1>6. ASSUME NEW c \in Call, Burst(c)
      PROVE  ListenerHoldsLock'
  BY <1>6 DEF Burst, BurstAdds, Return, Goto, Load, cap, counters
<1>7. ASSUME NEW c \in Call, LoadBusy(c)
      PROVE  ListenerHoldsLock'
  BY <1>7 DEF LoadBusy, Return, Goto, Load, cap, counters
<1>8. ASSUME NEW c \in Call, GateRefuses(c)
      PROVE  ListenerHoldsLock'
  BY <1>8 DEF GateRefuses, Return, Goto, Load, cap, counters
<1>9. ASSUME NEW c \in Call, GatePasses(c)
      PROVE  ListenerHoldsLock'
  BY <1>9 DEF GatePasses, Return, Goto, Load, cap, counters
<1>10. ASSUME NEW c \in Call, SwapBusy(c)
      PROVE  ListenerHoldsLock'
  BY <1>10 DEF SwapBusy, Return, Goto, Load, cap, counters
<1>11. ASSUME NEW c \in Call, SwapBusyFails(c)
      PROVE  ListenerHoldsLock'
  BY <1>11 DEF SwapBusyFails, Return, Goto, Load, cap, counters
<1>12. ASSUME NEW c \in Call, CountInflight(c)
      PROVE  ListenerHoldsLock'
  BY <1>12 DEF CountInflight, Return, Goto, Load, cap, counters
<1>13. ASSUME NEW c \in Call, LoadDelayed(c)
      PROVE  ListenerHoldsLock'
  BY <1>13 DEF LoadDelayed, Return, Goto, Load, cap, counters
<1>14. ASSUME NEW c \in Call, BudgetExhausted(c)
      PROVE  ListenerHoldsLock'
  BY <1>14 DEF BudgetExhausted, Return, Goto, Load, cap, counters
<1>15. ASSUME NEW c \in Call, ReserveDelay(c)
      PROVE  ListenerHoldsLock'
  BY <1>15 DEF ReserveDelay, Return, Goto, Load, cap, counters
<1>16. ASSUME NEW c \in Call, ReserveDelayFails(c)
      PROVE  ListenerHoldsLock'
  BY <1>16 DEF ReserveDelayFails, Return, Goto, Load, cap, counters
<1>17. ASSUME NEW c \in Call, WakeUp(c)
      PROVE  ListenerHoldsLock'
  BY <1>17 DEF WakeUp, Return, Goto, Load, cap, counters
<1>18. ASSUME NEW c \in Call, ReleaseInflight(c)
      PROVE  ListenerHoldsLock'
  BY <1>18 DEF ReleaseInflight, Return, Goto, Load, cap, counters
<1>19. ASSUME NEW c \in Call, ReleasePartition(c)
      PROVE  ListenerHoldsLock'
  BY <1>19 DEF ReleasePartition, ReleasedPartition, Return, Goto, Load, cap,
     counters
<1>20. ASSUME NEW c \in Call, OnSample(c)
      PROVE  ListenerHoldsLock'
  <2>1. PICK n \in AdaptsTo \union {limit} : ChangeCap(c, n)
    BY <1>20 DEF OnSample
  <2>2. n \in Nat /\ pc[c] # "listener"
    BY <1>20, <2>1, PartitionAssumption DEF OnSample
  <2>3. QED
    BY <2>1, <2>2, ChangeCapListener
<1>21. ASSUME NEW c \in Call, NEW n \in SettableTo, SetLimit(c, n)
      PROVE  ListenerHoldsLock'
  <2>1. n \in Nat /\ pc[c] # "listener" /\ ChangeCap(c, n)
    BY <1>21, PartitionAssumption DEF SetLimit
  <2>2. QED
    BY <2>1, ChangeCapListener
<1>22. ASSUME NEW c \in Call, Listener(c)
      PROVE  ListenerHoldsLock'
  <2>1. /\ pc[c] = "listener" /\ mu = c /\ reg[c] = limit /\ building = Built
        /\ \A d \in Call : pc[d] = "listener" => d = c
        /\ limit' = limit /\ building' = building
    BY <1>22 DEF Listener
  <2>2. CASE part[c] < unknown_partition_index
    <3>1. /\ mu' = mu /\ pc' = pc /\ reg' = reg
          /\ part'[c] = part[c] + 1
          /\ quota' = [quota EXCEPT ![part[c]] = ComputePartitionLimit(limit, part[c])]
      BY <1>22, <2>1, <2>2 DEF Listener
    <3>2. \A p \in Partition :
            p < part'[c] => quota'[p] = ComputePartitionLimit(limit, p)
      <4> SUFFICES ASSUME NEW p \in Partition, p < part[c] + 1
                   PROVE  quota'[p] = ComputePartitionLimit(limit, p)
        BY <3>1
      <4>1. p \in Nat /\ part[c] \in Nat /\ part[c] \in Partition
        BY PartitionIsInterval
      <4>2. CASE p = part[c]
        BY <3>1, <4>2
      <4>3. CASE p < part[c]
        BY <2>1, <3>1, <4>1, <4>3
      <4>4. QED
        BY <4>1, <4>2, <4>3
    <3>3. QED
      BY <2>1, <3>1, <3>2
  <2>3. CASE ~(part[c] < unknown_partition_index)
    <3>1. mu' = None /\ pc' = [pc EXCEPT ![c] = "idle"]
      BY <1>22, <2>3 DEF Listener, Return, Goto
    <3>2. QED
      BY <2>1, <3>1, PartitionAssumption DEF None
  <2>4. QED
    BY <2>2, <2>3
<1>23. CASE UNCHANGED vars
  BY <1>23 DEF vars, Return, Goto, Load, cap, counters
<1>24. QED
  BY <1>1, <1>2, <1>3, <1>4, <1>5, <1>6, <1>7, <1>8, <1>9, <1>10, <1>11,
     <1>12, <1>13, <1>14, <1>15, <1>16, <1>17, <1>18, <1>19, <1>20, <1>21,
     <1>22, <1>23 DEF Next, Step, DoAcquire, MaybeBackoffDelay,
     OnSlotComplete

\* Until the listener is registered only the constructor and SetLimit step.
LEMMA BeforeBuilt ==
  ASSUME IndInv, Step, building # Built
  PROVE  \/ BuildQuota \/ RegisterListener
         \/ \E c \in Call, n \in SettableTo : SetLimit(c, n)
BY DEF IndInv, Construction, Step, DoAcquire, Begin, LoadGlobal, TestGlobal,
   Burst, LoadBusy, GateRefuses, GatePasses, SwapBusy, SwapBusyFails,
   CountInflight, MaybeBackoffDelay, LoadDelayed, BudgetExhausted,
   ReserveDelay, ReserveDelayFails, WakeUp, OnSlotComplete, ReleaseInflight,
   ReleasePartition, OnSample, Listener

\* Once built, the limiter stays built.
LEMMA StaysBuilt ==
  ASSUME IndInv, Step, building = Built
  PROVE  building' = Built
<1>1. building \notin Partition /\ building # Registering
  BY PartitionIsInterval DEF Partition, Registering, Built
<1>2. QED
  BY <1>1 DEF Step, BuildQuota, RegisterListener, DoAcquire, Begin, LoadGlobal,
     TestGlobal, Burst, LoadBusy, GateRefuses, GatePasses, SwapBusy,
     SwapBusyFails, CountInflight, MaybeBackoffDelay, LoadDelayed,
     BudgetExhausted, ReserveDelay, ReserveDelayFails, WakeUp, OnSlotComplete,
     ReleaseInflight, ReleasePartition, OnSample, SetLimit, ChangeCap, Listener

\* Before the listener is registered nothing but the constructor runs, except
\* SetLimit calls that no listener hears.
LEMMA ConstructionStep == IndInv /\ [Next]_vars => Construction'
<1>1. IndInv /\ UNCHANGED vars => Construction'
  BY DEF IndInv, Construction, vars, cap, counters
<1>2. ASSUME IndInv, Next PROVE Construction'
  <2>1. Step /\ changed' = IF limit' = limit THEN changed
                           ELSE IF building = Built THEN "heard" ELSE "unheard"
    BY <1>2 DEF Next, Watch
  <2>2. changed' = "no" => limit' = InitialLimit
    BY <1>2, <2>1 DEF IndInv, Construction
  <2>3. CASE building = Built
    BY <1>2, <2>1, <2>2, <2>3, StaysBuilt DEF Construction
  <2>4. CASE building # Built
    <3>1. changed' # "heard"
      BY <1>2, <2>1, <2>4 DEF IndInv, Construction
    <3>2. CASE BuildQuota
      BY <1>2, <2>2, <2>4, <3>1, <3>2, PartitionIsInterval
         DEF BuildQuota, IndInv, TypeOK, Construction
    <3>3. CASE RegisterListener
      BY <2>2, <3>3 DEF RegisterListener, Construction
    <3>4. CASE \E c \in Call, n \in SettableTo : SetLimit(c, n)
      BY <1>2, <2>2, <2>4, <3>1, <3>4
         DEF SetLimit, ChangeCap, Return, Goto, IndInv, TypeOK, Construction
    <3>5. QED
      BY <1>2, <2>1, <2>4, <3>2, <3>3, <3>4, BeforeBuilt
  <2>5. QED
    BY <2>3, <2>4
<1>3. QED
  BY <1>1, <1>2

\* Outside mu_ the quotas are those of the cap in force: a change of the cap
\* leaves mu_ held until the listener has stored the last of them.
LEMMA QuotasStep == IndInv /\ [Next]_vars => QuotasFollowCap'
<1> SUFFICES ASSUME IndInv, [Next]_vars, building' = Built, mu' = None,
                    changed' # "unheard"
             PROVE  \A p \in Partition : quota'[p] = ComputePartitionLimit(limit', p)
  BY DEF QuotasFollowCap
<1>1. CASE UNCHANGED vars
  BY <1>1 DEF vars, cap, counters, IndInv, QuotasFollowCap
<1>2. CASE Next
  <2>1. Step /\ (limit' = limit => changed' = changed)
    BY <1>2 DEF Next, Watch
  <2>2. CASE building # Built
    <3>1. RegisterListener
      <4>1. ASSUME BuildQuota PROVE FALSE
        BY <4>1, PartitionIsInterval DEF BuildQuota, Partition, Built
      <4>2. ASSUME NEW c \in Call, NEW n \in SettableTo, SetLimit(c, n) PROVE FALSE
        BY <2>2, <4>2 DEF SetLimit, ChangeCap
      <4>3. QED
        BY <2>1, <2>2, <4>1, <4>2, BeforeBuilt
    <3>2. changed = "no" /\ limit' = InitialLimit /\ quota' = quota
      BY <2>1, <2>2, <3>1 DEF RegisterListener, cap, IndInv, TypeOK, Construction
    <3>3. \A p \in Partition : p < building
      BY <3>1, PartitionIsInterval DEF RegisterListener, Registering, Partition
    <3>4. QED
      BY <2>2, <3>2, <3>3 DEF IndInv, Construction
  <2>3. CASE building = Built
    <3> DEFINE Unmoved == limit' = limit /\ quota' = quota /\ mu = None
    <3>1. CASE Unmoved
      BY <2>1, <2>3, <3>1 DEF IndInv, QuotasFollowCap
    <3>2. ASSUME NEW c \in Call, NEW n, ChangeCap(c, n) PROVE Unmoved
      BY <2>3, <3>2, PartitionAssumption DEF ChangeCap, LimitUnlocked, None
    <3>3. ASSUME NEW c \in Call, Listener(c)
          PROVE  \A p \in Partition : quota'[p] = ComputePartitionLimit(limit', p)
      <4>1. /\ limit' = limit /\ reg[c] = limit /\ mu = c
            /\ part[c] \in Partition /\ quota \in [Partition -> Nat]
            /\ \A p \in Partition :
                 p < part[c] => quota[p] = ComputePartitionLimit(limit, p)
        BY <3>3 DEF Listener, IndInv, TypeOK, ListenerHoldsLock
      <4>2. /\ ~(part[c] < unknown_partition_index)
            /\ quota' = [quota EXCEPT ![part[c]] = ComputePartitionLimit(limit, part[c])]
        BY <3>3, <4>1, PartitionAssumption DEF Listener, None
      <4>3. part[c] = unknown_partition_index
        BY <4>1, <4>2, PartitionIsInterval DEF Partition
      <4>4. \A p \in Partition : p < part[c] \/ p = part[c]
        BY <4>3, PartitionIsInterval DEF Partition
      <4>5. QED
        BY <4>1, <4>2, <4>4
    <3>4. ASSUME \/ BuildQuota \/ RegisterListener
          PROVE  FALSE
      BY <2>3, <3>4, PartitionIsInterval
         DEF BuildQuota, RegisterListener, Partition, Registering, Built
    <3>5. ASSUME NEW c \in Call, DoAcquire(c) \/ MaybeBackoffDelay(c) PROVE Unmoved
      BY <3>5 DEF cap, DoAcquire, Begin, LoadGlobal, TestGlobal, Burst, LoadBusy,
         GateRefuses, GatePasses, SwapBusy, SwapBusyFails, CountInflight,
         MaybeBackoffDelay, LoadDelayed, BudgetExhausted, ReserveDelay,
         ReserveDelayFails, WakeUp
    <3>6. ASSUME NEW c \in Call, ReleaseInflight(c) \/ ReleasePartition(c)
          PROVE  Unmoved
      BY <3>6 DEF cap, ReleaseInflight, ReleasePartition
    <3>7. QED
      BY <2>1, <3>1, <3>2, <3>3, <3>4, <3>5, <3>6
         DEF Step, OnSlotComplete, OnSample, SetLimit
  <2>4. QED
    BY <2>2, <2>3
<1>3. QED
  BY <1>1, <1>2

\* A call that has seen room in its partition all along keeps seeing it.
LEMMA ShortStep == IndInv /\ Next => ShortRegisters'
<1> SUFFICES ASSUME IndInv, Step, Watch, NEW d \in short',
                    pc'[d] \in {"gate", "swap_busy"}
             PROVE  reg'[d] < quota'[part'[d]]
  BY DEF ShortRegisters, Next, Watch
<1> USE DEF IndInv, TypeOK
<1>0. /\ d \in Call /\ quota' = quota
      /\ busy'[part'[d]] < quota'[part'[d]]
      /\ pc[d] \in {"gate", "swap_busy"} => reg[d] < quota[part[d]]
  BY DEF Watch, ShortRegisters
<1>1. ASSUME BuildQuota PROVE reg'[d] < quota'[part'[d]]
  BY <1>0, <1>1 DEF BuildQuota, Return, Goto, Load, cap, counters
<1>2. ASSUME RegisterListener PROVE reg'[d] < quota'[part'[d]]
  BY <1>0, <1>2 DEF RegisterListener, Return, Goto, Load, cap, counters
<1>3. ASSUME NEW c \in Call, NEW x \in Context, Begin(c, x)
      PROVE  reg'[d] < quota'[part'[d]]
  BY <1>0, <1>3 DEF Begin, Return, Goto, Load, cap, counters
<1>4. ASSUME NEW c \in Call, LoadGlobal(c)
      PROVE  reg'[d] < quota'[part'[d]]
  BY <1>0, <1>4 DEF LoadGlobal, Return, Goto, Load, cap, counters
<1>5. ASSUME NEW c \in Call, TestGlobal(c)
      PROVE  reg'[d] < quota'[part'[d]]
  BY <1>0, <1>5 DEF TestGlobal, Return, Goto, Load, cap, counters
<1>6. ASSUME NEW c \in Call, Burst(c)
      PROVE  reg'[d] < quota'[part'[d]]
  BY <1>0, <1>6 DEF Burst, BurstAdds, Return, Goto, Load, cap, counters
<1>7. ASSUME NEW c \in Call, LoadBusy(c)
      PROVE  reg'[d] < quota'[part'[d]]
  BY <1>0, <1>7 DEF LoadBusy, Return, Goto, Load, cap, counters
<1>8. ASSUME NEW c \in Call, GateRefuses(c)
      PROVE  reg'[d] < quota'[part'[d]]
  BY <1>0, <1>8 DEF GateRefuses, Return, Goto, Load, cap, counters
<1>9. ASSUME NEW c \in Call, GatePasses(c)
      PROVE  reg'[d] < quota'[part'[d]]
  BY <1>0, <1>9 DEF GatePasses, Return, Goto, Load, cap, counters
<1>10. ASSUME NEW c \in Call, SwapBusy(c)
      PROVE  reg'[d] < quota'[part'[d]]
  BY <1>0, <1>10 DEF SwapBusy, Return, Goto, Load, cap, counters
<1>11. ASSUME NEW c \in Call, SwapBusyFails(c)
      PROVE  reg'[d] < quota'[part'[d]]
  BY <1>0, <1>11 DEF SwapBusyFails, Return, Goto, Load, cap, counters
<1>12. ASSUME NEW c \in Call, CountInflight(c)
      PROVE  reg'[d] < quota'[part'[d]]
  BY <1>0, <1>12 DEF CountInflight, Return, Goto, Load, cap, counters
<1>13. ASSUME NEW c \in Call, LoadDelayed(c)
      PROVE  reg'[d] < quota'[part'[d]]
  BY <1>0, <1>13 DEF LoadDelayed, Return, Goto, Load, cap, counters
<1>14. ASSUME NEW c \in Call, BudgetExhausted(c)
      PROVE  reg'[d] < quota'[part'[d]]
  BY <1>0, <1>14 DEF BudgetExhausted, Return, Goto, Load, cap, counters
<1>15. ASSUME NEW c \in Call, ReserveDelay(c)
      PROVE  reg'[d] < quota'[part'[d]]
  BY <1>0, <1>15 DEF ReserveDelay, Return, Goto, Load, cap, counters
<1>16. ASSUME NEW c \in Call, ReserveDelayFails(c)
      PROVE  reg'[d] < quota'[part'[d]]
  BY <1>0, <1>16 DEF ReserveDelayFails, Return, Goto, Load, cap, counters
<1>17. ASSUME NEW c \in Call, WakeUp(c)
      PROVE  reg'[d] < quota'[part'[d]]
  BY <1>0, <1>17 DEF WakeUp, Return, Goto, Load, cap, counters
<1>18. ASSUME NEW c \in Call, ReleaseInflight(c)
      PROVE  reg'[d] < quota'[part'[d]]
  BY <1>0, <1>18 DEF ReleaseInflight, Return, Goto, Load, cap, counters
<1>19. ASSUME NEW c \in Call, ReleasePartition(c)
      PROVE  reg'[d] < quota'[part'[d]]
  BY <1>0, <1>19 DEF ReleasePartition, ReleasedPartition, Return, Goto, Load,
     cap, counters
<1>20. ASSUME NEW c \in Call, OnSample(c)
      PROVE  reg'[d] < quota'[part'[d]]
  BY <1>0, <1>20 DEF OnSample, ChangeCap, Return, Goto, Load, cap, counters
<1>21. ASSUME NEW c \in Call, NEW n \in SettableTo, SetLimit(c, n)
      PROVE  reg'[d] < quota'[part'[d]]
  BY <1>0, <1>21 DEF SetLimit, ChangeCap, Return, Goto, Load, cap, counters
<1>22. ASSUME NEW c \in Call, Listener(c)
      PROVE  reg'[d] < quota'[part'[d]]
  BY <1>0, <1>22 DEF Listener, Return, Goto, Load, cap, counters
<1>23. QED
  BY <1>1, <1>2, <1>3, <1>4, <1>5, <1>6, <1>7, <1>8, <1>9, <1>10, <1>11,
     <1>12, <1>13, <1>14, <1>15, <1>16, <1>17, <1>18, <1>19, <1>20, <1>21,
     <1>22 DEF Next, Step, DoAcquire, MaybeBackoffDelay, OnSlotComplete

\* A call that has seen room below the cap all along is on its way to a burst.
OnTheWay(d) ==
  /\ pc[d] \in {"global", "against_limit", "against_inflight", "burst"}
  /\ pc[d] = "against_limit" => reg[d] < limit
  /\ pc[d] = "against_inflight" => reg[d] = limit

\* It stays on its way until it bursts.
LEMMA RoomyStep == IndInv /\ Next => RoomyRegisters'
<1> SUFFICES ASSUME IndInv, Step, Watch, NEW d \in roomy' PROVE OnTheWay(d)'
  BY DEF RoomyRegisters, OnTheWay, Next, Watch
<1> USE DEF IndInv, TypeOK, Deciding, OnTheWay
<1>0. /\ d \in Call /\ limit' = limit
      /\ pc'[d] \in Deciding /\ inflight' < limit'
      /\ \/ OnTheWay(d) /\ inflight < limit
         \/ pc[d] = "idle" /\ pc'[d] = "global"
  BY DEF Watch, RoomyRegisters
<1>1. ASSUME BuildQuota PROVE OnTheWay(d)'
  BY <1>0, <1>1 DEF BuildQuota, Return, Goto, Load, cap, counters
<1>2. ASSUME RegisterListener PROVE OnTheWay(d)'
  BY <1>0, <1>2 DEF RegisterListener, Return, Goto, Load, cap, counters
<1>3. ASSUME NEW c \in Call, NEW x \in Context, Begin(c, x)
      PROVE  OnTheWay(d)'
  BY <1>0, <1>3 DEF Begin, Return, Goto, Load, cap, counters
<1>4. ASSUME NEW c \in Call, LoadGlobal(c)
      PROVE  OnTheWay(d)'
  BY <1>0, <1>4 DEF LoadGlobal, Return, Goto, Load, cap, counters
<1>5. ASSUME NEW c \in Call, TestGlobal(c)
      PROVE  OnTheWay(d)'
  BY <1>0, <1>5 DEF TestGlobal, GlobalFull, Goto, Load, cap, counters
<1>6. ASSUME NEW c \in Call, Burst(c)
      PROVE  OnTheWay(d)'
  BY <1>0, <1>6 DEF Burst, BurstAdds, Return, Goto, Load, cap, counters
<1>7. ASSUME NEW c \in Call, LoadBusy(c)
      PROVE  OnTheWay(d)'
  BY <1>0, <1>7 DEF LoadBusy, Return, Goto, Load, cap, counters
<1>8. ASSUME NEW c \in Call, GateRefuses(c)
      PROVE  OnTheWay(d)'
  BY <1>0, <1>8 DEF GateRefuses, Return, Goto, Load, cap, counters
<1>9. ASSUME NEW c \in Call, GatePasses(c)
      PROVE  OnTheWay(d)'
  BY <1>0, <1>9 DEF GatePasses, Return, Goto, Load, cap, counters
<1>10. ASSUME NEW c \in Call, SwapBusy(c)
      PROVE  OnTheWay(d)'
  BY <1>0, <1>10 DEF SwapBusy, Return, Goto, Load, cap, counters
<1>11. ASSUME NEW c \in Call, SwapBusyFails(c)
      PROVE  OnTheWay(d)'
  BY <1>0, <1>11 DEF SwapBusyFails, Return, Goto, Load, cap, counters
<1>12. ASSUME NEW c \in Call, CountInflight(c)
      PROVE  OnTheWay(d)'
  BY <1>0, <1>12 DEF CountInflight, Return, Goto, Load, cap, counters
<1>13. ASSUME NEW c \in Call, LoadDelayed(c)
      PROVE  OnTheWay(d)'
  BY <1>0, <1>13 DEF LoadDelayed, Return, Goto, Load, cap, counters
<1>14. ASSUME NEW c \in Call, BudgetExhausted(c)
      PROVE  OnTheWay(d)'
  BY <1>0, <1>14 DEF BudgetExhausted, Return, Goto, Load, cap, counters
<1>15. ASSUME NEW c \in Call, ReserveDelay(c)
      PROVE  OnTheWay(d)'
  BY <1>0, <1>15 DEF ReserveDelay, Return, Goto, Load, cap, counters
<1>16. ASSUME NEW c \in Call, ReserveDelayFails(c)
      PROVE  OnTheWay(d)'
  BY <1>0, <1>16 DEF ReserveDelayFails, Return, Goto, Load, cap, counters
<1>17. ASSUME NEW c \in Call, WakeUp(c)
      PROVE  OnTheWay(d)'
  BY <1>0, <1>17 DEF WakeUp, Return, Goto, Load, cap, counters
<1>18. ASSUME NEW c \in Call, ReleaseInflight(c)
      PROVE  OnTheWay(d)'
  BY <1>0, <1>18 DEF ReleaseInflight, Return, Goto, Load, cap, counters
<1>19. ASSUME NEW c \in Call, ReleasePartition(c)
      PROVE  OnTheWay(d)'
  BY <1>0, <1>19 DEF ReleasePartition, ReleasedPartition, Return, Goto, Load,
     cap, counters
<1>20. ASSUME NEW c \in Call, OnSample(c)
      PROVE  OnTheWay(d)'
  BY <1>0, <1>20 DEF OnSample, ChangeCap, Return, Goto, Load, cap, counters
<1>21. ASSUME NEW c \in Call, NEW n \in SettableTo, SetLimit(c, n)
      PROVE  OnTheWay(d)'
  BY <1>0, <1>21 DEF SetLimit, ChangeCap, Return, Goto, Load, cap, counters
<1>22. ASSUME NEW c \in Call, Listener(c)
      PROVE  OnTheWay(d)'
  BY <1>0, <1>22 DEF Listener, Return, Goto, Load, cap, counters
<1>23. QED
  BY <1>1, <1>2, <1>3, <1>4, <1>5, <1>6, <1>7, <1>8, <1>9, <1>10, <1>11,
     <1>12, <1>13, <1>14, <1>15, <1>16, <1>17, <1>18, <1>19, <1>20, <1>21,
     <1>22 DEF Next, Step, DoAcquire, MaybeBackoffDelay, OnSlotComplete

----------------------------------------------------------------------------
(* The theorems.                                                           *)

\* The constructor's first state.
LEMMA InitInv == Init => IndInv
<1> SUFFICES ASSUME Init PROVE IndInv
  OBVIOUS
<1> USE PartitionAssumption, PartitionIsInterval DEF Init
<1>1. TypeOK
  BY DEF TypeOK, Label, Deciding, None, Built
<1>2. /\ \A p \in Partition : InPartition(p) = {}
      /\ InGlobal = {} /\ {c \in Call : pc[c] = "sleep"} = {}
  BY DEF InPartition, InGlobal
<1>3. SlotsAddUp
  BY <1>2, FS_EmptySet DEF SlotsAddUp
<1>4. DelayBudget
  <2>1. MaxDelayedThreads \in Nat
    BY DEF ValidConfiguration
  <2>2. QED
    BY <1>2, <2>1, FS_EmptySet DEF DelayBudget
<1>5. building # Built /\ \A p \in Partition : ~(p < building)
  BY DEF Built, Partition
<1>6. ListenerHoldsLock /\ Construction /\ QuotasFollowCap
  BY <1>5 DEF ListenerHoldsLock, Construction, QuotasFollowCap, None
<1>7. ShortRegisters /\ RoomyRegisters
  BY DEF ShortRegisters, RoomyRegisters
<1>8. QED
  BY <1>1, <1>3, <1>4, <1>6, <1>7 DEF IndInv

\* Every step of the limiter preserves the invariant.
LEMMA IndInvStep == IndInv /\ [Next]_vars => IndInv'
<1> SUFFICES ASSUME IndInv, [Next]_vars PROVE IndInv'
  OBVIOUS
<1>1. SlotsAddUp'
  BY BusyStep, InflightStep DEF SlotsAddUp
<1>2. ShortRegisters' /\ RoomyRegisters'
  <2>1. CASE UNCHANGED vars
    BY <2>1 DEF vars, cap, counters, IndInv, ShortRegisters, RoomyRegisters
  <2>2. QED
    BY <2>1, ShortStep, RoomyStep
<1>3. QED
  BY <1>1, <1>2, TypeStep, DelayStep, ListenerStep, ConstructionStep, QuotasStep
     DEF IndInv

\* The invariant holds throughout.
LEMMA Invariance == Spec => []IndInv
BY InitInv, IndInvStep, PTL DEF Spec

\* Every variable keeps its type; no fetch_sub on inflight_, on a partition's
\* busy or on delayed_threads_ ever takes the counter below zero.
THEOREM TypeCorrect == Spec => []TypeOK
BY Invariance, PTL DEF IndInv

\* For any number of calls, partitions and resolvers: inflight_ and every busy
\* count exactly the calls charged to them, however admissions and releases
\* interleave.
THEOREM CountersExact == Spec => []SlotsAddUp
BY Invariance, PTL DEF IndInv

\* delayed_threads_ is the number of sleeping threads and never more than the
\* budget, for any number of threads that race for it.
THEOREM DelayBudgetStrict == Spec => []DelayBudget
BY Invariance, PTL DEF IndInv

\* Whenever nobody holds mu_ the quotas are those of the cap in force, for any
\* caps and shares, unless the cap was last changed before the listener was
\* registered.
THEOREM QuotasConsistent == Spec => []QuotasFollowCap
BY Invariance, PTL DEF IndInv

\* One step refuses no call that has seen room in its partition all along.
LEMMA NoRefusalBelowQuota ==
  IndInv /\ [Next]_vars => [\A c \in short : ~Refused(c)]_vars
<1> SUFFICES ASSUME IndInv, Next, NEW c \in short, Refused(c) PROVE FALSE
  OBVIOUS
<1>1. /\ c \in Call /\ pc[c] = "gate" /\ pc'[c] \notin {"gate", "swap_busy"}
      /\ reg[c] < quota[part[c]] /\ pc \in [Call -> Label]
      /\ reg[c] \in Nat /\ quota[part[c]] \in Nat /\ Step
  BY DEF IndInv, TypeOK, ShortRegisters, Refused, Next
<1>2. ~AtQuota(c)
  BY <1>1 DEF AtQuota
<1>3. QED
  BY SMTT(60), <1>1, <1>2 DEF Goto, Return, Step, BuildQuota, RegisterListener, DoAcquire,
     Begin, LoadGlobal, TestGlobal, Burst, LoadBusy, GateRefuses, GatePasses,
     SwapBusy, SwapBusyFails, CountInflight, MaybeBackoffDelay, LoadDelayed,
     BudgetExhausted, ReserveDelay, ReserveDelayFails, WakeUp, OnSlotComplete,
     ReleaseInflight, ReleasePartition, OnSample, SetLimit, ChangeCap, Listener

\* The minimum share: a call is refused only if its partition was at its quota
\* at some moment since the call resolved it, the cap being the same.
THEOREM MinimumShareKept == Spec => MinimumShare
BY Invariance, NoRefusalBelowQuota, PTL DEF Spec, MinimumShare

\* A call that has seen idle capacity all along never reaches the gate.
LEMMA NoRefusalBelowCap ==
  IndInv /\ [Next]_vars => [\A c \in roomy : ~Refused(c)]_vars
BY DEF IndInv, RoomyRegisters, Refused

\* Burst into idle: a call is refused only if the global cap was exhausted at
\* some moment since the call resolved its partition, the cap being the same.
THEOREM BurstsIntoIdle == Spec => BurstIntoIdle
BY Invariance, NoRefusalBelowCap, PTL DEF Spec, BurstIntoIdle

----------------------------------------------------------------------------
(* The bound on the slots lent.  The state does not say which of the calls *)
(* in a partition were admitted by a burst and which by the gate, so the   *)
(* invariant says that they can be told apart: there is a set U, the calls *)
(* that burst, for which the following holds.                              *)
(*   - The others fill no more than their partition's quota: the gate      *)
(*     admits only below it.                                               *)
(*   - U, with the calls that have found room and are about to join it, is *)
(*     within MostBursts.  It grows by a call that finds inflight_ below   *)
(*     the cap, and then fewer than `limit` calls hold a slot and all the  *)
(*     rest of U occupy a thread.                                          *)
(*   - When it is at MostBursts, some partition with a call in U is not    *)
(*     filled by the others: every slot was held by U when it got there,   *)
(*     and since then the gate has counted the call in U as well.          *)
(* A slot beyond a quota is then one of U's, and not all of U's are.       *)

\* The calls counted in some partition.
Occupied == {c \in Call : pc[c] \in {"count", "held", "release_partition"}}

\* The calls that have found room below the initial cap.
Bursting ==
  {c \in Call : \/ pc[c] = "burst"
                \/ pc[c] = "against_limit" /\ reg[c] < InitialLimit}

MostBursts == InitialLimit - 1 + Threads

Ledger(U) ==
  /\ U \subseteq Occupied
  /\ \A p \in Partition : Cardinality(InPartition(p) \ U) <= quota[p]
  /\ Cardinality(U \union Bursting) <= MostBursts
  /\ Cardinality(U \union Bursting) = MostBursts =>
       \/ Occupied = {}
       \/ \E p \in Partition : /\ InPartition(p) \intersect U # {}
                               /\ Cardinality(InPartition(p) \ U) < quota[p]

\* Until the cap is changed nobody is in the listener, so the cap a call has
\* loaded, and the quota that let a call through the gate, are still the same.
Current ==
  changed = "no" =>
    /\ mu = None
    /\ \A c \in Call : /\ pc[c] = "against_inflight" => reg[c] = limit
                       /\ pc[c] = "swap_busy" => reg[c] < quota[part[c]]

Untouched == building = Built /\ changed = "no" /\ InitialLimit > 0

LendInv ==
  /\ Cardinality(Running) <= Threads
  /\ Current
  /\ Untouched => \E U \in SUBSET Call : Ledger(U)

\* A step that moves no call in or out of a partition.
Steady ==
  /\ quota' = quota /\ Occupied' = Occupied
  /\ \A p \in Partition : InPartition(p)' = InPartition(p)

\* Sets of calls are finite, and counted by a natural number.
LEMMA CallSets ==
  ASSUME NEW S \in SUBSET Call
  PROVE  /\ IsFiniteSet(S) /\ Cardinality(S) \in Nat
         /\ \A T \in SUBSET S : /\ Cardinality(T) \in Nat
                                /\ Cardinality(T) <= Cardinality(S)
                                /\ Cardinality(T) = Cardinality(S) => T = S
<1>1. IsFiniteSet(S)
  BY PartitionAssumption, FS_Subset
<1>2. ASSUME NEW T \in SUBSET S
      PROVE  /\ Cardinality(T) \in Nat /\ Cardinality(T) <= Cardinality(S)
             /\ Cardinality(T) = Cardinality(S) => T = S
  BY <1>1, FS_Subset, FS_CardinalityType
<1>3. QED
  BY <1>1, <1>2, FS_CardinalityType

\* A step by which nobody finds room keeps the ledger.
LEMMA KeepsLedger ==
  ASSUME NEW U \in SUBSET Call, Ledger(U), Steady, Bursting' \subseteq Bursting
  PROVE  Ledger(U)'
<1>1. /\ U \union Bursting \in SUBSET Call
      /\ U \union Bursting' \in SUBSET (U \union Bursting)
  BY DEF Bursting
<1>2. /\ Cardinality(U \union Bursting') <= Cardinality(U \union Bursting)
      /\ Cardinality(U \union Bursting) \in Nat
      /\ Cardinality(U \union Bursting') \in Nat
  BY <1>1, CallSets
<1>3. MostBursts \in Int
  BY PartitionAssumption DEF MostBursts
<1>4. /\ Cardinality(U \union Bursting') <= MostBursts
      /\ Cardinality(U \union Bursting') = MostBursts =>
           Cardinality(U \union Bursting) = MostBursts
  BY <1>2, <1>3 DEF Ledger
<1>5. QED
  BY <1>4 DEF Ledger, Steady, MostBursts

\* A step by which a call may find room keeps it too: fewer calls than the cap
\* hold a slot, and every other call of the ledger occupies a thread.
LEMMA LoadKeepsLedger ==
  ASSUME NEW U \in SUBSET Call, Ledger(U), Steady, IndInv',
         Cardinality(Running') <= Threads, inflight' < InitialLimit,
         \A p \in Partition : quota'[p] \in Nat /\ quota'[p] >= 1
  PROVE  Ledger(U)'
<1> DEFINE J == U \union Bursting'
           K == InGlobal' \union Running'
<1>1. U \subseteq Occupied' /\ Occupied' \subseteq K /\ Occupied' \intersect Bursting' = {}
  BY DEF Ledger, Steady, Occupied, InGlobal, Running, Bursting
<1>2. J \in SUBSET K /\ K \in SUBSET Call
  BY <1>1 DEF Bursting, InGlobal, Running
<1>3. InGlobal' \in SUBSET Call /\ Running' \in SUBSET Call
  BY DEF InGlobal, Running
<1>4. Cardinality(InGlobal') = inflight' /\ inflight' \in Nat
  BY DEF IndInv, SlotsAddUp, TypeOK
<1>5. Cardinality(K) <= inflight' + Cardinality(Running')
  <2>1. /\ IsFiniteSet(InGlobal') /\ IsFiniteSet(Running')
        /\ IsFiniteSet(InGlobal' \intersect Running')
    BY <1>3, CallSets, FS_Intersection
  <2>2. Cardinality(K) = Cardinality(InGlobal') + Cardinality(Running')
                           - Cardinality(InGlobal' \intersect Running')
    BY <2>1, FS_Union
  <2>3. /\ Cardinality(Running') \in Nat
        /\ Cardinality(InGlobal' \intersect Running') \in Nat
    BY <2>1, FS_CardinalityType
  <2>4. QED
    BY <2>2, <2>3, <1>4
<1>6. /\ Cardinality(J) \in Nat /\ Cardinality(K) \in Nat
      /\ Cardinality(J) <= Cardinality(K)
      /\ Cardinality(J) = Cardinality(K) => J = K
  BY <1>2, CallSets
<1>7. Cardinality(K) <= MostBursts /\ MostBursts \in Int
  <2>1. InitialLimit \in Nat /\ Threads \in Nat /\ Cardinality(Running') \in Nat
    BY PartitionAssumption, <1>3, CallSets
  <2>2. QED
    BY <1>4, <1>5, <1>6, <2>1 DEF MostBursts
<1>8. Cardinality(J) <= MostBursts
  BY <1>6, <1>7
<1>9. ASSUME Cardinality(J) = MostBursts, Occupied' # {}
      PROVE  \E p \in Partition : /\ InPartition(p)' \intersect U # {}
                                  /\ Cardinality(InPartition(p)' \ U) < quota'[p]
  <2>1. J = K
    BY <1>6, <1>7, <1>9
  <2>2. Occupied' \subseteq U
    BY <2>1, <1>1
  <2>3. PICK c \in Call : c \in Occupied'
    BY <1>9 DEF Occupied
  <2>4. PICK q \in Partition : q = part'[c]
    BY DEF IndInv, TypeOK
  <2>5. c \in InPartition(q)' /\ InPartition(q)' \subseteq Occupied'
    BY <2>3, <2>4 DEF InPartition, Occupied
  <2>6. InPartition(q)' \ U = {}
    BY <2>2, <2>5
  <2>7. Cardinality(InPartition(q)' \ U) = 0
    BY <2>6, FS_EmptySet
  <2>8. quota'[q] >= 1 /\ quota'[q] \in Nat /\ c \in U
    BY <2>2, <2>3
  <2>9. InPartition(q)' \intersect U # {}
    BY <2>5, <2>8
  <2>10. Cardinality(InPartition(q)' \ U) < quota'[q]
    BY <2>7, <2>8
  <2>11. QED
    BY <2>9, <2>10
<1>10. \A p \in Partition : Cardinality(InPartition(p)' \ U) <= quota'[p]
  BY DEF Ledger, Steady
<1>11. QED
  BY <1>1, <1>8, <1>9, <1>10 DEF Ledger, MostBursts

\* The slots of a partition are occupied.
LEMMA PartsOccupied ==
  /\ \A p \in Partition : InPartition(p) \subseteq Occupied
  /\ Occupied \in SUBSET Call /\ Bursting \in SUBSET Call
  /\ Running \in SUBSET Call
  /\ Occupied \intersect Bursting = {} /\ Bursting \subseteq Running
BY DEF InPartition, Occupied, Bursting, Running

\* A burst moves a call that had found room into U.
LEMMA BurstKeepsLedger ==
  ASSUME NEW U \in SUBSET Call, Ledger(U), NEW c \in Bursting, NEW q \in Partition,
         Bursting' = Bursting \ {c}, Occupied' = Occupied \union {c}, quota' = quota,
         InPartition(q)' = InPartition(q) \union {c},
         \A p \in Partition \ {q} : InPartition(p)' = InPartition(p),
         \A p \in Partition : quota[p] \in Nat /\ quota[p] >= 1
  PROVE  Ledger(U \union {c})'
<1> DEFINE V == U \union {c}
<1>1. U \subseteq Occupied /\ c \notin Occupied
  BY PartsOccupied DEF Ledger
<1>2. V \union Bursting' = U \union Bursting
  OBVIOUS
<1>3. ASSUME NEW p \in Partition
      PROVE  /\ InPartition(p)' \ V = InPartition(p) \ U
             /\ InPartition(p) \intersect U # {} => InPartition(p)' \intersect V # {}
  <2>1. c \notin InPartition(p)
    BY <1>1, PartsOccupied
  <2>2. CASE p = q
    BY <2>1, <2>2
  <2>3. CASE p # q
    BY <2>1, <2>3
  <2>4. QED
    BY <2>2, <2>3
<1>4. ASSUME Occupied = {}
      PROVE  /\ InPartition(q)' \intersect V # {}
             /\ Cardinality(InPartition(q)' \ V) < quota'[q]
  <2>1. InPartition(q)' = {c}
    BY <1>4, PartsOccupied
  <2>2. InPartition(q)' \intersect V # {} /\ InPartition(q)' \ V = {}
    BY <2>1
  <2>3. QED
    BY <2>2, FS_EmptySet
<1>5. V \subseteq Occupied'
  BY <1>1
<1>6. \A p \in Partition : Cardinality(InPartition(p)' \ V) <= quota'[p]
  BY <1>3 DEF Ledger
<1>7. ASSUME Cardinality(V \union Bursting') = MostBursts
      PROVE  \E p \in Partition : /\ InPartition(p)' \intersect V # {}
                                  /\ Cardinality(InPartition(p)' \ V) < quota'[p]
  <2>1. CASE Occupied = {}
    BY <1>4, <2>1
  <2>2. CASE Occupied # {}
    <3>1. PICK p \in Partition : /\ InPartition(p) \intersect U # {}
                                 /\ Cardinality(InPartition(p) \ U) < quota[p]
      BY <1>2, <1>7, <2>2 DEF Ledger
    <3>2. QED
      BY <3>1, <1>3
  <2>3. QED
    BY <2>1, <2>2
<1>8. Cardinality(V \union Bursting') <= MostBursts
  BY <1>2 DEF Ledger
<1> HIDE DEF V
<1>9. Ledger(V)'
  BY <1>5, <1>6, <1>7, <1>8 DEF Ledger, MostBursts
<1>10. QED
  BY <1>9 DEF V

\* The gate counts the calls of U in its partition as well as the others.
LEMMA SwapKeepsLedger ==
  ASSUME NEW U \in SUBSET Call, Ledger(U), NEW c \in Running, NEW q \in Partition,
         c \notin Occupied, c \notin Bursting,
         Bursting' = Bursting, Occupied' = Occupied \union {c}, quota' = quota,
         InPartition(q)' = InPartition(q) \union {c},
         \A p \in Partition \ {q} : InPartition(p)' = InPartition(p),
         \A p \in Partition : quota[p] \in Nat,
         Cardinality(InPartition(q)) < quota[q],
         Cardinality(Running) <= Threads, InitialLimit > 0
  PROVE  Ledger(U)'
<1> DEFINE N == InPartition(q)
<1>1. /\ N \in SUBSET Call /\ N \ U \in SUBSET N /\ N \ U \in SUBSET Call
      /\ c \in Call /\ c \notin N /\ c \notin U
  BY PartsOccupied DEF Ledger
<1>2. InPartition(q)' \ U = (N \ U) \union {c}
  BY <1>1
<1> HIDE DEF N
<1>3. /\ Cardinality((N \ U) \union {c}) = Cardinality(N \ U) + 1
      /\ Cardinality(N \ U) \in Nat /\ Cardinality(N) \in Nat
      /\ Cardinality(N \ U) <= Cardinality(N)
  BY <1>1, Enters, CallSets
<1>4. Cardinality(N) < quota[q]
  BY DEF N
<1>5. ASSUME N \intersect U # {}
      PROVE  Cardinality(N \ U) < Cardinality(N)
  <2>1. N \ U # N
    BY <1>5
  <2>2. QED
    BY <1>1, <1>3, <2>1, CallSets
<1>6. \A p \in Partition : Cardinality(InPartition(p)' \ U) <= quota'[p]
  <2>1. ASSUME NEW p \in Partition PROVE Cardinality(InPartition(p)' \ U) <= quota'[p]
    <3>1. CASE p = q
      <4>1. quota[q] \in Nat
        OBVIOUS
      <4>2. Cardinality((N \ U) \union {c}) <= quota[q]
        BY <1>3, <1>4, <4>1
      <4>3. QED
        BY <1>2, <3>1, <4>2, Zenon
    <3>2. CASE p # q
      <4>1. InPartition(p)' \ U = InPartition(p) \ U
        BY <3>2
      <4>2. QED
        BY <4>1 DEF Ledger
    <3>3. QED
      BY <3>1, <3>2
  <2>2. QED
    BY <2>1
<1>7. ASSUME Occupied = {}
      PROVE  Cardinality(U \union Bursting) # MostBursts
  <2>1. U \union Bursting = Bursting
    BY <1>7 DEF Ledger
  <2>2. Bursting \union {c} \in SUBSET Running /\ Bursting \in SUBSET Call
    BY PartsOccupied
  <2>3. Running \in SUBSET Call
    BY PartsOccupied
  <2>4. /\ Cardinality(Bursting \union {c}) = Cardinality(Bursting) + 1
        /\ Cardinality(Bursting) \in Nat /\ Cardinality(Running) \in Nat
        /\ Cardinality(Bursting \union {c}) <= Cardinality(Running)
    BY <1>1, <2>2, <2>3, Enters, CallSets
  <2>5. Threads \in Nat /\ InitialLimit \in Nat
    BY PartitionAssumption
  <2>6. QED
    BY <2>1, <2>4, <2>5 DEF MostBursts
<1>8. ASSUME Cardinality(U \union Bursting) = MostBursts
      PROVE  \E p \in Partition : /\ InPartition(p)' \intersect U # {}
                                  /\ Cardinality(InPartition(p)' \ U) < quota'[p]
  <2>1. PICK p \in Partition : /\ InPartition(p) \intersect U # {}
                               /\ Cardinality(InPartition(p) \ U) < quota[p]
    BY <1>7, <1>8 DEF Ledger
  <2>2. InPartition(p)' \intersect U # {}
    BY <2>1
  <2>3. Cardinality(InPartition(p)' \ U) < quota'[p]
    <3>1. CASE p = q
      <4>1. Cardinality(N \ U) < Cardinality(N)
        BY <1>5, <2>1, <3>1 DEF N
      <4>2. quota[q] \in Nat
        OBVIOUS
      <4>3. QED
        BY SMTT(60), <1>2, <1>3, <1>4, <3>1, <4>1, <4>2
    <3>2. CASE p # q
      <4>1. InPartition(p)' \ U = InPartition(p) \ U
        BY <3>2
      <4>2. QED
        BY <4>1, <2>1
    <3>3. QED
      BY <3>1, <3>2
  <2>4. QED
    BY <2>2, <2>3
<1>9. U \union Bursting' = U \union Bursting /\ U \subseteq Occupied'
  BY DEF Ledger
<1>10. Cardinality(U \union Bursting') <= MostBursts
  BY <1>9 DEF Ledger
<1>11. QED
  BY <1>6, <1>8, <1>9, <1>10 DEF Ledger, MostBursts

\* A release takes a call out of its partition, and out of U if it is there.
LEMMA ReleaseKeepsLedger ==
  ASSUME NEW U \in SUBSET Call, Ledger(U), NEW c \in Occupied,
         Bursting' = Bursting, Occupied' = Occupied \ {c}, quota' = quota,
         \A p \in Partition : InPartition(p)' = InPartition(p) \ {c},
         \A p \in Partition : quota[p] \in Nat
  PROVE  Ledger(U \ {c})'
<1> DEFINE V == U \ {c}
<1>1. c \in Call /\ c \notin Bursting /\ U \union Bursting \in SUBSET Call /\ V \subseteq Occupied'
  BY PartsOccupied DEF Ledger
<1>2. V \union Bursting' = (U \union Bursting) \ {c}
  BY <1>1
<1>3. ASSUME NEW p \in Partition
      PROVE  /\ Cardinality(InPartition(p)' \ V) <= Cardinality(InPartition(p) \ U)
             /\ Cardinality(InPartition(p)' \ V) \in Nat
             /\ Cardinality(InPartition(p) \ U) \in Nat
  <2>1. InPartition(p)' \ V \in SUBSET (InPartition(p) \ U)
    OBVIOUS
  <2>2. InPartition(p) \ U \in SUBSET Call
    BY PartsOccupied
  <2>3. QED
    BY <2>1, <2>2, CallSets
<1>4. \A p \in Partition : Cardinality(InPartition(p)' \ V) <= quota'[p]
  <2>1. ASSUME NEW p \in Partition PROVE Cardinality(InPartition(p)' \ V) <= quota'[p]
    <3>1. Cardinality(InPartition(p) \ U) <= quota[p] /\ quota[p] \in Nat
      BY DEF Ledger
    <3>2. QED
      BY <3>1, <1>3
  <2>2. QED
    BY <2>1
<1>5. MostBursts \in Int
  BY PartitionAssumption DEF MostBursts
<1>6. CASE c \in U
  <2>1. /\ Cardinality((U \union Bursting) \ {c}) = Cardinality(U \union Bursting) - 1
        /\ Cardinality(U \union Bursting) \in Nat
    BY <1>1, <1>6, Leaves
  <2>2. Cardinality(U \union Bursting) <= MostBursts
    BY DEF Ledger
  <2>3. /\ Cardinality((U \union Bursting) \ {c}) <= MostBursts
        /\ Cardinality((U \union Bursting) \ {c}) # MostBursts
    BY <1>5, <2>1, <2>2
  <2> HIDE DEF V
  <2>4. Ledger(V)'
    BY <1>1, <1>2, <1>4, <2>3 DEF Ledger, MostBursts
  <2>5. QED
    BY <2>4 DEF V
<1>7. CASE c \notin U
  <2>1. V = U
    BY <1>7
  <2>2. Cardinality(V \union Bursting') <= MostBursts
    BY <2>1 DEF Ledger
  <2>3. ASSUME Cardinality(V \union Bursting') = MostBursts
        PROVE  \E p \in Partition : /\ InPartition(p)' \intersect V # {}
                                    /\ Cardinality(InPartition(p)' \ V) < quota'[p]
    <3>1. PICK p \in Partition : /\ InPartition(p) \intersect U # {}
                                 /\ Cardinality(InPartition(p) \ U) < quota[p]
      BY <2>1, <2>3 DEF Ledger
    <3>2. InPartition(p)' \intersect V # {}
      BY <1>7, <3>1
    <3>3. Cardinality(InPartition(p)' \ V) < quota'[p]
      <4>1. quota[p] \in Nat
        OBVIOUS
      <4>2. QED
        BY <1>3, <3>1, <4>1
    <3>4. QED
      BY <3>2, <3>3
  <2> HIDE DEF V
  <2>4. Ledger(V)'
    BY <1>1, <1>4, <2>2, <2>3 DEF Ledger, MostBursts
  <2>5. QED
    BY <2>4 DEF V
<1>8. QED
  BY <1>6, <1>7

\* A step of one call leaves every other call where it is.
Others(c) ==
  \A d \in Call \ {c} : pc'[d] = pc[d] /\ part'[d] = part[d] /\ reg'[d] = reg[d]

OccupiedLabel == {"count", "held", "release_partition"}

\* A call that stays inside, or outside, its partition disturbs none.
LEMMA SteadyCall ==
  ASSUME NEW c \in Call, Others(c), quota' = quota,
         pc[c] \in OccupiedLabel <=> pc'[c] \in OccupiedLabel,
         pc[c] \in OccupiedLabel => part'[c] = part[c]
  PROVE  Steady
<1>1. ASSUME NEW d \in Call
      PROVE  /\ pc[d] \in OccupiedLabel <=> pc'[d] \in OccupiedLabel
             /\ pc[d] \in OccupiedLabel => part'[d] = part[d]
  BY DEF Others
<1>2. Occupied' = Occupied
  BY <1>1 DEF Occupied, OccupiedLabel
<1>3. ASSUME NEW p \in Partition PROVE InPartition(p)' = InPartition(p)
  BY <1>1 DEF InPartition, OccupiedLabel
<1>4. QED
  BY <1>2, <1>3 DEF Steady

\* Nobody but the call that steps can have found room.
LEMMA SameBursting ==
  ASSUME NEW c \in Call, Others(c), c \in Bursting' => c \in Bursting
  PROVE  Bursting' \subseteq Bursting
<1>1. ASSUME NEW d \in Bursting' PROVE d \in Bursting
  <2>1. CASE d = c
    BY <1>1, <2>1
  <2>2. CASE d # c
    BY <1>1, <2>2 DEF Others, Bursting
  <2>3. QED
    BY <2>1, <2>2
<1>2. QED
  BY <1>1

\* What a step may do to the ledger while the cap is the initial one.
Entry(c) ==
  /\ Others(c) /\ quota' = quota /\ mu' = mu
  /\ pc'[c] = "against_inflight" => reg'[c] = limit
  /\ pc'[c] = "swap_busy" => reg'[c] < quota[part'[c]]
  /\ \/ /\ pc[c] \in OccupiedLabel <=> pc'[c] \in OccupiedLabel
        /\ pc[c] \in OccupiedLabel => part'[c] = part[c]
        /\ \/ pc'[c] \notin {"burst", "against_limit"}
           \/ pc'[c] = "burst" /\ pc[c] = "against_limit" /\ reg[c] < limit
           \/ pc'[c] = "against_limit" /\ ~(reg'[c] < limit)
           \/ inflight' < limit
     \/ Burst(c) \/ SwapBusy(c) \/ ReleasePartition(c)

\* Every step while the limiter is built and its cap untouched is one of those.
LEMMA EntryStep ==
  ASSUME IndInv, Current, Step, building = Built, changed = "no", limit' = limit
  PROVE  \E c \in Call : Entry(c)
<1> USE DEF OccupiedLabel, Others, Entry, Goto, Load, cap, counters
<1>0. /\ pc \in [Call -> Label] /\ part \in [Call -> Partition] /\ reg \in [Call -> Nat]
      /\ inflight \in Nat /\ limit \in Nat /\ mu = None
  BY DEF IndInv, TypeOK, Current
<1>1. ASSUME BuildQuota \/ RegisterListener PROVE FALSE
  BY <1>1, PartitionIsInterval
     DEF BuildQuota, RegisterListener, Partition, Registering, Built
<1>2. ASSUME NEW c \in Call, NEW x \in Context, Begin(c, x) PROVE Entry(c)
  BY <1>0, <1>2 DEF Begin
<1>3. ASSUME NEW c \in Call, LoadGlobal(c) PROVE Entry(c)
  <2>1. CASE Load(c, inflight) /\ Goto(c, "against_limit")
    BY <1>0, <1>3, <2>1 DEF LoadGlobal
  <2>2. CASE Load(c, limit) /\ Goto(c, "against_inflight")
    BY <1>0, <1>3, <2>2 DEF LoadGlobal
  <2>3. QED
    BY <1>3, <2>1, <2>2 DEF LoadGlobal
<1>4. ASSUME NEW c \in Call, TestGlobal(c) PROVE Entry(c)
  <2>1. pc[c] = "against_inflight" => reg[c] = limit
    BY DEF Current
  <2>2. QED
    BY <1>0, <1>4, <2>1 DEF TestGlobal, GlobalFull
<1>5. ASSUME NEW c \in Call, Burst(c) PROVE Entry(c)
  BY <1>0, <1>5 DEF Burst
<1>6. ASSUME NEW c \in Call, LoadBusy(c) PROVE Entry(c)
  BY <1>0, <1>6 DEF LoadBusy
<1>7. ASSUME NEW c \in Call, GateRefuses(c) PROVE Entry(c)
  BY <1>0, <1>7 DEF GateRefuses, Return
<1>8. ASSUME NEW c \in Call, GatePasses(c) PROVE Entry(c)
  <2>1. reg[c] < quota[part[c]]
    BY <1>0, <1>8 DEF GatePasses, AtQuota, IndInv, TypeOK
  <2>2. QED
    BY <1>0, <1>8, <2>1 DEF GatePasses
<1>9. ASSUME NEW c \in Call, SwapBusy(c) PROVE Entry(c)
  BY <1>0, <1>9 DEF SwapBusy
<1>10. ASSUME NEW c \in Call, SwapBusyFails(c) PROVE Entry(c)
  BY <1>0, <1>10 DEF SwapBusyFails
<1>11. ASSUME NEW c \in Call, CountInflight(c) PROVE Entry(c)
  BY <1>0, <1>11 DEF CountInflight
<1>12. ASSUME NEW c \in Call, LoadDelayed(c) PROVE Entry(c)
  BY <1>0, <1>12 DEF LoadDelayed
<1>13. ASSUME NEW c \in Call, BudgetExhausted(c) PROVE Entry(c)
  BY <1>0, <1>13 DEF BudgetExhausted, Return
<1>14. ASSUME NEW c \in Call, ReserveDelay(c) PROVE Entry(c)
  BY <1>0, <1>14 DEF ReserveDelay
<1>15. ASSUME NEW c \in Call, ReserveDelayFails(c) PROVE Entry(c)
  BY <1>0, <1>15 DEF ReserveDelayFails
<1>16. ASSUME NEW c \in Call, WakeUp(c) PROVE Entry(c)
  BY <1>0, <1>16 DEF WakeUp, Return
<1>17. ASSUME NEW c \in Call, ReleaseInflight(c) PROVE Entry(c)
  BY <1>0, <1>17 DEF ReleaseInflight
<1>18. ASSUME NEW c \in Call, ReleasePartition(c) PROVE Entry(c)
  <2>1. /\ Others(c) /\ quota' = quota /\ mu' = mu
        /\ pc'[c] \notin {"against_inflight", "swap_busy"}
    BY <1>0, <1>18 DEF ReleasePartition, Return
  <2>2. QED
    BY <1>18, <2>1
<1>19. ASSUME NEW c \in Call, NEW n, pc[c] \in {"sample", "idle"}, ChangeCap(c, n)
       PROVE Entry(c)
  <2>1. n = limit
    BY <1>19 DEF ChangeCap
  <2>2. QED
    BY <1>0, <1>19, <2>1 DEF ChangeCap, Return
<1>20. ASSUME NEW c \in Call, Listener(c) PROVE FALSE
  BY <1>0, <1>20, PartitionAssumption DEF Listener, IndInv, ListenerHoldsLock, None
<1>21. QED
  BY SMTT(60), <1>1, <1>2, <1>3, <1>4, <1>5, <1>6, <1>7, <1>8, <1>9, <1>10, <1>11, <1>12,
     <1>13, <1>14, <1>15, <1>16, <1>17, <1>18, <1>19, <1>20
     DEF Step, DoAcquire, MaybeBackoffDelay, OnSlotComplete, OnSample, SetLimit

\* The three steps that move a call in or out of a partition.
LEMMA MovesLedger ==
  ASSUME IndInv, LendInv, NEW U \in SUBSET Call, Ledger(U), NEW c \in Call,
         Burst(c) \/ SwapBusy(c) \/ ReleasePartition(c), Others(c), quota' = quota,
         changed = "no", InitialLimit > 0,
         \A p \in Partition : quota[p] \in Nat /\ quota[p] >= 1
  PROVE  \E V \in SUBSET Call : Ledger(V)'
<1>0. /\ pc \in [Call -> Label] /\ part \in [Call -> Partition] /\ reg \in [Call -> Nat]
      /\ busy \in [Partition -> Nat]
  BY DEF IndInv, TypeOK
<1>1. PICK q \in Partition : q = part[c]
  BY <1>0
<1>2. ASSUME Burst(c) PROVE Ledger(U \union {c})'
  <2>1. pc[c] = "burst" /\ pc'[c] = "count" /\ part'[c] = q
    BY <1>0, <1>1, <1>2 DEF Burst, Goto
  <2>2. c \in Bursting /\ Bursting' = Bursting \ {c}
    BY <2>1 DEF Bursting, Others
  <2>3. Occupied' = Occupied \union {c}
    BY <2>1 DEF Occupied, Others
  <2>4. /\ InPartition(q)' = InPartition(q) \union {c}
        /\ \A p \in Partition \ {q} : InPartition(p)' = InPartition(p)
    BY <1>1, <2>1 DEF InPartition, Others
  <2>5. QED
    BY <2>2, <2>3, <2>4, BurstKeepsLedger
<1>3. ASSUME SwapBusy(c) PROVE Ledger(U)'
  <2>1. /\ pc[c] = "swap_busy" /\ pc'[c] = "count" /\ part'[c] = q
        /\ busy[q] = reg[c] /\ reg[c] < quota[q]
    BY <1>0, <1>1, <1>3 DEF SwapBusy, Goto, LendInv, Current
  <2>2. c \notin Bursting /\ c \notin Occupied /\ c \in Running /\ Bursting' = Bursting
    BY <2>1 DEF Bursting, Occupied, Running, Others
  <2>3. Occupied' = Occupied \union {c}
    BY <2>1 DEF Occupied, Others
  <2>4. /\ InPartition(q)' = InPartition(q) \union {c}
        /\ \A p \in Partition \ {q} : InPartition(p)' = InPartition(p)
    BY <1>1, <2>1 DEF InPartition, Others
  <2>5. Cardinality(InPartition(q)) < quota[q]
    BY <2>1 DEF IndInv, SlotsAddUp
  <2>6. Cardinality(Running) <= Threads
    BY DEF LendInv
  <2>7. QED
    BY <2>2, <2>3, <2>4, <2>5, <2>6, SwapKeepsLedger
<1>4. ASSUME ReleasePartition(c) PROVE Ledger(U \ {c})'
  <2>1. pc[c] = "release_partition" /\ pc'[c] \in {"idle", "sample"}
    BY <1>0, <1>4 DEF ReleasePartition, Return, Goto
  <2>2. c \in Occupied /\ Bursting' = Bursting
    BY <2>1 DEF Bursting, Occupied, Others
  <2>3. Occupied' = Occupied \ {c}
    BY <2>1 DEF Occupied, Others
  <2>4. \A p \in Partition : InPartition(p)' = InPartition(p) \ {c}
    BY <1>1, <2>1 DEF InPartition, Others
  <2>5. QED
    BY <2>2, <2>3, <2>4, ReleaseKeepsLedger
<1>5. QED
  <2>1. U \union {c} \in SUBSET Call /\ U \ {c} \in SUBSET Call
    OBVIOUS
  <2>2. QED
    BY <1>2, <1>3, <1>4, <2>1

\* The ledger can be kept through every step that leaves the cap alone.
LEMMA LedgerStep ==
  ASSUME IndInv, IndInv', LendInv, Cardinality(Running') <= Threads, Next, Untouched'
  PROVE  \E U \in SUBSET Call : Ledger(U)'
<1>1. changed = "no" /\ limit' = limit /\ InitialLimit > 0 /\ building' = Built /\ Step
  <2>1. changed' = "no" /\ InitialLimit > 0 /\ building' = Built
    BY DEF Untouched
  <2>2. QED
    BY <2>1 DEF Next, Watch
<1>2. CASE building # Built
  <2>1. RegisterListener
    <3>1. ASSUME BuildQuota PROVE FALSE
      BY <1>1, <3>1, PartitionIsInterval DEF BuildQuota, Partition, Built
    <3>2. ASSUME NEW c \in Call, NEW n \in SettableTo, SetLimit(c, n) PROVE FALSE
      BY <1>1, <1>2, <3>2 DEF SetLimit, ChangeCap
    <3>3. QED
      BY <1>1, <1>2, <3>1, <3>2, BeforeBuilt
  <2>2. \A c \in Call : pc'[c] = "idle"
    BY <1>2, <2>1 DEF RegisterListener, IndInv, Construction
  <2>3. Occupied' = {} /\ Bursting' = {} /\ \A p \in Partition : InPartition(p)' = {}
    BY <2>2 DEF Occupied, Bursting, InPartition
  <2>4. /\ {} \subseteq Occupied'
        /\ \A p \in Partition : InPartition(p)' \ {} = {}
        /\ {} \union Bursting' = {}
    BY <2>3
  <2>5. Cardinality({}) = 0 /\ MostBursts \in Nat \ {0}
    BY <1>1, PartitionAssumption, FS_EmptySet DEF MostBursts
  <2>6. \A p \in Partition : 0 <= quota'[p]
    BY DEF IndInv, TypeOK
  <2>7. Ledger({})'
    BY <2>3, <2>4, <2>5, <2>6 DEF Ledger, MostBursts
  <2>8. QED
    BY <2>7
<1>3. CASE building = Built
  <2>1. PICK U \in SUBSET Call : Ledger(U)
    BY <1>1, <1>3 DEF LendInv, Untouched
  <2>2. Current
    BY DEF LendInv
  <2>3. PICK c \in Call : Entry(c)
    BY <1>1, <1>3, <2>2, EntryStep
  <2>4. \A p \in Partition : quota[p] \in Nat /\ quota[p] >= 1
    <3>1. mu = None /\ limit \in Nat
      BY <1>1, <2>2 DEF Current, IndInv, TypeOK
    <3>2. \A p \in Partition : quota[p] = ComputePartitionLimit(limit, p)
      BY <1>1, <1>3, <3>1 DEF IndInv, QuotasFollowCap
    <3>3. QED
      BY <3>1, <3>2, QuotaPositive
  <2>5. Others(c) /\ quota' = quota
    BY <2>3 DEF Entry
  <2>6. CASE Burst(c) \/ SwapBusy(c) \/ ReleasePartition(c)
    BY <1>1, <2>1, <2>4, <2>5, <2>6, MovesLedger
  <2>7. CASE ~(Burst(c) \/ SwapBusy(c) \/ ReleasePartition(c))
    <3>1. Steady
      BY <2>3, <2>5, <2>7, SteadyCall DEF Entry
    <3>2. limit = InitialLimit
      BY <1>1 DEF IndInv, Construction
    <3>3. CASE inflight' < limit
      BY <2>1, <2>4, <2>5, <3>1, <3>2, <3>3, LoadKeepsLedger
    <3>4. CASE ~(inflight' < limit)
      <4>1. c \in Bursting' => c \in Bursting
        BY <2>3, <2>7, <3>2, <3>4 DEF Entry, Bursting
      <4>2. Bursting' \subseteq Bursting
        BY <2>5, <4>1, SameBursting
      <4>3. QED
        BY <2>1, <3>1, <4>2, KeepsLedger
    <3>5. QED
      BY <3>3, <3>4
  <2>8. QED
    BY <2>6, <2>7
<1>4. QED
  BY <1>2, <1>3

\* No more calls than threads run: a call takes a thread only when one is free.
LEMMA ThreadsStep ==
  ASSUME IndInv, LendInv, Step
  PROVE  Cardinality(Running') <= Threads
<1>0. /\ pc \in [Call -> Label] /\ Cardinality(Running) <= Threads /\ Threads \in Nat
      /\ Running \in SUBSET Call
  BY PartitionAssumption, PartsOccupied DEF IndInv, TypeOK, LendInv
<1>1. ASSUME Running' \subseteq Running
      PROVE  Cardinality(Running') <= Threads
  <2>1. /\ Cardinality(Running') <= Cardinality(Running)
        /\ Cardinality(Running') \in Nat /\ Cardinality(Running) \in Nat
    BY <1>0, <1>1, CallSets
  <2>2. QED
    BY <1>0, <2>1
<1>2. ASSUME NEW c \in Call, ThreadFree, Running' \subseteq Running \union {c}
      PROVE  Cardinality(Running') <= Threads
  <2>1. /\ Cardinality(Running') <= Cardinality(Running \union {c})
        /\ Cardinality(Running') \in Nat /\ Cardinality(Running) \in Nat
        /\ Cardinality(Running \union {c}) \in Nat
    BY <1>0, <1>2, CallSets
  <2>2. Cardinality(Running \union {c}) <= Cardinality(Running) + 1
    <3>1. CASE c \in Running
      <4>1. Running \union {c} = Running
        BY <3>1
      <4>2. Cardinality(Running \union {c}) = Cardinality(Running)
        BY <4>1, Zenon
      <4>3. QED
        BY <2>1, <4>2
    <3>2. CASE c \notin Running
      <4>1. Cardinality(Running \union {c}) = Cardinality(Running) + 1
        BY <1>0, <3>2, Enters
      <4>2. QED
        BY <2>1, <4>1
    <3>3. QED
      BY <3>1, <3>2
  <2>3. Cardinality(Running) < Threads
    BY <1>2 DEF ThreadFree
  <2>4. QED
    BY <1>0, <2>1, <2>2, <2>3
<1>3. CASE BuildQuota \/ RegisterListener
  BY <1>1, <1>3 DEF BuildQuota, RegisterListener, Running
<1>4. ASSUME NEW c \in Call, pc[c] \notin {"idle", "held"}, UNCHANGED pc \/
             \E label : Goto(c, label)
      PROVE  Cardinality(Running') <= Threads
  <2>1. Running' \subseteq Running
    BY <1>0, <1>4 DEF Goto, Running
  <2>2. QED
    BY <1>1, <2>1
<1>5. ASSUME NEW c \in Call, ThreadFree, \E label : Goto(c, label)
      PROVE  Cardinality(Running') <= Threads
  <2>1. Running' \subseteq Running \union {c}
    BY <1>0, <1>5 DEF Goto, Running
  <2>2. QED
    BY <1>2, <1>5, <2>1
<1>6. ASSUME NEW c \in Call, DoAcquire(c) PROVE Cardinality(Running') <= Threads
  <2>1. CASE \E x \in Context : Begin(c, x)
    BY <1>5, <2>1 DEF Begin
  <2>2. CASE ~\E x \in Context : Begin(c, x)
    <3>1. pc[c] \notin {"idle", "held"} /\ \E label : Goto(c, label)
      BY <1>6, <2>2 DEF DoAcquire, LoadGlobal, TestGlobal, Burst, LoadBusy,
         GateRefuses, GatePasses, SwapBusy, SwapBusyFails, CountInflight, Return
    <3>2. QED
      BY <1>4, <3>1
  <2>3. QED
    BY <2>1, <2>2
<1>7. ASSUME NEW c \in Call, MaybeBackoffDelay(c) PROVE Cardinality(Running') <= Threads
  <2>1. pc[c] \notin {"idle", "held"} /\ (UNCHANGED pc \/ \E label : Goto(c, label))
    BY <1>7 DEF MaybeBackoffDelay, LoadDelayed, BudgetExhausted, ReserveDelay,
       ReserveDelayFails, WakeUp, Return
  <2>2. QED
    BY <1>4, <2>1
<1>8. ASSUME NEW c \in Call, ReleaseInflight(c) PROVE Cardinality(Running') <= Threads
  BY <1>5, <1>8 DEF ReleaseInflight
<1>9. ASSUME NEW c \in Call, ReleasePartition(c) PROVE Cardinality(Running') <= Threads
  <2>1. pc[c] \notin {"idle", "held"} /\ \E label : Goto(c, label)
    BY <1>9 DEF ReleasePartition, Return
  <2>2. QED
    BY <1>4, <2>1
<1>10. ASSUME NEW c \in Call, NEW n, ChangeCap(c, n) PROVE \E label : Goto(c, label)
  BY <1>10 DEF ChangeCap, Return
<1>11. ASSUME NEW c \in Call, OnSample(c) PROVE Cardinality(Running') <= Threads
  <2>1. pc[c] \notin {"idle", "held"} /\ \E label : Goto(c, label)
    BY <1>10, <1>11 DEF OnSample
  <2>2. QED
    BY <1>4, <2>1
<1>12. ASSUME NEW c \in Call, NEW n \in SettableTo, SetLimit(c, n)
       PROVE  Cardinality(Running') <= Threads
  BY <1>5, <1>10, <1>12 DEF SetLimit
<1>13. ASSUME NEW c \in Call, Listener(c) PROVE Cardinality(Running') <= Threads
  <2>1. pc[c] \notin {"idle", "held"} /\ (UNCHANGED pc \/ \E label : Goto(c, label))
    BY <1>13 DEF Listener, Return
  <2>2. QED
    BY <1>4, <2>1
<1>14. QED
  BY <1>3, <1>6, <1>7, <1>8, <1>9, <1>11, <1>12, <1>13 DEF Step, OnSlotComplete

\* While the cap is untouched, registers that hold it or were compared with a
\* quota stay true.
LEMMA CurrentStep ==
  ASSUME IndInv, LendInv, Next
  PROVE  Current'
<1> SUFFICES ASSUME changed' = "no"
             PROVE  /\ mu' = None
                    /\ \A c \in Call :
                         /\ pc'[c] = "against_inflight" => reg'[c] = limit'
                         /\ pc'[c] = "swap_busy" => reg'[c] < quota'[part'[c]]
  BY DEF Current
<1>1. changed = "no" /\ limit' = limit /\ Step
  BY DEF Next, Watch
<1>2. /\ pc \in [Call -> Label] /\ part \in [Call -> Partition] /\ reg \in [Call -> Nat]
      /\ quota \in [Partition -> Nat]
  BY DEF IndInv, TypeOK
<1>3. /\ mu = None
      /\ \A c \in Call : /\ pc[c] = "against_inflight" => reg[c] = limit
                         /\ pc[c] = "swap_busy" => reg[c] < quota[part[c]]
  BY <1>1 DEF LendInv, Current
<1>4. CASE building # Built
  <2>1. \A c \in Call : pc[c] = "idle"
    BY <1>4 DEF IndInv, Construction
  <2>2. CASE BuildQuota
    BY <1>3, <2>1, <2>2 DEF BuildQuota
  <2>3. CASE RegisterListener
    BY <1>3, <2>1, <2>3 DEF RegisterListener, cap
  <2>4. ASSUME NEW c \in Call, NEW n \in SettableTo, SetLimit(c, n)
        PROVE  mu' = None /\ \A d \in Call : pc'[d] = "idle"
    BY <1>2, <1>3, <1>4, <2>1, <2>4 DEF SetLimit, ChangeCap, Return, Goto
  <2>5. QED
    BY <1>1, <1>4, <2>2, <2>3, <2>4, BeforeBuilt
<1>5. CASE building = Built
  <2>1. PICK c \in Call : Entry(c)
    BY <1>1, <1>5, EntryStep DEF LendInv
  <2>2. Others(c) /\ quota' = quota
    BY <2>1 DEF Entry
  <2>3. \A d \in Call \ {c} : /\ pc'[d] = "against_inflight" => reg'[d] = limit'
                              /\ pc'[d] = "swap_busy" => reg'[d] < quota'[part'[d]]
    BY <1>1, <1>3, <2>2 DEF Others
  <2>4. /\ pc'[c] = "against_inflight" => reg'[c] = limit'
        /\ pc'[c] = "swap_busy" => reg'[c] < quota'[part'[c]]
        /\ mu' = None
    BY <1>1, <1>3, <2>1 DEF Entry
  <2>5. QED
    BY <2>3, <2>4
<1>6. QED
  BY <1>4, <1>5

\* The calls of a partition that burst fill all of it beyond its quota, and
\* more than that if the others do not fill the quota.
LEMMA BurstsFillExcess ==
  ASSUME IndInv, NEW U, Ledger(U), NEW p \in Partition, quota[p] \in Nat
  PROVE  LET n == Cardinality(InPartition(p) \intersect U)
         IN  /\ n \in Nat /\ busy[p] \in Nat /\ busy[p] - quota[p] <= n
             /\ Cardinality(InPartition(p) \ U) < quota[p] => busy[p] - quota[p] < n
             /\ ExistsBijection(1 .. n, InPartition(p) \intersect U)
<1> DEFINE I == InPartition(p)
<1>1. IsFiniteSet(I)
  BY PartsOccupied, CallSets
<1>2. Cardinality(I \ U) = Cardinality(I) - Cardinality(I \intersect U)
  BY <1>1, FS_Difference
<1>3. IsFiniteSet(I \intersect U)
  BY <1>1, FS_Intersection
<1>4. Cardinality(I) = busy[p] /\ busy[p] \in Nat /\ Cardinality(I \ U) <= quota[p]
  BY DEF IndInv, SlotsAddUp, TypeOK, Ledger
<1>5. /\ Cardinality(I \intersect U) \in Nat
      /\ ExistsBijection(1 .. Cardinality(I \intersect U), I \intersect U)
  BY <1>3, FS_CardinalityType
<1> HIDE DEF I
<1>6. QED
  BY <1>2, <1>4, <1>5 DEF I

\* A slot beyond the quota is one of a call that burst; when as many calls have
\* burst as can, not every one of them is needed.
LEMMA LentBounded ==
  ASSUME IndInv, NEW U \in SUBSET Call, Ledger(U), InitialLimit > 0,
         \A p \in Partition : quota[p] \in Nat
  PROVE  Cardinality(Lent) < MostBursts
<1> DEFINE In(p) == InPartition(p) \intersect U
           n(p) == Cardinality(In(p))
           b == [p \in Partition |-> CHOOSE g : g \in Bijection(1 .. n(p), In(p))]
           f == [x \in Lent |-> b[x[1]][x[2] - quota[x[1]]]]
<1>1. ASSUME NEW p \in Partition
      PROVE  /\ n(p) \in Nat /\ busy[p] \in Nat /\ busy[p] - quota[p] <= n(p)
             /\ Cardinality(InPartition(p) \ U) < quota[p] => busy[p] - quota[p] < n(p)
             /\ b[p] \in Bijection(1 .. n(p), In(p))
  <2>1. quota[p] \in Nat
    OBVIOUS
  <2>2. /\ n(p) \in Nat /\ busy[p] \in Nat /\ busy[p] - quota[p] <= n(p)
        /\ Cardinality(InPartition(p) \ U) < quota[p] => busy[p] - quota[p] < n(p)
        /\ ExistsBijection(1 .. n(p), In(p))
    BY <2>1, BurstsFillExcess
  <2>3. \E g : g \in Bijection(1 .. n(p), In(p))
    BY <2>2 DEF ExistsBijection
  <2>4. b[p] \in Bijection(1 .. n(p), In(p))
    BY <2>3
  <2>5. QED
    BY <2>2, <2>4
<1>2. ASSUME NEW p \in Partition
      PROVE  /\ b[p] \in [1 .. n(p) -> In(p)]
             /\ \A i, j \in 1 .. n(p) : b[p][i] = b[p][j] => i = j
  BY <1>1 DEF Bijection, Injection, IsInjective
<1>3. ASSUME NEW p \in Partition, NEW u \in In(p)
      PROVE  u \in U /\ part[u] = p
  BY DEF InPartition
<1>4. ASSUME NEW x \in Lent
      PROVE  /\ x[1] \in Partition /\ x[2] \in Int /\ x = <<x[1], x[2]>>
             /\ x[2] - quota[x[1]] \in 1 .. n(x[1]) /\ x[2] <= busy[x[1]]
  <2>1. PICK p \in Partition : x \in {p} \X (quota[p] + 1 .. busy[p])
    BY DEF Lent
  <2>2. x[1] = p /\ x[2] \in quota[p] + 1 .. busy[p] /\ x = <<x[1], x[2]>>
    BY <2>1
  <2>3. n(p) \in Nat /\ busy[p] \in Nat /\ quota[p] \in Nat /\ busy[p] - quota[p] <= n(p)
    BY <1>1
  <2> HIDE DEF n
  <2>4. x[2] \in Int /\ x[2] <= busy[p] /\ x[2] - quota[p] \in 1 .. n(p)
    BY <2>2, <2>3
  <2>5. QED
    BY <2>2, <2>4
<1> HIDE DEF n, b, In
<1>5. ASSUME NEW x \in Lent
      PROVE  f[x] \in U /\ part[f[x]] = x[1] /\ f[x] = b[x[1]][x[2] - quota[x[1]]]
  <2>1. x[1] \in Partition /\ x[2] - quota[x[1]] \in 1 .. n(x[1])
    BY <1>4
  <2>2. b[x[1]][x[2] - quota[x[1]]] \in In(x[1])
    BY <1>2, <2>1
  <2>3. QED
    BY <1>3, <2>1, <2>2
<1>6. ASSUME NEW x \in Lent, NEW y \in Lent, f[x] = f[y]
      PROVE  x = y
  <2>1. x[1] = y[1]
    BY <1>5, <1>6
  <2>2. b[x[1]][x[2] - quota[x[1]]] = b[x[1]][y[2] - quota[x[1]]]
    BY <1>5, <1>6, <2>1
  <2>3. /\ x[1] \in Partition /\ x[2] \in Int /\ y[2] \in Int
        /\ x[2] - quota[x[1]] \in 1 .. n(x[1]) /\ y[2] - quota[x[1]] \in 1 .. n(x[1])
        /\ x = <<x[1], x[2]>> /\ y = <<y[1], y[2]>> /\ quota[x[1]] \in Nat
    BY <1>4, <2>1
  <2>4. x[2] - quota[x[1]] = y[2] - quota[x[1]]
    BY <1>2, <2>2, <2>3
  <2>5. x[2] = y[2]
    BY <2>3, <2>4
  <2>6. QED
    BY <2>1, <2>3, <2>5
<1>7. f \in Injection(Lent, U)
  <2>1. f \in [Lent -> U] /\ DOMAIN f = Lent
    BY <1>5
  <2> HIDE DEF f
  <2>2. QED
    BY <1>6, <2>1 DEF Injection, IsInjective
<1> HIDE DEF f
<1>8. IsFiniteSet(U) /\ Cardinality(U) \in Nat
  BY CallSets
<1>9. /\ Cardinality(Lent) <= Cardinality(U) /\ Cardinality(Lent) \in Nat
      /\ Cardinality(Lent) = Cardinality(U) => f \in Surjection(Lent, U)
  BY <1>7, <1>8, FS_Injection, FS_CardinalityType
<1>10. /\ Cardinality(U) <= Cardinality(U \union Bursting)
       /\ Cardinality(U \union Bursting) \in Nat
  <2>1. U \union Bursting \in SUBSET Call /\ U \in SUBSET (U \union Bursting)
    BY PartsOccupied
  <2>2. QED
    BY <2>1, CallSets
<1>11. MostBursts \in Nat \ {0} /\ Cardinality(U \union Bursting) <= MostBursts
  BY PartitionAssumption DEF MostBursts, Ledger
<1>12. CASE Cardinality(U \union Bursting) # MostBursts
  BY <1>9, <1>10, <1>11, <1>12, <1>8
<1>13. CASE Cardinality(U \union Bursting) = MostBursts
  <2>1. CASE Occupied = {}
    <3>1. Cardinality(U) = 0
      BY <2>1, FS_EmptySet DEF Ledger
    <3>2. QED
      BY <1>9, <1>11, <3>1
  <2>2. CASE Occupied # {}
    <3>1. PICK p \in Partition : /\ In(p) # {}
                                 /\ Cardinality(InPartition(p) \ U) < quota[p]
      BY <1>13, <2>2 DEF Ledger, In
    <3>2. n(p) \in Nat /\ busy[p] - quota[p] < n(p) /\ quota[p] \in Nat /\ busy[p] \in Nat
      BY <1>1, <3>1
    <3>3. n(p) # 0
      <4>1. IsFiniteSet(In(p))
        BY <1>8, FS_Intersection DEF In
      <4>2. QED
        BY <3>1, <4>1, FS_EmptySet DEF n
    <3>4. b[p][n(p)] \in In(p) /\ n(p) \in 1 .. n(p)
      BY <1>2, <3>2, <3>3
    <3>5. b[p][n(p)] \in U /\ part[b[p][n(p)]] = p
      BY <1>3, <3>4
    <3>6. ASSUME NEW x \in Lent, f[x] = b[p][n(p)] PROVE FALSE
      <4>1. x[1] = p
        BY <1>5, <3>5, <3>6
      <4>2. /\ x[2] - quota[p] \in 1 .. n(p) /\ x[2] <= busy[p] /\ x[2] \in Int
            /\ b[p][x[2] - quota[p]] = b[p][n(p)]
        BY <1>4, <1>5, <3>6, <4>1
      <4>3. x[2] - quota[p] = n(p)
        BY <1>2, <3>4, <4>2
      <4>4. QED
        BY <3>2, <4>2, <4>3
    <3>7. f \notin Surjection(Lent, U)
      BY <3>5, <3>6 DEF Surjection
    <3>8. QED
      BY <1>8, <1>9, <1>10, <1>11, <3>7
  <2>3. QED
    BY <2>1, <2>2
<1>14. QED
  BY <1>12, <1>13

\* The ledger holds throughout.
LEMMA LendInvariance == Spec => []LendInv
<1>1. Init => LendInv
  <2> SUFFICES ASSUME Init PROVE LendInv
    OBVIOUS
  <2>1. Running = {} /\ building # Built
    BY PartitionIsInterval DEF Init, Running, Built
  <2>2. Cardinality(Running) <= Threads
    BY <2>1, FS_EmptySet, PartitionAssumption
  <2>3. QED
    BY <2>1, <2>2 DEF LendInv, Init, Current, Untouched
<1>2. IndInv /\ IndInv' /\ LendInv /\ [Next]_vars => LendInv'
  <2>1. ASSUME IndInv, IndInv', LendInv, Next PROVE LendInv'
    <3>1. Cardinality(Running') <= Threads
      BY <2>1, ThreadsStep DEF Next
    <3>2. QED
      BY <2>1, <3>1, CurrentStep, LedgerStep DEF LendInv
  <2>2. ASSUME LendInv, UNCHANGED vars PROVE LendInv'
    BY <2>2 DEF vars, cap, counters, LendInv, Running, Current, Untouched,
       Ledger, Occupied, Bursting, InPartition
  <2>3. QED
    BY <2>1, <2>2
<1>3. QED
  BY <1>1, <1>2, Invariance, PTL DEF Spec

\* The transient over-cap is bounded, for any number of calls, threads and
\* partitions and any shares: until the cap is first changed the slots lent
\* beyond the quotas are fewer than fit below the cap plus one for each thread.
THEOREM OverCapLimited == Spec => []OverCapBounded
<1>1. IndInv /\ LendInv => OverCapBounded
  <2> SUFFICES ASSUME IndInv, LendInv, Untouched
               PROVE  Cardinality(Lent) < MostBursts
    BY DEF OverCapBounded, Untouched, MostBursts
  <2>1. PICK U \in SUBSET Call : Ledger(U)
    BY DEF LendInv
  <2>2. \A p \in Partition : quota[p] \in Nat
    BY DEF IndInv, TypeOK
  <2>3. QED
    BY <2>1, <2>2, LentBounded DEF Untouched
<1>2. QED
  BY <1>1, Invariance, LendInvariance, PTL
=============================================================================
