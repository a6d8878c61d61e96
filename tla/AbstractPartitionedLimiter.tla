--------------------- MODULE AbstractPartitionedLimiter ---------------------
(***************************************************************************)
(* AbstractPartitionedLimiter over AbstractLimiter: named shares of one    *)
(* cap, burst-into-idle admission, reject delays, and the listener that    *)
(* recomputes the shares when the cap changes.                             *)
(*                                                                         *)
(* As in SimpleLimiter, a step touches one shared atomic word, and a       *)
(* register may be stale when it is used.  A call is followed from         *)
(* DoAcquire to the completion of its slot; it occupies one of the         *)
(* `Threads` threads except while it merely holds the slot.  Bypassed      *)
(* calls and the outcome counters touch none of this state; SimpleLimiter  *)
(* models them.  Shares are integers over ShareBase, a power of two, so    *)
(* that the code's product of doubles is exact.                            *)
(***************************************************************************)
EXTENDS Integers, Sequences, FiniteSets, FiniteSetsExt

CONSTANTS Call,             \* calls that may be under way or hold a slot
          Threads,          \* how many of them run at the same time
          Context,          \* what a resolver looks at
          Resolvers,        \* Resolvers[i][x]: the partition named, or NoMatch
          Share,            \* Share[p]: percent of the declared partition p
          ShareBase,        \* the denominator of Share
          Delayed,          \* partitions with a non-zero reject_delay
          MaxDelayedThreads,
          InitialLimit,
          SettableTo,       \* caps the application may pass to SetLimit
          AdaptsTo          \* caps Update may return besides the current one

NoMatch == 0

\* The synthetic "unknown" partition is appended to the declared ones.
unknown_partition_index == Len(Share) + 1

Partition == 1 .. unknown_partition_index

percent(p) == IF p = unknown_partition_index THEN 0 ELSE Share[p]

\* The declared percentages sum to at most 1.
SharesFit == MapThenSumSet(percent, Partition) <= ShareBase

\* What Builder::Build insists on.
ValidConfiguration ==
  /\ Share \in Seq(0 .. ShareBase) /\ Len(Share) >= 1
  /\ SharesFit
  /\ Resolvers \in Seq([Context -> Partition \union {NoMatch}])
  /\ Len(Resolvers) >= 1
  /\ Delayed \subseteq 1 .. Len(Share)
  /\ MaxDelayedThreads \in Nat

ASSUME PartitionAssumption ==
  /\ ValidConfiguration
  /\ IsFiniteSet(Call) /\ "none" \notin Call
  /\ Threads \in Nat \ {0}
  /\ ShareBase \in Nat \ {0}
  /\ InitialLimit \in Nat
  /\ SettableTo \subseteq Nat
  /\ AdaptsTo \subseteq Nat

VARIABLES
  limit,     \* AbstractLimit::limit_
  mu,        \* who holds AbstractLimit::mu_ across steps, or None
  inflight,  \* AbstractLimiter::inflight_
  busy,      \* busy[p]: Partition::busy
  quota,     \* quota[p]: Partition::limit
  delayed,   \* delayed_threads_
  building,  \* where the constructor is: a partition, Registering or Built
  pc,        \* where a call is
  part,      \* the partition a call resolved to; the one a listener is at
  reg,       \* the word a call has loaded; the cap a listener was given
  short,     \* history: calls whose partition has been below its quota ever
             \*          since they resolved it, the cap being the same
  roomy,     \* history: calls ever since whose resolution inflight < limit,
             \*          the cap being the same
  changed    \* history: was the cap ever changed ("no"), and was the listener
             \*          there the last time ("heard", "unheard")?

counters == <<inflight, busy>>
cap == <<limit, mu, quota>>
vars == <<cap, counters, delayed, building, pc, part, reg, short, roomy,
          changed>>

None == "none"

\* After the quotas the constructor registers the listener and returns.
Registering == unknown_partition_index + 1

Built == unknown_partition_index + 2

Goto(c, label) == pc' = [pc EXCEPT ![c] = label]

Load(c, value) == reg' = [reg EXCEPT ![c] = value]

\* The call is over; its registers are gone.
Return(c) == /\ Goto(c, "idle")
             /\ part' = [part EXCEPT ![c] = unknown_partition_index]
             /\ Load(c, 0)

\* Calls that occupy a thread.
Running == {c \in Call : pc[c] \notin {"idle", "held"}}

ThreadFree == Cardinality(Running) < Threads

\* max(1, ceil(global_limit * percent))
ComputePartitionLimit(globalLimit, p) ==
  Max({1, (globalLimit * percent(p) + ShareBase - 1) \div ShareBase})

\* The first resolver that names a configured partition wins.
ResolvePartition(x) ==
  LET matches == {i \in DOMAIN Resolvers : Resolvers[i][x] # NoMatch}
  IN  IF matches = {} THEN unknown_partition_index
      ELSE Resolvers[Min(matches)][x]

Init ==
  /\ limit = InitialLimit
  /\ mu = None
  /\ inflight = 0
  /\ busy = [p \in Partition |-> 0]
  /\ quota = [p \in Partition |-> 0]
  /\ delayed = 0
  /\ building = 1
  /\ pc = [c \in Call |-> "idle"]
  /\ part = [c \in Call |-> unknown_partition_index]
  /\ reg = [c \in Call |-> 0]
  /\ short = {}
  /\ roomy = {}
  /\ changed = "no"

----------------------------------------------------------------------------
(* Construction.                                                           *)

\* RecomputePartitionLimits(GetLimit()), one store per partition, without mu_.
BuildQuota ==
  /\ building \in Partition
  /\ quota' = [quota EXCEPT
                 ![building] = ComputePartitionLimit(InitialLimit, building)]
  /\ building' = building + 1
  /\ UNCHANGED <<limit, mu, counters, delayed, pc, part, reg>>

\* NotifyOnChange takes mu_ to add the listener.
RegisterListener ==
  /\ building = Registering
  /\ mu = None
  /\ building' = Built
  /\ UNCHANGED <<cap, counters, delayed, pc, part, reg>>

----------------------------------------------------------------------------
(* DoAcquire.                                                              *)

Begin(c, x) ==
  /\ building = Built
  /\ pc[c] = "idle"
  /\ ThreadFree
  /\ part' = [part EXCEPT ![c] = ResolvePartition(x)]
  /\ Goto(c, "global")
  /\ UNCHANGED <<cap, counters, delayed, building, reg>>

\* The operands of inflight_.load() >= GetLimit() are read in either order.
LoadGlobal(c) ==
  /\ pc[c] = "global"
  /\ \/ Load(c, inflight) /\ Goto(c, "against_limit")
     \/ Load(c, limit) /\ Goto(c, "against_inflight")
  /\ UNCHANGED <<cap, counters, delayed, building, part>>

GlobalFull_OneShort(c) == \/ pc[c] = "against_limit" /\ reg[c] >= limit - 1
                          \/ pc[c] = "against_inflight" /\ inflight >= reg[c] - 1

GlobalFull(c) == \/ pc[c] = "against_limit" /\ reg[c] >= limit
                 \/ pc[c] = "against_inflight" /\ inflight >= reg[c]

TestGlobal(c) ==
  /\ pc[c] \in {"against_limit", "against_inflight"}
  /\ Load(c, 0)
  /\ Goto(c, IF GlobalFull(c) THEN "load_busy" ELSE "burst")
  /\ UNCHANGED <<cap, counters, delayed, building, part>>

BurstAdds_Nothing == 0

\* fetch_add(1)
BurstAdds == 1

\* There is idle capacity: the partition's own quota does not matter.
Burst(c) ==
  /\ pc[c] = "burst"
  /\ busy' = [busy EXCEPT ![part[c]] = @ + BurstAdds]
  /\ Goto(c, "count")
  /\ UNCHANGED <<cap, inflight, delayed, building, part, reg>>

LoadBusy(c) ==
  /\ pc[c] = "load_busy"
  /\ Load(c, busy[part[c]])
  /\ Goto(c, "gate")
  /\ UNCHANGED <<cap, counters, delayed, building, part>>

AtQuota_OffByOne(c) == reg[c] > quota[part[c]]

AtQuota_TooEarly(c) == reg[c] >= quota[part[c]] - 1

\* current >= part_cap
AtQuota(c) == reg[c] >= quota[part[c]]

GateRefuses(c) ==
  /\ pc[c] = "gate"
  /\ AtQuota(c)
  /\ \/ part[c] \in Delayed /\ Goto(c, "load_delayed") /\ UNCHANGED <<part, reg>>
     \/ part[c] \notin Delayed /\ Return(c)
  /\ UNCHANGED <<cap, counters, delayed, building>>

GatePasses(c) ==
  /\ pc[c] = "gate"
  /\ ~AtQuota(c)
  /\ Goto(c, "swap_busy")
  /\ UNCHANGED <<cap, counters, delayed, building, part, reg>>

SwapBusy(c) ==
  /\ pc[c] = "swap_busy"
  /\ busy[part[c]] = reg[c]
  /\ busy' = [busy EXCEPT ![part[c]] = reg[c] + 1]
  /\ Load(c, 0)
  /\ Goto(c, "count")
  /\ UNCHANGED <<cap, inflight, delayed, building, part>>

\* A weak compare-exchange may also fail without a reason.
SwapBusyFails(c) ==
  /\ pc[c] = "swap_busy"
  /\ Load(c, busy[part[c]])
  /\ Goto(c, "gate")
  /\ UNCHANGED <<cap, counters, delayed, building, part>>

CountInflight(c) ==
  /\ pc[c] = "count"
  /\ inflight' = inflight + 1
  /\ Goto(c, "held")
  /\ UNCHANGED <<cap, busy, delayed, building, part, reg>>

----------------------------------------------------------------------------
(* MaybeBackoffDelay.                                                      *)

LoadDelayed(c) ==
  /\ pc[c] = "load_delayed"
  /\ Load(c, delayed)
  /\ Goto(c, "budget")
  /\ UNCHANGED <<cap, counters, delayed, building, part>>

BudgetExhausted(c) ==
  /\ pc[c] = "budget"
  /\ reg[c] >= MaxDelayedThreads
  /\ Return(c)
  /\ UNCHANGED <<cap, counters, delayed, building>>

DelayedMatches_Blind(c) == delayed >= reg[c]

DelayedMatches(c) == delayed = reg[c]

\* A place in the budget is reserved and the thread sleeps.
ReserveDelay(c) ==
  /\ pc[c] = "budget"
  /\ reg[c] < MaxDelayedThreads
  /\ DelayedMatches(c)
  /\ delayed' = delayed + 1
  /\ Load(c, 0)
  /\ Goto(c, "sleep")
  /\ UNCHANGED <<cap, counters, building, part>>

ReserveDelayFails(c) ==
  /\ pc[c] = "budget"
  /\ reg[c] < MaxDelayedThreads
  /\ delayed # reg[c]
  /\ Load(c, delayed)
  /\ UNCHANGED <<cap, counters, delayed, building, pc, part>>

WakeUp(c) ==
  /\ pc[c] = "sleep"
  /\ delayed' = delayed - 1
  /\ Return(c)
  /\ UNCHANGED <<cap, counters, building>>

----------------------------------------------------------------------------
(* OnSlotComplete, and the cap's changes with the listener they run.       *)

ReleaseInflight(c) ==
  /\ pc[c] = "held"
  /\ ThreadFree
  /\ inflight' = inflight - 1
  /\ Goto(c, "release_partition")
  /\ UNCHANGED <<cap, busy, delayed, building, part, reg>>

ReleasedPartition_ByContext(c) == ResolvePartition(CHOOSE x \in Context : TRUE)

\* The partition index travels in the slot.
ReleasedPartition(c) == part[c]

\* OnReleasePartition; an ignored call then ends, any other brings a sample.
ReleasePartition(c) ==
  /\ pc[c] = "release_partition"
  /\ busy' = [busy EXCEPT ![ReleasedPartition(c)] = @ - 1]
  /\ \/ Return(c)
     \/ Goto(c, "sample") /\ UNCHANGED <<part, reg>>
  /\ UNCHANGED <<cap, inflight, delayed, building>>

LimitUnlocked_Ignored == TRUE

\* absl::MutexLock lock(mu_)
LimitUnlocked == mu = None

\* The part of SetLimitLocked that every caller of it shares: under mu_, store
\* the cap and call the listener, if there is one yet.
ChangeCap(c, n) ==
  /\ LimitUnlocked
  /\ IF n = limit \/ building # Built
     THEN Return(c) /\ UNCHANGED mu
     ELSE /\ mu' = c
          /\ part' = [part EXCEPT ![c] = 1]
          /\ Load(c, n)
          /\ Goto(c, "listener")
  /\ limit' = n
  /\ UNCHANGED <<quota, counters, delayed, building>>

OnSample(c) ==
  /\ pc[c] = "sample"
  /\ \E n \in AdaptsTo \union {limit} : ChangeCap(c, n)

SetLimit(c, n) ==
  /\ pc[c] = "idle"
  /\ ThreadFree
  /\ ChangeCap(c, n)

\* RecomputePartitionLimits, one store at a time; the last one frees mu_.
Listener(c) ==
  /\ pc[c] = "listener"
  /\ quota' = [quota EXCEPT ![part[c]] = ComputePartitionLimit(reg[c], part[c])]
  /\ IF part[c] < unknown_partition_index
     THEN /\ part' = [part EXCEPT ![c] = @ + 1]
          /\ UNCHANGED <<mu, pc, reg>>
     ELSE Return(c) /\ mu' = None
  /\ UNCHANGED <<limit, counters, delayed, building>>

----------------------------------------------------------------------------
DoAcquire(c) ==
  \/ \E x \in Context : Begin(c, x)
  \/ LoadGlobal(c) \/ TestGlobal(c) \/ Burst(c)
  \/ LoadBusy(c) \/ GateRefuses(c) \/ GatePasses(c)
  \/ SwapBusy(c) \/ SwapBusyFails(c) \/ CountInflight(c)

MaybeBackoffDelay(c) ==
  \/ LoadDelayed(c) \/ BudgetExhausted(c)
  \/ ReserveDelay(c) \/ ReserveDelayFails(c) \/ WakeUp(c)

OnSlotComplete(c) == ReleaseInflight(c) \/ ReleasePartition(c) \/ OnSample(c)

Step == \/ BuildQuota
        \/ RegisterListener
        \/ \E c \in Call : \/ DoAcquire(c) \/ MaybeBackoffDelay(c)
                           \/ OnSlotComplete(c) \/ Listener(c)
                           \/ \E n \in SettableTo : SetLimit(c, n)

\* Deciding: resolved, and neither admitted nor refused yet.
Deciding == {"global", "against_limit", "against_inflight", "burst",
             "load_busy", "gate", "swap_busy"}

\* The history variables follow every step.
Watch ==
  LET resolves(c) == pc[c] = "idle" /\ pc'[c] = "global"
      steady == UNCHANGED <<limit, quota>>
  IN  /\ short' = {c \in Call : /\ steady /\ (c \in short \/ resolves(c))
                                /\ pc'[c] \in Deciding
                                /\ busy'[part'[c]] < quota'[part'[c]]}
      /\ roomy' = {c \in Call : /\ steady /\ (c \in roomy \/ resolves(c))
                                /\ pc'[c] \in Deciding
                                /\ inflight' < limit'}
      /\ changed' = IF limit' = limit THEN changed
                    ELSE IF building = Built THEN "heard" ELSE "unheard"

Next == Step /\ Watch

Spec == Init /\ [][Next]_vars

----------------------------------------------------------------------------
(* Properties.                                                             *)

Label == Deciding \union {"idle", "count", "held", "load_delayed", "budget",
                          "sleep", "release_partition", "sample", "listener"}

\* Every variable keeps its type; in particular no counter goes below zero.
TypeOK ==
  /\ limit \in Nat
  /\ mu \in Call \union {None}
  /\ inflight \in Nat
  /\ busy \in [Partition -> Nat]
  /\ quota \in [Partition -> Nat]
  /\ delayed \in Nat
  /\ building \in 1 .. Built
  /\ pc \in [Call -> Label]
  /\ part \in [Call -> Partition]
  /\ reg \in [Call -> Nat]
  /\ short \subseteq Call
  /\ roomy \subseteq Call
  /\ changed \in {"no", "heard", "unheard"}

\* The calls counted in busy of their partition, and in inflight_.
InPartition(p) ==
  {c \in Call : part[c] = p /\ pc[c] \in {"count", "held", "release_partition"}}

InGlobal == {c \in Call : pc[c] = "held"}

\* The counters of the partitions and of the limiter are changed one after the
\* other, by admissions and releases that interleave: each still counts its
\* own calls exactly, and a partition's release never lands on another one.
SlotsAddUp ==
  /\ \A p \in Partition : busy[p] = Cardinality(InPartition(p))
  /\ inflight = Cardinality(InGlobal)

\* "The reservation is strict: at most max_delayed_threads_ threads may be
\* sleeping in this path at any one moment", and every reservation is returned.
DelayBudget ==
  /\ delayed = Cardinality({c \in Call : pc[c] = "sleep"})
  /\ delayed <= MaxDelayedThreads

\* "When the global cap changes, the limiter recomputes every partition's slot
\* count": outside mu_ every quota belongs to the cap in force, and no two
\* changes of the cap leave a mixture of their quotas behind.  The exception
\* is a change that falls between the constructor's first computation and the
\* registration of its listener: the quotas stay behind until the next change.
QuotasFollowCap ==
  building = Built /\ mu = None /\ changed # "unheard" =>
    \A p \in Partition : quota[p] = ComputePartitionLimit(limit, p)

\* The slots of each partition beyond its quota: lent out of idle capacity.
Lent == UNION {{p} \X (quota[p] + 1 .. busy[p]) : p \in Partition}

\* "We accept a transient over-cap under concurrent burst-admissions": until
\* the cap is first changed, all partitions together hold fewer slots beyond their
\* quotas than fit below the cap plus one racing admission for each thread.
OverCapBounded ==
  building = Built /\ changed = "no" /\ InitialLimit > 0 =>
    Cardinality(Lent) < InitialLimit - 1 + Threads

\* "The global cap never being exceeded under concurrent admission": the
\* partitions' quotas share out the global cap and never add to it.
ConfinedByGlobalCap == inflight <= limit

Refused(c) == pc[c] = "gate" /\ pc'[c] \notin {"gate", "swap_busy"}

\* "Protecting each partition's minimum share when the server is saturated":
\* a call during which the cap does not change is refused only if at some
\* moment since it resolved its partition that partition was at its quota.
MinimumShare == [][\A c \in short : ~Refused(c)]_vars

\* "When the global cap has unused capacity, any partition may exceed its
\* quota": a call during which the cap does not change is refused only if at
\* some moment since it resolved its partition the global cap was exhausted.
BurstIntoIdle == [][\A c \in roomy : ~Refused(c)]_vars
=============================================================================
