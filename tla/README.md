# limen: a TLA+ verification project

limen is a C++ library that limits how many requests a server works on at a time.  A *limiter*
admits or refuses a request and hands out a slot; a *limit* publishes the cap the limiter compares
its in-flight count with, and may adapt it from the round-trip times the completed slots report.
The library is concurrent throughout: the counters are single atomic words, several of them are
changed one after the other by one operation, and the values a thread bases a decision on were read
some steps earlier.  That is what this project is about.

Paths below are relative to the repository (`src/simple_limiter.cc`, `include/limen/limiter.h`,
`design/architecture.md`).

## 1. Inventory

| component | state | operations | hard behaviour | correct when |
|---|---|---|---|---|
| `Limiter`, `SlotGuard` (`limiter.h`) | per guard: limiter pointer, completed flag, bypass flag | `TryAcquire`, `OnSuccess`/`OnIgnore`/`OnDropped`, destructor, move construction and assignment | long sequences of moves and double completions | each slot is released exactly once |
| `AbstractLimiter` | `inflight_`, `outcome_counts_[5]` | `DoTryAcquire` (bypass, counting), `OnSlotComplete` | separate words changed one after the other | each call counted once; counter never negative |
| `SimpleLimiter` | (the base class's) | `DoAcquire`: a compare-and-swap loop | two racers for the last slot; a cap that moves between the test and the swap | never more slots than the cap; every decision justified by values the call overlapped |
| `AbstractLimit`, `SettableLimit`, `FixedLimit` | `limit_`, listeners, `mu_` | `SetLimit`, `OnSample`, `NotifyOnChange` | listeners run under `mu_` | listeners see the changes one at a time |
| `AbstractPartitionedLimiter`, `Partition` | per partition `busy` and `limit`; `delayed_threads_` | resolution, burst-into-idle, partition gate, reject delay, release, recomputation of quotas | three words per call; check-then-act on the global cap; bounded budget of sleepers | counters add up; minimum share; bounded overshoot; quotas of the current cap |
| `BlockingLimiter` | FIFO `queue_` of stack-allocated waiters, `active_slots_` by slot id, `mu_` | `DoTryAcquire` with a deadline, `OnSlotComplete`, `Unblock` | a timeout races a delivery; raw pointers into other stacks; lost wake-ups; a delegate that sleeps under `mu_`; ids that wrap | no slot lost or mixed up, no dangling waiter, FIFO, calls return |
| `LifoBlockingLimiter` | `deque_`, backlog bound | the same, newest first | the same | the same, LIFO, backlog bound |
| `CodelFilter` | the RFC 8289 variables, `mu_` | `ShouldDrop` | wall clock that steps back, `uint32_t` counters that wrap | only standing delay is dropped; episode counters consistent |
| `WindowedLimit`, `AverageSampleWindow` | two slots of five words, active index, due time | `OnSample`: fold, close, flip, report, reset | the boundary reads and resets a slot others still write | one close per window, exact aggregate when undisturbed |
| `PercentileSampleWindow` | array of RTTs and a count | `AddSample`, `TrackedRttNs`, `Reset` | index claimed before the RTT is stored | right percentile; bounded staleness |
| `Gradient2Limit`, `ExpAvgMeasurement` | estimated limit, long-term RTT (doubles) | `Update` | long histories of spikes and recoveries; fractions and clamps | baseline within what was measured; cap falls only on latency and recovers |
| the seven `Builder` classes | their private fields | setters, `Build` | a `Build` that fails half way; a builder that is used again | the object is what was asked for |
| observable instruments of `AbstractLimiter`, `AbstractPartitionedLimiter`, `CodelFilter` | handles, and the SDK's registry of callbacks | registration, removal, callbacks on the collection thread | callbacks during construction and destruction; two locks | callbacks read live members; nobody waits for ever |
| `TracingLimitDecorator`, histograms of `Gradient2Limit`, examples | none of their own | forwarding, output | - | - |

How they interact: a limiter owns or shares a `Limit`; a completed slot reports its RTT to the limit
(`OnSample`), which may change the cap and call the listeners the partitioned limiter registered.
`BlockingLimiter` and `LifoBlockingLimiter` wrap another limiter, which they call outside `mu_` on
the fast path and inside `mu_` when a release hands slots to waiters.  `WindowedLimit` wraps a limit
and calls it once per closed window.  `CodelFilter` stands alone, in front of an application's queue.
Every object is made by its `Builder`.  The thread of the OpenTelemetry SDK calls the observers with
its registry locked; registering and removing an instrument takes the same lock, and the observer of
`CodelFilter` takes `mu_`.

Everything in this code that a test would hardly reach is listed, at its line and with the
properties that watch it, under `hazards` in `PROJECT.json`.

## 2. Modules

| module | models | composed of |
|---|---|---|
| `AdmissionGate` | abstract: what an admit-or-reject limiter promises | - |
| `SimpleLimiter` | `Limiter`, `SlotGuard`, `AbstractLimiter`, `SimpleLimiter`, `AbstractLimit` | implements `AdmissionGate` |
| `SimpleLimiterProofs` | theorems about `SimpleLimiter` | extends `SimpleLimiter` |
| `WaiterHandoff` | `BlockingLimiter` and `LifoBlockingLimiter`, each over a `SimpleLimiter` or an `AbstractPartitionedLimiter` | - |
| `WaiterHandoffProofs` | theorems about `WaiterHandoff` | extends `WaiterHandoff` |
| `AbstractPartitionedLimiter` | the partitioned limiter with its limit and listener | - |
| `AbstractPartitionedLimiterProofs` | theorems about it | extends `AbstractPartitionedLimiter` |
| `CodelFilter` | the drop state machine | - |
| `CodelQueue` | an application's queue that consults it | extends `CodelFilter` |
| `CodelFilterProofs` | theorems about `CodelFilter` | extends `CodelFilter` |
| `WindowedLimit` | `WindowedLimit` over two `AverageSampleWindow`s | - |
| `WindowedLimitProofs` | theorems about `WindowedLimit` | extends `WindowedLimit` |
| `PercentileSampleWindow` | the other sample window | - |
| `PercentileSampleWindowProofs` | theorems about it | extends `PercentileSampleWindow` |
| `Gradient2Limit` | the adaptive algorithm with its baseline | - |
| `Gradient2LimitProofs` | theorems about it | extends `Gradient2Limit` |
| `Builders` | the setters and the `Build` of seven classes, as operators on records | - |
| `LimiterLifecycle` | the use of one builder, construction and destruction of what it builds, metric collection | extends `Builders` |
| `LimiterLifecycleProofs` | theorems about `LimiterLifecycle` | extends `LimiterLifecycle` |
| `MC*` | instances for TLC: symmetry and constant values | extend the module they name |

Definitions keep the source's names: an action is called after the method, or after what the step of
the method does; a variable after the field, without the trailing underscore.  `map` in
`PROJECT.json` names the lines behind every definition.  Definitions whose name ends in
`_<Something>` are deliberately wrong variants of the one that follows them; nothing uses them, they
are what the mutation tests put in its place.

### SimpleLimiter and AdmissionGate

One step is at most one access to a shared word: the load of `inflight_`, the load of the cap with
the comparison that follows, the compare-and-swap (which may fail spuriously), each counter update,
each step of `OnSlotComplete`.  The registers `current` and `cap` may be stale when they are used.
Guards are objects of their own, moved, assigned over, completed and destroyed in any order by any
thread, one thread at a time since the class is not thread-safe.  An adaptive limit is any choice of
the next cap; a `FixedLimit` is the instance in which no cap can be set.

`AdmissionGate` says what that amounts to: a call is admitted or refused in one step.  The cap is
not part of the counter's atomic word, so the gate admits under *any* cap that was in force during
the call, and refuses on a load and a cap the call overlapped, not necessarily at one moment.  It
does promise that an admission is based on the load of that very moment.

### WaiterHandoff

The two classes run the same steps, so one module models both; `config`, chosen initially, says
which class a behaviour is about (where a waiter parks, whether there is a backlog) and which
delegate it wraps.  Steps are the critical sections of `mu_` and the delegate calls between them;
`Unblock` holds `mu_` over several steps, because the delegate and the fast paths of other callers
move meanwhile.  The wait ends by notification or, at any moment, by the deadline; the thread then
needs `mu_` to look into its own waiter.

The delegate decides in one step.  For a `SimpleLimiter` that is what `SimpleLimiter` was shown to
implement for a cap that stands still during the call; for a partitioned one it leaves out the
transient states that `AbstractPartitionedLimiter` explores.  A refusal by a partitioned delegate
sleeps when the partition has a reject delay and the budget of sleepers lasts, and that happens
with `mu_` held when `Unblock` made the call.  The delegate's counters, `inflight` and `busy`, are
variables of their own, moved by `Grant` and `GiveBack`; that they agree with the slots the blocking
limiter owns is what `NoSlotLost` is about.

A slot id is drawn by a `fetch_add` outside `mu_` and used under it in a later step; the counter
wraps at `IdMod`, so that a guard may be kept for a whole turn.  `emplace` then leaves the old entry
and destroys the new inner slot.  `inner` and `active` carry, instead of the inner guard, the call it
was granted to.  The variables `earlier`, `missed`, `drawn` and `lapped` are history, read by
properties only.

### AbstractPartitionedLimiter

Again one shared word per step: `inflight_` and the cap are loaded in either order (the operands of
one comparison), `busy` is raised before `inflight_` and lowered after it, quotas are stored one by
one.  A call is followed from `DoAcquire` to the end of `OnSlotComplete` and occupies one of
`Threads` threads except while it merely holds a slot.  The constructor's two steps, computing the
quotas and registering the listener, are steps of the model, and the application may change the cap
between them.  Shares are integers over a power of two, so that the code's product of doubles is
exact; `ceil` and the minimum of one are the code's.

### CodelFilter, CodelQueue

`ShouldDrop` runs under `mu_`: one consultation, one step, with one action for each of its outcomes.
Times are ticks.  `drop_next_` is kept rounded up to a tick, which does not change how it compares
with the clock; `interval / sqrt(count)` then adds one of the two whole numbers next to it, and the
model takes either.  The counters wrap at `CountMod` and a count of zero gives an infinite
`drop_next_`.  The clock steps back as the wall clock may.

### WindowedLimit, PercentileSampleWindow

Each atomic field of a sample window is read, folded and reset in a step of its own; the loops that
keep a running minimum or maximum act as one step, since all they ever do is to lower or raise the
word.  Samples arrive in any order of their end times, because a thread may be delayed before it
calls.  `PercentileSampleWindow` models one window with its writers and the boundary thread that
reads and resets it; the flip between two windows is in `WindowedLimit`.

### Gradient2Limit

`OnSample` holds `mu_` around `Update` and the store of the cap: one sample, one step, with one
action for each way out of `Update`.  `estimated_limit_` and the baseline are counted in units of
`1/Scale`; each formula is evaluated exactly as a fraction and rounded to either neighbouring unit,
so that no property rests on the way a rounding goes.  Where the exact result is a whole number of
units the model does not round, while a double may be off by its last bit.  The initial limit may
lie outside the bounds, which the builder does not check.

### Builders, LimiterLifecycle

`Builders` has for each class a record of the builder's fields, the setter calls, the conditions of
`Build`, the fields it moves from and the `Params` it passes on.  What matters of an argument is
kept: whether a pointer, a function or a name is empty, where a number lies with respect to the
bounds checked, and which duration is meant.

`LimiterLifecycle` runs one builder through any sequence of calls, failing and succeeding Builds
included, after the calls without which nothing could be built.  An object is constructed and
destroyed by a script, one step for the members of a class, for the change of the virtual table, and
for each instrument.  The collection thread locks the registry, visits the registered instruments in
any order, each visit one step long enough for others to interleave, and unlocks it.  The lock
discipline of the registry (callbacks, `AddCallback` and the removal by an instrument's destructor
exclude each other) is the OpenTelemetry C++ SDK's and external.

## 3. Runs

Twelve runs; the ones marked *violation* check a statement of the documentation or a comment that
the code does not keep (section 5).

| run | instance | checks |
|---|---|---|
| `simple_settable` | 3 threads, 2 guards, 3 calls, cap 1 that may be set to 0 and adapt to 1 | `TypeOK`, `InflightIsReserved`, `EveryCallCountedOnce`, `CapCeiling`, `ImplementsGate` |
| `blocking_live` | both classes, both delegates; 3 callers in 2 partitions, one with a reject delay; cap 1, then also 0 or 2; backlog 2; 2 slot ids | `TypeOK`, `NoSlotLost`, `OwnSlotCompleted`, `NoDanglingWaiter`, `ReleaseWakesParked`, `ServedInOrder`, `DeliveredSlotIsReturned`, `EveryCallReturns` |
| `blocking_lost_wakeup` (violation) | 2 callers, cap 1 | `BlockedOnlyWhenFull` |
| `codel_safety` | target 1, interval 2, counters modulo 4, 42 ticks, 6 drops | `TypeOK`, `EpisodeAccounting`, `DropsOnlyStandingDelay` |
| `codel_bursts` (violation) | interval 3, queue of 2, 12 ticks | `BurstsAreSpared` |
| `partitioned_races` | 2 threads, 5 calls, a quarter and a half of a cap of 2 that may be set to 0 or 3 and adapt to 2, and "unknown"; one delayed partition | `TypeOK`, `SlotsAddUp`, `DelayBudget`, `QuotasFollowCap`, `OverCapBounded`, `MinimumShare`, `BurstIntoIdle` |
| `partitioned_over_cap` (violation) | 1 thread, 3 calls, a quarter and a half of a cap of 2 | `ConfinedByGlobalCap` |
| `windowed_mixed` | 2 threads, 3 samples out of two kinds and noise, 3 end times | `TypeOK`, `NoSampleCountedTwice`, `ResetsInactiveSlot`, `ReportIsAggregate`, `OncePerWindow` |
| `windowed_torn_sample` (violation) | 2 threads, equal samples | `MeanOfWholeSamples` |
| `percentile_races` | 3 writers, 5 samples, an array of 3, the median | `TypeOK`, `PercentileOfWindow`, `StaleEntriesBounded` |
| `gradient2_adapts` | initial limit 1, 5 or 12 with bounds 2 and 9; RTTs 0, 1 and 8; quarters | `TypeOK`, `BaselineWithinMeasured`, `ShrinksOnlyOnLatency`, `ProbeKeepsFour`, `SettledServerReachesMax` |
| `lifecycle_reuse` | each of 7 classes; the required calls and 4 more, successful Builds included, then a last Build | `TypeOK`, `BuiltAsAsked`, `ObserversReadLiveMembers`, `LifetimeProgresses` |

Why these bounds are enough.

- *Simple.* Two guards and a cap of one give a racer for the last slot, a guard to move into and one
  to assign over; three threads let a third one move the counter or the cap while two race.  Larger
  instances are covered by the proofs.
- *Blocking.* With the cap at zero all three callers park; with the cap at two two of them are in
  `Unblock`, or hold a slot, while the third parks or times out.  Two of the callers share the
  delayed partition, so that one can be refused in `Unblock`, with `mu_` held, while the other waits
  for `mu_`; the third is of another partition and may stand before or behind them.  With two slot
  ids a guard is lapped as soon as two more are drawn.  There is no bound on the number of calls or
  releases: the state space is finite as it is.
- *CoDel.* The counters wrap after four drops and a behaviour has up to six, so that the wrap, the
  infinite `drop_next_` and a resumed episode happen.  `MaxTime` is 21 intervals, so that a new
  episode may begin within the sixteen intervals that resume the old one, and after them.
- *Partitioned.* The quotas of a cap of 2 are one each, so that five calls fill all three
  partitions and add borrowed slots; two threads make two refused calls compete for the one place
  in the delay budget, or a call race a change of the cap.  Caps of 0, 2 and 3 give different
  quotas, so that a mixture would show.
- *Windowed.* Three samples with ends 1, 3 and 5 close three windows, so that a slot is used again
  after its reset; two samples in one window have a minimum, a maximum and a mean that differ.
- *Percentile.* Five samples overrun an array of three, and fill it again after a reset.
- *Gradient2.* An RTT of 8 on a baseline of 1 makes the gradient hit its lower clamp and the way
  back takes the drift correction; nine is far enough above four for the estimate to fall several
  times.  No bound cuts a behaviour off: every sequence of samples is explored.
- *Lifecycle.* Four calls are enough for a reject delay that names an undeclared partition, a failed
  Build, the declaration with a smaller share for the other, another delay and a last Build; or for
  a `MeterProvider`, a Build, another limit and a second Build without instruments.  Failed Builds
  are not counted.

Deadlock is checked except where a bound stops the behaviour: calls (`simple_settable`), samples
(`windowed_*`, not `percentile_races`, whose boundary thread never stops), calls on the builder
(`lifecycle_reuse`), and the clock of `codel_bursts`.

*Symmetry* (threads, guards, calls, writers) is used only in runs without liveness properties.

### Fairness

The blocking limiters have liveness properties under `FairSpec`: weak fairness of the steps a
running thread takes by itself (the wait ends by notification or by its deadline, a reject delay
ends, `OnSlotComplete` and `Unblock` go on), and strong fairness of the steps that need `mu_`,
because an `absl::Mutex` eventually serves a waiting thread while others take and release it.  Nothing
obliges anybody to start a call or to complete a slot: `EveryCallReturns` holds through the deadline alone.

`Gradient2Limit` assumes weak fairness of `Next`: samples keep arriving, as they do for a server
with traffic.  What the samples say is the property's own premise.

`LimiterLifecycle` assumes that a constructor or destructor, a callback and a collection under way
go on, that a caller of `CodelFilter` gives `mu_` back, and that both locks are granted to who waits
for them while others take and release them.  Nobody has to begin a collection.

### What the properties say

- `InflightIsReserved` / `NoSlotLost` / `SlotsAddUp`: the counters equal the number of slots that
  somebody owns, at every instant between the individual updates.
- `EveryCallCountedOnce`: the five outcome counters partition the calls.
- `ImplementsGate`: each admission and each refusal is justified, see above.
- `OwnSlotCompleted`: a completion finds the inner slot of its own call, unless its guard was kept
  while the id counter made a full turn.  `NoSlotLost` holds even then.
- `NoDanglingWaiter`: while the list or `Unblock` holds a pointer to a waiter, its thread is still
  inside `DoTryAcquire`.
- `ReleaseWakesParked`: a waiter that was parked when a slot was given back, with no waiter of
  another partition before it, does not sit there with room in the delegate and nobody on the way to
  it, until something else makes room: a changed cap, or a slot dropped because its id was taken.
- `DeliveredSlotIsReturned`: a slot put into a waiter reaches the caller though its deadline passed.
- `ServedInOrder`: first in, first out, or last in, first out, survives timeouts from the middle.
- `EveryCallReturns`: also with a delegate that sleeps under `mu_`; the sleeps end and nobody in a
  sleep waits for anybody.
- `DropsOnlyStandingDelay`: a dropped item and all consultations for an interval before it were
  above target.  `EpisodeAccounting`: the count that decides how fast a resumed episode drops is the
  one the last episode earned, also across the wrap.
- `OverCapBounded`: with a fixed cap, the partitions together exceed their quotas by less than the
  cap minus one plus one admission per thread.  `MinimumShare`, `BurstIntoIdle`: a refusal means the
  partition was at its quota, and the cap exhausted, at some moment of the call.
- `QuotasFollowCap`: outside `mu_` the quotas are those of one cap, the one in force, unless it was
  last changed during construction.
- `ReportIsAggregate`: two threads may fill a window in any interleaving; if nobody has ever folded
  a sample while a window was being closed, it reports exactly its samples.
- `PercentileOfWindow`, `StaleEntriesBounded`: without a straddling store the tracked RTT is the
  nearest-rank percentile; every straddling store spoils at most one entry.
- `BaselineWithinMeasured`, `ShrinksOnlyOnLatency`: no history of spikes and drift corrections takes
  the baseline below what the server really did, and so none makes its best latency look like
  overload.  `ProbeKeepsFour`: the additive term keeps an estimate of four or more from falling
  below four, whatever `MinLimit` is.  `SettledServerReachesMax`: a server that fills its cap at any
  steady latency is not left at a fraction where it looks idle.
- `BuiltAsAsked`: computed from the log of calls alone, field by field, for whatever order of
  setters, failed Builds and rebuilds; what a Build has moved out is at its default again.
- `ObserversReadLiveMembers`: no callback reads a member before its construction or after its
  destruction, but for the partitions that `OnObserveInflight` reads (section 5).
- `LifetimeProgresses`: constructors and destructors end though they wait for collections, which
  wait for `mu_`.

## 4. Proofs

The theorems hold for every value of the constants that the named assumption of the module allows:
any finite sets of threads, guards, calls and writers, any caps, shares, windows and bounds.  A
module's assumption is what `Build` insists on (`ValidConfiguration`, where the module has one),
finiteness of the sets of actors, and that numbers are numbers; `Gradient2Assumption` also takes the
two fractions to be what the builder's comments ask for, since the builder does not check them, and
every probe to be a whole number of slots.

| run property | theorem | | run property | theorem |
|---|---|---|---|---|
| **SimpleLimiter** |  | | **WaiterHandoff** |  |
| `TypeOK` | `TypeCorrect` | | `TypeOK` | `TypeCorrect` |
| `InflightIsReserved` | `Conservation` | | `NoSlotLost` | `SlotsConserved` |
| `CapCeiling` | `CapNeverExceeded` | | `OwnSlotCompleted` | `OwnSlotFound` |
| `EveryCallCountedOnce` | `OutcomesComplete` | | `NoDanglingWaiter` | `NoDangling` |
| `ImplementsGate` | `Refinement` | | `ReleaseWakesParked` | `ReleaseWakes` |
| **AbstractPartitionedLimiter** |  | | `ServedInOrder` | `InOrder` |
| `TypeOK` | `TypeCorrect` | | **WindowedLimit** |  |
| `SlotsAddUp` | `CountersExact` | | `TypeOK` | `TypeCorrect` |
| `DelayBudget` | `DelayBudgetStrict` | | `ResetsInactiveSlot` | `InactiveReset` |
| `QuotasFollowCap` | `QuotasConsistent` | | `NoSampleCountedTwice` | `CountedOnce` |
| `OverCapBounded` | `OverCapLimited` | | `ReportIsAggregate` | `ReportsAggregate` |
| `MinimumShare` | `MinimumShareKept` | | `OncePerWindow` | `BoundaryOnce` |
| `BurstIntoIdle` | `BurstsIntoIdle` | | **PercentileSampleWindow** |  |
| **CodelFilter** |  | | `TypeOK` | `TypeCorrect` |
| `TypeOK` | `TypeCorrect` | | `StaleEntriesBounded` | `StaleBounded` |
| `EpisodeAccounting` | `EpisodesCounted` | | `PercentileOfWindow` | `PercentileExact` |
| `DropsOnlyStandingDelay` | `StandingDelay` | | **Gradient2Limit** |  |
| **LimiterLifecycle** |  | | `TypeOK` | `TypeCorrect` |
| `TypeOK` | `TypeCorrect` | | `BaselineWithinMeasured` | `BaselineMeasured` |
| `ObserversReadLiveMembers` | `ObserversSafe` | | `ShrinksOnlyOnLatency` | `ShrinkNeedsLatency` |
| `BuiltAsAsked` | `BuildsAsAsked` | | `ProbeKeepsFour` | `ProbeFloor` |

### SimpleLimiterProofs (`LimiterAssumption`)

`Invariance` proves the inductive invariant `IndInv`, the conjunction of

- `TypeOK`;
- `GuardDiscipline`: which guards a thread works on and what they look like meanwhile.  Without it a
  completion could be under way for a guard that somebody moves, and `fetch_sub` would not
  correspond to a reserved slot;
- `Registers`: the values a call has loaded are among the ones it witnessed, and past the test
  `current < cap` held of them.  The refinement and `CapCeiling` need it;
- `InflightIsReserved` itself: it makes `inflight` positive when somebody releases, which type
  correctness needs.

`InflightStep`, the longest lemma, shows for each action that the set of reserving guards and the
counter change together; `Transfer`, `RemoveReserved` and `ReleaseIsReserved` are the cardinality
facts it uses (a move hands a reservation from one guard to another, a release removes one).
`GateStep` maps each step to a step of the gate or to a stutter.  `OutcomesStep` does for the
outcome counters what `InflightStep` does for `inflight`: a step either leaves the undecided calls,
the uncounted guards and the counters alone, or moves one unit from one to the next.

### AbstractPartitionedLimiterProofs (`PartitionAssumption`)

`IndInv` adds to the four invariants of the run

- `ListenerHoldsLock`: `mu_` is held across steps by the call that runs the listener only, which has
  stored every quota below its place for the cap in force.  Two changes of the cap therefore do not
  mix their stores;
- `Construction`: no call is under way before the constructor returns, and what it has stored are
  the quotas of the initial cap;
- `ShortRegisters`, `RoomyRegisters`: what a call has loaded does not contradict what held
  throughout the call.  These carry the two action properties over the steps between a load and the
  decision it leads to.

`NoUnderflow` is where the counting pays off: whoever executes a `fetch_sub` is in the count.

`OverCapLimited` needs `LendInv` as well.  Which calls burst is not in the state; `Ledger` says that
there is a set `U` of calls counted in a partition such that the others of each partition are within
its quota, and `U` with the calls that have found the load below the cap has at most
`InitialLimit - 1 + Threads` members.  It grows by a call that finds the load below the cap, when
fewer calls than the cap hold a slot and every other call of `U` occupies a thread
(`LoadKeepsLedger`); a burst moves that call into `U`, a release takes its call out.  Where the bound
is reached, some partition with a call in `U` is not filled by the others, since the gate counts the
calls of `U` too (`SwapKeepsLedger`); that partition has fewer slots beyond its quota than calls in
`U`, and the excess stays below the bound.  `Current` says that until the cap changes what a call has
loaded of caps and quotas is still so.

### WaiterHandoffProofs (`HandoffAssumption`)

`HandoffInv` adds to the run's invariants

- `Lock`: `mu_` is held across steps exactly in `Unblock`'s walk, so that nobody else changes the
  list or a `WaiterSlot` meanwhile;
- `Waiters`: a waiter is parked, or a slot has been put into its `WaiterSlot`, and never both; the
  notification comes after the slot.  This excludes the delivery to a thread that has left, and the
  slot that nobody collects;
- `Stacks`: the inner slot is on a stack only between two moves;
- `Arrival`: the order of the list is the order of arrival, which an erasure from the middle keeps
  (`Without` relates a list to the same list without one element);
- `Missed`: the waiters a release owes a slot stand before anybody of another partition;
- `Ids`: the counter is at most a full turn ahead of each live guard (`IsAhead` says how far
  without a division), and two guards with one id have been lapped.

`Gains`, `Loses` and `Keeps` say what a step does to the slots owned by the callers of any set of
partitions; `inflight` and each `busy` are instances of it.

### WindowedLimitProofs (`WindowAssumption`)

`WindowInv`: the types of the locals; `Boundary` (`boundary_mu_` is held from the try-lock to the
return, and the window stays due until its end is scheduled); `Readings` (how far the boundary
thread has read, and that the count it read has not gone down); `Accounted` (what the slots count is
not reported yet, except in the one step between a report and the reset of its count);
`BegunOrFolded`.  `Accounted` is why no sample is reported twice although the report and the reset
are separate steps which late writers may come between.

`ReportsAggregate` needs `QuietInv`: as long as no sample was folded while a window was closing, each
field of the active slot is the aggregate of `batch` and of the samples half folded that have
reached that field (`Filled`); the boundary thread has read what the slot holds; and the other slot
is empty, or emptied as far as the reset has come (`Closed`).  Sums are cardinalities of sets of
units, and the least and the greatest RTT are given by what they are, not by how they are computed,
so that a field changes with one lemma on one more sample.

### PercentileSampleWindowProofs (`PercentileAssumption`)

`StaleInv`: `Shape` relates the counts; `OverwrittenBounded` bounds, at any time, the claimed
entries that do not hold their sample and that no outstanding store will set right, together with
the outstanding stores of an earlier window, by the stores that crossed a `Reset`; `MisreadBounded`
bounds the wrong entries already copied, the wrong ones still to be copied and the stores that may
yet spoil one.  Both sums are needed: a store moves a unit from one summand to another.
`SnapshotOfWindow` concludes that without such stores what `TrackedRttNs` sorts is exactly the
window, for any number of writers.

`PercentileExact` adds the sorting.  `Sorted` is defined by what `std::ranges::sort` promises, a
reordering that does not decrease; `OrderExists` shows that there is one, by taking a shortest
sequence without one (`LeastNumber`) and putting its smallest entry before the order of the others
(`OrderMore`).  `OrderRank` counts the entries below the `k`-th and up to it, `SortedRank` makes the
`k`-th entry of the sorted buffer the `k`-th smallest of what was copied, and `PickIsRank` shows that
the clamped index, plus one, is the nearest rank of the property.

### Gradient2LimitProofs (`Gradient2Assumption`)

`GradientInv` is `TypeOK`, `BaselineWithinMeasured` and `SumWithin` (the warm-up's sum is that of
`count_` RTTs, each between the smallest and the largest).  `RoundedBounds` brackets a rounded
fraction by whole numbers, whichever way it was rounded; everything else is monotonicity of the
formulas, stated as lemmas without division.  `ProbeFloor` assumes the default `QueueSizeFn`, as the
property does; `DefaultSqrtQueueSize` is characterised by its square, with no induction.

### CodelFilterProofs (`CodelAssumption`)

`Armed` says that `first_above_time_` is set only when all consultations since some moment were
above target, and is then an interval after that moment; `StandingDelay` follows.  `Fields` is
`TypeOK`, `EpisodeAccounting` and that the drop state is entered with a drop; its arithmetic is that
of the counters' width, with wrap and with the infinite `drop_next_`.

### LimiterLifecycleProofs

`LifeInv` follows the script (`Scripted`): what is registered needs only members that are alive;
what a constructor has still to register needs members that are alive or that it constructs before
(`Constructs`); what a destructor finds registered it removes before it destroys a member that the
callback needs (`Destroys`).  `Collects` adds that a collection has the registry locked, so that no
instrument goes away under it, and who may hold `mu_`.  `ConstructorOrdered` and
`DestructorOrdered` show the two conditions of the scripts as a whole, by joining their parts;
`ConstructsRest` and `DestroysRest` show that each step passes them on to the rest.  `Needs` is
`Reads` without the partitions, the exception `ObserversReadLiveMembers` makes.

`BuildsAsAsked` follows the log instead.  Its invariant `BuildInv` is the property and that for some
entry `b` of the log, the last successful Build, the builder `Tracks` the log: a field holds what the
last call of its setter gave (`FieldTracks`), of the calls after `b` if Build moves the field out and
of all calls if it copies it; there is one spec for each declared name, in the order of the first
declarations, with the last share (`SpecsTrack`); the last pending delay of a name is that of the last
call (`DelaysTrack`); the resolvers are those given since `b`, in order (`ResolversTrack`).  Setters
(`TracksSet`), a Build that fails, though it has filled in defaults (`TracksFailed`), and one that
succeeds (`TracksBuilt`) each keep this, and `BuildAsked` reads off it that the object gets what the
log asks for.  Positions in the log stand for the folds a program would use: nothing is proved by
induction on the log.

### Only model-checked, and why

Liveness (`DeliveredSlotIsReturned`, `EveryCallReturns`, `SettledServerReachesMax`,
`LifetimeProgresses`): the prover has no rule for fairness.  Every invariant and every action property
of a passing run is stated by a theorem.

## 5. Where code and documentation part

Each of these is a run that TLC refutes; `findings` in `PROJECT.json` quotes the lines.

- `blocking_lost_wakeup`: a caller that was refused parks without asking the delegate again under
  `mu_`.  When the last slot is released, and `Unblock` finds an empty queue, in between, the caller
  waits for its whole timeout with the cap free.
- `codel_bursts`: nothing tells the filter that the queue ran empty, so the first slow item of a new
  burst can be dropped at once.
- `partitioned_over_cap`: quotas are rounded up, each at least one, and are granted even when the
  cap is used up by slots lent to others: the sum exceeds the cap without any race.
- `windowed_torn_sample`: a boundary that reads between the two halves of a sample counts it in one
  window and sums it in another; the reported mean is then no mean of RTTs.

The models show more, which follow from the definitions and have no run of their own.  A cap
lowered between the test and the compare-and-swap does not stop the admission (`AdmissionGate`
states it so; `design/architecture.md:591-595` says the precondition is part of the swap).  A raised
cap wakes no waiter, since only `OnSlotComplete` runs `Unblock` (`design/architecture.md:937` lists
"Limit increase wakes the most recent waiter").  A waiter whose deadline has passed is still served
until it gets `mu_` to leave the deque (`design/architecture.md:463-464`).  A cap changed between the
partitioned constructor's two steps reaches neither the first quotas nor the listener; the quotas
stay behind until the next change (`changed` in the module).

About the blocking limiters (`WaiterHandoff`): `Unblock` calls a partitioned delegate with `mu_`
held, and the reject delay is slept there.  A caller whose deadline has passed needs `mu_` to
return, so it blocks beyond its timeout (`include/limen/blocking_limiter.h:82`: "Maximum time a
caller will block waiting for a slot").  `Unblock` stops at the first refusal, so a waiter of a
partition with room stays parked behind one of a full partition.  When a guard is kept for a whole
turn of the id counter, the next guard with that id loses its inner slot at once, without an
`Unblock`, and whichever of the two is completed first completes the older one's slot (`lapped`).

About lifetimes (`LimiterLifecycle`): the in-flight instrument is registered by the base class's
constructor and removed when its members go, while `OnObserveInflight` is virtual.  A collection may
therefore read `partitions_` before it is constructed or after it is destroyed; that is the one
exception `ObserversReadLiveMembers` makes.  `include/limen/abstract_limiter.h:206-209` says the
handles are "Kept alive for the limiter's lifetime so the SDK's collection thread can read the
atomics above".

About builders: a second `Build` of `SimpleLimiter`, `AbstractPartitionedLimiter` or `CodelFilter`
succeeds once a limit and resolvers are set again, and silently lacks the id, bypass predicate,
`MeterProvider`, sleep function or clock of the first; the comment at `src/gradient2_limit.cc:100-102`
names this as what its own builder avoids.

## 6. Not modelled, and why

- `MinimumMeasurement` and `SingleMeasurement`, which no limit of the library uses, and
  configurations of `Gradient2Limit` with the maximum below the minimum or with probes of zero or
  less.  The other modules do not use `Gradient2Limit`: there an adaptive limit is any choice of
  the next cap.
- The rounding of a share that is not exact in binary (100 * 0.07 rounds up to 8 slots).
- A share that is not a number, which passes the builder's range checks, and an empty partition
  name, which is refused like the reserved one.
- The delegate that `WindowedLimit::Builder::Build` takes as an argument: a failed `Build` destroys
  it, a null one is not checked.
- The values the instruments report, and the histograms and views of `Gradient2Limit`: output only.
- Accessors that wait for or read a queue length (`AwaitQueueSize`, `BacklogSize`...), which tests use.
- `TracingLimitDecorator` (forwards and logs) and the example.
- Memory ordering: the steps are those of a sequentially consistent memory.  The code mostly uses
  relaxed operations on single words; orders of two relaxed words that hardware may swap are not
  explored, except where both orders are in the model (the operands of the partitioned admission
  test).
- `AbstractLimiter::DoAcquire`'s unconditional default, which every shipped limiter overrides.

## 7. Plan

Done: `SimpleLimiter` with its abstract gate; the blocking limiters over both delegates, with ids
that wrap; CoDel; the partitioned limiter; the sample windows; `Gradient2Limit`; the builders and
lifetimes; the safety properties of all of them proved.  What could follow:

1. `WindowedLimit` over `Gradient2Limit`, in the place of the adaptive limit that is any choice of
   the next cap, to show which caps a disturbed window can lead to.
2. The orders of two relaxed words that hardware may swap (section 6), as further choices of the
   steps that read or write them.
