---------------------------- MODULE CodelFilter ----------------------------
(***************************************************************************)
(* CodelFilter: the RFC 8289 drop state machine.  ShouldDrop runs wholly   *)
(* under mu_, so one consultation is one step, whichever thread makes it.  *)
(*                                                                         *)
(* Time is the wall clock (absl::Now): it usually advances but may be      *)
(* stepped back.  It is counted in ticks, after the UnixEpoch sentinel.    *)
(* drop_next is drop_next_ rounded up to a tick, which leaves both         *)
(* comparisons with the clock as they are; interval/sqrt(count) then adds  *)
(* a whole number of ticks next to it.  The uint32_t counters wrap at      *)
(* CountMod; a count of 0 gives an infinite drop_next_.                    *)
(***************************************************************************)
EXTENDS Integers

CONSTANTS Target,      \* sojourn threshold, in ticks
          Interval,    \* sliding window, in ticks
          CountMod,    \* 2^32, the width of count_ and lastcount_
          Sojourns,    \* now - enqueue_time of the items consulted about
          Advances,    \* by how much the clock may move at once
          MaxTime,     \* bound: the clock stops here
          MaxDrops     \* bound: drops in a behaviour

\* What Builder::Build insists on.
ValidConfiguration == Target \in Nat \ {0} /\ Interval \in Nat \ {0}

ASSUME CodelAssumption ==
  /\ ValidConfiguration
  /\ CountMod \in Nat \ {0, 1}
  /\ Sojourns \subseteq Int
  /\ Advances \subseteq Int
  /\ MaxTime \in Nat
  /\ MaxDrops \in Nat

VARIABLES
  now,                \* what clock_() returns
  first_above_time,   \* when ok-to-drop begins, or Epoch
  drop_next,          \* the next scheduled drop, or Forever
  count,              \* count_
  lastcount,          \* lastcount_
  dropping,           \* dropping_
  drop_count,         \* drop_count_
  sojourn,            \* history: the sojourn time of the last item
  aboveSince,         \* history: first consultation since the last one below
                      \* target, or Epoch
  episode             \* history: drops of the current or last drop episode

state == <<first_above_time, drop_next, count, lastcount, dropping, drop_count>>
history == <<sojourn, aboveSince, episode>>
vars == <<now, state, history>>

Epoch == 0
Forever == -1   \* absl::InfiniteFuture, outside the range of times

Init ==
  /\ now = 1
  /\ first_above_time = Epoch
  /\ drop_next = Epoch
  /\ count = 0
  /\ lastcount = 0
  /\ dropping = FALSE
  /\ drop_count = 0
  /\ sojourn = 0
  /\ aboveSince = Epoch
  /\ episode = 0

\* interval / sqrt(c), rounded down or up to a tick.
Gaps(c) ==
  {g \in 0 .. Interval : /\ g > 0 => (g - 1) * (g - 1) * c < Interval * Interval
                         /\ Interval * Interval < (g + 1) * (g + 1) * c}

\* What t + interval / sqrt(c) may be once it is rounded up, for a t that was.
ControlLaw(t, c) ==
  IF t = Forever \/ c = 0 THEN {Forever} ELSE {t + g : g \in Gaps(c)}

Sojourn_Unclamped(e) == now - e

\* The sojourn of an item enqueued at e, clamped at zero against clock skew.
Sojourn(e) == IF now > e THEN now - e ELSE 0

AboveTarget(e) == Sojourn(e) >= Target

FirstAboveAfter_NoReset(e) ==
  IF AboveTarget(e) /\ first_above_time = Epoch
  THEN now + Interval ELSE first_above_time

\* What OkToDrop leaves in first_above_time_ ...
FirstAboveAfter(e) ==
  IF ~AboveTarget(e) THEN Epoch
  ELSE IF first_above_time = Epoch THEN now + Interval ELSE first_above_time

\* ... and what it returns.
OkToDrop(e) ==
  AboveTarget(e) /\ first_above_time # Epoch /\ now >= first_above_time

DropDue == drop_next # Forever /\ now >= drop_next

\* The previous episode is recent: within 16 intervals of its schedule.
Recent == drop_next = Forever \/ now - drop_next < 16 * Interval

Delta == (count - lastcount) % CountMod

EntryCount == IF Delta > 1 /\ Recent THEN Delta ELSE 1

NewLastCount_Kept(c) == lastcount

\* lastcount_ = count_ on entry to the drop state.
NewLastCount(c) == c

\* Every consultation runs OkToDrop first.
Consult(e) ==
  /\ first_above_time' = FirstAboveAfter(e)
  /\ sojourn' = Sojourn(e)
  /\ aboveSince' = IF ~AboveTarget(e) THEN Epoch
                   ELSE IF aboveSince = Epoch THEN now ELSE aboveSince
  /\ UNCHANGED now

StillOk_Unchecked(e) == TRUE

\* In the drop state an item that is not ok to drop ends the episode.
StillOk(e) == OkToDrop(e)

LeaveDropState(e) ==
  /\ dropping /\ ~StillOk(e)
  /\ Consult(e)
  /\ dropping' = FALSE
  /\ UNCHANGED <<drop_next, count, lastcount, drop_count, episode>>

DropOnSchedule(e) ==
  /\ dropping /\ StillOk(e) /\ DropDue
  /\ drop_count < MaxDrops
  /\ Consult(e)
  /\ count' = (count + 1) % CountMod
  /\ drop_next' \in ControlLaw(drop_next, count')
  /\ drop_count' = drop_count + 1
  /\ episode' = episode + 1
  /\ UNCHANGED <<lastcount, dropping>>

PassUntilNextDrop(e) ==
  /\ dropping /\ StillOk(e) /\ ~DropDue
  /\ Consult(e)
  /\ UNCHANGED <<drop_next, count, lastcount, dropping, drop_count, episode>>

EnterDropState(e) ==
  /\ ~dropping /\ OkToDrop(e)
  /\ drop_count < MaxDrops
  /\ Consult(e)
  /\ dropping' = TRUE
  /\ count' = EntryCount
  /\ drop_next' \in ControlLaw(now, EntryCount)
  /\ lastcount' = NewLastCount(EntryCount)
  /\ drop_count' = drop_count + 1
  /\ episode' = 1

Pass(e) ==
  /\ ~dropping /\ ~OkToDrop(e)
  /\ Consult(e)
  /\ UNCHANGED <<drop_next, count, lastcount, dropping, drop_count, episode>>

ShouldDrop(e) ==
  \/ LeaveDropState(e) \/ DropOnSchedule(e) \/ PassUntilNextDrop(e)
  \/ EnterDropState(e) \/ Pass(e)

\* The wall clock moves; a negative d is a step back, never to the epoch.
Advance(d) ==
  /\ now + d \in 1 .. MaxTime
  /\ now' = now + d
  /\ UNCHANGED <<state, history>>

Next == \/ \E s \in Sojourns : ShouldDrop(now - s)
        \/ \E d \in Advances : Advance(d)

Spec == Init /\ [][Next]_vars

----------------------------------------------------------------------------
(* Properties.                                                             *)

\* Every field keeps its type: sojourns are clamped at zero when the clock
\* steps back, and the counts wrap at their width.
TypeOK ==
  /\ now \in Nat \ {0}
  /\ first_above_time \in Nat
  /\ drop_next \in Nat \union {Forever}
  /\ count \in 0 .. CountMod - 1
  /\ lastcount \in 0 .. CountMod - 1
  /\ dropping \in BOOLEAN
  /\ drop_count \in 0 .. MaxDrops
  /\ sojourn \in Nat
  /\ aboveSince \in Nat
  /\ episode \in Nat

\* A drop is never a surprise: the item's own sojourn is at or above target,
\* and every consultation of at least one interval before it was too, even if
\* the clock was stepped back meanwhile.
DropStandsOnDelay ==
  drop_count' > drop_count =>
    /\ sojourn' >= Target
    /\ aboveSince # Epoch /\ now >= aboveSince + Interval

\* Every step of the filter obeys DropStandsOnDelay.
DropsOnlyStandingDelay == [][DropStandsOnDelay]_vars

\* The hysteresis resumes from what really happened: `delta` is the number of
\* drops the episode added after its first one (modulo the counter's width),
\* so a recent re-entry starts at the drop rate the last episode had earned.
EpisodeAccounting ==
  episode > 0 => (count - lastcount + 1) % CountMod = episode % CountMod
=============================================================================
