------------------------- MODULE CodelFilterProofs -------------------------
(***************************************************************************)
(* Proofs, for every target, interval, width of the counters and clock.    *)
(*                                                                         *)
(* The filter drops an item only out of a standing delay.  The inductive   *)
(* invariant Armed says that first_above_time_ is a faithful timer: it is  *)
(* armed exactly while every item since some consultation was above        *)
(* target, and it then shows that consultation's time plus one interval.   *)
(*                                                                         *)
(* The hysteresis counts what was dropped.  The inductive invariant Fields *)
(* relates count_ and lastcount_ to the drops of the episode, modulo the   *)
(* width of the counters.                                                  *)
(***************************************************************************)
EXTENDS CodelFilter, TLAPS

\* first_above_time_ remembers when the current run of above-target items
\* began, and nothing else.
Armed ==
  /\ now \in Nat \ {0}
  /\ drop_count \in Nat
  /\ aboveSince \in Nat
  /\ aboveSince = Epoch => first_above_time = Epoch
  /\ aboveSince # Epoch => first_above_time = aboveSince + Interval

\* Every step keeps the timer faithful, in and out of the drop state.
LEMMA ArmedStep == Armed /\ [Next]_vars => Armed'
<1> SUFFICES ASSUME Armed, [Next]_vars PROVE Armed'
  OBVIOUS
<1> USE CodelAssumption DEF ValidConfiguration, Armed, Epoch
<1>1. ASSUME NEW s \in Sojourns, ShouldDrop(now - s) PROVE Armed'
  <2>0. drop_count' \in Nat
    BY <1>1 DEF ShouldDrop, LeaveDropState, DropOnSchedule, PassUntilNextDrop,
       EnterDropState, Pass
  <2>1. Consult(now - s)
    BY <1>1 DEF ShouldDrop, LeaveDropState, DropOnSchedule, PassUntilNextDrop,
       EnterDropState, Pass
  <2>2. CASE AboveTarget(now - s)
    <3>1. /\ first_above_time' = IF first_above_time = Epoch
                                 THEN now + Interval ELSE first_above_time
          /\ aboveSince' = IF aboveSince = Epoch THEN now ELSE aboveSince
          /\ now' = now
      BY <2>1, <2>2 DEF Consult, FirstAboveAfter
    <3>2. CASE aboveSince = Epoch
      BY <2>0, <3>1, <3>2
    <3>3. CASE aboveSince # Epoch
      <4>1. first_above_time = aboveSince + Interval /\ first_above_time # Epoch
        BY <3>3
      <4>2. QED
        BY <2>0, <3>1, <3>3, <4>1
    <3>4. QED
      BY <3>2, <3>3
  <2>3. CASE ~AboveTarget(now - s)
    BY <2>0, <2>1, <2>3 DEF Consult, FirstAboveAfter
  <2>4. QED
    BY <2>2, <2>3
<1>2. ASSUME NEW d \in Advances, Advance(d) PROVE Armed'
  BY <1>2 DEF Advance, state, history
<1>3. CASE UNCHANGED vars
  BY <1>3 DEF vars, state, history
<1>4. QED
  BY <1>1, <1>2, <1>3 DEF Next

\* A step that drops consults about an item that is ok to drop.
LEMMA DropIsOk ==
  ASSUME NEW s \in Sojourns, ShouldDrop(now - s), drop_count' > drop_count,
         drop_count \in Int
  PROVE  Consult(now - s) /\ OkToDrop(now - s)
BY DEF ShouldDrop, LeaveDropState, DropOnSchedule, PassUntilNextDrop,
   EnterDropState, Pass, StillOk

\* One step drops only out of a standing delay.
LEMMA StandingDelayStep ==
  Armed /\ [Next]_vars => [DropStandsOnDelay]_vars
<1> SUFFICES ASSUME Armed, Next, drop_count' > drop_count
             PROVE  /\ sojourn' >= Target
                    /\ aboveSince # Epoch /\ now >= aboveSince + Interval
  BY DEF DropStandsOnDelay
<1>1. PICK s \in Sojourns : ShouldDrop(now - s)
  <2>1. ASSUME NEW d \in Advances, Advance(d) PROVE FALSE
    BY <2>1 DEF Advance, state, Armed
  <2>2. QED
    BY <2>1 DEF Next
<1>2. Consult(now - s) /\ OkToDrop(now - s)
  BY <1>1, DropIsOk DEF Armed
<1>3. sojourn' >= Target
  BY <1>2 DEF Consult, OkToDrop, AboveTarget
<1>4. aboveSince # Epoch /\ now >= aboveSince + Interval
  BY <1>2 DEF OkToDrop, Armed
<1>5. QED
  BY <1>3, <1>4

\* The filter never drops before every consultation of at least one interval
\* was above target, whatever the clock and the callers do.
THEOREM StandingDelay == Spec => DropsOnlyStandingDelay
<1>1. Init => Armed
  BY DEF Init, Armed, Epoch
<1>2. QED
  BY <1>1, ArmedStep, StandingDelayStep, PTL
     DEF Spec, DropsOnlyStandingDelay

----------------------------------------------------------------------------
(* The counters.                                                           *)

\* A number has one remainder.
LEMMA ModUnique ==
  ASSUME NEW m \in Nat \ {0}, NEW q \in Int, NEW r \in 0 .. m - 1
  PROVE  (m * q + r) % m = r
<1> DEFINE x == m * q + r
           p == x \div m
           s == x % m
<1>1. x \in Int /\ p \in Int
  OBVIOUS
<1>2. s \in 0 .. m - 1 /\ x = m * p + s
  BY <1>1
<1>3. m * q \in Int /\ m * p \in Int /\ m * q + r = m * p + s
  BY <1>1, <1>2
<1> HIDE DEF x, p, s
<1>4. m * (q - p) = m * q - m * p /\ q - p \in Int
  BY <1>1
<1>5. CASE q - p >= 1
  <2>1. m * (q - p) >= m
    BY <1>1, <1>5
  <2>2. QED
    BY <1>2, <1>3, <1>4, <2>1
<1>6. CASE q - p <= -1
  <2>1. m * (q - p) <= -m
    BY <1>1, <1>6
  <2>2. QED
    BY <1>2, <1>3, <1>4, <2>1
<1>7. CASE q - p = 0
  BY <1>1, <1>2, <1>3, <1>7 DEF s, x
<1>8. QED
  BY <1>4, <1>5, <1>6, <1>7

\* Division of the clock reading by a positive number.
LEMMA QuotientRemainder ==
  ASSUME NEW m \in Nat \ {0}, NEW x \in Int
  PROVE  /\ x \div m \in Int /\ x % m \in 0 .. m - 1
         /\ x = m * (x \div m) + (x % m)
OBVIOUS

\* One more drop moves the remainder on by one place, or round to zero.
LEMMA ModNext ==
  ASSUME NEW m \in Nat \ {0}, NEW x \in Int
  PROVE  (x + 1) % m = IF (x % m) + 1 < m THEN (x % m) + 1 ELSE 0
<1> DEFINE q == x \div m
           r == x % m
<1>1. q \in Int /\ r \in 0 .. m - 1 /\ x = m * q + r
  BY QuotientRemainder
<1> HIDE DEF q, r
<1>2. CASE r + 1 < m
  <2>1. r + 1 \in 0 .. m - 1 /\ x + 1 = m * q + (r + 1)
    BY <1>1, <1>2
  <2>2. (x + 1) % m = r + 1
    BY <1>1, <2>1, ModUnique
  <2>3. QED
    BY <1>2, <2>2 DEF r
<1>3. CASE ~(r + 1 < m)
  <2>1. r + 1 = m
    BY <1>1, <1>3
  <2>2. m * (q + 1) = m * q + m
    BY <1>1
  <2>3. x + 1 = m * (q + 1) + 0 /\ q + 1 \in Int /\ 0 \in 0 .. m - 1
    BY <1>1, <2>1, <2>2
  <2>4. (x + 1) % m = 0
    BY <2>3, ModUnique
  <2>5. QED
    BY <1>3, <2>4 DEF r
<1>4. QED
  BY <1>2, <1>3

\* A full turn changes no remainder.
LEMMA ModTurn ==
  ASSUME NEW m \in Nat \ {0}, NEW x \in Int
  PROVE  (x - m) % m = x % m
<1> DEFINE q == x \div m
           r == x % m
<1>1. q \in Int /\ r \in 0 .. m - 1 /\ x = m * q + r
  BY QuotientRemainder
<1> HIDE DEF q, r
<1>2. m * (q - 1) = m * q - m
  BY <1>1
<1>3. x - m = m * (q - 1) + r /\ q - 1 \in Int
  BY <1>1, <1>2
<1>4. (x - m) % m = r
  BY <1>1, <1>3, ModUnique
<1>5. QED
  BY <1>4 DEF r

\* count_ wraps at its width.
LEMMA CountWraps ==
  ASSUME NEW c \in 0 .. CountMod - 1
  PROVE  /\ (c + 1) % CountMod \in 0 .. CountMod - 1
         /\ (c + 1) % CountMod = IF c + 1 < CountMod THEN c + 1 ELSE 0
<1>1. CountMod \in Nat \ {0, 1} /\ c \in Int
  BY CodelAssumption
<1>2. QED
  BY <1>1

\* delta stays in the range of the counter, so an entry count does too.
LEMMA EntryCountRange ==
  ASSUME TypeOK
  PROVE  EntryCount \in 0 .. CountMod - 1
<1>1. CountMod \in Nat \ {0, 1} /\ count - lastcount \in Int
  BY CodelAssumption DEF TypeOK
<1>2. Delta \in 0 .. CountMod - 1
  BY <1>1, QuotientRemainder DEF Delta
<1>3. QED
  BY <1>1, <1>2 DEF EntryCount

\* The schedule moves forward from a time, or is infinite.
LEMMA ControlLawTimes ==
  ASSUME NEW t \in Nat, NEW c
  PROVE  ControlLaw(t, c) \subseteq Nat \union {Forever}
BY CodelAssumption DEF ControlLaw, Gaps, ValidConfiguration

\* The inductive invariant of the counters: the drop state is entered with a
\* drop.
Fields == TypeOK /\ EpisodeAccounting /\ (dropping => episode > 0)

\* One step of the filter keeps the fields in range and the account exact.
LEMMA FieldsStep == Fields /\ [Next]_vars => Fields'
<1> SUFFICES ASSUME Fields, [Next]_vars PROVE Fields'
  OBVIOUS
<1>0. /\ Target \in Nat \ {0} /\ Interval \in Nat \ {0} /\ CountMod \in Nat \ {0, 1}
      /\ Sojourns \subseteq Int /\ Advances \subseteq Int /\ MaxDrops \in Nat
  BY CodelAssumption DEF ValidConfiguration
<1>1. TypeOK /\ EpisodeAccounting /\ (dropping => episode > 0)
  BY DEF Fields
<1>2. ASSUME NEW s \in Sojourns, Consult(now - s)
      PROVE  /\ now' \in Nat \ {0} /\ first_above_time' \in Nat
             /\ sojourn' \in Nat /\ aboveSince' \in Nat
  BY <1>0, <1>1, <1>2
     DEF Consult, FirstAboveAfter, AboveTarget, Sojourn, Epoch, TypeOK
<1>3. ASSUME NEW s \in Sojourns, LeaveDropState(now - s) PROVE Fields'
  <2>1. Consult(now - s)
    BY <1>3 DEF LeaveDropState
  <2>2. QED
    BY <1>1, <1>2, <1>3, <2>1 DEF LeaveDropState, Fields, TypeOK, EpisodeAccounting
<1>4. ASSUME NEW s \in Sojourns, PassUntilNextDrop(now - s) PROVE Fields'
  <2>1. Consult(now - s)
    BY <1>4 DEF PassUntilNextDrop
  <2>2. QED
    BY <1>1, <1>2, <1>4, <2>1 DEF PassUntilNextDrop, Fields, TypeOK, EpisodeAccounting
<1>5. ASSUME NEW s \in Sojourns, Pass(now - s) PROVE Fields'
  <2>1. Consult(now - s)
    BY <1>5 DEF Pass
  <2>2. QED
    BY <1>1, <1>2, <1>5, <2>1 DEF Pass, Fields, TypeOK, EpisodeAccounting
<1>6. ASSUME NEW s \in Sojourns, DropOnSchedule(now - s) PROVE Fields'
  <2>1. Consult(now - s)
    BY <1>6 DEF DropOnSchedule
  <2>2. /\ count' = (count + 1) % CountMod
        /\ drop_count < MaxDrops /\ drop_count' = drop_count + 1
        /\ episode' = episode + 1 /\ lastcount' = lastcount /\ dropping' = dropping
    BY <1>6 DEF DropOnSchedule
  <2>3. count' \in 0 .. CountMod - 1
    BY <1>1, <2>2, CountWraps DEF TypeOK
  <2>4. drop_next' \in Nat \union {Forever}
    BY <1>1, <1>6, ControlLawTimes DEF DropOnSchedule, DropDue, TypeOK
  <2>5. TypeOK'
    BY <1>0, <1>1, <1>2, <2>1, <2>2, <2>3, <2>4 DEF TypeOK
  <2>6. episode > 0 => EpisodeAccounting'
    <3> SUFFICES ASSUME episode > 0 PROVE EpisodeAccounting'
      OBVIOUS
    <3> DEFINE x == count - lastcount + 1
    <3>1. x \in Int /\ episode \in Int /\ x % CountMod = episode % CountMod
      BY <1>1 DEF TypeOK, EpisodeAccounting
    <3>2. (x + 1) % CountMod = (episode + 1) % CountMod
      BY <1>0, <3>1, ModNext
    <3>3. (x + 1 - CountMod) % CountMod = (x + 1) % CountMod
      BY <1>0, <3>1, ModTurn
    <3>4. count' - lastcount' + 1 \in {x + 1, x + 1 - CountMod}
      BY <1>0, <1>1, <2>2, CountWraps DEF TypeOK
    <3>5. QED
      BY <2>2, <3>2, <3>3, <3>4 DEF EpisodeAccounting
  <2>7. episode > 0
    BY <1>1, <1>6 DEF DropOnSchedule
  <2>8. episode' > 0
    BY <1>1, <2>2, <2>7 DEF TypeOK
  <2>9. QED
    BY <2>5, <2>6, <2>7, <2>8 DEF Fields
<1>7. ASSUME NEW s \in Sojourns, EnterDropState(now - s) PROVE Fields'
  <2>1. Consult(now - s)
    BY <1>7 DEF EnterDropState
  <2>2. /\ count' = EntryCount /\ lastcount' = EntryCount
        /\ drop_count < MaxDrops /\ drop_count' = drop_count + 1
        /\ episode' = 1 /\ dropping' = TRUE
    BY <1>7 DEF EnterDropState, NewLastCount
  <2>3. EntryCount \in 0 .. CountMod - 1
    BY <1>1, EntryCountRange
  <2>4. drop_next' \in Nat \union {Forever}
    BY <1>1, <1>7, ControlLawTimes DEF EnterDropState, TypeOK
  <2>5. TypeOK'
    BY <1>0, <1>1, <1>2, <2>1, <2>2, <2>3, <2>4 DEF TypeOK
  <2>6. count' - lastcount' + 1 = episode'
    BY <2>2, <2>3, <1>0
  <2>7. QED
    BY <2>2, <2>5, <2>6 DEF Fields, EpisodeAccounting
<1>8. ASSUME NEW d \in Advances, Advance(d) PROVE Fields'
  BY <1>0, <1>1, <1>8
     DEF Advance, state, history, Fields, TypeOK, EpisodeAccounting
<1>9. ASSUME UNCHANGED vars PROVE Fields'
  BY <1>1, <1>9 DEF vars, state, history, Fields, TypeOK, EpisodeAccounting
<1>10. QED
  BY <1>3, <1>4, <1>5, <1>6, <1>7, <1>8, <1>9 DEF Next, ShouldDrop

\* The fields of the filter keep their types.
LEMMA FieldsInvariant == Spec => []Fields
<1>1. Init => Fields
  <2>1. CountMod \in Nat \ {0, 1} /\ MaxDrops \in Nat
    BY CodelAssumption
  <2>2. Init => TypeOK
    <3> SUFFICES ASSUME Init PROVE TypeOK
      OBVIOUS
    <3>1. 0 \in 0 .. CountMod - 1 /\ 0 \in 0 .. MaxDrops
      BY <2>1
    <3>2. /\ now = 1 /\ first_above_time = 0 /\ drop_next = 0 /\ count = 0
          /\ lastcount = 0 /\ drop_count = 0 /\ sojourn = 0 /\ aboveSince = 0
          /\ episode = 0
      BY DEF Init, Epoch
    <3>3. dropping \in BOOLEAN
      BY DEF Init
    <3>4. QED
      BY <3>1, <3>2, <3>3 DEF TypeOK
  <2>3. Init => episode = 0 /\ dropping = FALSE
    BY DEF Init
  <2>4. QED
    BY <2>2, <2>3 DEF Fields, EpisodeAccounting
<1>2. QED
  BY <1>1, FieldsStep, PTL DEF Spec

\* Every field keeps its type, for every width of the counters, every schedule
\* and every clock: a clock that is stepped back gives no negative sojourn.
THEOREM TypeCorrect == Spec => []TypeOK
<1>1. Fields => TypeOK
  BY DEF Fields
<1>2. QED
  BY <1>1, FieldsInvariant, PTL

\* count_ - lastcount_ is what the current or last drop episode dropped after
\* its first item, even when count_ wraps in the middle of an episode: a recent
\* re-entry resumes from there.
THEOREM EpisodesCounted == Spec => []EpisodeAccounting
<1>1. Fields => EpisodeAccounting
  BY DEF Fields
<1>2. QED
  BY <1>1, FieldsInvariant, PTL
=============================================================================
