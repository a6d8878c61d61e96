------------------------ MODULE WindowedLimitProofs ------------------------
(***************************************************************************)
(* Proofs about WindowedLimit, for every set of threads and samples and    *)
(* every configuration Build accepts.                                      *)
(*                                                                         *)
(* The invariant follows the thread that holds boundary_mu_ from the       *)
(* re-check to the reset.  Nobody else moves the due time or the active    *)
(* index meanwhile (Boundary), what it has read stays a lower bound of the *)
(* slot it closes until it resets it (Readings), and a sample that is      *)
(* still counted in a slot has not been reported, except between the       *)
(* report and the reset of that slot's count (Accounted).                  *)
(***************************************************************************)
EXTENDS WindowedLimit, FiniteSetTheorems, SequenceTheorems, TLAPS

----------------------------------------------------------------------------
(* The inductive invariant.                                                *)

Holding == {"recheck", "read", "flip", "schedule", "report", "reset", "unlock"}

\* Types of the locals, and the place of a thread in the fields of a slot.
Locals ==
  /\ end \in [Thread -> Nat]
  /\ sample \in [Thread -> Samples \union {NoSample}]
  /\ begun \in Nat
  /\ read \in [Thread -> Seq(Nat \union BOOLEAN)]
  /\ \A t \in Thread :
       /\ pc[t] \in {"index", "add"} => sample[t] \in Samples
       /\ pc[t] \in {"add", "reset"} => step[t] <= Len(Fields)
       /\ pc[t] \notin {"add", "reset", "read"} => step[t] = 1

\* boundary_mu_ is held from the try-lock to the return; the window stays due
\* until its end is scheduled, and the slot that is reset is not active.
Boundary ==
  /\ \A t \in Thread : mu = t <=> pc[t] \in Holding
  /\ \A t \in Thread : pc[t] \in {"read", "flip", "schedule"} => end[t] > nextDue
  /\ ResetsInactiveSlot

\* The slot t closes still counts the samples t has read from it.
Unreset(t) == \/ pc[t] \in {"read", "flip", "schedule", "report"}
              \/ pc[t] = "reset" /\ step[t] = 1

\* What the boundary thread has read.
Reading(t) ==
  /\ pc[t] = "read" => Len(read[t]) = step[t] - 1
  /\ pc[t] \in {"flip", "schedule", "report", "reset", "unlock"} =>
       Len(read[t]) = Len(Reads)
  /\ pc[t] \notin Holding \ {"recheck"} => read[t] = << >>
  /\ Len(read[t]) >= 1 => read[t][1] \in 1 .. Infinite
  /\ Len(read[t]) >= 5 => read[t][5] \in Nat
  /\ Len(read[t]) >= 5 /\ Unreset(t) => read[t][5] <= slots[idx[t]].count

Readings == \A t \in Thread : Reading(t)

\* t has reported the samples its slot still counts.
JustReported(t) == pc[t] = "reset" /\ step[t] = 1 /\ WindowReady(t)

InSlots == slots[0].count + slots[1].count

\* A sample that is still counted in a slot is not reported yet, unless its
\* slot is about to be reset.
Accounted ==
  /\ \A t \in Thread : pc[t] = "report" => WindowReady(t)
  /\ (\A t \in Thread : ~JustReported(t)) => reported + InSlots <= folded
  /\ \A t \in Thread : JustReported(t) =>
       reported + InSlots <= folded + SampleCount(t)

\* The samples begun that no slot counts yet.
Uncounted ==
  {t \in Thread : pc[t] = "index" \/ (pc[t] = "add" /\ step[t] = 1)}

BegunOrFolded == begun = folded + Cardinality(Uncounted)

WindowInv == /\ TypeOK
             /\ Locals
             /\ Boundary
             /\ Readings
             /\ Accounted
             /\ BegunOrFolded

----------------------------------------------------------------------------
(* The slots.                                                              *)

\* What a field holds.
FieldType(f) == CASE f = "count" -> Nat
                  [] f = "sum" -> Nat
                  [] f = "min" -> 1 .. Infinite
                  [] f = "inflight" -> Nat
                  [] f = "drop" -> BOOLEAN

FieldNames == {"count", "sum", "min", "inflight", "drop"}

\* The fields a fold writes and the ones a report reads, in their order.
LEMMA FieldsAre ==
  /\ Len(Fields) = 5 /\ Len(Reads) = 6
  /\ \A k \in 1 .. 5 : Fields[k] \in FieldNames /\ (Fields[k] = "count" <=> k = 1)
  /\ \A k \in 1 .. 6 : Reads[k] \in FieldNames
  /\ Reads[1] = "min" /\ Reads[5] = "count"
BY DEF Fields, Reads, FieldNames

\* A slot has a value of its type in every field.
LEMMA SlotTyped ==
  ASSUME NEW s \in Slot, NEW f \in FieldNames
  PROVE  s[f] \in FieldType(f) /\ s[f] \in Nat \union BOOLEAN
<1>1. Infinite \in Nat
  BY WindowAssumption
<1>2. QED
  BY <1>1 DEF Slot, FieldNames, FieldType

\* A store into one field of one slot.
LEMMA StoreField ==
  ASSUME NEW s \in [{0, 1} -> Slot], NEW i \in {0, 1}, NEW f \in FieldNames,
         NEW v \in FieldType(f)
  PROVE  LET r == [s EXCEPT ![i][f] = v]
         IN  /\ r \in [{0, 1} -> Slot]
             /\ \A j \in {0, 1} : j # i => r[j] = s[j]
             /\ r[i].count = IF f = "count" THEN v ELSE s[i].count
<1> DEFINE r == [s EXCEPT ![i][f] = v]
<1>1. /\ r = [s EXCEPT ![i] = [s[i] EXCEPT ![f] = v]] /\ s[i] \in Slot
  OBVIOUS
<1>2. [s[i] EXCEPT ![f] = v] \in Slot
  <2>1. CASE f = "count"
    BY <1>1, <2>1 DEF Slot, FieldType
  <2>2. CASE f = "sum"
    BY <1>1, <2>2 DEF Slot, FieldType
  <2>3. CASE f = "min"
    BY <1>1, <2>3 DEF Slot, FieldType
  <2>4. CASE f = "inflight"
    BY <1>1, <2>4 DEF Slot, FieldType
  <2>5. CASE f = "drop"
    BY <1>1, <2>5 DEF Slot, FieldType
  <2>6. QED
    BY <2>1, <2>2, <2>3, <2>4, <2>5 DEF FieldNames
<1>3. [s[i] EXCEPT ![f] = v].count = IF f = "count" THEN v ELSE s[i].count
  BY <1>1 DEF Slot, FieldNames
<1>4. QED
  BY <1>1, <1>2, <1>3

\* The lesser of two numbers.
LEMMA MinOfTwo ==
  ASSUME NEW a \in Int, NEW b \in Int
  PROVE  Min({a, b}) = IF a <= b THEN a ELSE b
BY DEF Min

\* The greater of two numbers.
LEMMA MaxOfTwo ==
  ASSUME NEW a \in Int, NEW b \in Int
  PROVE  Max({a, b}) = IF a >= b THEN a ELSE b
BY DEF Max

\* A cleared slot is a slot.
LEMMA EmptyIsSlot == Empty \in Slot
<1>1. Infinite \in Nat \ {0}
  BY WindowAssumption
<1>2. QED
  BY <1>1 DEF Empty, Slot

\* Folding a sample keeps a field's type.
LEMMA FoldTyped ==
  ASSUME NEW s \in Slot, NEW x \in Samples, NEW f \in FieldNames
  PROVE  Fold(s, x, f) \in FieldType(f)
<1>1. /\ Infinite \in Nat /\ x.rtt \in 1 .. Infinite - 1 /\ x.inflight \in Nat
      /\ x.drop \in BOOLEAN
  BY WindowAssumption
<1>2. /\ s.count \in Nat /\ s.sum \in Nat /\ s.min \in 1 .. Infinite
      /\ s.inflight \in Nat /\ s.drop \in BOOLEAN
  BY DEF Slot
<1>3. CASE f = "count"
  BY <1>2, <1>3 DEF Fold, FieldType
<1>4. CASE f = "sum"
  BY <1>1, <1>2, <1>4 DEF Fold, FieldType
<1>5. CASE f = "min"
  <2>1. Min({s.min, x.rtt}) = IF s.min <= x.rtt THEN s.min ELSE x.rtt
    BY <1>1, <1>2, MinOfTwo
  <2>2. Min({s.min, x.rtt}) \in 1 .. Infinite
    BY <1>1, <1>2, <2>1
  <2>3. QED
    BY <1>5, <2>2 DEF Fold, FieldType
<1>6. CASE f = "inflight"
  <2>1. Max({s.inflight, x.inflight}) =
          IF s.inflight >= x.inflight THEN s.inflight ELSE x.inflight
    BY <1>1, <1>2, MaxOfTwo
  <2>2. Max({s.inflight, x.inflight}) \in Nat
    BY <1>1, <1>2, <2>1
  <2>3. QED
    BY <1>6, <2>2 DEF Fold, FieldType
<1>7. CASE f = "drop"
  BY <1>2, <1>7 DEF Fold, FieldType
<1>8. QED
  BY <1>3, <1>4, <1>5, <1>6, <1>7 DEF FieldNames

\* What one step of AddSample does to the slots.
LEMMA AddSlots ==
  ASSUME WindowInv, NEW t \in Thread, AddSample(t)
  PROVE  /\ idx[t] \in {0, 1} /\ step[t] \in 1 .. 5
         /\ slots' \in [{0, 1} -> Slot]
         /\ \A j \in {0, 1} : j # idx[t] => slots'[j] = slots[j]
         /\ slots'[idx[t]].count =
              slots[idx[t]].count + (IF step[t] = 1 THEN 1 ELSE 0)
         /\ folded' = folded + (IF step[t] = 1 THEN 1 ELSE 0)
<1> DEFINE f == Fields[step[t]]
<1>1. /\ idx[t] \in {0, 1} /\ slots[idx[t]] \in Slot
      /\ sample[t] \in Samples /\ step[t] \in 1 .. 5 /\ f \in FieldNames
      /\ (f = "count" <=> step[t] = 1)
      /\ folded \in Nat
  BY FieldsAre DEF WindowInv, TypeOK, Locals, AddSample
<1>2. /\ slots' = [slots EXCEPT ![idx[t]][f] = Fold(slots[idx[t]], sample[t], f)]
      /\ folded' = IF f = "count" THEN folded + 1 ELSE folded
      /\ slots \in [{0, 1} -> Slot]
  BY DEF AddSample, WindowInv, TypeOK
<1> HIDE DEF f
<1>3. Fold(slots[idx[t]], sample[t], f) \in FieldType(f)
  BY <1>1, FoldTyped
<1>4. f = "count" => Fold(slots[idx[t]], sample[t], f) = slots[idx[t]].count + 1
  BY DEF Fold
<1>5. slots[idx[t]].count \in Nat
  BY <1>1 DEF Slot
<1>6. QED
  BY <1>1, <1>2, <1>3, <1>4, <1>5, StoreField

\* What one step of Reset does to the slots.
LEMMA ResetSlots ==
  ASSUME WindowInv, NEW t \in Thread, ResetField(t)
  PROVE  /\ idx[t] \in {0, 1} /\ step[t] \in 1 .. 5
         /\ slots' \in [{0, 1} -> Slot]
         /\ \A j \in {0, 1} : j # idx[t] => slots'[j] = slots[j]
         /\ slots'[idx[t]].count =
              IF step[t] = 1 THEN 0 ELSE slots[idx[t]].count
<1> DEFINE f == Fields[step[t]]
<1>1. /\ idx[t] \in {0, 1} /\ slots[idx[t]] \in Slot
      /\ step[t] \in 1 .. 5 /\ f \in FieldNames
      /\ (f = "count" <=> step[t] = 1)
  BY FieldsAre DEF WindowInv, TypeOK, Locals, ResetField
<1>2. /\ slots' = [slots EXCEPT ![idx[t]][f] = Empty[f]]
      /\ slots \in [{0, 1} -> Slot]
  BY DEF ResetField, ResetTo, WindowInv, TypeOK
<1> HIDE DEF f
<1>3. Empty \in Slot
  BY EmptyIsSlot
<1>4. Empty[f] \in FieldType(f) /\ (f = "count" => Empty[f] = 0)
  BY <1>1, <1>3, SlotTyped DEF Empty
<1>5. QED
  BY <1>1, <1>2, <1>4, StoreField

----------------------------------------------------------------------------
(* One step.                                                               *)

\* A thread that returns forgets its locals.
LEMMA ReturnLocals ==
  ASSUME TypeOK, Locals, NEW t \in Thread, Return(t), begun' = begun
  PROVE  Locals'
BY DEF TypeOK, Locals, Return, Goto

\* Every step keeps the threads' locals typed.
LEMMA LocalsStep == WindowInv /\ [Next]_vars => Locals'
<1> SUFFICES ASSUME WindowInv, [Next]_vars PROVE Locals'
  OBVIOUS
<1>0. TypeOK /\ Locals
  BY DEF WindowInv
<1> USE <1>0, FieldsAre DEF TypeOK, Locals
<1>1. ASSUME NEW t \in Thread, NEW x \in Samples, NEW e \in Ends,
             Begin(t, x, e)
      PROVE  Locals'
  BY <1>1, WindowAssumption DEF Begin, Goto
<1>2. ASSUME NEW t \in Thread, LoadIndex(t) PROVE Locals'
  BY <1>2 DEF LoadIndex, Goto, locals, counts
<1>3. ASSUME NEW t \in Thread, AddSample(t) PROVE Locals'
  <2>1. /\ pc[t] = "add" /\ Advance(t, Fields, "due")
        /\ UNCHANGED <<sample, end, read, begun>>
    BY <1>3 DEF AddSample
  <2>2. CASE step[t] < 5
    <3>1. step' = [step EXCEPT ![t] = step[t] + 1] /\ pc' = pc
      BY <2>1, <2>2 DEF Advance
    <3>2. \A u \in Thread : step'[u] = IF u = t THEN step[t] + 1 ELSE step[u]
      BY <3>1
    <3>3. step[t] + 1 <= Len(Fields)
      <4>1. Len(Fields) = 5 /\ step[t] \in 1 .. 6
        BY <1>0, FieldsAre DEF TypeOK
      <4>2. QED
        BY <2>2, <4>1
    <3>4. QED
      BY <2>1, <3>1, <3>2, <3>3
  <2>3. CASE ~(step[t] < 5)
    <3>1. step' = [step EXCEPT ![t] = 1] /\ pc' = [pc EXCEPT ![t] = "due"]
      BY <2>1, <2>3 DEF Advance, Goto
    <3>2. QED
      BY <2>1, <3>1
  <2>4. QED
    BY <2>2, <2>3
<1>4. ASSUME NEW t \in Thread, CheckDue(t) PROVE Locals'
  <2>1. CASE Return(t)
    BY <1>4, <2>1, ReturnLocals DEF CheckDue, counts
  <2>2. CASE Goto(t, "try") /\ UNCHANGED locals
    BY <1>4, <2>2 DEF CheckDue, Goto, locals, counts
  <2>3. QED
    BY <1>4, <2>1, <2>2 DEF CheckDue
<1>5. ASSUME NEW t \in Thread, TryLock(t) PROVE Locals'
  <2>1. CASE Return(t)
    BY <1>5, <2>1, ReturnLocals DEF TryLock, counts
  <2>2. CASE Goto(t, "recheck") /\ UNCHANGED locals
    BY <1>5, <2>2 DEF TryLock, Goto, locals, counts
  <2>3. QED
    BY <1>5, <2>1, <2>2 DEF TryLock
<1>6. ASSUME NEW t \in Thread, Recheck(t) PROVE Locals'
  <2>1. CASE Return(t)
    BY <1>6, <2>1, ReturnLocals DEF Recheck, counts
  <2>2. CASE Goto(t, "read") /\ UNCHANGED <<sample, end, step, read>>
    BY <1>6, <2>2 DEF Recheck, Goto, counts
  <2>3. QED
    BY <1>6, <2>1, <2>2 DEF Recheck
<1>7. ASSUME NEW t \in Thread, ReadField(t) PROVE Locals'
  <2>1. idx[t] \in {0, 1} /\ slots[idx[t]] \in Slot /\ Reads[step[t]] \in FieldNames
    OBVIOUS
  <2>2. slots[idx[t]][Reads[step[t]]] \in Nat \union BOOLEAN
    BY <2>1, SlotTyped
  <2>3. read' \in [Thread -> Seq(Nat \union BOOLEAN)]
    BY <1>7, <2>2 DEF ReadField
  <2>4. QED
    BY <1>7, <2>3 DEF ReadField, Advance, Goto, counts
<1>8. ASSUME NEW t \in Thread, Flip(t) PROVE Locals'
  BY <1>8 DEF Flip, FlipTo, Goto, locals, counts
<1>9. ASSUME NEW t \in Thread, Schedule(t) PROVE Locals'
  BY <1>9 DEF Schedule, Goto, locals, counts
<1>10. ASSUME NEW t \in Thread, Report(t) PROVE Locals'
  BY <1>10 DEF Report, Goto, locals, counts
<1>11. ASSUME NEW t \in Thread, ResetField(t) PROVE Locals'
  BY <1>11 DEF ResetField, Advance, Goto, locals, counts
<1>12. ASSUME NEW t \in Thread, Unlock(t) PROVE Locals'
  BY <1>12, ReturnLocals DEF Unlock, counts
<1>13. ASSUME UNCHANGED vars PROVE Locals'
  BY <1>13 DEF vars, history, Goto, locals, counts
<1>14. QED
  BY <1>1, <1>2, <1>3, <1>4, <1>5, <1>6, <1>7, <1>8, <1>9, <1>10, <1>11,
     <1>12, <1>13 DEF Next, Step, OnSample

\* Every step keeps what is known of the end of the window.
LEMMA BoundaryStep == WindowInv /\ [Next]_vars => Boundary'
<1> SUFFICES ASSUME WindowInv, [Next]_vars PROVE Boundary'
  OBVIOUS
<1>0. TypeOK /\ Locals /\ Boundary /\ None \notin Thread
  BY WindowAssumption DEF WindowInv, None
<1> USE <1>0, FieldsAre DEF TypeOK, Locals, Boundary, ResetsInactiveSlot, Holding
<1>1. ASSUME NEW t \in Thread, NEW x \in Samples, NEW e \in Ends,
             Begin(t, x, e)
      PROVE  Boundary'
  BY <1>1 DEF Begin, Goto, locals, counts
<1>2. ASSUME NEW t \in Thread, LoadIndex(t) PROVE Boundary'
  BY <1>2 DEF LoadIndex, Goto, locals, counts
<1>3. ASSUME NEW t \in Thread, AddSample(t) PROVE Boundary'
  BY ZenonT(60), <1>3 DEF AddSample, Advance, Goto, locals, counts
<1>4. ASSUME NEW t \in Thread, CheckDue(t) PROVE Boundary'
  <2>1. CASE Return(t)
    BY <1>4, <2>1 DEF CheckDue, Return, Goto
  <2>2. CASE Goto(t, "try") /\ UNCHANGED locals
    BY <1>4, <2>2 DEF CheckDue, Goto, locals
  <2>3. QED
    BY <1>4, <2>1, <2>2 DEF CheckDue
<1>5. ASSUME NEW t \in Thread, TryLock(t) PROVE Boundary'
  <2>1. CASE Return(t) /\ mu' = mu
    BY <1>5, <2>1 DEF TryLock, Return, Goto
  <2>2. CASE mu = None /\ mu' = t /\ Goto(t, "recheck") /\ UNCHANGED locals
    BY <1>5, <2>2 DEF TryLock, Goto, locals
  <2>3. QED
    BY <1>5, <2>1, <2>2 DEF TryLock
<1>6. ASSUME NEW t \in Thread, Recheck(t) PROVE Boundary'
  <2>1. CASE Return(t) /\ mu' = None
    BY <1>6, <2>1 DEF Recheck, Return, Goto
  <2>2. CASE /\ StillDue(t) /\ idx' = [idx EXCEPT ![t] = active] /\ Goto(t, "read")
             /\ UNCHANGED <<mu, sample, end, step, read>>
    BY <1>6, <2>2 DEF Recheck, StillDue, Goto
  <2>3. QED
    BY <1>6, <2>1, <2>2 DEF Recheck
<1>7. ASSUME NEW t \in Thread, ReadField(t) PROVE Boundary'
  BY <1>7 DEF ReadField, Advance, Goto, locals, counts
<1>8. ASSUME NEW t \in Thread, Flip(t) PROVE Boundary'
  BY <1>8 DEF Flip, FlipTo, Goto, locals, counts
<1>9. ASSUME NEW t \in Thread, Schedule(t) PROVE Boundary'
  BY <1>9 DEF Schedule, Goto, locals, counts
<1>10. ASSUME NEW t \in Thread, Report(t) PROVE Boundary'
  BY <1>10 DEF Report, Goto, locals, counts
<1>11. ASSUME NEW t \in Thread, ResetField(t) PROVE Boundary'
  BY <1>11 DEF ResetField, Advance, Goto, locals, counts
<1>12. ASSUME NEW t \in Thread, Unlock(t) PROVE Boundary'
  BY <1>12 DEF Unlock, Return, Goto, locals, counts
<1>13. ASSUME UNCHANGED vars PROVE Boundary'
  BY <1>13 DEF vars, history, Goto, locals, counts
<1>14. QED
  BY <1>1, <1>2, <1>3, <1>4, <1>5, <1>6, <1>7, <1>8, <1>9, <1>10, <1>11,
     <1>12, <1>13 DEF Next, Step, OnSample

\* A thread that does not move and whose slot loses no sample keeps a good
\* reading.
LEMMA OtherReading ==
  ASSUME WindowInv, NEW u \in Thread,
         pc'[u] = pc[u], step'[u] = step[u], read'[u] = read[u], idx'[u] = idx[u],
         Unreset(u) => slots' = slots \/ slots'[idx[u]].count >= slots[idx[u]].count,
         slots' \in [{0, 1} -> Slot]
  PROVE  Reading(u)'
<1>1. Reading(u) /\ idx[u] \in {0, 1} /\ slots \in [{0, 1} -> Slot]
  BY DEF WindowInv, Readings, TypeOK
<1>2. Unreset(u)' <=> Unreset(u)
  BY DEF Unreset
<1>3. slots[idx[u]].count \in Nat /\ slots'[idx[u]].count \in Nat
  BY <1>1 DEF Slot
<1>4. QED
  BY <1>1, <1>2, <1>3 DEF Reading

\* A thread that returns leaves the other readers their readings.
LEMMA ReturnReading ==
  ASSUME WindowInv, NEW t \in Thread, Return(t), slots' = slots
  PROVE  Readings'
<1>1. TypeOK /\ Locals
  BY DEF WindowInv
<1>2. \A u \in Thread : u # t => Reading(u)'
  BY <1>1, OtherReading DEF Return, Goto, TypeOK, Locals
<1>3. pc'[t] = "idle" /\ read'[t] = << >>
  BY <1>1 DEF Return, Goto, TypeOK, Locals
<1>4. Reading(t)'
  BY <1>3 DEF Reading
<1>5. QED
  BY <1>2, <1>4 DEF Readings

\* What the boundary thread has read stays in its slot until it is reset.
LEMMA ReadingsStep == WindowInv /\ [Next]_vars => Readings'
<1> SUFFICES ASSUME WindowInv, [Next]_vars PROVE Readings'
  OBVIOUS
<1>0. /\ TypeOK /\ Locals /\ Boundary /\ None \notin Thread
      /\ \A t \in Thread : Reading(t)
  BY WindowAssumption DEF WindowInv, Readings, None
<1> USE <1>0 DEF TypeOK
<1>1. ASSUME NEW t \in Thread, NEW x \in Samples, NEW e \in Ends,
             Begin(t, x, e)
      PROVE  Readings'
  <2>1. /\ UNCHANGED <<read, step, slots, idx>>
        /\ pc[t] = "idle" /\ pc' = [pc EXCEPT ![t] = "index"]
    BY <1>1 DEF Begin, Goto, locals
  <2>2. \A u \in Thread : u # t => Reading(u)'
    BY <2>1, OtherReading
  <2>3. Reading(t)'
    BY <2>1 DEF Reading, Unreset, Holding
  <2>4. QED
    BY <2>2, <2>3 DEF Readings
<1>2. ASSUME NEW t \in Thread, LoadIndex(t) PROVE Readings'
  <2>1. /\ UNCHANGED <<read, step, slots>> /\ idx' = [idx EXCEPT ![t] = active]
        /\ pc[t] = "index" /\ pc' = [pc EXCEPT ![t] = "add"]
    BY <1>2 DEF LoadIndex, Goto
  <2>2. \A u \in Thread : u # t => Reading(u)'
    BY <2>1, OtherReading
  <2>3. Reading(t)'
    BY <2>1 DEF Reading, Unreset, Holding
  <2>4. QED
    BY <2>2, <2>3 DEF Readings
<1>3. ASSUME NEW t \in Thread, AddSample(t) PROVE Readings'
  <2>1. /\ pc[t] = "add" /\ Advance(t, Fields, "due") /\ UNCHANGED <<read, idx>>
    BY <1>3 DEF AddSample
  <2>2. \A u \in Thread : u # t => pc'[u] = pc[u] /\ step'[u] = step[u]
    BY <2>1 DEF Advance, Goto
  <2>3. /\ slots' \in [{0, 1} -> Slot]
        /\ \A j \in {0, 1} : slots'[j].count >= slots[j].count
    <3>1. \A j \in {0, 1} : slots[j].count \in Nat /\ slots'[j].count \in Nat
      BY <1>3, AddSlots DEF Slot
    <3>2. QED
      BY SMTT(60), <1>3, <3>1, AddSlots
  <2>4. \A u \in Thread : u # t => Reading(u)'
    BY <2>1, <2>2, <2>3, OtherReading
  <2>5. pc'[t] \in {"add", "due"} /\ read'[t] = << >>
    BY <2>1 DEF Advance, Goto, Reading, Holding
  <2>6. Reading(t)'
    BY <2>5 DEF Reading
  <2>7. QED
    BY <2>4, <2>6 DEF Readings
<1>4. ASSUME NEW t \in Thread, CheckDue(t) PROVE Readings'
  <2>1. CASE Return(t)
    BY <1>4, <2>1, ReturnReading DEF CheckDue
  <2>2. CASE Goto(t, "try") /\ UNCHANGED locals
    <3>1. /\ UNCHANGED <<read, step, slots, idx>>
          /\ pc[t] = "due" /\ pc' = [pc EXCEPT ![t] = "try"]
      BY <1>4, <2>2 DEF CheckDue, Goto, locals
    <3>2. \A u \in Thread : u # t => Reading(u)'
      BY <3>1, OtherReading
    <3>3. Reading(t)'
      BY <3>1 DEF Reading, Unreset, Holding
    <3>4. QED
      BY <3>2, <3>3 DEF Readings
  <2>3. QED
    BY <1>4, <2>1, <2>2 DEF CheckDue
<1>5. ASSUME NEW t \in Thread, TryLock(t) PROVE Readings'
  <2>1. CASE Return(t)
    BY <1>5, <2>1, ReturnReading DEF TryLock
  <2>2. CASE Goto(t, "recheck") /\ UNCHANGED locals
    <3>1. /\ UNCHANGED <<read, step, slots, idx>>
          /\ pc[t] = "try" /\ pc' = [pc EXCEPT ![t] = "recheck"]
      BY <1>5, <2>2 DEF TryLock, Goto, locals
    <3>2. \A u \in Thread : u # t => Reading(u)'
      BY <3>1, OtherReading
    <3>3. Reading(t)'
      BY <3>1 DEF Reading, Unreset, Holding
    <3>4. QED
      BY <3>2, <3>3 DEF Readings
  <2>3. QED
    BY <1>5, <2>1, <2>2 DEF TryLock
<1>6. ASSUME NEW t \in Thread, Recheck(t) PROVE Readings'
  <2>1. CASE Return(t)
    BY <1>6, <2>1, ReturnReading DEF Recheck
  <2>2. CASE /\ idx' = [idx EXCEPT ![t] = active] /\ Goto(t, "read")
             /\ UNCHANGED <<mu, sample, end, step, read>>
    <3>1. /\ UNCHANGED <<read, step, slots>> /\ idx' = [idx EXCEPT ![t] = active]
          /\ pc[t] = "recheck" /\ pc' = [pc EXCEPT ![t] = "read"]
      BY <1>6, <2>2 DEF Recheck, Goto
    <3>2. \A u \in Thread : u # t => Reading(u)'
      BY <3>1, OtherReading
    <3>3. read[t] = << >> /\ step[t] = 1
      BY <3>1 DEF Reading, Holding, Locals
    <3>4. Reading(t)'
      BY <3>1, <3>3 DEF Reading, Holding
    <3>5. QED
      BY <3>2, <3>4 DEF Readings
  <2>3. QED
    BY <1>6, <2>1, <2>2 DEF Recheck
<1>7. ASSUME NEW t \in Thread, ReadField(t) PROVE Readings'
  <2> DEFINE v == slots[idx[t]][Reads[step[t]]]
             V == Nat \union BOOLEAN
  <2>1. /\ pc[t] = "read" /\ Advance(t, Reads, "flip") /\ UNCHANGED <<slots, idx>>
        /\ read' = [read EXCEPT ![t] = Append(read[t], v)]
    BY <1>7 DEF ReadField
  <2>2. \A u \in Thread : u # t => pc'[u] = pc[u] /\ step'[u] = step[u]
    BY <2>1 DEF Advance, Goto
  <2>3. \A u \in Thread : u # t => Reading(u)'
    BY <2>1, <2>2, OtherReading
  <2>4. /\ step[t] \in 1 .. 6 /\ Len(read[t]) = step[t] - 1 /\ read[t] \in Seq(V)
        /\ slots[idx[t]] \in Slot /\ read'[t] = Append(read[t], v)
    BY <2>1, FieldsAre DEF Reading, Locals
  <2>5. /\ step[t] = 1 => v \in 1 .. Infinite
        /\ step[t] = 5 => v = slots[idx[t]].count /\ v \in Nat
        /\ v \in V
    <3>1. /\ Reads[step[t]] \in FieldNames
          /\ step[t] = 1 => Reads[step[t]] = "min"
          /\ step[t] = 5 => Reads[step[t]] = "count"
      BY <2>4, FieldsAre
    <3>2. QED
      BY <2>4, <3>1, SlotTyped DEF Slot
  <2> HIDE DEF v, V
  <2>6. /\ Len(read'[t]) = step[t] /\ read'[t][step[t]] = v
        /\ \A k \in 1 .. step[t] - 1 : read'[t][k] = read[t][k]
    BY <2>4, <2>5, AppendProperties
  <2>7. /\ Len(read'[t]) >= 1 => read'[t][1] \in 1 .. Infinite
        /\ Len(read'[t]) >= 5 => read'[t][5] \in Nat
        /\ Len(read'[t]) >= 5 => read'[t][5] <= slots[idx[t]].count
    <3>1. CASE step[t] = 1
      BY <2>5, <2>6, <3>1
    <3>2. CASE step[t] \in 2 .. 4
      BY <2>4, <2>6, <3>2 DEF Reading
    <3>3. CASE step[t] = 5
      <4>1. read'[t][1] = read[t][1] /\ read[t][1] \in 1 .. Infinite
        BY <2>4, <2>6, <3>3 DEF Reading
      <4>2. read'[t][5] = slots[idx[t]].count /\ read'[t][5] \in Nat
        BY <2>5, <2>6, <3>3
      <4>3. QED
        BY <4>1, <4>2
    <3>4. CASE step[t] = 6
      BY <2>1, <2>4, <2>6, <3>4 DEF Reading, Unreset
    <3>5. QED
      BY <2>4, <3>1, <3>2, <3>3, <3>4
  <2>8. \/ pc'[t] = "read" /\ Len(read'[t]) = step'[t] - 1
        \/ pc'[t] = "flip" /\ Len(read'[t]) = Len(Reads)
    <3>1. CASE step[t] < 6
      <4>1. step'[t] = step[t] + 1 /\ pc' = pc
        BY <2>1, <3>1, FieldsAre DEF Advance
      <4>2. QED
        BY <2>1, <2>4, <2>6, <4>1
    <3>2. CASE ~(step[t] < 6)
      <4>1. pc'[t] = "flip" /\ step[t] = 6
        BY <2>1, <2>4, <3>2, FieldsAre DEF Advance, Goto
      <4>2. QED
        BY <2>6, <4>1, FieldsAre
    <3>3. QED
      BY <3>1, <3>2
  <2>9. Reading(t)'
    BY <2>1, <2>7, <2>8 DEF Reading, Holding
  <2>10. QED
    BY <2>3, <2>9 DEF Readings
<1>8. ASSUME NEW t \in Thread, Flip(t) PROVE Readings'
  <2>1. /\ UNCHANGED <<read, step, slots, idx>>
        /\ pc[t] = "flip" /\ pc' = [pc EXCEPT ![t] = "schedule"]
    BY <1>8 DEF Flip, Goto, locals
  <2>2. \A u \in Thread : u # t => Reading(u)'
    BY <2>1, OtherReading
  <2>3. Reading(t)'
    BY <2>1 DEF Reading, Unreset, Holding
  <2>4. QED
    BY <2>2, <2>3 DEF Readings
<1>9. ASSUME NEW t \in Thread, Schedule(t) PROVE Readings'
  <2>1. /\ UNCHANGED <<read, step, slots, idx>>
        /\ pc[t] = "schedule"
        /\ pc' \in {[pc EXCEPT ![t] = "report"], [pc EXCEPT ![t] = "reset"]}
    BY <1>9 DEF Schedule, Goto, locals
  <2>2. \A u \in Thread : u # t => Reading(u)'
    BY <2>1, OtherReading
  <2>3. Reading(t)'
    BY <2>1 DEF Reading, Unreset, Holding
  <2>4. QED
    BY <2>2, <2>3 DEF Readings
<1>10. ASSUME NEW t \in Thread, Report(t) PROVE Readings'
  <2>1. /\ UNCHANGED <<read, step, slots, idx>>
        /\ pc[t] = "report" /\ pc' = [pc EXCEPT ![t] = "reset"]
    BY <1>10 DEF Report, Goto, locals
  <2>2. \A u \in Thread : u # t => Reading(u)'
    BY <2>1, OtherReading
  <2>3. Reading(t)'
    BY <2>1 DEF Reading, Unreset, Holding
  <2>4. QED
    BY <2>2, <2>3 DEF Readings
<1>11. ASSUME NEW t \in Thread, ResetField(t) PROVE Readings'
  <2>1. /\ pc[t] = "reset" /\ Advance(t, Fields, "unlock") /\ UNCHANGED <<read, idx>>
    BY <1>11 DEF ResetField
  <2>2. \A u \in Thread : u # t => pc'[u] = pc[u] /\ step'[u] = step[u]
    BY <2>1 DEF Advance, Goto
  <2>3. \A u \in Thread : u # t => ~Unreset(u) /\ pc[u] \notin Holding
    BY <2>1 DEF Boundary, Holding, Unreset
  <2>4. ASSUME NEW u \in Thread, u # t PROVE Reading(u)'
    BY <1>11, <2>1, <2>2, <2>3, <2>4, ResetSlots, OtherReading
  <2>5. ~Unreset(t)' /\ pc'[t] \in {"reset", "unlock"} /\ read'[t] = read[t]
    <3>1. CASE step[t] < 5
      <4>1. step' = [step EXCEPT ![t] = step[t] + 1] /\ pc' = pc
        BY <2>1, <3>1, FieldsAre DEF Advance
      <4>2. step[t] \in 1 .. 5
        BY <1>11, ResetSlots
      <4>3. QED
        BY <2>1, <4>1, <4>2 DEF Unreset
    <3>2. CASE ~(step[t] < 5)
      <4>1. pc' = [pc EXCEPT ![t] = "unlock"]
        BY <2>1, <3>2, FieldsAre DEF Advance, Goto
      <4>2. QED
        BY <2>1, <4>1 DEF Unreset
    <3>3. QED
      BY <3>1, <3>2
  <2>6. Reading(t)'
    BY <2>1, <2>5 DEF Reading, Holding
  <2>7. QED
    BY <2>4, <2>6 DEF Readings
<1>12. ASSUME NEW t \in Thread, Unlock(t) PROVE Readings'
  BY <1>12, ReturnReading DEF Unlock
<1>13. ASSUME UNCHANGED vars PROVE Readings'
  BY <1>13, OtherReading DEF vars, locals, Readings
<1>14. QED
  BY <1>1, <1>2, <1>3, <1>4, <1>5, <1>6, <1>7, <1>8, <1>9, <1>10, <1>11,
     <1>12, <1>13 DEF Next, Step, OnSample

\* A report is of samples the slot counts.
LEMMA ReportedCount ==
  ASSUME WindowInv, NEW t \in Thread, JustReported(t) \/ pc[t] = "report"
  PROVE  SampleCount(t) \in Nat /\ SampleCount(t) <= slots[idx[t]].count
<1>1. Reading(t) /\ Len(read[t]) = 6 /\ Unreset(t)
  BY FieldsAre DEF WindowInv, Readings, Reading, Unreset, JustReported
<1>2. QED
  BY <1>1 DEF Reading, SampleCount

\* A step of t that neither folds, reports nor resets keeps the account.
LEMMA MoverOnly ==
  ASSUME WindowInv, NEW t \in Thread,
         \A u \in Thread : u # t => pc'[u] = pc[u] /\ step'[u] = step[u],
         \A u \in Thread : u # t => read'[u] = read[u],
         UNCHANGED <<slots, reported, folded>>,
         ~JustReported(t), ~JustReported(t)', pc'[t] = "report" => WindowReady(t)'
  PROVE  Accounted'
<1>1. ASSUME NEW u \in Thread, u # t
      PROVE  /\ WindowReady(u)' <=> WindowReady(u)
             /\ JustReported(u)' <=> JustReported(u)
             /\ SampleCount(u)' = SampleCount(u)
  BY <1>1 DEF JustReported, WindowReady, CandidateRttNs, SampleCount
<1>2. InSlots' = InSlots
  BY DEF InSlots
<1>3. QED
  BY <1>1, <1>2 DEF WindowInv, Accounted

\* Samples that leave the slots keep the bound on what was reported.
LEMMA FewerInSlots ==
  ASSUME NEW r \in Nat, NEW a \in Nat, NEW b \in Nat, NEW f \in Nat,
         r + a <= f, b <= a
  PROVE  r + b <= f
OBVIOUS

\* So does a sample that is folded in.
LEMMA BothMore ==
  ASSUME NEW r \in Nat, NEW a \in Nat, NEW b \in Nat, NEW f \in Nat,
         NEW g \in Nat, r + a <= f, b - a = g - f
  PROVE  r + b <= g
OBVIOUS

\* Folding, reporting and resetting keep the account of the samples.
LEMMA AccountedStep == WindowInv /\ [Next]_vars => Accounted'
<1> SUFFICES ASSUME WindowInv, [Next]_vars PROVE Accounted'
  OBVIOUS
<1>0. /\ TypeOK /\ Locals /\ Boundary /\ None \notin Thread /\ Accounted
      /\ folded \in Nat /\ reported \in Nat
  BY WindowAssumption DEF WindowInv, TypeOK, None
<1>a. slots[0].count \in Nat /\ slots[1].count \in Nat
  <2>1. slots[0] \in Slot /\ slots[1] \in Slot
    BY <1>0 DEF TypeOK
  <2>2. QED
    BY <2>1 DEF Slot
<1>b. InSlots \in Nat
  BY <1>a DEF InSlots
<1> USE <1>0, <1>a, <1>b DEF TypeOK
<1>1. ASSUME NEW t \in Thread, NEW x \in Samples, NEW e \in Ends,
             Begin(t, x, e)
      PROVE  Accounted'
  <2>1. /\ \A u \in Thread : u # t => pc'[u] = pc[u] /\ step'[u] = step[u]
        /\ \A u \in Thread : u # t => read'[u] = read[u]
        /\ UNCHANGED <<slots, reported, folded>>
    BY <1>1 DEF Begin, Goto, Locals, locals, counts
  <2>2. pc[t] = "idle" /\ pc'[t] \notin {"report", "reset"}
    BY <1>1 DEF Begin, Goto
  <2>3. QED
    BY <2>1, <2>2, MoverOnly DEF JustReported
<1>2. ASSUME NEW t \in Thread, LoadIndex(t) PROVE Accounted'
  <2>1. /\ \A u \in Thread : u # t => pc'[u] = pc[u] /\ step'[u] = step[u]
        /\ \A u \in Thread : u # t => read'[u] = read[u]
        /\ UNCHANGED <<slots, reported, folded>>
    BY <1>2 DEF LoadIndex, Goto, Locals, locals, counts
  <2>2. pc[t] = "index" /\ pc'[t] \notin {"report", "reset"}
    BY <1>2 DEF LoadIndex, Goto
  <2>3. QED
    BY <2>1, <2>2, MoverOnly DEF JustReported
<1>3. ASSUME NEW t \in Thread, AddSample(t) PROVE Accounted'
  <2>1. /\ pc[t] = "add" /\ Advance(t, Fields, "due") /\ UNCHANGED <<read, reported>>
    BY <1>3 DEF AddSample
  <2>2. \A u \in Thread : u # t => pc'[u] = pc[u] /\ step'[u] = step[u]
    BY <2>1 DEF Advance, Goto
  <2>3. pc'[t] \in {"add", "due"}
    BY <2>1 DEF Advance, Goto
  <2>4. InSlots' - InSlots = folded' - folded /\ InSlots' \in Nat /\ folded' \in Nat
    <3>1. slots'[0] \in Slot /\ slots'[1] \in Slot
      BY <1>3, AddSlots
    <3>2. slots'[0].count \in Nat /\ slots'[1].count \in Nat
      BY <3>1 DEF Slot
    <3>3. CASE idx[t] = 0
      <4>1. /\ slots'[1] = slots[1]
            /\ slots'[0].count - slots[0].count = folded' - folded /\ folded' \in Nat
        BY <1>3, <3>3, AddSlots
      <4>2. QED
        BY SMTT(60), <3>2, <4>1 DEF InSlots
    <3>4. CASE idx[t] = 1
      <4>1. /\ slots'[0] = slots[0]
            /\ slots'[1].count - slots[1].count = folded' - folded /\ folded' \in Nat
        BY <1>3, <3>4, AddSlots
      <4>2. QED
        BY SMTT(60), <3>2, <4>1 DEF InSlots
    <3>5. QED
      BY <3>3, <3>4
  <2>5. /\ \A u \in Thread : JustReported(u)' <=> JustReported(u)
        /\ \A u \in Thread : SampleCount(u)' = SampleCount(u)
        /\ \A u \in Thread : WindowReady(u)' <=> WindowReady(u)
    BY <2>1, <2>2, <2>3
       DEF JustReported, WindowReady, CandidateRttNs, SampleCount
  <2>6. ASSUME NEW u \in Thread, JustReported(u) PROVE SampleCount(u) \in Nat
    BY <2>6, ReportedCount
  <2>7. (\A u \in Thread : ~JustReported(u)') => reported' + InSlots' <= folded'
    <3>1. (\A u \in Thread : ~JustReported(u)) => reported + InSlots <= folded
      BY DEF Accounted
    <3>2. reported' = reported
      BY <2>1
    <3>3. reported + InSlots <= folded => reported + InSlots' <= folded'
      BY <1>0, <1>b, <2>4, BothMore
    <3>4. QED
      BY <2>5, <3>1, <3>2, <3>3
  <2>8. ASSUME NEW u \in Thread, JustReported(u)'
        PROVE  reported' + InSlots' <= folded' + SampleCount(u)'
    <3>1. reported + InSlots <= folded + SampleCount(u)
      BY <2>5, <2>8 DEF Accounted
    <3>2. /\ reported' = reported /\ SampleCount(u) \in Nat
          /\ SampleCount(u)' = SampleCount(u)
      BY <2>1, <2>5, <2>6, <2>8
    <3>3. QED
      BY SMTT(60), <2>4, <3>1, <3>2
  <2>9. \A u \in Thread : pc'[u] = "report" => WindowReady(u)'
    BY <2>2, <2>3, <2>5 DEF Accounted
  <2>10. QED
    BY <2>7, <2>8, <2>9 DEF Accounted
<1>4. ASSUME NEW t \in Thread, CheckDue(t) PROVE Accounted'
  <2>1. /\ \A u \in Thread : u # t => pc'[u] = pc[u] /\ step'[u] = step[u]
        /\ \A u \in Thread : u # t => read'[u] = read[u]
        /\ UNCHANGED <<slots, reported, folded>>
    <3>1. UNCHANGED <<slots, reported, folded>>
      BY <1>4 DEF CheckDue, Return, counts
    <3>2. CASE Return(t)
      BY <3>1, <3>2 DEF Return, Goto, Locals
    <3>3. CASE ~Return(t)
      BY <1>4, <3>1, <3>3 DEF CheckDue, Return, Goto, locals
    <3>4. QED
      BY <3>2, <3>3
  <2>2. pc[t] = "due" /\ pc'[t] \notin {"report", "reset"}
    BY <1>4 DEF CheckDue, Return, Goto
  <2>3. QED
    BY <2>1, <2>2, MoverOnly DEF JustReported
<1>5. ASSUME NEW t \in Thread, TryLock(t) PROVE Accounted'
  <2>1. /\ \A u \in Thread : u # t => pc'[u] = pc[u] /\ step'[u] = step[u]
        /\ \A u \in Thread : u # t => read'[u] = read[u]
        /\ UNCHANGED <<slots, reported, folded>>
    <3>1. UNCHANGED <<slots, reported, folded>>
      BY <1>5 DEF TryLock, Return, counts
    <3>2. CASE Return(t)
      BY <3>1, <3>2 DEF Return, Goto, Locals
    <3>3. CASE ~Return(t)
      BY <1>5, <3>1, <3>3 DEF TryLock, Return, Goto, locals
    <3>4. QED
      BY <3>2, <3>3
  <2>2. pc[t] = "try" /\ pc'[t] \notin {"report", "reset"}
    BY <1>5 DEF TryLock, Return, Goto
  <2>3. QED
    BY <2>1, <2>2, MoverOnly DEF JustReported
<1>6. ASSUME NEW t \in Thread, Recheck(t) PROVE Accounted'
  <2>1. /\ \A u \in Thread : u # t => pc'[u] = pc[u] /\ step'[u] = step[u]
        /\ \A u \in Thread : u # t => read'[u] = read[u]
        /\ UNCHANGED <<slots, reported, folded>>
    <3>1. UNCHANGED <<slots, reported, folded>>
      BY <1>6 DEF Recheck, Return, counts
    <3>2. CASE Return(t)
      BY <3>1, <3>2 DEF Return, Goto, Locals
    <3>3. CASE ~Return(t)
      BY <1>6, <3>1, <3>3 DEF Recheck, Return, Goto, locals
    <3>4. QED
      BY <3>2, <3>3
  <2>2. pc[t] = "recheck" /\ pc'[t] \notin {"report", "reset"}
    BY <1>6 DEF Recheck, Return, Goto
  <2>3. QED
    BY <2>1, <2>2, MoverOnly DEF JustReported
<1>7. ASSUME NEW t \in Thread, ReadField(t) PROVE Accounted'
  <2>1. /\ \A u \in Thread : u # t => pc'[u] = pc[u] /\ step'[u] = step[u]
        /\ \A u \in Thread : u # t => read'[u] = read[u]
        /\ UNCHANGED <<slots, reported, folded>>
    BY <1>7 DEF ReadField, Advance, Goto, Locals, locals, counts
  <2>2. pc[t] = "read" /\ pc'[t] \notin {"report", "reset"}
    BY <1>7 DEF ReadField, Advance, Goto
  <2>3. QED
    BY <2>1, <2>2, MoverOnly DEF JustReported
<1>8. ASSUME NEW t \in Thread, Flip(t) PROVE Accounted'
  <2>1. /\ \A u \in Thread : u # t => pc'[u] = pc[u] /\ step'[u] = step[u]
        /\ \A u \in Thread : u # t => read'[u] = read[u]
        /\ UNCHANGED <<slots, reported, folded>>
    BY <1>8 DEF Flip, Goto, Locals, locals, counts
  <2>2. pc[t] = "flip" /\ pc'[t] \notin {"report", "reset"}
    BY <1>8 DEF Flip, Goto
  <2>3. QED
    BY <2>1, <2>2, MoverOnly DEF JustReported
<1>9. ASSUME NEW t \in Thread, Schedule(t) PROVE Accounted'
  <2>1. /\ pc[t] = "schedule" /\ UNCHANGED <<slots, reported, folded, step, read>>
        /\ pc' = [pc EXCEPT ![t] = IF WindowReady(t) THEN "report" ELSE "reset"]
    BY <1>9 DEF Schedule, Goto, locals, counts
  <2>2. WindowReady(t)' <=> WindowReady(t)
    BY <2>1 DEF WindowReady, CandidateRttNs, SampleCount
  <2>3. ~JustReported(t) /\ ~JustReported(t)' /\ (pc'[t] = "report" => WindowReady(t)')
    BY <2>1, <2>2 DEF JustReported
  <2>4. QED
    BY <2>1, <2>3, MoverOnly
<1>10. ASSUME NEW t \in Thread, Report(t) PROVE Accounted'
  <2>1. /\ pc[t] = "report" /\ pc' = [pc EXCEPT ![t] = "reset"]
        /\ reported' = reported + SampleCount(t)
        /\ UNCHANGED <<slots, folded, step, read>>
    BY <1>10 DEF Report, Goto, locals
  <2>2. /\ \A u \in Thread : SampleCount(u)' = SampleCount(u)
        /\ \A u \in Thread : WindowReady(u)' <=> WindowReady(u)
        /\ InSlots' = InSlots
    BY <2>1 DEF WindowReady, CandidateRttNs, SampleCount, InSlots
  <2>3. \A u \in Thread : ~JustReported(u) /\ (u # t => ~JustReported(u)')
    BY <2>1 DEF JustReported, Boundary, Holding
  <2>4. JustReported(t)'
    BY <2>1, <2>2 DEF JustReported, Accounted, Locals
  <2>5. reported + InSlots <= folded /\ SampleCount(t) \in Nat
    BY <2>1, <2>3, ReportedCount DEF Accounted
  <2>6. reported' + InSlots' <= folded' + SampleCount(t)'
    BY <2>1, <2>2, <2>5
  <2>7. \A u \in Thread : pc'[u] = "report" => pc[u] = "report"
    BY <2>1
  <2>8. QED
    BY <2>2, <2>3, <2>4, <2>6, <2>7 DEF Accounted
<1>11. ASSUME NEW t \in Thread, ResetField(t) PROVE Accounted'
  <2>1. /\ pc[t] = "reset" /\ Advance(t, Fields, "unlock")
        /\ UNCHANGED <<read, reported, folded>>
    BY <1>11 DEF ResetField, counts
  <2>2. \A u \in Thread : u # t => pc'[u] = pc[u] /\ step'[u] = step[u]
    BY <2>1 DEF Advance, Goto
  <2>3. \A u \in Thread : u # t => ~JustReported(u)
    BY <2>1 DEF JustReported, Boundary, Holding
  <2>4. ~JustReported(t)' /\ pc'[t] # "report"
    <3>1. CASE step[t] < 5
      <4>1. step' = [step EXCEPT ![t] = step[t] + 1] /\ pc' = pc
        BY <2>1, <3>1, FieldsAre DEF Advance
      <4>2. step[t] \in 1 .. 5
        BY <1>11, ResetSlots
      <4>3. QED
        BY <2>1, <4>1, <4>2 DEF JustReported
    <3>2. CASE ~(step[t] < 5)
      <4>1. pc' = [pc EXCEPT ![t] = "unlock"]
        BY <2>1, <3>2, FieldsAre DEF Advance, Goto
      <4>2. QED
        BY <2>1, <4>1 DEF JustReported
    <3>3. QED
      BY <3>1, <3>2
  <2>5. \A u \in Thread : WindowReady(u)' <=> WindowReady(u)
    BY <2>1 DEF WindowReady, CandidateRttNs, SampleCount
  <2>6. \A u \in Thread : ~JustReported(u)' /\ (pc'[u] = "report" => WindowReady(u)')
    BY <2>2, <2>3, <2>4, <2>5 DEF JustReported, Accounted
  <2>7. /\ idx[t] \in {0, 1}
        /\ idx[t] = 0 => slots'[1] = slots[1]
        /\ idx[t] = 1 => slots'[0] = slots[0]
        /\ slots'[idx[t]].count = IF step[t] = 1 THEN 0 ELSE slots[idx[t]].count
    BY <1>11, ResetSlots
  <2>8. CASE JustReported(t)
    <3>1. /\ SampleCount(t) \in Nat /\ SampleCount(t) <= slots[idx[t]].count
          /\ reported + InSlots <= folded + SampleCount(t) /\ step[t] = 1
      BY <2>8, ReportedCount DEF Accounted, JustReported
    <3>2. InSlots' = InSlots - slots[idx[t]].count /\ slots[idx[t]].count \in Nat
      BY SMTT(60), <2>7, <3>1 DEF InSlots
    <3>3. reported' + InSlots' <= folded'
      BY <2>1, <3>1, <3>2
    <3>4. QED
      BY <2>6, <3>3 DEF Accounted
  <2>9. CASE ~JustReported(t)
    <3>1. reported + InSlots <= folded
      BY <2>3, <2>9 DEF Accounted
    <3>2. InSlots' <= InSlots /\ InSlots' \in Nat
      BY SMTT(60), <2>7 DEF InSlots
    <3>3. reported' = reported /\ folded' = folded
      BY <2>1
    <3>4. reported' + InSlots' <= folded'
      BY <1>0, <1>b, <3>1, <3>2, <3>3, FewerInSlots
    <3>5. QED
      BY <2>6, <3>4 DEF Accounted
  <2>10. QED
    BY <2>8, <2>9
<1>12. ASSUME NEW t \in Thread, Unlock(t) PROVE Accounted'
  <2>1. /\ \A u \in Thread : u # t => pc'[u] = pc[u] /\ step'[u] = step[u]
        /\ \A u \in Thread : u # t => read'[u] = read[u]
        /\ UNCHANGED <<slots, reported, folded>>
    BY <1>12 DEF Unlock, Return, Goto, Locals, locals, counts
  <2>2. pc[t] = "unlock" /\ pc'[t] \notin {"report", "reset"}
    BY <1>12 DEF Unlock, Return, Goto
  <2>3. QED
    BY <2>1, <2>2, MoverOnly DEF JustReported
<1>13. ASSUME UNCHANGED vars PROVE Accounted'
  BY <1>13 DEF vars, history, locals, Accounted, JustReported, WindowReady,
     CandidateRttNs, SampleCount, InSlots
<1>14. QED
  BY <1>1, <1>2, <1>3, <1>4, <1>5, <1>6, <1>7, <1>8, <1>9, <1>10, <1>11,
     <1>12, <1>13 DEF Next, Step, OnSample

\* A sample that is begun is counted once.
LEMMA BegunStep == WindowInv /\ [Next]_vars => BegunOrFolded'
<1> SUFFICES ASSUME WindowInv, [Next]_vars PROVE BegunOrFolded'
  OBVIOUS
<1>0. /\ TypeOK /\ Locals /\ BegunOrFolded /\ folded \in Nat /\ begun \in Nat
      /\ IsFiniteSet(Uncounted) /\ Cardinality(Uncounted) \in Nat
  <2>1. Uncounted \subseteq Thread /\ IsFiniteSet(Thread)
    BY WindowAssumption DEF Uncounted
  <2>2. QED
    BY <2>1, FS_Subset, FS_CardinalityType DEF WindowInv, TypeOK, Locals
<1> USE <1>0 DEF TypeOK
<1>1. ASSUME NEW t \in Thread, NEW x \in Samples, NEW e \in Ends,
             Begin(t, x, e)
      PROVE  BegunOrFolded'
  <2>1. /\ pc[t] = "idle" /\ pc' = [pc EXCEPT ![t] = "index"] /\ step' = step
        /\ begun' = begun + 1 /\ folded' = folded
    BY <1>1 DEF Begin, Goto
  <2>2. Uncounted' = Uncounted \union {t} /\ t \notin Uncounted
    BY <2>1 DEF Uncounted
  <2>3. Cardinality(Uncounted') = Cardinality(Uncounted) + 1
    BY <2>2, FS_AddElement
  <2>4. QED
    BY <2>1, <2>3 DEF BegunOrFolded
<1>2. ASSUME NEW t \in Thread, LoadIndex(t) PROVE BegunOrFolded'
  <2>1. /\ pc[t] = "index" /\ pc' = [pc EXCEPT ![t] = "add"]
        /\ UNCHANGED <<step, begun, folded>> /\ step[t] = 1
    BY <1>2 DEF LoadIndex, Goto, counts, Locals
  <2>2. Uncounted' = Uncounted
    BY <2>1 DEF Uncounted
  <2>3. QED
    BY <2>1, <2>2 DEF BegunOrFolded
<1>3. ASSUME NEW t \in Thread, AddSample(t) PROVE BegunOrFolded'
  <2>1. pc[t] = "add" /\ Advance(t, Fields, "due") /\ begun' = begun
    BY <1>3 DEF AddSample
  <2>2. step[t] \in 1 .. 5 /\ folded' = folded + (IF step[t] = 1 THEN 1 ELSE 0)
    BY <1>3, AddSlots
  <2>3. \A u \in Thread : u # t => pc'[u] = pc[u] /\ step'[u] = step[u]
    BY <2>1 DEF Advance, Goto
  <2>4. t \notin Uncounted'
    <3>1. CASE step[t] < 5
      <4>1. step' = [step EXCEPT ![t] = step[t] + 1] /\ pc' = pc
        BY <2>1, <3>1, FieldsAre DEF Advance
      <4>2. QED
        BY <2>1, <2>2, <4>1 DEF Uncounted
    <3>2. CASE ~(step[t] < 5)
      <4>1. pc' = [pc EXCEPT ![t] = "due"]
        BY <2>1, <3>2, FieldsAre DEF Advance, Goto
      <4>2. QED
        BY <4>1 DEF Uncounted
    <3>3. QED
      BY <3>1, <3>2
  <2>5. CASE step[t] = 1
    <3>1. Uncounted' = Uncounted \ {t} /\ t \in Uncounted
      BY <2>1, <2>3, <2>4, <2>5 DEF Uncounted
    <3>2. Cardinality(Uncounted') = Cardinality(Uncounted) - 1
      BY <3>1, FS_RemoveElement
    <3>3. QED
      BY <2>1, <2>2, <2>5, <3>2 DEF BegunOrFolded
  <2>6. CASE step[t] # 1
    <3>1. Uncounted' = Uncounted
      BY <2>1, <2>3, <2>4, <2>6 DEF Uncounted
    <3>2. QED
      BY <2>1, <2>2, <2>6, <3>1 DEF BegunOrFolded
  <2>7. QED
    BY <2>5, <2>6
<1>4. ASSUME NEW t \in Thread, CheckDue(t) PROVE BegunOrFolded'
  <2>1. \A u \in Thread : u # t => pc'[u] = pc[u] /\ step'[u] = step[u]
    <3>1. CASE Return(t)
      BY <3>1 DEF Return, Goto
    <3>2. CASE ~Return(t)
      BY <1>4, <3>2 DEF CheckDue, Return, Goto, locals
    <3>3. QED
      BY <3>1, <3>2
  <2>2. pc[t] = "due" /\ pc'[t] \notin {"index", "add"} /\ UNCHANGED <<begun, folded>>
    BY <1>4 DEF CheckDue, Return, Goto, counts
  <2>3. Uncounted' = Uncounted
    BY <2>1, <2>2 DEF Uncounted
  <2>4. QED
    BY <2>2, <2>3 DEF BegunOrFolded
<1>5. ASSUME NEW t \in Thread, TryLock(t) PROVE BegunOrFolded'
  <2>1. \A u \in Thread : u # t => pc'[u] = pc[u] /\ step'[u] = step[u]
    <3>1. CASE Return(t)
      BY <3>1 DEF Return, Goto
    <3>2. CASE ~Return(t)
      BY <1>5, <3>2 DEF TryLock, Return, Goto, locals
    <3>3. QED
      BY <3>1, <3>2
  <2>2. pc[t] = "try" /\ pc'[t] \notin {"index", "add"} /\ UNCHANGED <<begun, folded>>
    BY <1>5 DEF TryLock, Return, Goto, counts
  <2>3. Uncounted' = Uncounted
    BY <2>1, <2>2 DEF Uncounted
  <2>4. QED
    BY <2>2, <2>3 DEF BegunOrFolded
<1>6. ASSUME NEW t \in Thread, Recheck(t) PROVE BegunOrFolded'
  <2>1. \A u \in Thread : u # t => pc'[u] = pc[u] /\ step'[u] = step[u]
    <3>1. CASE Return(t)
      BY <3>1 DEF Return, Goto
    <3>2. CASE ~Return(t)
      BY <1>6, <3>2 DEF Recheck, Return, Goto, locals
    <3>3. QED
      BY <3>1, <3>2
  <2>2. pc[t] = "recheck" /\ pc'[t] \notin {"index", "add"} /\ UNCHANGED <<begun, folded>>
    BY <1>6 DEF Recheck, Return, Goto, counts
  <2>3. Uncounted' = Uncounted
    BY <2>1, <2>2 DEF Uncounted
  <2>4. QED
    BY <2>2, <2>3 DEF BegunOrFolded
<1>7. ASSUME NEW t \in Thread, ReadField(t) PROVE BegunOrFolded'
  <2>1. \A u \in Thread : u # t => pc'[u] = pc[u] /\ step'[u] = step[u]
    BY <1>7 DEF ReadField, Advance, Goto, locals, Locals
  <2>2. pc[t] = "read" /\ pc'[t] \notin {"index", "add"} /\ UNCHANGED <<begun, folded>>
    BY <1>7 DEF ReadField, Advance, Goto, counts
  <2>3. Uncounted' = Uncounted
    BY <2>1, <2>2 DEF Uncounted
  <2>4. QED
    BY <2>2, <2>3 DEF BegunOrFolded
<1>8. ASSUME NEW t \in Thread, Flip(t) PROVE BegunOrFolded'
  <2>1. \A u \in Thread : u # t => pc'[u] = pc[u] /\ step'[u] = step[u]
    BY <1>8 DEF Flip, Goto, locals, Locals
  <2>2. pc[t] = "flip" /\ pc'[t] \notin {"index", "add"} /\ UNCHANGED <<begun, folded>>
    BY <1>8 DEF Flip, Goto, counts
  <2>3. Uncounted' = Uncounted
    BY <2>1, <2>2 DEF Uncounted
  <2>4. QED
    BY <2>2, <2>3 DEF BegunOrFolded
<1>9. ASSUME NEW t \in Thread, Schedule(t) PROVE BegunOrFolded'
  <2>1. \A u \in Thread : u # t => pc'[u] = pc[u] /\ step'[u] = step[u]
    BY <1>9 DEF Schedule, Goto, locals, Locals
  <2>2. pc[t] = "schedule" /\ pc'[t] \notin {"index", "add"} /\ UNCHANGED <<begun, folded>>
    BY <1>9 DEF Schedule, Goto, counts
  <2>3. Uncounted' = Uncounted
    BY <2>1, <2>2 DEF Uncounted
  <2>4. QED
    BY <2>2, <2>3 DEF BegunOrFolded
<1>10. ASSUME NEW t \in Thread, Report(t) PROVE BegunOrFolded'
  <2>1. \A u \in Thread : u # t => pc'[u] = pc[u] /\ step'[u] = step[u]
    BY <1>10 DEF Report, Goto, locals, Locals
  <2>2. pc[t] = "report" /\ pc'[t] \notin {"index", "add"} /\ UNCHANGED <<begun, folded>>
    BY <1>10 DEF Report, Goto, counts
  <2>3. Uncounted' = Uncounted
    BY <2>1, <2>2 DEF Uncounted
  <2>4. QED
    BY <2>2, <2>3 DEF BegunOrFolded
<1>11. ASSUME NEW t \in Thread, ResetField(t) PROVE BegunOrFolded'
  <2>1. \A u \in Thread : u # t => pc'[u] = pc[u] /\ step'[u] = step[u]
    BY <1>11 DEF ResetField, Advance, Goto, locals, Locals
  <2>2. pc[t] = "reset" /\ pc'[t] \notin {"index", "add"} /\ UNCHANGED <<begun, folded>>
    BY <1>11 DEF ResetField, Advance, Goto, counts
  <2>3. Uncounted' = Uncounted
    BY <2>1, <2>2 DEF Uncounted
  <2>4. QED
    BY <2>2, <2>3 DEF BegunOrFolded
<1>12. ASSUME NEW t \in Thread, Unlock(t) PROVE BegunOrFolded'
  <2>1. \A u \in Thread : u # t => pc'[u] = pc[u] /\ step'[u] = step[u]
    BY <1>12 DEF Unlock, Return, Goto, locals, Locals
  <2>2. pc[t] = "unlock" /\ pc'[t] \notin {"index", "add"} /\ UNCHANGED <<begun, folded>>
    BY <1>12 DEF Unlock, Return, Goto, counts
  <2>3. Uncounted' = Uncounted
    BY <2>1, <2>2 DEF Uncounted
  <2>4. QED
    BY <2>2, <2>3 DEF BegunOrFolded
<1>13. ASSUME UNCHANGED vars PROVE BegunOrFolded'
  BY <1>13 DEF vars, history, locals, BegunOrFolded, Uncounted
<1>14. QED
  BY <1>1, <1>2, <1>3, <1>4, <1>5, <1>6, <1>7, <1>8, <1>9, <1>10, <1>11,
     <1>12, <1>13 DEF Next, Step, OnSample

\* What a boundary schedules from: a time above the shortest window.
LEMMA AdaptiveTimeRange ==
  ASSUME NEW t \in Thread, read[t][1] \in 1 .. Infinite
  PROVE  AdaptiveTime(t) \in Nat /\ AdaptiveTime(t) >= MinWindowTime
<1>1. /\ MinWindowTime \in Nat /\ MaxWindowTime \in Nat
      /\ MinWindowTime <= MaxWindowTime /\ Infinite \in Nat
  BY WindowAssumption DEF ValidConfiguration
<1> DEFINE c == CandidateRttNs(t)
           m == Max({c * 2, MinWindowTime})
<1>2. c \in Nat
  BY <1>1 DEF CandidateRttNs
<1> HIDE DEF c
<1>3. m \in Nat /\ m >= MinWindowTime
  <2>1. c * 2 \in Int /\ c * 2 \in Nat
    BY <1>2
  <2>2. m = IF c * 2 >= MinWindowTime THEN c * 2 ELSE MinWindowTime
    BY <1>1, <2>1, MaxOfTwo
  <2>3. QED
    BY <1>1, <2>1, <2>2
<1> HIDE DEF m
<1>4. Min({m, MaxWindowTime}) = IF m <= MaxWindowTime THEN m ELSE MaxWindowTime
  BY <1>1, <1>3, MinOfTwo
<1>5. /\ Min({m, MaxWindowTime}) \in Nat
      /\ Min({m, MaxWindowTime}) >= MinWindowTime
  BY <1>1, <1>3, <1>4
<1>6. AdaptiveTime(t) \in {MinWindowTime, Min({m, MaxWindowTime})}
  BY DEF AdaptiveTime, m, c
<1>7. QED
  BY <1>1, <1>5, <1>6

\* The boundary thread moves the due time by more than a window.
LEMMA ScheduledLater ==
  ASSUME WindowInv, NEW t \in Thread, Schedule(t)
  PROVE  nextDue' \in Nat /\ nextDue' > nextDue + MinWindowTime
<1>1. /\ end[t] \in Nat /\ end[t] > nextDue /\ nextDue \in Nat
      /\ MinWindowTime \in Nat
  BY WindowAssumption
     DEF WindowInv, TypeOK, Locals, Boundary, Schedule, ValidConfiguration
<1>2. read[t][1] \in 1 .. Infinite
  BY FieldsAre DEF WindowInv, Readings, Reading, Schedule
<1>3. AdaptiveTime(t) \in Nat /\ AdaptiveTime(t) >= MinWindowTime
  BY <1>2, AdaptiveTimeRange
<1>4. nextDue' = end[t] + AdaptiveTime(t)
  BY DEF Schedule
<1>5. QED
  BY <1>1, <1>3, <1>4

Plain == /\ slots \in [{0, 1} -> Slot]
         /\ active \in {0, 1}
         /\ nextDue \in Nat
         /\ mu \in Thread \union {None}
         /\ pc \in [Thread -> Label]
         /\ idx \in [Thread -> {0, 1}]
         /\ step \in [Thread -> 1 .. 6]
         /\ reported \in Nat

\* Every step keeps the variables typed, their bounds apart.
LEMMA PlainStep == WindowInv /\ [Next]_vars => Plain'
<1> SUFFICES ASSUME WindowInv, [Next]_vars PROVE Plain'
  OBVIOUS
<1>0. Plain /\ Len(Fields) = 5 /\ Len(Reads) = 6
  BY FieldsAre DEF WindowInv, TypeOK, Plain
<1> USE <1>0 DEF Plain, Label, counts
<1>1. ASSUME NEW t \in Thread, NEW x \in Samples, NEW e \in Ends,
             Begin(t, x, e)
      PROVE  Plain'
  BY <1>1 DEF Begin, Goto, locals, counts
<1>2. ASSUME NEW t \in Thread, LoadIndex(t) PROVE Plain'
  BY <1>2 DEF LoadIndex, Goto, locals, counts
<1>3. ASSUME NEW t \in Thread, AddSample(t) PROVE Plain'
  <2>1. /\ slots' \in [{0, 1} -> Slot] /\ step[t] \in 1 .. 5
        /\ Advance(t, Fields, "due") /\ UNCHANGED <<active, nextDue, mu, idx, reported>>
    BY <1>3, AddSlots DEF AddSample
  <2>2. pc' \in [Thread -> Label] /\ step' \in [Thread -> 1 .. 6]
    BY <2>1 DEF Advance, Goto
  <2>3. QED
    BY <2>1, <2>2
<1>4. ASSUME NEW t \in Thread, CheckDue(t) PROVE Plain'
  <2>1. CASE Return(t)
    BY <1>4, <2>1 DEF CheckDue, Return, Goto
  <2>2. CASE ~Return(t)
    BY <1>4, <2>2 DEF CheckDue, Goto, locals
  <2>3. QED
    BY <2>1, <2>2
<1>5. ASSUME NEW t \in Thread, TryLock(t) PROVE Plain'
  <2>1. CASE Return(t)
    BY <1>5, <2>1 DEF TryLock, Return, Goto
  <2>2. CASE ~Return(t)
    BY <1>5, <2>2 DEF TryLock, Goto, locals
  <2>3. QED
    BY <2>1, <2>2
<1>6. ASSUME NEW t \in Thread, Recheck(t) PROVE Plain'
  <2>1. CASE Return(t)
    BY <1>6, <2>1 DEF Recheck, Return, Goto
  <2>2. CASE ~Return(t)
    BY <1>6, <2>2 DEF Recheck, Goto, locals
  <2>3. QED
    BY <2>1, <2>2
<1>7. ASSUME NEW t \in Thread, ReadField(t) PROVE Plain'
  <2>1. /\ step[t] \in 1 .. 6 /\ Advance(t, Reads, "flip")
        /\ UNCHANGED <<slots, active, nextDue, mu, idx, reported>>
    BY <1>7 DEF ReadField, counts
  <2>2. pc' \in [Thread -> Label] /\ step' \in [Thread -> 1 .. 6]
    <3>1. CASE step[t] < 6
      BY <2>1, <3>1 DEF Advance
    <3>2. CASE ~(step[t] < 6)
      BY <2>1, <3>2 DEF Advance, Goto
    <3>3. QED
      BY <3>1, <3>2
  <2>3. QED
    BY <2>1, <2>2
<1>8. ASSUME NEW t \in Thread, Flip(t) PROVE Plain'
  BY <1>8 DEF Flip, FlipTo, Goto, locals, counts
<1>9. ASSUME NEW t \in Thread, Schedule(t) PROVE Plain'
  <2>1. nextDue' \in Nat
    BY <1>9, ScheduledLater
  <2>2. QED
    BY <1>9, <2>1 DEF Schedule, Goto, locals, counts
<1>10. ASSUME NEW t \in Thread, Report(t) PROVE Plain'
  <2>1. SampleCount(t) \in Nat
    BY <1>10, ReportedCount DEF Report
  <2>2. QED
    BY <1>10, <2>1 DEF Report, Goto, locals
<1>11. ASSUME NEW t \in Thread, ResetField(t) PROVE Plain'
  <2>1. /\ slots' \in [{0, 1} -> Slot] /\ step[t] \in 1 .. 5
        /\ Advance(t, Fields, "unlock") /\ UNCHANGED <<active, nextDue, mu, idx, reported>>
    BY <1>11, ResetSlots DEF ResetField, counts
  <2>2. pc' \in [Thread -> Label] /\ step' \in [Thread -> 1 .. 6]
    BY <2>1 DEF Advance, Goto
  <2>3. QED
    BY <2>1, <2>2
<1>12. ASSUME NEW t \in Thread, Unlock(t) PROVE Plain'
  BY <1>12 DEF Unlock, Return, Goto, locals, counts
<1>13. ASSUME UNCHANGED vars PROVE Plain'
  BY <1>13 DEF vars, history, Goto, locals, counts
<1>14. QED
  BY <1>1, <1>2, <1>3, <1>4, <1>5, <1>6, <1>7, <1>8, <1>9, <1>10, <1>11,
     <1>12, <1>13 DEF Next, Step, OnSample

\* The number of samples counted so far only grows.
LEMMA FoldedGrows ==
  ASSUME WindowInv, [Next]_vars
  PROVE  folded' \in Nat
<1>1. folded \in Nat
  BY DEF WindowInv, TypeOK
<1>2. folded' \in {folded, folded + 1}
  BY DEF Next, Step, OnSample, Begin, LoadIndex, AddSample, CheckDue, TryLock,
     Recheck, ReadField, Flip, Schedule, Report, ResetField, Unlock, counts,
     vars, history
<1>3. QED
  BY <1>1, <1>2

\* Every step keeps the types.
LEMMA TypeStep == WindowInv /\ [Next]_vars => TypeOK'
<1> SUFFICES ASSUME WindowInv, [Next]_vars PROVE TypeOK'
  OBVIOUS
<1>1. Plain' /\ Locals' /\ Readings' /\ BegunOrFolded'
  BY PlainStep, LocalsStep, ReadingsStep, BegunStep
<1>2. \A t \in Thread : Len(read'[t]) \in 0 .. 6
  <2> TAKE t \in Thread
  <2>1. Reading(t)' /\ step'[t] \in 1 .. 6 /\ pc'[t] \in Label
    BY <1>1 DEF Readings, Plain
  <2>2. \/ read'[t] = << >> \/ Len(read'[t]) = 6 \/ Len(read'[t]) = step'[t] - 1
    BY <2>1, FieldsAre DEF Reading, Holding, Label
  <2>3. CASE read'[t] = << >>
    <3>1. Len(read'[t]) = 0
      BY <2>3
    <3>2. QED
      BY <3>1
  <2>4. CASE Len(read'[t]) = 6 \/ Len(read'[t]) = step'[t] - 1
    <3>1. ASSUME NEW n, NEW s \in 1 .. 6, n = 6 \/ n = s - 1 PROVE n \in 0 .. 6
      BY <3>1
    <3>2. QED
      BY <2>1, <2>4, <3>1
  <2>5. QED
    BY <2>2, <2>3, <2>4
<1>3. folded' \in 0 .. begun'
  <2>1. Uncounted' \subseteq Thread /\ IsFiniteSet(Thread)
    BY WindowAssumption DEF Uncounted
  <2>2. Cardinality(Uncounted') \in Nat
    BY <2>1, FS_Subset, FS_CardinalityType
  <2>3. begun' = folded' + Cardinality(Uncounted') /\ begun' \in Nat
    BY <1>1 DEF BegunOrFolded, Locals
  <2>4. folded' \in Nat
    BY FoldedGrows
  <2>5. QED
    BY <2>2, <2>3, <2>4
<1>4. quiet' \in BOOLEAN
  BY DEF Next, Watch, WindowInv, TypeOK, vars, history
<1>5. QED
  BY <1>1, <1>2, <1>3, <1>4, FieldsAre DEF Plain, TypeOK

\* Before the first sample the invariant holds.
LEMMA InitInv == Init => WindowInv
<1> SUFFICES ASSUME Init PROVE WindowInv
  OBVIOUS
<1>1. Infinite \in Nat \ {0} /\ None \notin Thread /\ IsFiniteSet(Thread)
  BY WindowAssumption DEF None
<1>2. TypeOK
  BY FieldsAre, EmptyIsSlot DEF Init, TypeOK, Label
<1>3. Locals
  BY FieldsAre DEF Init, Locals
<1>4. Boundary
  BY <1>1 DEF Init, Boundary, Holding, ResetsInactiveSlot
<1>5. Readings
  BY DEF Init, Readings, Reading, Holding
<1>6. Accounted
  <2>1. InSlots = 0 /\ reported = 0 /\ folded = 0
    BY DEF Init, InSlots, Empty
  <2>2. QED
    BY <2>1 DEF Init, Accounted, JustReported
<1>7. BegunOrFolded
  <2>1. Uncounted = {} /\ begun = 0 /\ folded = 0
    BY DEF Init, Uncounted
  <2>2. QED
    BY <2>1, FS_EmptySet DEF BegunOrFolded
<1>8. QED
  BY <1>2, <1>3, <1>4, <1>5, <1>6, <1>7 DEF WindowInv

\* The invariant holds in every reachable state.
LEMMA Invariance == Spec => []WindowInv
<1>1. WindowInv /\ [Next]_vars => WindowInv'
  BY TypeStep, LocalsStep, BoundaryStep, ReadingsStep, AccountedStep, BegunStep
     DEF WindowInv
<1>2. QED
  BY <1>1, InitInv, PTL DEF Spec

----------------------------------------------------------------------------
(* The theorems.                                                           *)

\* Every variable keeps its type, for any number of threads; the active index
\* is 0 or 1, and no slot counts a sample that was not begun.
THEOREM TypeCorrect == Spec => []TypeOK
<1>1. WindowInv => TypeOK
  BY DEF WindowInv
<1>2. QED
  BY <1>1, Invariance, PTL

\* The boundary thread never resets the slot that new samples go to, although
\* it resets outside the flip and other threads may cross the next boundary.
THEOREM InactiveReset == Spec => []ResetsInactiveSlot
<1>1. WindowInv => ResetsInactiveSlot
  BY DEF WindowInv, Boundary
<1>2. QED
  BY <1>1, Invariance, PTL

\* However samples race the boundary, none is reported to the delegate in two
\* windows: a slot is reset before it can be read again.
THEOREM CountedOnce == Spec => []NoSampleCountedTwice
<1>1. WindowInv => NoSampleCountedTwice
  <2> SUFFICES ASSUME WindowInv PROVE reported <= folded
    BY DEF NoSampleCountedTwice
  <2>1. /\ Accounted /\ folded \in Nat /\ reported \in Nat
        /\ \A t \in Thread : idx[t] \in {0, 1}
    BY DEF WindowInv, TypeOK
  <2>2. slots[0].count \in Nat /\ slots[1].count \in Nat
    <3>1. slots[0] \in Slot /\ slots[1] \in Slot
      BY DEF WindowInv, TypeOK
    <3>2. QED
      BY <3>1 DEF Slot
  <2>3. CASE \E t \in Thread : JustReported(t)
    <3>1. PICK t \in Thread : JustReported(t)
      BY <2>3
    <3>2. SampleCount(t) \in Nat /\ SampleCount(t) <= slots[idx[t]].count
      BY <3>1, ReportedCount
    <3>3. reported + InSlots <= folded + SampleCount(t)
      BY <2>1, <3>1 DEF Accounted
    <3>4. SampleCount(t) <= InSlots /\ InSlots \in Nat
      BY <2>1, <2>2, <3>2 DEF InSlots
    <3>5. QED
      BY <2>1, <3>2, <3>3, <3>4
  <2>4. CASE ~ \E t \in Thread : JustReported(t)
    <3>1. reported + InSlots <= folded /\ InSlots \in Nat
      BY <2>1, <2>2, <2>4 DEF Accounted, InSlots
    <3>2. QED
      BY <2>1, <3>1
  <2>5. QED
    BY <2>3, <2>4
<1>2. QED
  BY <1>1, Invariance, PTL

\* Only Schedule moves the due time.
LEMMA OnlySchedule ==
  ASSUME WindowInv, Next, nextDue' # nextDue
  PROVE  \E t \in Thread : Schedule(t)
BY DEF Next, Step, OnSample, Begin, LoadIndex, AddSample, CheckDue, TryLock,
   Recheck, ReadField, Flip, Report, ResetField, Unlock

\* Threads that see one boundary crossed close one window: the re-check under
\* boundary_mu_ makes every boundary end more than min_window_time_ after the
\* one before.
THEOREM BoundaryOnce == Spec => OncePerWindow
<1>1. WindowInv /\ [Next]_vars =>
        [nextDue' # nextDue => nextDue' > nextDue + MinWindowTime]_vars
  BY OnlySchedule, ScheduledLater
<1>2. QED
  BY <1>1, Invariance, PTL DEF Spec, OncePerWindow

----------------------------------------------------------------------------
(* What a window reports.  As long as nobody folds while a window is       *)
(* closed, the active slot holds at every moment the aggregate of the      *)
(* samples folded completely, and of each half-folded one in the fields    *)
(* its thread has passed; the other slot is empty unless it is being       *)
(* emptied.  A boundary thread then meets no half-folded sample.           *)

\* The threads that have folded all fields before the k-th into their slot.
Half(k) == {t \in Thread : pc[t] = "add" /\ step[t] >= k}

IsLeast(v, S) == v \in S /\ \A y \in S : v <= y

IsGreatest(v, S) == v \in S /\ \A y \in S : y <= v

Rtts(B, H, x) ==
  {Infinite} \union {B[i].rtt : i \in DOMAIN B} \union {x[t].rtt : t \in H}

Loads(B, H, x) ==
  {0} \union {B[i].inflight : i \in DOMAIN B} \union {x[t].inflight : t \in H}

Drops(B) == \E i \in DOMAIN B : B[i].drop

Filled(s) ==
  /\ s.count = Len(batch) + Cardinality(Half(2))
  /\ s.sum = Cardinality(RttUnits(DOMAIN batch, batch))
               + Cardinality(RttUnits(Half(3), sample))
  /\ IsLeast(s.min, Rtts(batch, Half(4), sample))
  /\ IsGreatest(s.inflight, Loads(batch, Half(5), sample))
  /\ s.drop = Drops(batch)

Aside == 1 - active

Closed(t) ==
  /\ pc[t] \in {"read", "flip"} =>
       /\ idx[t] = active
       /\ \A j \in 1 .. Len(read[t]) : read[t][j] = slots[active][Reads[j]]
  /\ pc[t] = "reset" =>
       \A j \in 1 .. step[t] - 1 : slots[Aside][Fields[j]] = Empty[Fields[j]]

QuietInv ==
  /\ batch \in Seq(Samples)
  /\ quiet =>
     /\ ~(Closing /\ Folding)
     /\ \A t \in Thread : pc[t] = "add" => idx[t] = active
     /\ Filled(slots[active])
     /\ \A t \in Thread : Closed(t)
     /\ (\A t \in Thread : pc[t] \notin {"schedule", "report", "reset"}) =>
          slots[Aside] = Empty

\* A step of one thread leaves the locals of the others alone.
Alone(t) ==
  \A u \in Thread \ {t} :
    /\ pc'[u] = pc[u] /\ step'[u] = step[u] /\ sample'[u] = sample[u]
    /\ idx'[u] = idx[u] /\ read'[u] = read[u]

\* The RTTs of finitely many samples have finitely many units.
LEMMA UnitsFinite ==
  ASSUME NEW D, IsFiniteSet(D), NEW x, \A d \in D : x[d].rtt \in 1 .. Infinite
  PROVE  IsFiniteSet(RttUnits(D, x)) /\ Cardinality(RttUnits(D, x)) \in Nat
<1>1. Infinite \in Nat
  BY WindowAssumption
<1>2. IsFiniteSet(D \X (1 .. Infinite))
  <2>1. IsFiniteSet(1 .. Infinite)
    BY <1>1, FS_Interval
  <2>2. QED
    BY <2>1, FS_Product, Zenon
<1>3. RttUnits(D, x) \in SUBSET (D \X (1 .. Infinite))
  <2>1. ASSUME NEW d \in D PROVE {d} \X (1 .. x[d].rtt) \subseteq D \X (1 .. Infinite)
    <3>1. x[d].rtt \in 1 .. Infinite
      OBVIOUS
    <3>2. 1 .. x[d].rtt \subseteq 1 .. Infinite
      BY <1>1, <3>1
    <3>3. QED
      BY <3>2
  <2>2. QED
    BY <2>1 DEF RttUnits
<1>4. QED
  BY <1>2, <1>3, FS_Subset, FS_CardinalityType

\* One more sample adds the units of its own RTT.
LEMMA UnitsAdd ==
  ASSUME NEW D, IsFiniteSet(D), NEW x, NEW e, e \notin D,
         \A d \in D \union {e} : x[d].rtt \in 1 .. Infinite
  PROVE  Cardinality(RttUnits(D \union {e}, x)) =
           Cardinality(RttUnits(D, x)) + x[e].rtt
<1> DEFINE r == x[e].rtt
           E == {e} \X (1 .. r)
<1>1. r \in Nat /\ r >= 1
  BY WindowAssumption
<1> HIDE DEF r
<1>2. IsFiniteSet(E) /\ Cardinality(E) = r
  <2>1. IsFiniteSet({e}) /\ Cardinality({e}) = 1
    BY FS_Singleton
  <2>2. IsFiniteSet(1 .. r) /\ Cardinality(1 .. r) = r
    BY <1>1, FS_Interval
  <2>3. IsFiniteSet(E) /\ Cardinality(E) = Cardinality({e}) * Cardinality(1 .. r)
    BY <2>1, <2>2, FS_Product, Zenon
  <2>4. QED
    BY <1>1, <2>1, <2>2, <2>3
<1>3. RttUnits(D \union {e}, x) = RttUnits(D, x) \union E
  BY DEF RttUnits, r
<1>4. RttUnits(D, x) \intersect E = {}
  BY DEF RttUnits
<1>5. IsFiniteSet(RttUnits(D, x)) /\ Cardinality(RttUnits(D, x)) \in Nat
  BY UnitsFinite
<1> HIDE DEF E
<1>6. Cardinality(RttUnits(D, x) \union E) =
        Cardinality(RttUnits(D, x)) + Cardinality(E) - Cardinality({})
  BY <1>2, <1>4, <1>5, FS_Union
<1>7. Cardinality(RttUnits(D, x) \union E) = Cardinality(RttUnits(D, x)) + r
  BY <1>1, <1>2, <1>5, <1>6, FS_EmptySet
<1>8. QED
  BY <1>3, <1>7 DEF r

\* Only the samples counted matter.
LEMMA UnitsSame ==
  ASSUME NEW D, NEW x, NEW y, \A d \in D : x[d] = y[d]
  PROVE  RttUnits(D, x) = RttUnits(D, y)
BY DEF RttUnits

\* The window's samples with one more.
LEMMA AppendSample ==
  ASSUME NEW B \in Seq(Samples), NEW y \in Samples
  PROVE  /\ DOMAIN Append(B, y) = DOMAIN B \union {Len(B) + 1}
         /\ Len(B) \in Nat /\ Len(B) + 1 \notin DOMAIN B /\ IsFiniteSet(DOMAIN B)
         /\ Append(B, y) \in Seq(Samples) /\ Len(Append(B, y)) = Len(B) + 1
         /\ \A i \in DOMAIN B : Append(B, y)[i] = B[i] /\ B[i] \in Samples
         /\ Append(B, y)[Len(B) + 1] = y
<1>1. IsFiniteSet(1 .. Len(B))
  BY FS_Interval
<1>2. QED
  BY <1>1

\* A sample's RTT is a proper one.
LEMMA SampleTyped ==
  ASSUME NEW y \in Samples
  PROVE  /\ y.rtt \in 1 .. Infinite /\ y.rtt \in Nat
         /\ y.inflight \in Nat /\ y.drop \in BOOLEAN
BY WindowAssumption

\* One more sample adds its round trip to the sum.
LEMMA UnitsAppend ==
  ASSUME NEW B \in Seq(Samples), NEW y \in Samples
  PROVE  /\ Cardinality(RttUnits(DOMAIN Append(B, y), Append(B, y))) =
              Cardinality(RttUnits(DOMAIN B, B)) + y.rtt
         /\ Cardinality(RttUnits(DOMAIN B, B)) \in Nat
<1> DEFINE C == Append(B, y)
           e == Len(B) + 1
<1>1. /\ DOMAIN C = DOMAIN B \union {e} /\ e \notin DOMAIN B /\ IsFiniteSet(DOMAIN B)
      /\ \A i \in DOMAIN B : C[i] = B[i] /\ B[i] \in Samples
      /\ C[e] = y
  BY AppendSample
<1> HIDE DEF C, e
<1>2. \A i \in DOMAIN B : B[i].rtt \in 1 .. Infinite
  BY <1>1, SampleTyped
<1>3. \A i \in DOMAIN B \union {e} : C[i].rtt \in 1 .. Infinite
  BY <1>1, SampleTyped
<1>4. Cardinality(RttUnits(DOMAIN B \union {e}, C)) =
        Cardinality(RttUnits(DOMAIN B, C)) + C[e].rtt
  BY <1>1, <1>3, UnitsAdd
<1>5. RttUnits(DOMAIN B, C) = RttUnits(DOMAIN B, B)
  BY <1>1, UnitsSame
<1>6. Cardinality(RttUnits(DOMAIN B, B)) \in Nat
  BY <1>1, <1>2, UnitsFinite
<1>7. QED
  BY <1>1, <1>4, <1>5, <1>6 DEF C

\* A running minimum, and a running maximum.
LEMMA LeastMore ==
  ASSUME NEW S \in SUBSET Int, NEW v, IsLeast(v, S), NEW r \in Int
  PROVE  IsLeast(Min({v, r}), S \union {r})
<1>1. v \in Int /\ \A y \in S : y \in Int /\ v <= y
  BY DEF IsLeast
<1>2. Min({v, r}) = IF v <= r THEN v ELSE r
  BY <1>1, MinOfTwo
<1>3. QED
  BY <1>1, <1>2 DEF IsLeast

\* The greatest of one more number.
LEMMA GreatestMore ==
  ASSUME NEW S \in SUBSET Int, NEW v, IsGreatest(v, S), NEW r \in Int
  PROVE  IsGreatest(Max({v, r}), S \union {r})
<1>1. v \in Int /\ \A y \in S : y \in Int /\ y <= v
  BY DEF IsGreatest
<1>2. Max({v, r}) = IF v >= r THEN v ELSE r
  BY <1>1, MaxOfTwo
<1>3. QED
  BY <1>1, <1>2 DEF IsGreatest

\* A least element is Min.
LEMMA LeastIsMin ==
  ASSUME NEW S \in SUBSET Int, NEW v, IsLeast(v, S)
  PROVE  Min(S) = v
<1>1. v \in S /\ \A y \in S : v <= y
  BY DEF IsLeast
<1>2. Min(S) \in S /\ \A y \in S : Min(S) <= y
  BY <1>1 DEF Min
<1>3. Min(S) \in Int /\ v \in Int /\ Min(S) <= v /\ v <= Min(S)
  BY <1>1, <1>2
<1>4. QED
  BY <1>3

\* A greatest element is Max.
LEMMA GreatestIsMax ==
  ASSUME NEW S \in SUBSET Int, NEW v, IsGreatest(v, S)
  PROVE  Max(S) = v
<1>1. v \in S /\ \A y \in S : v >= y
  BY DEF IsGreatest
<1>2. Max(S) \in S /\ \A y \in S : Max(S) >= y
  BY <1>1 DEF Max
<1>3. Max(S) \in Int /\ v \in Int /\ Max(S) >= v /\ v >= Max(S)
  BY <1>1, <1>2
<1>4. QED
  BY <1>3

----------------------------------------------------------------------------
(* The aggregate, one step at a time.                                      *)

\* A step that folds nothing leaves the aggregate as it is.
LEMMA SameFill ==
  ASSUME TypeOK, Filled(slots[active]), NEW t \in Thread, Alone(t), pc[t] # "add",
         pc'[t] # "add" \/ step'[t] = 1, slots'[active'] = slots[active], batch' = batch
  PROVE  Filled(slots[active])'
<1>1. ASSUME NEW k \in {2, 3, 4, 5}
      PROVE  Half(k)' = Half(k) /\ \A u \in Half(k) : sample'[u] = sample[u]
  BY DEF Half, Alone
<1>2. RttUnits(Half(3), sample') = RttUnits(Half(3), sample)
  BY <1>1, UnitsSame
<1>3. Rtts(batch, Half(4), sample') = Rtts(batch, Half(4), sample)
  BY <1>1 DEF Rtts
<1>4. Loads(batch, Half(5), sample') = Loads(batch, Half(5), sample)
  BY <1>1 DEF Loads
<1>5. Half(2)' = Half(2) /\ Half(3)' = Half(3) /\ Half(4)' = Half(4) /\ Half(5)' = Half(5)
  BY <1>1
<1>6. QED
  BY <1>2, <1>3, <1>4, <1>5 DEF Filled

\* What another thread has read, or emptied, stays so.
LEMMA SameClosed ==
  ASSUME NEW t \in Thread, Alone(t), NEW u \in Thread \ {t}, Closed(u),
         slots' = slots, active' = active
  PROVE  Closed(u)'
<1>1. /\ pc'[u] = pc[u] /\ step'[u] = step[u] /\ idx'[u] = idx[u] /\ read'[u] = read[u]
  BY DEF Alone
<1>2. Aside' = Aside
  BY DEF Aside
<1>3. QED
  BY <1>1, <1>2 DEF Closed

\* A step of OnSample is a step of one thread.
LEMMA StepsAlone ==
  ASSUME TypeOK, Locals, NEW t \in Thread, OnSample(t)
  PROVE  Alone(t)
<1> USE DEF TypeOK, Locals, Alone, Return, Goto, Advance, locals, counts
<1>1. CASE \E x \in Samples, e \in Ends : Begin(t, x, e)
  BY <1>1 DEF Begin
<1>2. CASE LoadIndex(t) \/ AddSample(t)
  BY <1>2 DEF LoadIndex, AddSample
<1>3. CASE CheckDue(t)
  BY <1>3 DEF CheckDue
<1>4. CASE TryLock(t)
  BY <1>4 DEF TryLock
<1>5. CASE Recheck(t)
  BY <1>5 DEF Recheck
<1>6. CASE ReadField(t)
  BY <1>6 DEF ReadField
<1>7. CASE Flip(t) \/ Schedule(t) \/ Report(t)
  BY <1>7 DEF Flip, Schedule, Report
<1>8. CASE ResetField(t)
  BY <1>8 DEF ResetField
<1>9. CASE Unlock(t)
  BY <1>9 DEF Unlock
<1>10. QED
  BY <1>1, <1>2, <1>3, <1>4, <1>5, <1>6, <1>7, <1>8, <1>9 DEF OnSample

\* The threads that have passed a field are finitely many.
LEMMA HalfFinite ==
  ASSUME NEW k
  PROVE  /\ Half(k) \subseteq Thread /\ IsFiniteSet(Half(k))
         /\ Cardinality(Half(k)) \in Nat
<1>1. Half(k) \in SUBSET Thread
  BY DEF Half
<1>2. QED
  BY <1>1, WindowAssumption, FS_Subset, FS_CardinalityType

\* The sets whose minimum and maximum a slot keeps.
LEMMA SetsTyped ==
  ASSUME NEW B \in Seq(Samples), NEW H, NEW x, \A u \in H : x[u] \in Samples
  PROVE  Rtts(B, H, x) \in SUBSET Int /\ Loads(B, H, x) \in SUBSET Int
<1>1. \A i \in DOMAIN B : B[i].rtt \in Nat /\ B[i].inflight \in Nat
  <2>1. ASSUME NEW i \in DOMAIN B PROVE B[i].rtt \in Nat /\ B[i].inflight \in Nat
    <3>1. B[i] \in Samples
      OBVIOUS
    <3>2. QED
      BY <3>1, SampleTyped
  <2>2. QED
    BY <2>1
<1>2. \A u \in H : x[u].rtt \in Nat /\ x[u].inflight \in Nat
  BY SampleTyped
<1>3. QED
  BY <1>1, <1>2, WindowAssumption DEF Rtts, Loads

\* A sample that is folded completely joins the window.
LEMMA SetsAppend ==
  ASSUME NEW B \in Seq(Samples), NEW H, NEW x, NEW t \in H, x[t] \in Samples
  PROVE  /\ Rtts(Append(B, x[t]), H \ {t}, x) = Rtts(B, H, x)
         /\ Loads(Append(B, x[t]), H \ {t}, x) = Loads(B, H, x)
         /\ Drops(Append(B, x[t])) = (Drops(B) \/ x[t].drop)
<1> DEFINE C == Append(B, x[t])
           e == Len(B) + 1
<1>1. /\ DOMAIN C = DOMAIN B \union {e} /\ C[e] = x[t]
      /\ \A i \in DOMAIN B : C[i] = B[i]
  BY AppendSample
<1> HIDE DEF C, e
<1>2. Rtts(C, H \ {t}, x) = Rtts(B, H, x)
  BY <1>1 DEF Rtts
<1>3. Loads(C, H \ {t}, x) = Loads(B, H, x)
  BY <1>1 DEF Loads
<1>4. Drops(C) = (Drops(B) \/ x[t].drop)
  <2>1. x[t].drop \in BOOLEAN
    BY SampleTyped
  <2>2. Drops(C) <=> (Drops(B) \/ x[t].drop)
    BY <1>1 DEF Drops
  <2>3. QED
    BY <2>1, <2>2 DEF Drops
<1>5. QED
  BY <1>2, <1>3, <1>4 DEF C

\* Each field AddSample stores keeps the slot the aggregate of what has been
\* folded into it.
LEMMA AddFills ==
  ASSUME WindowInv, QuietInv, quiet, NEW t \in Thread, AddSample(t)
  PROVE  Filled(slots[active])' /\ slots'[Aside] = slots[Aside] /\ batch' \in Seq(Samples)
<1> DEFINE f == Fields[step[t]]
           s == slots[active]
           r == slots'[active]
           x == sample[t]
<1>1. /\ active \in {0, 1} /\ idx[t] = active /\ pc[t] = "add" /\ active' = active
      /\ slots \in [{0, 1} -> Slot] /\ step[t] \in 1 .. 5 /\ sample' = sample
      /\ pc \in [Thread -> Label] /\ step \in [Thread -> 1 .. Len(Reads)]
      /\ batch \in Seq(Samples) /\ f \in FieldNames /\ x \in Samples
  BY FieldsAre DEF WindowInv, TypeOK, Locals, QuietInv, AddSample
<1>2. slots' = [slots EXCEPT ![active][f] = Fold(s, x, f)]
  BY <1>1 DEF AddSample
<1>3. /\ r[f] = Fold(s, x, f) /\ \A g \in FieldNames \ {f} : r[g] = s[g]
      /\ slots'[Aside] = slots[Aside]
  <2> DEFINE v == Fold(s, x, f)
  <2>1. slots' = [slots EXCEPT ![active][f] = v]
    BY <1>2
  <2>2. slots \in [{0, 1} -> Slot] /\ active \in {0, 1} /\ f \in FieldNames
    BY <1>1
  <2> HIDE DEF v, f
  <2>3. /\ slots'[active][f] = v
        /\ \A g \in FieldNames \ {f} : slots'[active][g] = slots[active][g]
        /\ slots'[1 - active] = slots[1 - active]
    <3> DEFINE q == [slots[active] EXCEPT ![f] = v]
    <3>1. slots' = [slots EXCEPT ![active] = q]
      BY <2>1
    <3>2. slots[active] \in Slot /\ 1 - active \in {0, 1} /\ 1 - active # active
      BY <2>2
    <3>3. q[f] = v /\ \A g \in FieldNames \ {f} : q[g] = slots[active][g]
      BY <2>2, <3>2 DEF Slot, FieldNames
    <3> HIDE DEF q
    <3>4. slots'[active] = q /\ slots'[1 - active] = slots[1 - active]
      BY <2>2, <3>1, <3>2
    <3>5. QED
      BY <3>3, <3>4
  <2>4. QED
    BY <2>3 DEF Aside, v
<1>4. /\ s.count = Len(batch) + Cardinality(Half(2))
      /\ s.sum = Cardinality(RttUnits(DOMAIN batch, batch))
                   + Cardinality(RttUnits(Half(3), sample))
      /\ IsLeast(s.min, Rtts(batch, Half(4), sample))
      /\ IsGreatest(s.inflight, Loads(batch, Half(5), sample))
      /\ s.drop = Drops(batch)
  BY DEF QuietInv, Filled
<1>5. \A k \in {2, 3, 4, 5} : \A u \in Half(k) : sample[u] \in Samples
  BY DEF WindowInv, Locals, Half
<1>6. \A k \in {2, 3, 4, 5} : \A u \in Half(k) : sample[u].rtt \in 1 .. Infinite
  BY <1>5, SampleTyped
<1>7. /\ Len(batch) \in Nat /\ x.rtt \in Nat /\ x.rtt \in 1 .. Infinite
      /\ x.inflight \in Nat /\ x.drop \in BOOLEAN
      /\ Cardinality(RttUnits(DOMAIN batch, batch)) \in Nat
      /\ Cardinality(RttUnits(Half(3), sample)) \in Nat
  <2>1. /\ Len(batch) \in Nat /\ x.rtt \in Nat /\ x.rtt \in 1 .. Infinite
        /\ x.inflight \in Nat /\ x.drop \in BOOLEAN
    BY <1>1, SampleTyped
  <2>2. Cardinality(RttUnits(DOMAIN batch, batch)) \in Nat
    BY <1>1, UnitsAppend
  <2>3. IsFiniteSet(Half(3)) /\ \A u \in Half(3) : sample[u].rtt \in 1 .. Infinite
    BY <1>6, HalfFinite
  <2>4. Cardinality(RttUnits(Half(3), sample)) \in Nat
    BY <2>3, UnitsFinite, Zenon
  <2>5. QED
    BY <2>1, <2>2, <2>4
<1>8. Fields = <<"count", "sum", "min", "inflight", "drop">>
  BY DEF Fields
<1> HIDE DEF f, s, r, x
<1>9. ASSUME step[t] # 5
      PROVE  /\ batch' = batch
             /\ \A k \in {2, 3, 4, 5} :
                  /\ k = step[t] + 1 => Half(k)' = Half(k) \union {t} /\ t \notin Half(k)
                  /\ k # step[t] + 1 => Half(k)' = Half(k)
  <2>1. pc' = pc /\ step' = [step EXCEPT ![t] = step[t] + 1] /\ batch' = batch
    BY <1>1, <1>9, FieldsAre DEF AddSample, Advance
  <2>2. QED
    BY <1>1, <2>1 DEF Half
<1>10. CASE step[t] = 1
  <2>1. f = "count" /\ r.count = s.count + 1 /\ r.sum = s.sum /\ r.min = s.min
        /\ r.inflight = s.inflight /\ r.drop = s.drop
    BY <1>3, <1>8, <1>10 DEF f, Fold, FieldNames
  <2>2. /\ Half(2)' = Half(2) \union {t} /\ t \notin Half(2) /\ batch' = batch
        /\ Half(3)' = Half(3) /\ Half(4)' = Half(4) /\ Half(5)' = Half(5)
    BY <1>9, <1>10
  <2>3. Cardinality(Half(2) \union {t}) = Cardinality(Half(2)) + 1
    BY <2>2, HalfFinite, FS_AddElement
  <2>4. r.count = Len(batch) + Cardinality(Half(2) \union {t})
    BY <1>4, <1>7, <2>1, <2>3, HalfFinite
  <2>5. QED
    BY <1>1, <1>3, <1>4, <2>1, <2>2, <2>4 DEF Filled, r
<1>11. CASE step[t] = 2
  <2>1. f = "sum" /\ r.sum = s.sum + x.rtt /\ r.count = s.count /\ r.min = s.min
        /\ r.inflight = s.inflight /\ r.drop = s.drop
    BY <1>3, <1>8, <1>11 DEF f, Fold, FieldNames
  <2>2. /\ Half(3)' = Half(3) \union {t} /\ t \notin Half(3) /\ batch' = batch
        /\ Half(2)' = Half(2) /\ Half(4)' = Half(4) /\ Half(5)' = Half(5)
    BY <1>9, <1>11
  <2>3. \A u \in Half(3) \union {t} : sample[u].rtt \in 1 .. Infinite
    BY <1>6, <1>7 DEF x
  <2>4. Cardinality(RttUnits(Half(3) \union {t}, sample)) =
          Cardinality(RttUnits(Half(3), sample)) + x.rtt
    BY <2>2, <2>3, HalfFinite, UnitsAdd DEF x
  <2>5. r.sum = Cardinality(RttUnits(DOMAIN batch, batch))
                  + Cardinality(RttUnits(Half(3) \union {t}, sample))
    BY <1>4, <1>7, <2>1, <2>4
  <2>6. QED
    BY <1>1, <1>3, <1>4, <2>1, <2>2, <2>5 DEF Filled, r
<1>12. CASE step[t] = 3
  <2>1. f = "min" /\ r.min = Min({s.min, x.rtt}) /\ r.count = s.count /\ r.sum = s.sum
        /\ r.inflight = s.inflight /\ r.drop = s.drop
    BY <1>3, <1>8, <1>12 DEF f, Fold, FieldNames
  <2>2. /\ Half(4)' = Half(4) \union {t} /\ t \notin Half(4) /\ batch' = batch
        /\ Half(2)' = Half(2) /\ Half(3)' = Half(3) /\ Half(5)' = Half(5)
    BY <1>9, <1>12
  <2>3. /\ Rtts(batch, Half(4), sample) \in SUBSET Int
        /\ Rtts(batch, Half(4) \union {t}, sample) =
             Rtts(batch, Half(4), sample) \union {x.rtt}
    <3>1. \A u \in Half(4) : sample[u] \in Samples
      BY <1>5
    <3>2. batch \in Seq(Samples)
      BY <1>1
    <3>3. Rtts(batch, Half(4), sample) \in SUBSET Int
      BY <3>1, <3>2, SetsTyped, Zenon
    <3>4. Rtts(batch, Half(4) \union {t}, sample) =
            Rtts(batch, Half(4), sample) \union {x.rtt}
      BY DEF Rtts, x
    <3>5. QED
      BY <3>3, <3>4
  <2>4. IsLeast(r.min, Rtts(batch, Half(4) \union {t}, sample))
    <3>1. x.rtt \in Int
      BY <1>7
    <3>2. IsLeast(Min({s.min, x.rtt}), Rtts(batch, Half(4), sample) \union {x.rtt})
      BY <1>4, <2>3, <3>1, LeastMore, Zenon
    <3>3. QED
      BY <2>1, <2>3, <3>2, Zenon
  <2>5. QED
    BY <1>1, <1>3, <1>4, <2>1, <2>2, <2>4 DEF Filled, r
<1>13. CASE step[t] = 4
  <2>1. f = "inflight" /\ r.inflight = Max({s.inflight, x.inflight})
        /\ r.count = s.count /\ r.sum = s.sum /\ r.min = s.min /\ r.drop = s.drop
    BY <1>3, <1>8, <1>13 DEF f, Fold, FieldNames
  <2>2. /\ Half(5)' = Half(5) \union {t} /\ t \notin Half(5) /\ batch' = batch
        /\ Half(2)' = Half(2) /\ Half(3)' = Half(3) /\ Half(4)' = Half(4)
    BY <1>9, <1>13
  <2>3. /\ Loads(batch, Half(5), sample) \in SUBSET Int
        /\ Loads(batch, Half(5) \union {t}, sample) =
             Loads(batch, Half(5), sample) \union {x.inflight}
    <3>1. \A u \in Half(5) : sample[u] \in Samples
      BY <1>5
    <3>2. batch \in Seq(Samples)
      BY <1>1
    <3>3. Loads(batch, Half(5), sample) \in SUBSET Int
      BY <3>1, <3>2, SetsTyped, Zenon
    <3>4. Loads(batch, Half(5) \union {t}, sample) =
            Loads(batch, Half(5), sample) \union {x.inflight}
      BY DEF Loads, x
    <3>5. QED
      BY <3>3, <3>4
  <2>4. IsGreatest(r.inflight, Loads(batch, Half(5) \union {t}, sample))
    <3>1. x.inflight \in Int
      BY <1>7
    <3>2. IsGreatest(Max({s.inflight, x.inflight}),
                     Loads(batch, Half(5), sample) \union {x.inflight})
      BY <1>4, <2>3, <3>1, GreatestMore, Zenon
    <3>3. QED
      BY <2>1, <2>3, <3>2, Zenon
  <2>5. QED
    BY <1>1, <1>3, <1>4, <2>1, <2>2, <2>4 DEF Filled, r
<1>14. CASE step[t] = 5
  <2>1. f = "drop" /\ r.drop = (s.drop \/ x.drop) /\ r.count = s.count /\ r.sum = s.sum
        /\ r.min = s.min /\ r.inflight = s.inflight
    BY <1>3, <1>8, <1>14 DEF f, Fold, FieldNames
  <2>2. pc' = [pc EXCEPT ![t] = "due"] /\ step' = [step EXCEPT ![t] = 1]
        /\ batch' = Append(batch, x)
    BY <1>1, <1>14, FieldsAre DEF AddSample, Advance, Goto, x
  <2>3. \A k \in {2, 3, 4, 5} : Half(k)' = Half(k) \ {t} /\ t \in Half(k)
    BY <1>1, <1>14, <2>2 DEF Half
  <2>4. /\ Cardinality(Half(2) \ {t}) = Cardinality(Half(2)) - 1
        /\ Cardinality(Half(2)) \in Nat
    BY <2>3, HalfFinite, FS_RemoveElement
  <2>5. Append(batch, x) \in Seq(Samples) /\ Len(Append(batch, x)) = Len(batch) + 1
    BY <1>1, AppendSample
  <2>6. r.count = Len(Append(batch, x)) + Cardinality(Half(2) \ {t})
    BY <1>4, <1>7, <2>1, <2>4, <2>5
  <2>7. Cardinality(RttUnits(DOMAIN Append(batch, x), Append(batch, x))) =
          Cardinality(RttUnits(DOMAIN batch, batch)) + x.rtt
    BY <1>1, UnitsAppend
  <2>8. /\ Cardinality(RttUnits(Half(3), sample)) =
             Cardinality(RttUnits(Half(3) \ {t}, sample)) + x.rtt
        /\ Cardinality(RttUnits(Half(3) \ {t}, sample)) \in Nat
    <3>1. /\ (Half(3) \ {t}) \union {t} = Half(3) /\ t \notin Half(3) \ {t}
          /\ IsFiniteSet(Half(3) \ {t})
      BY <2>3, HalfFinite, FS_RemoveElement
    <3>2. \A u \in (Half(3) \ {t}) \union {t} : sample[u].rtt \in 1 .. Infinite
      BY <1>6, <3>1
    <3>3. Cardinality(RttUnits((Half(3) \ {t}) \union {t}, sample)) =
            Cardinality(RttUnits(Half(3) \ {t}, sample)) + sample[t].rtt
      BY <3>1, <3>2, UnitsAdd
    <3>4. Cardinality(RttUnits(Half(3) \ {t}, sample)) \in Nat
      BY <3>1, <3>2, UnitsFinite
    <3>5. QED
      BY <3>1, <3>3, <3>4 DEF x
  <2>9. r.sum = Cardinality(RttUnits(DOMAIN Append(batch, x), Append(batch, x)))
                  + Cardinality(RttUnits(Half(3) \ {t}, sample))
    BY <1>4, <1>7, <2>1, <2>7, <2>8
  <2>10. /\ Rtts(Append(batch, x), Half(4) \ {t}, sample) = Rtts(batch, Half(4), sample)
         /\ Loads(Append(batch, x), Half(5) \ {t}, sample) = Loads(batch, Half(5), sample)
         /\ Drops(Append(batch, x)) = (Drops(batch) \/ x.drop)
    <3>1. t \in Half(4) /\ t \in Half(5)
      BY <2>3
    <3>2. batch \in Seq(Samples) /\ sample[t] \in Samples
      BY <1>1 DEF x
    <3>3. QED
      BY <3>1, <3>2, SetsAppend DEF x
  <2>11. Half(2)' = Half(2) \ {t} /\ Half(3)' = Half(3) \ {t}
         /\ Half(4)' = Half(4) \ {t} /\ Half(5)' = Half(5) \ {t}
    BY <2>3
  <2>12. /\ IsLeast(r.min, Rtts(Append(batch, x), Half(4) \ {t}, sample))
         /\ IsGreatest(r.inflight, Loads(Append(batch, x), Half(5) \ {t}, sample))
         /\ r.drop = Drops(Append(batch, x))
    BY <1>4, <2>1, <2>10
  <2>13. QED
    BY <1>1, <1>3, <2>2, <2>5, <2>6, <2>9, <2>11, <2>12 DEF Filled, r
<1>15. QED
  BY <1>1, <1>10, <1>11, <1>12, <1>13, <1>14

----------------------------------------------------------------------------
(* QuietInv is preserved.                                                  *)

\* Every sample of a window is one that a thread brought.
LEMMA BatchStep == WindowInv /\ QuietInv /\ [Next]_vars => batch' \in Seq(Samples)
<1> SUFFICES ASSUME WindowInv, QuietInv, [Next]_vars PROVE batch' \in Seq(Samples)
  OBVIOUS
<1>1. batch \in Seq(Samples)
  BY DEF QuietInv
<1>2. CASE batch' = batch
  BY <1>1, <1>2
<1>3. CASE \E t \in Thread : Flip(t)
  BY <1>3 DEF Flip
<1>4. ASSUME NEW t \in Thread, AddSample(t) PROVE batch' \in Seq(Samples)
  <2>1. sample[t] \in Samples
    BY <1>4 DEF WindowInv, Locals, AddSample
  <2>2. batch' = batch \/ batch' = Append(batch, sample[t])
    BY <1>4 DEF AddSample
  <2>3. QED
    BY <1>1, <2>1, <2>2, AppendSample
<1>5. QED
  BY <1>2, <1>3, <1>4 DEF Next, Step, OnSample, Begin, LoadIndex, CheckDue, TryLock,
     Recheck, ReadField, Schedule, Report, ResetField, Unlock, counts, vars, history

\* Nobody else is between the try-lock and the return.
LEMMA OneHolder ==
  ASSUME WindowInv, NEW t \in Thread, pc[t] \in Holding, NEW u \in Thread \ {t}
  PROVE  pc[u] \notin Holding
BY DEF WindowInv, Boundary

\* The steps that touch neither the slots nor the window.
LEMMA QuietSame ==
  ASSUME WindowInv, QuietInv, quiet, ~(Closing /\ Folding)', batch' \in Seq(Samples),
         NEW t \in Thread, Alone(t), slots' = slots, active' = active, batch' = batch,
         pc[t] # "add", pc'[t] = "add" => step'[t] = 1 /\ idx'[t] = active, Closed(t)',
         pc[t] \in {"schedule", "report", "reset"} =>
           pc'[t] \in {"schedule", "report", "reset"}
  PROVE  QuietInv'
<1>1. /\ \A u \in Thread : pc[u] = "add" => idx[u] = active
      /\ Filled(slots[active]) /\ \A u \in Thread : Closed(u)
      /\ (\A u \in Thread : pc[u] \notin {"schedule", "report", "reset"}) =>
           slots[Aside] = Empty
  BY DEF QuietInv
<1>2. \A u \in Thread : pc'[u] = "add" => idx'[u] = active'
  BY <1>1 DEF Alone
<1>3. Filled(slots[active])'
  <2>1. TypeOK /\ slots'[active'] = slots[active] /\ (pc'[t] # "add" \/ step'[t] = 1)
    BY DEF WindowInv
  <2>2. QED
    BY <1>1, <2>1, SameFill
<1>4. ASSUME NEW u \in Thread PROVE Closed(u)'
  <2>1. CASE u = t
    BY <2>1
  <2>2. CASE u # t
    <3>1. u \in Thread \ {t} /\ Closed(u)
      BY <1>1, <2>2
    <3>2. QED
      BY <3>1, SameClosed
  <2>3. QED
    BY <2>1, <2>2
<1>5. ASSUME \A u \in Thread : pc'[u] \notin {"schedule", "report", "reset"}
      PROVE  slots'[Aside'] = Empty
  <2>1. \A u \in Thread : pc[u] \notin {"schedule", "report", "reset"}
    BY <1>5 DEF Alone
  <2>2. QED
    BY <1>1, <2>1 DEF Aside
<1>6. QED
  BY <1>2, <1>3, <1>4, <1>5 DEF QuietInv

\* The boundary thread loads one more field.
LEMMA ReadCloses ==
  ASSUME WindowInv, QuietInv, quiet, NEW t \in Thread, ReadField(t)
  PROVE  Closed(t)'
<1>1. /\ pc[t] = "read" /\ idx[t] = active /\ Closed(t) /\ step[t] \in 1 .. 6
      /\ Len(read[t]) = step[t] - 1 /\ read \in [Thread -> Seq(Nat \union BOOLEAN)]
      /\ pc \in [Thread -> Label] /\ slots \in [{0, 1} -> Slot] /\ active \in {0, 1}
  BY FieldsAre DEF QuietInv, Closed, ReadField, WindowInv, TypeOK, Locals, Readings, Reading
<1>2. /\ slots' = slots /\ active' = active /\ idx'[t] = active
      /\ read'[t] = Append(read[t], slots[active][Reads[step[t]]])
      /\ pc'[t] \in {"read", "flip"}
  BY <1>1 DEF ReadField, Advance, Goto, WindowInv, TypeOK
<1>3. \A j \in 1 .. Len(read[t]) : read[t][j] = slots[active][Reads[j]]
  BY <1>1 DEF Closed
<1> DEFINE v == slots[active][Reads[step[t]]]
<1>4. \A j \in 1 .. Len(read'[t]) : read'[t][j] = slots[active][Reads[j]]
  <2> HIDE DEF v
  <2>1. read[t] \in Seq(Nat \union BOOLEAN) /\ Len(read[t]) = step[t] - 1
        /\ step[t] \in 1 .. 6
    BY <1>1
  <2>2. read'[t] = Append(read[t], v)
    BY <1>2 DEF v
  <2>3. Len(read'[t]) = step[t] /\ read'[t][step[t]] = v
        /\ \A j \in 1 .. step[t] - 1 : read'[t][j] = read[t][j]
    BY <2>1, <2>2
  <2>4. ASSUME NEW j \in 1 .. step[t] PROVE read'[t][j] = slots[active][Reads[j]]
    <3>1. CASE j = step[t]
      BY <2>3, <3>1 DEF v
    <3>2. CASE j # step[t]
      BY <1>3, <2>1, <2>3, <3>2
    <3>3. QED
      BY <3>1, <3>2
  <2>5. QED
    BY <2>3, <2>4
<1>5. QED
  BY <1>2, <1>4 DEF Closed

\* An empty slot is the aggregate of no sample.
LEMMA EmptyFill ==
  batch = << >> /\ (\A u \in Thread : pc[u] # "add") => Filled(Empty)
<1> SUFFICES ASSUME batch = << >>, \A u \in Thread : pc[u] # "add"
             PROVE  Filled(Empty)
  OBVIOUS
<1>1. Half(2) = {} /\ Half(3) = {} /\ Half(4) = {} /\ Half(5) = {}
  BY DEF Half
<1>2. DOMAIN batch = {} /\ Len(batch) = 0
  OBVIOUS
<1>3. RttUnits({}, batch) = {} /\ RttUnits({}, sample) = {}
  BY DEF RttUnits
<1>4. Cardinality({}) = 0
  BY FS_EmptySet
<1>5. Rtts(batch, {}, sample) = {Infinite} /\ Loads(batch, {}, sample) = {0}
  BY <1>2 DEF Rtts, Loads
<1>6. IsLeast(Infinite, {Infinite}) /\ IsGreatest(0, {0})
  BY WindowAssumption DEF IsLeast, IsGreatest
<1>7. Drops(batch) = FALSE
  BY <1>2 DEF Drops
<1>8. /\ Empty.count = 0 /\ Empty.sum = 0 /\ Empty.min = Infinite
      /\ Empty.inflight = 0 /\ Empty.drop = FALSE
  BY DEF Empty
<1>9. 0 = Len(batch) + Cardinality(Half(2))
  <2>1. Cardinality(Half(2)) = 0
    BY <1>1, <1>4, Zenon
  <2>2. QED
    BY <1>2, <2>1
<1>10. Cardinality(RttUnits(DOMAIN batch, batch)) = 0
       /\ Cardinality(RttUnits(Half(3), sample)) = 0
  BY <1>1, <1>2, <1>3, <1>4
<1>11. 0 = Cardinality(RttUnits(DOMAIN batch, batch)) + Cardinality(RttUnits(Half(3), sample))
  BY <1>10
<1>12. QED
  BY <1>1, <1>5, <1>6, <1>7, <1>8, <1>9, <1>11, Zenon DEF Filled

\* The flip opens an empty slot for an empty window.
LEMMA QuietFlip ==
  ASSUME WindowInv, QuietInv, quiet, ~(Closing /\ Folding)', NEW t \in Thread,
         Flip(t), Alone(t)
  PROVE  QuietInv'
<1>1. /\ pc[t] = "flip" /\ idx[t] = active /\ active \in {0, 1}
      /\ pc' = [pc EXCEPT ![t] = "schedule"] /\ pc \in [Thread -> Label]
      /\ active' = 1 - active /\ slots' = slots /\ batch' = << >>
  BY DEF WindowInv, TypeOK, QuietInv, Closed, Flip, FlipTo, Goto
<1>2. \A u \in Thread \ {t} : pc[u] \notin Holding /\ pc'[u] = pc[u]
  BY <1>1, OneHolder DEF Holding
<1>3. pc'[t] = "schedule"
  BY <1>1
<1>4. slots[Aside] = Empty
  <2>1. \A u \in Thread : pc[u] \notin {"schedule", "report", "reset"}
    BY <1>1, <1>2 DEF Holding
  <2>2. QED
    BY <2>1 DEF QuietInv
<1>5. slots'[active'] = Empty
  BY <1>1, <1>4 DEF Aside
<1>6. \A u \in Thread : pc'[u] # "add"
  BY <1>3 DEF Closing, Folding
<1>7. Filled(slots[active])'
  <2>1. (batch = << >> /\ (\A u \in Thread : pc[u] # "add") => Filled(Empty))'
    BY EmptyFill, PTL
  <2>2. QED
    BY <1>1, <1>5, <1>6, <2>1
<1>8. ASSUME NEW u \in Thread PROVE Closed(u)'
  <2>1. pc'[u] \notin {"read", "flip", "reset"}
    BY <1>2, <1>3 DEF Holding
  <2>2. QED
    BY <2>1 DEF Closed
<1>9. QED
  BY <1>1, <1>3, <1>6, <1>7, <1>8 DEF QuietInv

\* A slot whose fields are all reset is empty.
LEMMA AllReset ==
  ASSUME NEW s \in Slot, \A j \in 1 .. 5 : s[Fields[j]] = Empty[Fields[j]]
  PROVE  s = Empty
<1>1. /\ Fields[1] = "count" /\ Fields[2] = "sum" /\ Fields[3] = "min"
      /\ Fields[4] = "inflight" /\ Fields[5] = "drop"
  BY DEF Fields
<1>2. /\ s[Fields[1]] = Empty[Fields[1]] /\ s[Fields[2]] = Empty[Fields[2]]
      /\ s[Fields[3]] = Empty[Fields[3]] /\ s[Fields[4]] = Empty[Fields[4]]
      /\ s[Fields[5]] = Empty[Fields[5]]
  OBVIOUS
<1>3. /\ s.count = Empty.count /\ s.sum = Empty.sum /\ s.min = Empty.min
      /\ s.inflight = Empty.inflight /\ s.drop = Empty.drop
  BY <1>1, <1>2
<1>4. QED
  BY <1>3 DEF Slot, Empty

\* A reset clears the slot set aside field by field.
LEMMA QuietReset ==
  ASSUME WindowInv, WindowInv', QuietInv, quiet, ~(Closing /\ Folding)', NEW t \in Thread,
         ResetField(t), Alone(t)
  PROVE  QuietInv'
<1> DEFINE f == Fields[step[t]]
           v == Empty[f]
<1>1. /\ pc[t] = "reset" /\ idx[t] \in {0, 1} /\ active \in {0, 1} /\ idx[t] # active
      /\ step[t] \in 1 .. 5 /\ f \in FieldNames /\ slots \in [{0, 1} -> Slot]
      /\ active' = active /\ batch' = batch /\ slots' \in [{0, 1} -> Slot]
      /\ pc \in [Thread -> Label] /\ step \in [Thread -> 1 .. Len(Reads)]
  BY FieldsAre DEF WindowInv, TypeOK, Locals, Boundary, ResetsInactiveSlot, ResetField, counts
<1>2. Aside = idx[t] /\ Aside' = Aside /\ Aside \in {0, 1} /\ Aside # active
  BY <1>1 DEF Aside
<1>3. slots' = [slots EXCEPT ![Aside][f] = v]
  BY <1>2 DEF ResetField, ResetTo
<1>4. /\ slots'[active] = slots[active] /\ slots'[Aside][f] = v
      /\ \A g \in FieldNames \ {f} : slots'[Aside][g] = slots[Aside][g]
  <2> DEFINE i == Aside
             q == [slots[i] EXCEPT ![f] = v]
  <2>1. i \in {0, 1} /\ i # active /\ slots[i] \in Slot /\ f \in FieldNames
        /\ active \in {0, 1} /\ slots \in [{0, 1} -> Slot]
    BY <1>1, <1>2
  <2>2. slots' = [slots EXCEPT ![i] = q]
    BY <1>3
  <2> HIDE DEF i, f, v
  <2>3. q[f] = v /\ \A g \in FieldNames \ {f} : q[g] = slots[i][g]
    BY <2>1 DEF Slot, FieldNames
  <2> HIDE DEF q
  <2>4. slots'[i] = q /\ slots'[active] = slots[active]
    BY <2>1, <2>2
  <2>5. QED
    BY <2>3, <2>4 DEF i
<1>5. \A j \in 1 .. step[t] - 1 : slots[Aside][Fields[j]] = Empty[Fields[j]]
  BY <1>1 DEF QuietInv, Closed
<1>6. ASSUME NEW j \in 1 .. step[t]
      PROVE  slots'[Aside][Fields[j]] = Empty[Fields[j]]
  <2>1. CASE Fields[j] = f
    BY <1>4, <2>1
  <2>2. CASE Fields[j] # f
    <3>1. j \in 1 .. step[t] - 1 /\ Fields[j] \in FieldNames \ {f}
      BY <1>1, <2>2, FieldsAre
    <3>2. QED
      BY <1>4, <1>5, <3>1
  <2>3. QED
    BY <2>1, <2>2
<1>7. \/ pc'[t] = "reset" /\ step'[t] = step[t] + 1
      \/ pc'[t] = "unlock" /\ step[t] = 5
  BY <1>1, FieldsAre DEF ResetField, Advance, Goto
<1>8. \A u \in Thread \ {t} : pc[u] \notin Holding /\ pc'[u] = pc[u]
  BY <1>1, OneHolder DEF Holding, Alone
<1>9. \A u \in Thread : pc'[u] # "add"
  BY <1>7 DEF Closing, Folding
<1>10. Filled(slots[active])'
  <2>1. /\ TypeOK /\ slots'[active'] = slots[active] /\ Filled(slots[active])
        /\ pc[t] # "add" /\ pc'[t] # "add"
    BY <1>1, <1>4, <1>9 DEF WindowInv, QuietInv
  <2>2. QED
    BY <1>1, <2>1, SameFill
<1>11. ASSUME NEW u \in Thread PROVE Closed(u)'
  <2>1. CASE u # t
    <3>1. pc'[u] \notin {"read", "flip", "reset"}
      BY <1>8, <2>1 DEF Holding
    <3>2. QED
      BY <3>1 DEF Closed
  <2>2. CASE u = t
    <3>1. pc'[t] = "reset" => \A j \in 1 .. step'[t] - 1 :
            slots'[Aside'][Fields[j]] = Empty[Fields[j]]
      <4>1. ASSUME pc'[t] = "reset"
            PROVE  \A j \in 1 .. step'[t] - 1 : slots'[Aside'][Fields[j]] = Empty[Fields[j]]
        <5>1. step'[t] - 1 = step[t]
          BY <1>1, <1>7, <4>1
        <5>2. QED
          BY <1>2, <1>6, <5>1
      <4>2. QED
        BY <4>1
    <3>2. pc'[t] \notin {"read", "flip"}
      BY <1>7
    <3>3. QED
      BY <2>2, <3>1, <3>2 DEF Closed
  <2>3. QED
    BY <2>1, <2>2
<1>12. ASSUME pc'[t] # "reset" PROVE slots'[Aside'] = Empty
  <2>1. \A j \in 1 .. 5 : slots'[Aside][Fields[j]] = Empty[Fields[j]]
    BY <1>6, <1>7, <1>12
  <2>2. slots'[Aside] \in Slot
    BY <1>1, <1>2
  <2>3. slots'[Aside] = Empty
    BY <2>1, <2>2, AllReset
  <2>4. QED
    BY <1>2, <2>3
<1>13. batch' \in Seq(Samples)
  BY <1>1 DEF QuietInv
<1>14. QED
  BY <1>9, <1>10, <1>11, <1>12, <1>13 DEF QuietInv

\* A fold meets nobody who closes a window.
LEMMA QuietAdd ==
  ASSUME WindowInv, QuietInv, quiet, ~(Closing /\ Folding)', NEW t \in Thread,
         AddSample(t), Alone(t)
  PROVE  QuietInv'
<1>1. Filled(slots[active])' /\ slots'[Aside] = slots[Aside] /\ batch' \in Seq(Samples)
  BY AddFills
<1>2. /\ pc[t] = "add" /\ active' = active /\ idx' = idx
      /\ pc'[t] \in {"add", "due"}
  BY DEF AddSample, Advance, Goto, WindowInv, TypeOK
<1>3. \A u \in Thread : pc[u] \notin {"read", "flip", "schedule", "report", "reset"}
  BY <1>2 DEF QuietInv, Closing, Folding
<1>4. \A u \in Thread : pc'[u] \notin {"read", "flip", "reset"}
  BY <1>2, <1>3 DEF Alone
<1>5. \A u \in Thread : pc'[u] = "add" => idx'[u] = active'
  BY <1>2 DEF QuietInv, Alone
<1>6. slots'[Aside'] = Empty
  BY <1>1, <1>2, <1>3 DEF QuietInv, Aside
<1>7. \A u \in Thread : Closed(u)'
  BY <1>4 DEF Closed
<1>8. QED
  BY <1>1, <1>5, <1>6, <1>7 DEF QuietInv

\* Every step keeps the quiet window in step with its batch.
LEMMA QuietStep == WindowInv /\ WindowInv' /\ QuietInv /\ [Next]_vars => QuietInv'
<1> SUFFICES ASSUME WindowInv, WindowInv', QuietInv, [Next]_vars PROVE QuietInv'
  OBVIOUS
<1>1. batch' \in Seq(Samples)
  BY BatchStep
<1>2. CASE ~quiet'
  BY <1>1, <1>2 DEF QuietInv
<1>3. CASE UNCHANGED vars
  <2>1. /\ slots' = slots /\ active' = active /\ pc' = pc /\ step' = step /\ idx' = idx
        /\ read' = read /\ sample' = sample /\ batch' = batch /\ quiet' = quiet
    BY <1>3 DEF vars, locals, history
  <2>2. QED
    BY <2>1 DEF QuietInv, Filled, Half, Closed, Aside, Closing, Folding
<1>4. ASSUME quiet', NEW t \in Thread, OnSample(t), Watch PROVE QuietInv'
  <2>1. quiet /\ ~(Closing /\ Folding)'
    BY <1>4 DEF Watch
  <2>2. TypeOK /\ Locals /\ Alone(t)
    BY <1>4, StepsAlone DEF WindowInv
  <2>3. CASE AddSample(t)
    BY <2>1, <2>2, <2>3, QuietAdd
  <2>4. CASE Flip(t)
    BY <2>1, <2>2, <2>4, QuietFlip
  <2>5. CASE ResetField(t)
    BY <2>1, <2>2, <2>5, QuietReset
  <2>6. ASSUME slots' = slots, active' = active, batch' = batch, pc[t] # "add",
               pc'[t] = "add" => step'[t] = 1 /\ idx'[t] = active, Closed(t)',
               pc[t] \in {"schedule", "report", "reset"} =>
                 pc'[t] \in {"schedule", "report", "reset"}
        PROVE  QuietInv'
    BY <1>1, <2>1, <2>2, <2>6, QuietSame
  <2>7. CASE \E x \in Samples, e \in Ends : Begin(t, x, e)
    <3>1. /\ slots' = slots /\ active' = active /\ batch' = batch /\ pc[t] = "idle"
          /\ pc'[t] = "index"
      BY <2>2, <2>7 DEF Begin, Goto, TypeOK
    <3>2. Closed(t)'
      BY <3>1 DEF Closed
    <3>3. QED
      BY <2>6, <3>1, <3>2
  <2>8. CASE LoadIndex(t)
    <3>1. /\ slots' = slots /\ active' = active /\ batch' = batch /\ pc[t] = "index"
          /\ pc'[t] = "add" /\ step'[t] = 1 /\ idx'[t] = active
      BY <2>2, <2>8 DEF LoadIndex, Goto, TypeOK, Locals, counts
    <3>2. Closed(t)'
      BY <3>1 DEF Closed
    <3>3. QED
      BY <2>6, <3>1, <3>2
  <2>9. CASE CheckDue(t) \/ TryLock(t) \/ Unlock(t)
    <3>1. /\ slots' = slots /\ active' = active /\ batch' = batch
          /\ pc[t] \in {"due", "try", "unlock"} /\ pc'[t] \in {"idle", "try", "recheck"}
      BY <2>2, <2>9 DEF CheckDue, TryLock, Unlock, Return, Goto, TypeOK, counts
    <3>2. Closed(t)'
      BY <3>1 DEF Closed
    <3>3. QED
      BY <2>6, <3>1, <3>2
  <2>10. CASE Recheck(t)
    <3>1. /\ slots' = slots /\ active' = active /\ batch' = batch /\ pc[t] = "recheck"
          /\ \/ pc'[t] = "idle"
             \/ pc'[t] = "read" /\ idx'[t] = active /\ read'[t] = read[t]
      BY <2>2, <2>10 DEF Recheck, Return, Goto, TypeOK, counts
    <3>2. read[t] = << >>
      BY <3>1 DEF WindowInv, Readings, Reading
    <3>3. Closed(t)'
      BY <3>1, <3>2 DEF Closed
    <3>4. QED
      BY <2>6, <3>1, <3>3
  <2>11. CASE ReadField(t)
    <3>1. /\ slots' = slots /\ active' = active /\ batch' = batch /\ pc[t] = "read"
          /\ pc'[t] \in {"read", "flip"}
      BY <2>2, <2>11 DEF ReadField, Advance, Goto, TypeOK, counts
    <3>2. Closed(t)'
      BY <2>1, <2>11, ReadCloses
    <3>3. QED
      BY <2>6, <3>1, <3>2
  <2>12. CASE Schedule(t) \/ Report(t)
    <3>1. /\ slots' = slots /\ active' = active /\ batch' = batch
          /\ pc[t] \in {"schedule", "report"} /\ pc'[t] \in {"report", "reset"}
          /\ step'[t] = 1
      BY <2>2, <2>12 DEF Schedule, Report, Goto, TypeOK, Locals, locals, counts
    <3>2. Closed(t)'
      BY <3>1 DEF Closed
    <3>3. QED
      BY <2>6, <3>1, <3>2
  <2>13. QED
    BY <1>4, <2>3, <2>4, <2>5, <2>7, <2>8, <2>9, <2>10, <2>11, <2>12 DEF OnSample
<1>5. QED
  BY <1>2, <1>3, <1>4 DEF Next, Step

\* Before the first sample nothing is in either slot.
LEMMA InitQuiet == Init => QuietInv
<1> SUFFICES ASSUME Init PROVE QuietInv
  OBVIOUS
<1>1. /\ batch = << >> /\ active = 0 /\ slots[0] = Empty /\ slots[1] = Empty
      /\ \A u \in Thread : pc[u] = "idle"
  BY DEF Init
<1>2. Filled(slots[active])
  BY <1>1, EmptyFill
<1>3. slots[Aside] = Empty
  BY <1>1 DEF Aside
<1>4. \A u \in Thread : Closed(u)
  BY <1>1 DEF Closed
<1>5. ~Closing /\ \A u \in Thread : pc[u] # "add"
  BY <1>1 DEF Closing
<1>6. batch \in Seq(Samples)
  BY <1>1
<1>7. QED
  BY <1>2, <1>3, <1>4, <1>5, <1>6 DEF QuietInv

\* The strengthened invariant holds in every reachable state.
LEMMA QuietInvariance == Spec => []QuietInv
<1>1. WindowInv /\ WindowInv' /\ QuietInv /\ [Next]_vars => QuietInv'
  BY QuietStep
<1>2. QED
  BY <1>1, InitQuiet, Invariance, PTL DEF Spec

\* The boundary thread has read the whole of a slot that holds its window.
LEMMA AggregateRead ==
  ASSUME WindowInv, QuietInv, quiet, NEW t \in Thread, pc[t] = "flip"
  PROVE  /\ SampleCount(t) = Len(batch)
         /\ read[t][2] = Len(batch)
         /\ read[t][3] = Cardinality(RttUnits(DOMAIN batch, batch))
         /\ IsLeast(CandidateRttNs(t), Rtts(batch, {}, sample))
         /\ IsGreatest(MaxInflight(t), Loads(batch, {}, sample))
         /\ DidDrop(t) = Drops(batch)
<1> DEFINE s == slots[active]
<1>1. Len(read[t]) = 6 /\ \A j \in 1 .. Len(read[t]) : read[t][j] = s[Reads[j]]
  BY FieldsAre DEF WindowInv, Readings, Reading, QuietInv, Closed
<1>2. /\ Reads[1] = "min" /\ Reads[2] = "count" /\ Reads[3] = "sum"
      /\ Reads[4] = "inflight" /\ Reads[5] = "count" /\ Reads[6] = "drop"
  BY DEF Reads
<1>3. /\ read[t][1] = s[Reads[1]] /\ read[t][2] = s[Reads[2]] /\ read[t][3] = s[Reads[3]]
      /\ read[t][4] = s[Reads[4]] /\ read[t][5] = s[Reads[5]] /\ read[t][6] = s[Reads[6]]
  BY <1>1
<1>4. /\ read[t][1] = s.min /\ read[t][2] = s.count /\ read[t][3] = s.sum
      /\ read[t][4] = s.inflight /\ read[t][5] = s.count /\ read[t][6] = s.drop
  BY <1>2, <1>3
<1>5. \A u \in Thread : pc[u] # "add"
  BY DEF QuietInv, Closing, Folding
<1>6. Half(2) = {} /\ Half(3) = {} /\ Half(4) = {} /\ Half(5) = {}
  BY <1>5 DEF Half
<1>7. /\ s.count = Len(batch) + Cardinality({})
      /\ s.sum = Cardinality(RttUnits(DOMAIN batch, batch))
                   + Cardinality(RttUnits({}, sample))
      /\ IsLeast(s.min, Rtts(batch, {}, sample))
      /\ IsGreatest(s.inflight, Loads(batch, {}, sample))
      /\ s.drop = Drops(batch)
  BY <1>6 DEF QuietInv, Filled
<1>8. RttUnits({}, sample) = {} /\ Cardinality({}) = 0
  BY FS_EmptySet DEF RttUnits
<1>9. Len(batch) \in Nat /\ Cardinality(RttUnits(DOMAIN batch, batch)) \in Nat
  <2>1. batch \in Seq(Samples)
    BY DEF QuietInv
  <2>2. IsFiniteSet(DOMAIN batch) /\ Len(batch) \in Nat
    BY <2>1, FS_Interval
  <2>3. \A i \in DOMAIN batch : batch[i].rtt \in 1 .. Infinite
    BY <2>1, SampleTyped
  <2>4. QED
    BY <2>2, <2>3, UnitsFinite
<1> HIDE DEF s
<1>10. s.count = Len(batch) /\ s.sum = Cardinality(RttUnits(DOMAIN batch, batch))
  <2> DEFINE n == Cardinality(RttUnits(DOMAIN batch, batch))
  <2>1. Cardinality(RttUnits({}, sample)) = 0
    BY <1>8, Zenon
  <2>2. n \in Nat /\ Len(batch) \in Nat /\ s.count = Len(batch) + 0 /\ s.sum = n + 0
    BY <1>7, <1>8, <1>9, <2>1, Zenon
  <2> HIDE DEF n
  <2>3. s.count = Len(batch) /\ s.sum = n
    BY <2>2
  <2>4. QED
    BY <2>3 DEF n
<1>11. QED
  BY <1>4, <1>7, <1>10 DEF SampleCount, CandidateRttNs, MaxInflight, DidDrop

\* WindowedLimit::OnSample and AverageSampleWindow: however many threads fill a
\* window, and in whatever order their stores interleave, what the boundary
\* thread takes to the delegate is the aggregate of the samples of the window,
\* as long as no fold has overlapped a boundary.
THEOREM ReportsAggregate == Spec => []ReportIsAggregate
<1>1. WindowInv /\ QuietInv => ReportIsAggregate
  <2> SUFFICES ASSUME WindowInv, QuietInv, NEW t \in Thread, quiet, pc[t] = "flip"
               PROVE  /\ SampleCount(t) = Len(batch)
                      /\ CandidateRttNs(t) =
                           Min({Infinite} \union {batch[i].rtt : i \in DOMAIN batch})
                      /\ batch # << >> => TrackedRttNs(t) =
                           Cardinality(RttUnits(DOMAIN batch, batch)) \div Len(batch)
                      /\ MaxInflight(t) =
                           Max({0} \union {batch[i].inflight : i \in DOMAIN batch})
                      /\ DidDrop(t) = (\E i \in DOMAIN batch : batch[i].drop)
    BY DEF ReportIsAggregate
  <2>1. /\ SampleCount(t) = Len(batch) /\ read[t][2] = Len(batch)
        /\ read[t][3] = Cardinality(RttUnits(DOMAIN batch, batch))
        /\ IsLeast(CandidateRttNs(t), Rtts(batch, {}, sample))
        /\ IsGreatest(MaxInflight(t), Loads(batch, {}, sample))
        /\ DidDrop(t) = Drops(batch)
    BY AggregateRead
  <2>2. batch \in Seq(Samples)
    BY DEF QuietInv
  <2>3. Rtts(batch, {}, sample) \in SUBSET Int /\ Loads(batch, {}, sample) \in SUBSET Int
    BY <2>2, SetsTyped
  <2>4. /\ Rtts(batch, {}, sample) =
             {Infinite} \union {batch[i].rtt : i \in DOMAIN batch}
        /\ Loads(batch, {}, sample) =
             {0} \union {batch[i].inflight : i \in DOMAIN batch}
    BY DEF Rtts, Loads
  <2>5. CandidateRttNs(t) = Min(Rtts(batch, {}, sample))
    BY <2>1, <2>3, LeastIsMin
  <2>6. MaxInflight(t) = Max(Loads(batch, {}, sample))
    BY <2>1, <2>3, GreatestIsMax
  <2>7. ASSUME batch # << >>
        PROVE  TrackedRttNs(t) = Cardinality(RttUnits(DOMAIN batch, batch)) \div Len(batch)
    <3>1. Len(batch) # 0
      BY <2>2, <2>7
    <3>2. QED
      BY <2>1, <3>1 DEF TrackedRttNs
  <2>8. DidDrop(t) = (\E i \in DOMAIN batch : batch[i].drop)
    BY <2>1 DEF Drops
  <2>9. QED
    BY <2>1, <2>4, <2>5, <2>6, <2>7, <2>8
<1>2. QED
  BY <1>1, Invariance, QuietInvariance, PTL
=============================================================================
