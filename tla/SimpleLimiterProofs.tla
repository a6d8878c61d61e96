------------------------ MODULE SimpleLimiterProofs ------------------------
(***************************************************************************)
(* Proofs about SimpleLimiter for every set of threads and guards, every   *)
(* initial cap and every set of caps it may be changed to.                 *)
(*                                                                         *)
(* The inductive invariant is IndInv of SimpleLimiter: the types, which    *)
(* guards a thread in a multi-step operation owns and in what state they   *)
(* are (GuardDiscipline), what the stale registers of a call in progress   *)
(* still say (Registers), and the conservation law InflightIsReserved.     *)
(* The four depend on each other: inflight_ >= 0 follows only from the     *)
(* conservation law, which follows only from exclusive use of the guards.  *)
(***************************************************************************)
EXTENDS SimpleLimiter, FiniteSetTheorems, TLAPS

----------------------------------------------------------------------------
(* The initial state.                                                      *)

\* Construction establishes the inductive invariant: no guard, no thread busy.
LEMMA InitInv == Init => IndInv
<1> SUFFICES ASSUME Init PROVE IndInv
  OBVIOUS
<1> USE LimiterAssumption DEF Init
<1>1. TypeOK
  BY DEF TypeOK, Labels, Deciding, Acquiring, Releasing, CompletionStatus, Status
<1>2. GuardDiscipline
  BY DEF GuardDiscipline, Deciding, Acquiring, Releasing
<1>3. Registers
  BY DEF Registers, AnyLimit, Acquiring
<1>4. Admitted = {} /\ Reserved = {}
  BY DEF Admitted, Reserved, Reserving, Live, IsObject, NoObject
<1>5. InflightIsReserved
  BY <1>4, FS_EmptySet DEF InflightIsReserved
<1>6. QED
  BY <1>1, <1>2, <1>3, <1>5 DEF IndInv

----------------------------------------------------------------------------
(* Counting admissions.                                                    *)

\* The two sets whose sizes inflight_ must add up to are finite.
LEMMA FiniteParts ==
  /\ IsFiniteSet(Admitted) /\ Cardinality(Admitted) \in Nat
  /\ IsFiniteSet(Reserved) /\ Cardinality(Reserved) \in Nat
BY LimiterAssumption, FS_Subset, FS_CardinalityType DEF Admitted, Reserved

\* A release takes one guard off the count.
LEMMA RemoveReserved ==
  ASSUME NEW g \in Reserved
  PROVE  Cardinality(Reserved \ {g}) = Cardinality(Reserved) - 1
BY FiniteParts, FS_RemoveElement

\* A thread about to fetch_sub holds a reservation, so inflight_ is positive.
LEMMA ReleaseIsReserved ==
  ASSUME IndInv, NEW t \in Thread, pc[t] = "release"
  PROVE  dst[t] \in Reserved /\ inflight > 0
<1>1. dst[t] \in Reserved
  BY LimiterAssumption DEF IndInv, TypeOK, GuardDiscipline, Releasing, Reserved, Reserving, NoGuard
<1>2. Reserved # {}
  BY <1>1
<1>3. Cardinality(Reserved) # 0
  BY <1>2, FiniteParts, FS_EmptySet
<1>4. QED
  BY <1>1, <1>3, FiniteParts DEF IndInv, InflightIsReserved, TypeOK

\* Moving a guard, whether or not it holds a reservation, keeps the count.
LEMMA Transfer ==
  ASSUME IndInv, NEW to \in Guard, NEW from \in Guard, to # from,
         to \notin Reserved, Admitted' = Admitted, inflight' = inflight,
         Reserved' = IF from \in Reserved
                     THEN (Reserved \ {from}) \union {to} ELSE Reserved
  PROVE  InflightIsReserved'
<1>1. CASE from \in Reserved
  <2>1. IsFiniteSet(Reserved \ {from}) /\ Cardinality(Reserved \ {from}) = Cardinality(Reserved) - 1
    BY <1>1, FiniteParts, FS_RemoveElement
  <2>2. Cardinality((Reserved \ {from}) \union {to}) = Cardinality(Reserved \ {from}) + 1
    BY <2>1, FS_AddElement
  <2>3. QED BY <1>1, <2>1, <2>2, FiniteParts DEF IndInv, InflightIsReserved
<1>2. CASE from \notin Reserved
  BY <1>2 DEF IndInv, InflightIsReserved
<1>3. QED BY <1>1, <1>2

----------------------------------------------------------------------------
(* Each part of IndInv is preserved by every step.                         *)

\* The moved-from object is still a SlotGuard, its limiter_ pointer null.
LEMMA MovedFromType ==
  ASSUME NEW slot \in SlotGuard \union {NoObject}, IsObject(slot)
  PROVE  MovedFrom(slot) \in SlotGuard
<1>1. slot \in SlotGuard
  BY DEF NoObject, IsObject
<1>2. QED
  BY <1>1 DEF MovedFrom, SlotGuard

\* The words keep their types; fetch_sub never takes inflight_ below zero.
LEMMA TypeStep == IndInv /\ [Next]_vars => TypeOK'
<1> SUFFICES ASSUME IndInv, [Next]_vars PROVE TypeOK'
  OBVIOUS
<1> USE LimiterAssumption DEF IndInv, TypeOK, SlotGuard, NoObject, NoGuard,
   Labels, Acquiring, Deciding, Releasing, Status, CompletionStatus, Idle,
   Unused, Live, IsObject, GuardDiscipline
<1>1. ASSUME NEW t \in Thread, NEW g \in Guard, BypassAcquire(t, g) PROVE
   TypeOK'
  BY <1>1 DEF BypassAcquire, MakeSlot, locals
<1>2. ASSUME NEW t \in Thread, NEW g \in Guard, BeginAcquire(t, g) PROVE
   TypeOK'
  BY <1>2 DEF BeginAcquire, Goto
<1>3. ASSUME NEW t \in Thread, LoadInflight(t) PROVE TypeOK'
  BY <1>3 DEF LoadInflight, Goto, history
<1>4. ASSUME NEW t \in Thread, CheckPass(t) PROVE TypeOK'
  BY <1>4 DEF CheckPass, Goto, Headroom, history
<1>5. ASSUME NEW t \in Thread, CheckFail(t) PROVE TypeOK'
  BY <1>5 DEF CheckFail, Goto, Headroom
<1>6. ASSUME NEW t \in Thread, CasSucceed(t) PROVE TypeOK'
  BY <1>6 DEF CasSucceed, Goto, CasMatches, locals
<1>7. ASSUME NEW t \in Thread, CasFail(t) PROVE TypeOK'
  BY <1>7 DEF CasFail, Goto, history
<1>8. ASSUME NEW t \in Thread, CountRejected(t) PROVE TypeOK'
  BY <1>8 DEF CountRejected, Return, Goto, history
<1>9. ASSUME NEW t \in Thread, ReturnSlot(t) PROVE TypeOK'
  BY <1>9 DEF ReturnSlot, MakeSlot, Return, Goto, history
<1>10. ASSUME NEW t \in Thread, NEW g \in Guard, NEW s \in CompletionStatus,
   Complete(t, g, s) PROVE TypeOK'
  BY <1>10 DEF Complete, EnterOnSlotComplete, EntryLabel, Goto, history
<1>11. ASSUME NEW t \in Thread, NEW g \in Guard, Destroy(t, g) PROVE TypeOK'
  <2>1. CASE Live(guard[g])
    <3>1. EnterOnSlotComplete(t, g, NoGuard, "ignored", "destroyed")
      BY <1>11, <2>1 DEF Destroy
    <3>2. QED
      BY <3>1 DEF EnterOnSlotComplete, EntryLabel, Goto, history
  <2>2. CASE ~Live(guard[g])
    BY <1>11, <2>2 DEF Destroy, EnterOnSlotComplete, locals, history
  <2>3. QED
    BY <2>1, <2>2
<1>12. ASSUME NEW t \in Thread, NEW to \in Guard, NEW from \in Guard,
   MoveConstruct(t, to, from) PROVE TypeOK'
  <2>1. MovedFrom(guard[from]) \in SlotGuard
    BY <1>12, MovedFromType DEF MoveConstruct
  <2>2. QED
    BY <1>12, <2>1 DEF MoveConstruct, locals, history
<1>13. ASSUME NEW t \in Thread, NEW to \in Guard, NEW from \in Guard,
   MoveAssign(t, to, from) PROVE TypeOK'
  <2>1. MovedFrom(guard[from]) \in SlotGuard
    BY <1>13, MovedFromType DEF MoveAssign
  <2>2. CASE Live(guard[to])
    <3>1. EnterOnSlotComplete(t, to, from, "ignored", "assigned")
      BY <1>13, <2>2 DEF MoveAssign
    <3>2. QED
      BY <3>1 DEF EnterOnSlotComplete, EntryLabel, Goto, history
  <2>3. CASE ~Live(guard[to])
    <3>1. /\ guard' = [guard EXCEPT ![to] = guard[from],
                                    ![from] = MovedFrom(guard[from])]
          /\ UNCHANGED <<limit, inflight, outcome, pc, locals, history>>
      BY <1>13, <2>3 DEF MoveAssign
    <3>2. QED
      BY <2>1, <3>1 DEF locals, history
  <2>4. QED
    BY <2>2, <2>3
<1>14. ASSUME NEW t \in Thread, ReleaseInflight(t) PROVE TypeOK'
  BY <1>14, ReleaseIsReserved DEF ReleaseInflight, Goto, WitnessLoad, locals
<1>15. ASSUME NEW t \in Thread, CountCompletion(t) PROVE TypeOK'
  BY <1>15 DEF CountCompletion, Goto, CarriesSample, ToOutcomeStatus, locals,
     history
<1>16. ASSUME NEW t \in Thread, OnSample(t) PROVE TypeOK'
  BY <1>16 DEF OnSample, Goto, SetLimitLocked, WitnessCap, locals
<1>17. ASSUME NEW t \in Thread, Finish(t) PROVE TypeOK'
  <2>1. dst[t] \in Guard /\ guard[dst[t]] \in SlotGuard
    BY <1>17 DEF Finish
  <2>2. guard' \in [Guard -> SlotGuard \union {NoObject}]
    <3>1. CASE after[t] = "completed"
      BY <1>17, <2>1, <3>1 DEF Finish
    <3>2. CASE after[t] = "destroyed"
      BY <1>17, <2>1, <3>2 DEF Finish
    <3>3. CASE after[t] = "assigned"
      <4>1. src[t] \in Guard /\ MovedFrom(guard[src[t]]) \in SlotGuard
        BY <1>17, <3>3, MovedFromType DEF Finish
      <4>2. QED
        BY <1>17, <2>1, <3>3, <4>1 DEF Finish
    <3>4. QED
      BY <3>1, <3>2, <3>3
  <2>3. QED
    BY <1>17, <2>2 DEF Finish, Return, Goto, history
<1>18. ASSUME NEW n \in SettableTo, SetLimit(n) PROVE TypeOK'
  BY <1>18 DEF SetLimit, SetLimitLocked, WitnessCap, locals
<1>19. CASE UNCHANGED vars
  BY <1>19 DEF vars, locals, history
<1>20. QED
  BY SMTT(60), <1>1, <1>2, <1>3, <1>4, <1>5, <1>6, <1>7, <1>8, <1>9, <1>10, <1>11,
     <1>12, <1>13, <1>14, <1>15, <1>16, <1>17, <1>18, <1>19 DEF Next, Acquire,
     UseGuard, OnSlotComplete

\* No step of one thread disturbs a guard another thread is working on.
LEMMA GuardDisciplineStep == IndInv /\ [Next]_vars => GuardDiscipline'
<1> SUFFICES ASSUME IndInv, [Next]_vars PROVE GuardDiscipline'
  OBVIOUS
<1> USE LimiterAssumption DEF IndInv, TypeOK, SlotGuard, NoObject, NoGuard,
   Labels, Acquiring, Deciding, Releasing, Status, CompletionStatus, Idle,
   Unused, Live, IsObject, GuardDiscipline
<1>1. ASSUME NEW t \in Thread, NEW g \in Guard, BypassAcquire(t, g) PROVE
   GuardDiscipline'
  BY <1>1 DEF BypassAcquire, MakeSlot, locals
<1>2. ASSUME NEW t \in Thread, NEW g \in Guard, BeginAcquire(t, g) PROVE
   GuardDiscipline'
  BY <1>2 DEF BeginAcquire, Goto
<1>3. ASSUME NEW t \in Thread, LoadInflight(t) PROVE GuardDiscipline'
  BY <1>3 DEF LoadInflight, Goto, history
<1>4. ASSUME NEW t \in Thread, CheckPass(t) PROVE GuardDiscipline'
  BY <1>4 DEF CheckPass, Goto, Headroom, history
<1>5. ASSUME NEW t \in Thread, CheckFail(t) PROVE GuardDiscipline'
  BY <1>5 DEF CheckFail, Goto, Headroom
<1>6. ASSUME NEW t \in Thread, CasSucceed(t) PROVE GuardDiscipline'
  BY <1>6 DEF CasSucceed, Goto, CasMatches, locals
<1>7. ASSUME NEW t \in Thread, CasFail(t) PROVE GuardDiscipline'
  BY <1>7 DEF CasFail, Goto, history
<1>8. ASSUME NEW t \in Thread, CountRejected(t) PROVE GuardDiscipline'
  BY <1>8 DEF CountRejected, Return, Goto, history
<1>9. ASSUME NEW t \in Thread, ReturnSlot(t) PROVE GuardDiscipline'
  BY <1>9 DEF ReturnSlot, MakeSlot, Return, Goto, history
<1>10. ASSUME NEW t \in Thread, NEW g \in Guard, NEW s \in CompletionStatus,
   Complete(t, g, s) PROVE GuardDiscipline'
  BY <1>10 DEF Complete, EnterOnSlotComplete, EntryLabel, Goto, history
<1>11. ASSUME NEW t \in Thread, NEW g \in Guard, Destroy(t, g) PROVE
   GuardDiscipline'
  BY <1>11 DEF Destroy, EnterOnSlotComplete, EntryLabel, Goto, locals, history
<1>12. ASSUME NEW t \in Thread, NEW to \in Guard, NEW from \in Guard,
   MoveConstruct(t, to, from) PROVE GuardDiscipline'
  BY <1>12 DEF MoveConstruct, MovedFrom, locals, history
<1>13. ASSUME NEW t \in Thread, NEW to \in Guard, NEW from \in Guard,
   MoveAssign(t, to, from) PROVE GuardDiscipline'
  BY <1>13 DEF MoveAssign, EnterOnSlotComplete, EntryLabel, MovedFrom, Goto,
     locals, history
<1>14. ASSUME NEW t \in Thread, ReleaseInflight(t) PROVE GuardDiscipline'
  BY <1>14 DEF ReleaseInflight, Goto, WitnessLoad, locals
<1>15. ASSUME NEW t \in Thread, CountCompletion(t) PROVE GuardDiscipline'
  BY <1>15 DEF CountCompletion, Goto, CarriesSample, ToOutcomeStatus, locals,
     history
<1>16. ASSUME NEW t \in Thread, OnSample(t) PROVE GuardDiscipline'
  BY <1>16 DEF OnSample, Goto, SetLimitLocked, WitnessCap, locals
<1>17. ASSUME NEW t \in Thread, Finish(t) PROVE GuardDiscipline'
  <2>1. /\ pc' = [pc EXCEPT ![t] = "idle"] /\ dst' = [dst EXCEPT ![t] = NoGuard]
        /\ src' = [src EXCEPT ![t] = NoGuard] /\ after' = after
        /\ dst[t] \in Guard /\ (after[t] = "assigned" => src[t] \in Guard)
    BY <1>17 DEF Finish, Return, Goto
  <2>2. \A g \in Guard : g # dst[t] /\ g # src[t] => guard'[g] = guard[g]
    <3>1. CASE after[t] = "completed"
      BY <1>17, <2>1, <3>1 DEF Finish
    <3>2. CASE after[t] = "destroyed"
      BY <1>17, <2>1, <3>2 DEF Finish
    <3>3. CASE after[t] = "assigned"
      <4>1. guard' = [guard EXCEPT ![dst[t]] = guard[src[t]],
                                   ![src[t]] = MovedFrom(guard[src[t]])]
        BY <1>17, <3>3 DEF Finish
      <4>2. QED
        BY <2>1, <3>3, <4>1
    <3>4. QED
      BY <3>1, <3>2, <3>3
  <2>3. ASSUME NEW u \in Thread, u # t
        PROVE  /\ pc'[u] = pc[u] /\ dst'[u] = dst[u] /\ src'[u] = src[u]
               /\ dst[u] \in Guard => guard'[dst[u]] = guard[dst[u]]
               /\ src[u] \in Guard => guard'[src[u]] = guard[src[u]]
    BY <2>1, <2>2, <2>3
  <2>4. ASSUME NEW u \in Thread
        PROVE  /\ pc'[u] = "idle" => dst'[u] = NoGuard /\ src'[u] = NoGuard
               /\ pc'[u] \in Deciding =>
                    dst'[u] \in Guard /\ src'[u] = NoGuard /\ guard'[dst'[u]] = NoObject
               /\ pc'[u] \in Releasing =>
                    /\ dst'[u] \in Guard /\ Live(guard'[dst'[u]])
                    /\ pc'[u] # "finish" => ~guard'[dst'[u]].bypassed
                    /\ after'[u] # "assigned" => src'[u] = NoGuard
                    /\ after'[u] = "assigned" => /\ src'[u] \in Guard
                                                 /\ src'[u] # dst'[u]
                                                 /\ IsObject(guard'[src'[u]])
    <3>1. CASE u = t
      BY <2>1, <3>1
    <3>2. CASE u # t
      BY <2>1, <2>3, <3>2
    <3>3. QED
      BY <3>1, <3>2
  <2>5. \A u, v \in Thread : u # v =>
          /\ dst'[u] = dst'[v] => dst'[u] = NoGuard
          /\ src'[u] = src'[v] => src'[u] = NoGuard
          /\ dst'[u] = src'[v] => dst'[u] = NoGuard
    BY <2>1
  <2>6. QED
    BY <2>4, <2>5
<1>18. ASSUME NEW n \in SettableTo, SetLimit(n) PROVE GuardDiscipline'
  BY <1>18 DEF SetLimit, SetLimitLocked, WitnessCap, locals
<1>19. CASE UNCHANGED vars
  BY <1>19 DEF vars, locals, history
<1> HIDE DEF IndInv, TypeOK, SlotGuard, NoObject, NoGuard, Labels, Acquiring,
   Deciding, Releasing, Status, CompletionStatus, Idle, Unused, Live, IsObject,
   GuardDiscipline
<1>20. QED
  BY <1>1, <1>2, <1>3, <1>4, <1>5, <1>6, <1>7, <1>8, <1>9, <1>10, <1>11,
     <1>12, <1>13, <1>14, <1>15, <1>16, <1>17, <1>18, <1>19 DEF Next, Acquire,
     UseGuard, OnSlotComplete

\* The registers of a call in progress stay inside what the call witnessed.
LEMMA RegistersStep == IndInv /\ [Next]_vars => Registers'
<1> SUFFICES ASSUME IndInv, [Next]_vars PROVE Registers'
  OBVIOUS
<1> USE LimiterAssumption DEF IndInv, TypeOK, SlotGuard, NoObject, NoGuard,
   Labels, Acquiring, Deciding, Releasing, Status, CompletionStatus, Idle,
   Unused, Live, IsObject, Registers, AnyLimit
<1>1. ASSUME NEW t \in Thread, NEW g \in Guard, BypassAcquire(t, g) PROVE
   Registers'
  BY <1>1 DEF BypassAcquire, MakeSlot, locals
<1>2. ASSUME NEW t \in Thread, NEW g \in Guard, BeginAcquire(t, g) PROVE
   Registers'
  BY <1>2 DEF BeginAcquire, Goto
<1>3. ASSUME NEW t \in Thread, LoadInflight(t) PROVE Registers'
  BY <1>3 DEF LoadInflight, Goto, history
<1>4. ASSUME NEW t \in Thread, CheckPass(t) PROVE Registers'
  BY <1>4 DEF CheckPass, Goto, Headroom, history
<1>5. ASSUME NEW t \in Thread, CheckFail(t) PROVE Registers'
  BY <1>5 DEF CheckFail, Goto, Headroom
<1>6. ASSUME NEW t \in Thread, CasSucceed(t) PROVE Registers'
  BY <1>6 DEF CasSucceed, Goto, CasMatches, locals
<1>7. ASSUME NEW t \in Thread, CasFail(t) PROVE Registers'
  BY <1>7 DEF CasFail, Goto, history
<1>8. ASSUME NEW t \in Thread, CountRejected(t) PROVE Registers'
  BY <1>8 DEF CountRejected, Return, Goto, history
<1>9. ASSUME NEW t \in Thread, ReturnSlot(t) PROVE Registers'
  BY <1>9 DEF ReturnSlot, MakeSlot, Return, Goto, history
<1>10. ASSUME NEW t \in Thread, NEW g \in Guard, NEW s \in CompletionStatus,
   Complete(t, g, s) PROVE Registers'
  BY <1>10 DEF Complete, EnterOnSlotComplete, EntryLabel, Goto, history
<1>11. ASSUME NEW t \in Thread, NEW g \in Guard, Destroy(t, g) PROVE
   Registers'
  BY <1>11 DEF Destroy, EnterOnSlotComplete, EntryLabel, Goto, locals, history
<1>12. ASSUME NEW t \in Thread, NEW to \in Guard, NEW from \in Guard,
   MoveConstruct(t, to, from) PROVE Registers'
  BY <1>12 DEF MoveConstruct, MovedFrom, locals, history
<1>13. ASSUME NEW t \in Thread, NEW to \in Guard, NEW from \in Guard,
   MoveAssign(t, to, from) PROVE Registers'
  BY <1>13 DEF MoveAssign, EnterOnSlotComplete, EntryLabel, MovedFrom, Goto,
     locals, history
<1>14. ASSUME NEW t \in Thread, ReleaseInflight(t) PROVE Registers'
  BY <1>14 DEF ReleaseInflight, Goto, WitnessLoad, locals
<1>15. ASSUME NEW t \in Thread, CountCompletion(t) PROVE Registers'
  BY <1>15 DEF CountCompletion, Goto, CarriesSample, ToOutcomeStatus, locals,
     history
<1>16. ASSUME NEW t \in Thread, OnSample(t) PROVE Registers'
  BY <1>16 DEF OnSample, Goto, SetLimitLocked, WitnessCap, locals
<1>17. ASSUME NEW t \in Thread, Finish(t) PROVE Registers'
  BY <1>17 DEF Finish, Return, Goto, MovedFrom, history
<1>18. ASSUME NEW n \in SettableTo, SetLimit(n) PROVE Registers'
  BY <1>18 DEF SetLimit, SetLimitLocked, WitnessCap, locals
<1>19. CASE UNCHANGED vars
  BY <1>19 DEF vars, locals, history
<1> HIDE DEF IndInv, TypeOK, SlotGuard, NoObject, NoGuard, Labels, Acquiring,
   Deciding, Releasing, Status, CompletionStatus, Idle, Unused, Live, IsObject,
   Registers, AnyLimit
<1>20. QED
  BY <1>1, <1>2, <1>3, <1>4, <1>5, <1>6, <1>7, <1>8, <1>9, <1>10, <1>11,
     <1>12, <1>13, <1>14, <1>15, <1>16, <1>17, <1>18, <1>19 DEF Next, Acquire,
     UseGuard, OnSlotComplete

\* Admissions, moves, completions, assignments and destructions keep inflight_
\* equal to the number of reservations.
LEMMA InflightStep == IndInv /\ [Next]_vars => InflightIsReserved'
<1> SUFFICES ASSUME IndInv, [Next]_vars PROVE InflightIsReserved'
  OBVIOUS
<1> USE LimiterAssumption DEF IndInv, TypeOK, SlotGuard, NoObject, NoGuard,
   Labels, Acquiring, Deciding, Releasing, Status, CompletionStatus, Idle,
   Unused, Live, IsObject, GuardDiscipline
<1> DEFINE Same == Admitted' = Admitted /\ Reserved' = Reserved /\ inflight' =
   inflight
<1>0. Same => InflightIsReserved'
  BY DEF InflightIsReserved
<1>1. ASSUME NEW t \in Thread, NEW g \in Guard, BypassAcquire(t, g) PROVE Same
  BY <1>1 DEF BypassAcquire, MakeSlot, Return, Goto, locals, history,
     Admitted, Reserved, Reserving
<1>2. ASSUME NEW t \in Thread, NEW g \in Guard, BeginAcquire(t, g) PROVE Same
  BY <1>2 DEF BeginAcquire, Goto, locals, history, Admitted, Reserved,
     Reserving
<1>3. ASSUME NEW t \in Thread, LoadInflight(t) PROVE Same
  BY <1>3 DEF LoadInflight, Return, Goto, Headroom, CasMatches, locals,
     history, Admitted, Reserved, Reserving
<1>4. ASSUME NEW t \in Thread, CheckPass(t) PROVE Same
  BY <1>4 DEF CheckPass, Return, Goto, Headroom, CasMatches, locals, history,
     Admitted, Reserved, Reserving
<1>5. ASSUME NEW t \in Thread, CheckFail(t) PROVE Same
  BY <1>5 DEF CheckFail, Return, Goto, Headroom, CasMatches, locals, history,
     Admitted, Reserved, Reserving
<1>6. ASSUME NEW t \in Thread, CasSucceed(t) PROVE InflightIsReserved'
  <2>1. Admitted' = Admitted \union {t} /\ t \notin Admitted /\ Reserved' =
     Reserved /\ inflight' = inflight + 1
    BY <1>6 DEF CasSucceed, Return, Goto, CasMatches, locals, history,
       Admitted, Reserved, Reserving
  <2>2. Cardinality(Admitted') = Cardinality(Admitted) + 1
    BY <2>1, FiniteParts, FS_AddElement
  <2>3. QED BY <2>1, <2>2, FiniteParts DEF InflightIsReserved
<1>7. ASSUME NEW t \in Thread, CasFail(t) PROVE Same
  BY <1>7 DEF CasFail, Return, Goto, Headroom, CasMatches, locals, history,
     Admitted, Reserved, Reserving
<1>8. ASSUME NEW t \in Thread, CountRejected(t) PROVE Same
  BY <1>8 DEF CountRejected, Return, Goto, Headroom, CasMatches, locals,
     history, Admitted, Reserved, Reserving
<1>9. ASSUME NEW t \in Thread, ReturnSlot(t) PROVE InflightIsReserved'
  <2>1. Admitted' = Admitted \ {t} /\ t \in Admitted /\ inflight' = inflight
    BY <1>9 DEF ReturnSlot, MakeSlot, Return, Goto, locals, history, Admitted,
       Reserved, Reserving
  <2>2. Reserved' = Reserved \union {dst[t]} /\ dst[t] \notin Reserved
    BY <1>9 DEF ReturnSlot, MakeSlot, Return, Goto, locals, history, Admitted,
       Reserved, Reserving
  <2>3. Cardinality(Admitted') = Cardinality(Admitted) - 1
    BY <2>1, FiniteParts, FS_RemoveElement
  <2>4. Cardinality(Reserved') = Cardinality(Reserved) + 1
    BY <2>2, FiniteParts, FS_AddElement
  <2>5. QED BY <2>1, <2>3, <2>4, FiniteParts DEF InflightIsReserved
<1>10. ASSUME NEW t \in Thread, NEW g \in Guard, NEW s \in CompletionStatus,
   Complete(t, g, s) PROVE Same
  BY SMTT(60), <1>10 DEF Complete, EnterOnSlotComplete, EntryLabel, locals, history,
     Goto, Admitted, Reserved, Reserving
<1>11. ASSUME NEW t \in Thread, NEW g \in Guard, Destroy(t, g) PROVE Same
  <2>1. CASE Live(guard[g])
    <3>1. EnterOnSlotComplete(t, g, NoGuard, "ignored", "destroyed") /\ pc[t]
       = "idle"
      BY <1>11, <2>1 DEF Destroy
    <3>2. QED
      BY <1>11, <3>1 DEF Destroy, EnterOnSlotComplete, EntryLabel, history,
         Goto, Admitted, Reserved, Reserving
  <2>2. CASE ~Live(guard[g])
    BY <1>11, <2>2 DEF Destroy, EnterOnSlotComplete, locals, history,
       Admitted, Reserved, Reserving
  <2>3. QED BY <2>1, <2>2
<1>12. ASSUME NEW t \in Thread, NEW to \in Guard, NEW from \in Guard,
   MoveConstruct(t, to, from) PROVE InflightIsReserved'
  <2>1. to \notin Reserved /\ Admitted' = Admitted /\ inflight' = inflight /\
     to # from
    BY <1>12 DEF MoveConstruct, MovedFrom, locals, history, Goto, Admitted,
       Reserved, Reserving
  <2>2. Reserved' = IF from \in Reserved
                     THEN (Reserved \ {from}) \union {to} ELSE Reserved
    BY <1>12 DEF MoveConstruct, MovedFrom, locals, history, Goto, Admitted,
       Reserved, Reserving
  <2>3. QED BY <2>1, <2>2, Transfer
<1>13. ASSUME NEW t \in Thread, NEW to \in Guard, NEW from \in Guard,
   MoveAssign(t, to, from) PROVE InflightIsReserved'
  <2>1. CASE Live(guard[to])
    <3>1. EnterOnSlotComplete(t, to, from, "ignored", "assigned") /\ pc[t]
       = "idle"
      BY <1>13, <2>1 DEF MoveAssign
    <3>2. inflight' = inflight /\ guard' = guard /\ dst' = [dst EXCEPT ![t] =
       to] /\ pc' = [pc EXCEPT ![t] = EntryLabel(to)]
      BY <3>1 DEF EnterOnSlotComplete, Goto
    <3>3. Admitted' = Admitted
      BY <3>1, <3>2 DEF Admitted, EntryLabel
    <3>4. Reserved' = Reserved
      BY <3>1, <3>2, <2>1 DEF Reserved, Reserving, EntryLabel
    <3>5. QED BY <3>2, <3>3, <3>4, <1>0
  <2>2. CASE ~Live(guard[to])
    <3>1. to \notin Reserved /\ Admitted' = Admitted /\ inflight' = inflight
       /\ to # from
      BY <1>13, <2>2 DEF MoveAssign, EnterOnSlotComplete, MovedFrom, locals,
         history, Goto, Admitted, Reserved, Reserving
    <3>2. Reserved' = IF from \in Reserved
                     THEN (Reserved \ {from}) \union {to} ELSE Reserved
      BY <1>13, <2>2 DEF MoveAssign, MovedFrom, EnterOnSlotComplete, locals,
         history, Goto, Admitted, Reserved, Reserving
    <3>3. QED BY <3>1, <3>2, Transfer
  <2>3. QED BY <2>1, <2>2
<1>14. ASSUME NEW t \in Thread, ReleaseInflight(t) PROVE InflightIsReserved'
  <2>1. dst[t] \in Reserved
    BY <1>14, ReleaseIsReserved DEF ReleaseInflight
  <2>2. Reserved' = Reserved \ {dst[t]}
    BY <1>14 DEF ReleaseInflight, Goto, WitnessLoad, locals, history,
       Admitted, Reserved, Reserving
  <2>3. Admitted' = Admitted /\ inflight' = inflight - 1
    BY <1>14 DEF ReleaseInflight, Goto, WitnessLoad, locals, history,
       Admitted, Reserved, Reserving
  <2>4. Cardinality(Reserved') = Cardinality(Reserved) - 1
    BY <2>1, <2>2, RemoveReserved
  <2>5. QED BY <2>3, <2>4, FiniteParts DEF InflightIsReserved
<1>15. ASSUME NEW t \in Thread, CountCompletion(t) PROVE Same
  BY <1>15 DEF CountCompletion, Goto, CarriesSample, ToOutcomeStatus,
     WitnessLoad, locals, history, Admitted, Reserved, Reserving
<1>16. ASSUME NEW t \in Thread, OnSample(t) PROVE Same
  BY <1>16 DEF OnSample, Goto, SetLimitLocked, WitnessCap, locals, history,
     Admitted, Reserved, Reserving
<1>17. ASSUME NEW t \in Thread, Finish(t) PROVE InflightIsReserved'
  <2>1. CASE after[t] # "assigned"
    BY <1>17, <2>1, <1>0 DEF Finish, Return, Goto, MovedFrom, locals, history,
       Admitted, Reserved, Reserving
  <2>2. CASE after[t] = "assigned"
    <3>1. dst[t] \notin Reserved /\ Admitted' = Admitted /\ inflight' =
       inflight /\ dst[t] # src[t]
      BY <1>17, <2>2 DEF Finish, Return, Goto, MovedFrom, locals, history,
         Admitted, Reserved, Reserving
    <3>2. Reserved' = IF src[t] \in Reserved
                     THEN (Reserved \ {src[t]}) \union {dst[t]} ELSE Reserved
      <4> SUFFICES ASSUME NEW d, d = dst[t], NEW f, f = src[t]
                   PROVE  Reserved' = IF f \in Reserved
                            THEN (Reserved \ {f}) \union {d} ELSE Reserved
        OBVIOUS
      <4>1. guard' = [guard EXCEPT ![d] = guard[f], ![f] = MovedFrom(guard[f])]
        BY <1>17, <2>2 DEF Finish
      <4>2. pc' = [pc EXCEPT ![t] = "idle"] /\ dst' = [dst EXCEPT ![t] =
         NoGuard]
        BY <1>17 DEF Finish, Return, Goto
      <4>3. d \in Guard /\ f \in Guard /\ f # d /\ IsObject(guard[f])
        BY <1>17, <2>2 DEF Finish
      <4>4. ASSUME NEW g \in Guard, g # d, g # f PROVE Reserving(g)' <=>
         Reserving(g)
        <5>1. guard'[g] = guard[g]
          BY <4>1, <4>3, <4>4
        <5>2. \A u \in Thread : u # t => dst'[u] = dst[u] /\ pc'[u] = pc[u]
          BY <4>2
        <5>3. dst'[t] # g /\ dst[t] # g
          BY <4>2, <4>4
        <5>4. QED
          BY SMTT(60), <5>1, <5>2, <5>3 DEF Reserving
      <4>5. ~Reserving(f)'
        BY <4>1, <4>2, <4>3 DEF Reserving, MovedFrom
      <4>6. ~Reserving(d)
        BY <1>17 DEF Finish, Reserving
      <4>7. \A u \in Thread : dst[u] # f
        BY <4>3
      <4>8. \A u \in Thread : u # t => dst[u] # d
        BY <4>3
      <4>9. Reserving(d)' <=> Reserving(f)
        BY <4>1, <4>2, <4>3, <4>7, <4>8 DEF Reserving
      <4>10. QED
        BY <4>3, <4>4, <4>5, <4>6, <4>9 DEF Reserved
    <3>3. dst[t] \in Guard /\ src[t] \in Guard
      BY <1>17, <2>2 DEF Finish
    <3>4. QED BY <3>1, <3>2, <3>3, Transfer
  <2>3. QED BY <2>1, <2>2
<1>18. ASSUME NEW n \in SettableTo, SetLimit(n) PROVE Same
  BY <1>18 DEF SetLimit, Goto, SetLimitLocked, WitnessCap, locals, history,
     Admitted, Reserved, Reserving
<1>19. CASE UNCHANGED vars
  BY <1>19, <1>0 DEF vars, locals, history, Admitted, Reserved, Reserving
<1>20. QED
  BY <1>0, <1>1, <1>2, <1>3, <1>4, <1>5, <1>6, <1>7, <1>8, <1>9, <1>10, <1>11,
     <1>12, <1>13, <1>14, <1>15, <1>16, <1>17, <1>18, <1>19 DEF Next, Acquire,
     UseGuard, OnSlotComplete

----------------------------------------------------------------------------
(* The theorems.                                                           *)

\* IndInv is an invariant of the limiter.
THEOREM Invariance == Spec => []IndInv
<1>1. IndInv /\ [Next]_vars => IndInv'
  BY TypeStep, GuardDisciplineStep, RegistersStep, InflightStep DEF IndInv
<1>2. QED
  BY InitInv, <1>1, PTL DEF Spec

\* Type correctness, with inflight_ never negative, for any number of threads.
THEOREM TypeCorrect == Spec => []TypeOK
BY Invariance, PTL DEF IndInv

\* Conservation: inflight_ is always the number of admissions not yet given
\* back, through every interleaving of moves and completions of guards.
THEOREM Conservation == Spec => []InflightIsReserved
BY Invariance, PTL DEF IndInv

\* Only the compare-and-swap and the fetch_sub write inflight_.
LEMMA InflightWriters ==
  [Next]_vars => \/ \E t \in Thread : CasSucceed(t) \/ ReleaseInflight(t)
                 \/ UNCHANGED inflight
<1> SUFFICES ASSUME Next
             PROVE  \/ \E t \in Thread : CasSucceed(t) \/ ReleaseInflight(t)
                    \/ UNCHANGED inflight
  BY DEF vars
<1>1. ASSUME NEW t \in Thread, Acquire(t)
      PROVE  CasSucceed(t) \/ UNCHANGED inflight
  BY <1>1 DEF Acquire, BypassAcquire, BeginAcquire, LoadInflight, CheckPass,
     CheckFail, CasFail, CountRejected, ReturnSlot
<1>2. ASSUME NEW t \in Thread, UseGuard(t) PROVE UNCHANGED inflight
  BY <1>2 DEF UseGuard, EnterOnSlotComplete, Complete, Destroy, MoveConstruct,
     MoveAssign
<1>3. ASSUME NEW t \in Thread, OnSlotComplete(t)
      PROVE  ReleaseInflight(t) \/ UNCHANGED inflight
  BY <1>3 DEF OnSlotComplete, CountCompletion, OnSample, Finish
<1>4. ASSUME NEW n \in SettableTo, SetLimit(n) PROVE UNCHANGED inflight
  BY <1>4 DEF SetLimit
<1>5. QED
  BY <1>1, <1>2, <1>3, <1>4 DEF Next

\* One step keeps inflight_ below the largest cap ever given: only the
\* compare-and-swap raises it, and then to at most the cap it was judged by.
LEMMA CapCeilingStep == IndInv /\ CapCeiling /\ [Next]_vars => CapCeiling'
<1> SUFFICES ASSUME IndInv, CapCeiling, [Next]_vars PROVE CapCeiling'
  OBVIOUS
<1> USE LimiterAssumption DEF IndInv, TypeOK, CapCeiling
<1>1. ASSUME NEW t \in Thread, CasSucceed(t) PROVE CapCeiling'
  BY <1>1 DEF CasSucceed, CasMatches, Registers, AnyLimit
<1>2. ASSUME NEW t \in Thread, ReleaseInflight(t) PROVE CapCeiling'
  <2>1. PICK l \in {0, InitialLimit} \union SettableTo \union AdaptsTo :
               inflight <= l
    OBVIOUS
  <2>2. inflight' <= l
    BY <1>2, <2>1 DEF ReleaseInflight
  <2>3. QED
    BY <2>2
<1>3. CASE UNCHANGED inflight
  BY <1>3
<1>4. QED
  BY <1>1, <1>2, <1>3, InflightWriters

\* The cap is never exceeded: with a FixedLimit inflight_ <= cap always; with
\* a changing one inflight_ never passes the largest cap there ever was.
THEOREM CapNeverExceeded == Spec => []CapCeiling
<1>1. Init => CapCeiling
  BY LimiterAssumption DEF Init, CapCeiling
<1>2. QED
  BY Invariance, CapCeilingStep, <1>1, PTL DEF Spec

----------------------------------------------------------------------------
(* Counting calls.                                                         *)

\* The two sets of calls that no outcome counter has seen are finite.
LEMMA FiniteCalls ==
  /\ IsFiniteSet(Undecided) /\ Cardinality(Undecided) \in Nat
  /\ IsFiniteSet(Outstanding) /\ Cardinality(Outstanding) \in Nat
BY LimiterAssumption, FS_Subset, FS_CardinalityType DEF Undecided, Outstanding

\* A counted completion takes one guard off the account.
LEMMA OutcomeCounted ==
  ASSUME NEW g \in Outstanding
  PROVE  Cardinality(Outstanding \ {g}) = Cardinality(Outstanding) - 1
BY FiniteCalls, FS_RemoveElement

\* Moving a guard moves the call it stands for, if that is still uncounted.
LEMMA MoveUncounted ==
  ASSUME TypeOK, EveryCallCountedOnce,
         NEW to \in Guard, NEW from \in Guard, to # from,
         to \notin Outstanding, Undecided' = Undecided, UNCHANGED <<outcome, calls>>,
         Outstanding' = IF from \in Outstanding
                        THEN (Outstanding \ {from}) \union {to} ELSE Outstanding
  PROVE  EveryCallCountedOnce'
<1>1. TotalOutcomes' = TotalOutcomes
  BY DEF TotalOutcomes
<1>2. Cardinality(Outstanding') = Cardinality(Outstanding)
  <2>1. CASE from \in Outstanding
    <3>1. /\ IsFiniteSet(Outstanding \ {from})
          /\ Cardinality(Outstanding \ {from}) = Cardinality(Outstanding) - 1
      BY <2>1, FiniteCalls, FS_RemoveElement
    <3>2. Cardinality((Outstanding \ {from}) \union {to})
            = Cardinality(Outstanding \ {from}) + 1
      BY <3>1, FS_AddElement
    <3>3. QED
      BY <2>1, <3>1, <3>2, FiniteCalls
  <2>2. CASE from \notin Outstanding
    BY <2>2
  <2>3. QED
    BY <2>1, <2>2
<1>3. QED
  BY <1>1, <1>2 DEF EveryCallCountedOnce

\* One increment of one outcome counter adds one to the total.
LEMMA OneMoreOutcome ==
  ASSUME TypeOK, NEW s \in Status, outcome' = [outcome EXCEPT ![s] = @ + 1]
  PROVE  TotalOutcomes \in Nat /\ TotalOutcomes' = TotalOutcomes + 1
BY DEF TypeOK, Status, TotalOutcomes

\* The arithmetic of a call that changes its place in the account.
LEMMA Balance ==
  ASSUME NEW c \in Nat, NEW o \in Nat, NEW u \in Nat, NEW h \in Nat,
         c = o + u + h
  PROVE  /\ c + 1 = (o + 1) + u + h
         /\ c + 1 = o + (u + 1) + h
         /\ c = (o + 1) + (u - 1) + h
         /\ c = (o + 1) + u + (h - 1)
         /\ c = o + (u - 1) + (h + 1)
OBVIOUS

\* Every TryAcquire stays in exactly one place of the account: undecided, the
\* holder of an uncounted slot, or one increment of one outcome counter.
LEMMA OutcomesStep ==
  IndInv /\ EveryCallCountedOnce /\ [Next]_vars => EveryCallCountedOnce'
<1> SUFFICES ASSUME IndInv, EveryCallCountedOnce, [Next]_vars
             PROVE  EveryCallCountedOnce'
  OBVIOUS
<1> USE LimiterAssumption DEF IndInv, TypeOK, SlotGuard, NoObject, NoGuard,
   Labels, Acquiring, Deciding, Releasing, Status, CompletionStatus, Idle,
   Unused, Live, IsObject, GuardDiscipline
<1> DEFINE Same == /\ Undecided' = Undecided /\ Outstanding' = Outstanding
                   /\ UNCHANGED <<outcome, calls>>
<1> HIDE DEF Same
<1>0. Same => EveryCallCountedOnce'
  BY DEF Same, EveryCallCountedOnce, TotalOutcomes
<1>a. /\ calls \in Nat /\ TotalOutcomes \in Nat
      /\ Cardinality(Undecided) \in Nat /\ Cardinality(Outstanding) \in Nat
      /\ calls = TotalOutcomes + Cardinality(Undecided) + Cardinality(Outstanding)
  BY FiniteCalls DEF EveryCallCountedOnce, TotalOutcomes
<1>b. /\ calls + 1 = (TotalOutcomes + 1) + Cardinality(Undecided) + Cardinality(Outstanding)
      /\ calls + 1 = TotalOutcomes + (Cardinality(Undecided) + 1) + Cardinality(Outstanding)
      /\ calls = (TotalOutcomes + 1) + (Cardinality(Undecided) - 1) + Cardinality(Outstanding)
      /\ calls = (TotalOutcomes + 1) + Cardinality(Undecided) + (Cardinality(Outstanding) - 1)
      /\ calls = TotalOutcomes + (Cardinality(Undecided) - 1) + (Cardinality(Outstanding) + 1)
  BY <1>a, Balance
<1>1. ASSUME NEW t \in Thread, NEW g \in Guard, BypassAcquire(t, g)
      PROVE  EveryCallCountedOnce'
  <2>1. Undecided' = Undecided /\ Outstanding' = Outstanding /\ calls' = calls + 1
    BY <1>1 DEF BypassAcquire, MakeSlot, locals, history, Undecided, Outstanding, Uncounted
  <2>2. TotalOutcomes' = TotalOutcomes + 1
    BY <1>1, OneMoreOutcome DEF BypassAcquire
  <2>3. QED
    BY <1>b, <2>1, <2>2 DEF EveryCallCountedOnce
<1>2. ASSUME NEW t \in Thread, NEW g \in Guard, BeginAcquire(t, g)
      PROVE  EveryCallCountedOnce'
  <2>1. /\ Undecided' = Undecided \union {t} /\ t \notin Undecided
        /\ Outstanding' = Outstanding /\ calls' = calls + 1
    BY <1>2 DEF BeginAcquire, Goto, Undecided, Outstanding, Uncounted
  <2>2. TotalOutcomes' = TotalOutcomes
    BY <1>2 DEF BeginAcquire, TotalOutcomes
  <2>3. Cardinality(Undecided') = Cardinality(Undecided) + 1
    BY <2>1, FiniteCalls, FS_AddElement
  <2>4. QED
    BY <1>b, <2>1, <2>2, <2>3 DEF EveryCallCountedOnce
<1>3. ASSUME NEW t \in Thread, LoadInflight(t) PROVE Same
  BY <1>3 DEF Same, LoadInflight, Goto, history, Undecided, Outstanding, Uncounted
<1>4. ASSUME NEW t \in Thread, CheckPass(t) PROVE Same
  BY <1>4 DEF Same, CheckPass, Goto, history, Undecided, Outstanding, Uncounted
<1>5. ASSUME NEW t \in Thread, CheckFail(t) PROVE Same
  BY <1>5 DEF Same, CheckFail, Goto, Undecided, Outstanding, Uncounted
<1>6. ASSUME NEW t \in Thread, CasSucceed(t) PROVE Same
  BY <1>6 DEF Same, CasSucceed, Goto, locals, Undecided, Outstanding, Uncounted
<1>7. ASSUME NEW t \in Thread, CasFail(t) PROVE Same
  BY <1>7 DEF Same, CasFail, Goto, history, Undecided, Outstanding, Uncounted
<1>8. ASSUME NEW t \in Thread, CountRejected(t) PROVE EveryCallCountedOnce'
  <2>1. /\ Undecided' = Undecided \ {t} /\ t \in Undecided
        /\ Outstanding' = Outstanding /\ calls' = calls
    BY <1>8 DEF CountRejected, Return, Goto, history, Undecided, Outstanding, Uncounted
  <2>2. TotalOutcomes' = TotalOutcomes + 1
    BY <1>8, OneMoreOutcome DEF CountRejected
  <2>3. Cardinality(Undecided') = Cardinality(Undecided) - 1
    BY <2>1, FiniteCalls, FS_RemoveElement
  <2>4. QED
    BY <1>b, <2>1, <2>2, <2>3 DEF EveryCallCountedOnce
<1>9. ASSUME NEW t \in Thread, ReturnSlot(t) PROVE EveryCallCountedOnce'
  <2>1. Undecided' = Undecided \ {t} /\ t \in Undecided /\ calls' = calls
    BY <1>9 DEF ReturnSlot, Return, Goto, history, Undecided
  <2>2. Outstanding' = Outstanding \union {dst[t]} /\ dst[t] \notin Outstanding
    BY <1>9 DEF ReturnSlot, MakeSlot, Return, Goto, Outstanding, Uncounted
  <2>3. Cardinality(Undecided') = Cardinality(Undecided) - 1
    BY <2>1, FiniteCalls, FS_RemoveElement
  <2>4. Cardinality(Outstanding') = Cardinality(Outstanding) + 1
    BY <2>2, FiniteCalls, FS_AddElement
  <2>5. TotalOutcomes' = TotalOutcomes
    BY <1>9 DEF ReturnSlot, TotalOutcomes
  <2>6. QED
    BY <1>b, <2>1, <2>3, <2>4, <2>5 DEF EveryCallCountedOnce
<1>10. ASSUME NEW t \in Thread, NEW g \in Guard, NEW s \in CompletionStatus,
              Complete(t, g, s)
       PROVE  Same
  BY ZenonT(60), <1>10 DEF Same, Complete, EnterOnSlotComplete, EntryLabel, history, Goto,
     Undecided, Outstanding, Uncounted
<1>11. ASSUME NEW t \in Thread, NEW g \in Guard, Destroy(t, g) PROVE Same
  <2>1. CASE Live(guard[g])
    <3>1. /\ EnterOnSlotComplete(t, g, NoGuard, "ignored", "destroyed")
          /\ pc[t] = "idle"
      BY <1>11, <2>1 DEF Destroy
    <3>2. QED
      BY <1>11, <3>1 DEF Same, Destroy, EnterOnSlotComplete, EntryLabel,
         history, Goto, Undecided, Outstanding, Uncounted
  <2>2. CASE ~Live(guard[g])
    BY <1>11, <2>2 DEF Same, Destroy, EnterOnSlotComplete, locals, history,
       Undecided, Outstanding, Uncounted
  <2>3. QED
    BY <2>1, <2>2
<1>12. ASSUME NEW t \in Thread, NEW to \in Guard, NEW from \in Guard,
              MoveConstruct(t, to, from)
       PROVE  EveryCallCountedOnce'
  <2>1. /\ to \notin Outstanding /\ to # from /\ Undecided' = Undecided
        /\ UNCHANGED <<outcome, calls>>
    BY <1>12 DEF MoveConstruct, locals, history, Undecided, Outstanding, Uncounted
  <2>2. Outstanding' = IF from \in Outstanding
                       THEN (Outstanding \ {from}) \union {to} ELSE Outstanding
    BY <1>12 DEF MoveConstruct, MovedFrom, locals, Outstanding, Uncounted
  <2>3. QED
    BY <2>1, <2>2, MoveUncounted
<1>13. ASSUME NEW t \in Thread, NEW to \in Guard, NEW from \in Guard,
              MoveAssign(t, to, from)
       PROVE  EveryCallCountedOnce'
  <2>1. CASE Live(guard[to])
    <3>1. Same
      BY SMTT(60), <1>13, <2>1 DEF Same, MoveAssign, EnterOnSlotComplete, EntryLabel,
         history, Goto, Undecided, Outstanding, Uncounted
    <3>2. QED
      BY <3>1, <1>0
  <2>2. CASE ~Live(guard[to])
    <3>1. /\ to \notin Outstanding /\ to # from /\ Undecided' = Undecided
          /\ UNCHANGED <<outcome, calls>>
      BY <1>13, <2>2 DEF MoveAssign, EnterOnSlotComplete, locals, history,
         Undecided, Outstanding, Uncounted
    <3>2. Outstanding' = IF from \in Outstanding
                         THEN (Outstanding \ {from}) \union {to} ELSE Outstanding
      BY <1>13, <2>2 DEF MoveAssign, MovedFrom, EnterOnSlotComplete, locals,
         Outstanding, Uncounted
    <3>3. QED
      BY <3>1, <3>2, MoveUncounted
  <2>3. QED
    BY <2>1, <2>2
<1>14. ASSUME NEW t \in Thread, ReleaseInflight(t) PROVE Same
  BY <1>14 DEF Same, ReleaseInflight, Goto, locals, Undecided, Outstanding, Uncounted
<1>15. ASSUME NEW t \in Thread, CountCompletion(t) PROVE EveryCallCountedOnce'
  <2>1. /\ Outstanding' = Outstanding \ {dst[t]} /\ dst[t] \in Outstanding
        /\ Undecided' = Undecided /\ calls' = calls
    BY <1>15 DEF CountCompletion, Goto, locals, history, Undecided, Outstanding, Uncounted
  <2>2. ToOutcomeStatus(status[t]) \in Status
    BY DEF ToOutcomeStatus
  <2>3. TotalOutcomes' = TotalOutcomes + 1
    BY <1>15, <2>2, OneMoreOutcome DEF CountCompletion
  <2>4. Cardinality(Outstanding') = Cardinality(Outstanding) - 1
    BY <2>1, OutcomeCounted
  <2>5. QED
    BY <1>b, <2>1, <2>3, <2>4 DEF EveryCallCountedOnce
<1>16. ASSUME NEW t \in Thread, OnSample(t) PROVE Same
  BY <1>16 DEF Same, OnSample, Goto, locals, Undecided, Outstanding, Uncounted
<1>17. ASSUME NEW t \in Thread, Finish(t) PROVE EveryCallCountedOnce'
  <2>1. CASE after[t] # "assigned"
    <3>1. Same
      BY <1>17, <2>1 DEF Same, Finish, Return, Goto, history, Undecided, Outstanding, Uncounted
    <3>2. QED
      BY <3>1, <1>0
  <2>2. CASE after[t] = "assigned"
    <3>1. /\ dst[t] \notin Outstanding /\ dst[t] # src[t]
          /\ Undecided' = Undecided /\ UNCHANGED <<outcome, calls>>
      BY <1>17, <2>2 DEF Finish, Return, Goto, history, Undecided, Outstanding, Uncounted
    <3>2. Outstanding' = IF src[t] \in Outstanding
                         THEN (Outstanding \ {src[t]}) \union {dst[t]}
                         ELSE Outstanding
      <4> SUFFICES ASSUME NEW d, d = dst[t], NEW f, f = src[t]
                   PROVE  Outstanding' = IF f \in Outstanding
                            THEN (Outstanding \ {f}) \union {d} ELSE Outstanding
        OBVIOUS
      <4>1. guard' = [guard EXCEPT ![d] = guard[f], ![f] = MovedFrom(guard[f])]
        BY <1>17, <2>2 DEF Finish
      <4>2. /\ pc' = [pc EXCEPT ![t] = "idle"]
            /\ dst' = [dst EXCEPT ![t] = NoGuard]
        BY <1>17 DEF Finish, Return, Goto
      <4>3. d \in Guard /\ f \in Guard /\ f # d /\ IsObject(guard[f])
        BY <1>17, <2>2 DEF Finish
      <4>4. ASSUME NEW g \in Guard, g # d, g # f
            PROVE  Uncounted(g)' <=> Uncounted(g)
        <5>1. guard'[g] = guard[g]
          BY <4>1, <4>3, <4>4
        <5>2. \A u \in Thread : u # t => dst'[u] = dst[u] /\ pc'[u] = pc[u]
          BY <4>2
        <5>3. dst'[t] # g /\ dst[t] # g
          BY <4>2, <4>4
        <5>4. \A u \in Thread :
                /\ dst'[u] = g <=> dst[u] = g
                /\ dst[u] = g => pc'[u] = pc[u]
          BY <5>2, <5>3
        <5>5. QED
          BY <5>1, <5>4 DEF Uncounted
      <4>5. ~Uncounted(f)'
        BY <4>1, <4>2, <4>3 DEF Uncounted, MovedFrom
      <4>6. ~Uncounted(d)
        BY <1>17 DEF Finish, Uncounted
      <4>7. \A u \in Thread : dst[u] # f
        BY <4>3
      <4>8. \A u \in Thread : u # t => dst[u] # d
        BY <4>3
      <4>9. Uncounted(d)' <=> Uncounted(f)
        BY <4>1, <4>2, <4>3, <4>7, <4>8 DEF Uncounted
      <4>10. QED
        BY <4>3, <4>4, <4>5, <4>6, <4>9 DEF Outstanding
    <3>3. dst[t] \in Guard /\ src[t] \in Guard
      BY <1>17, <2>2 DEF Finish
    <3>4. QED
      BY <3>1, <3>2, <3>3, MoveUncounted
  <2>3. QED
    BY <2>1, <2>2
<1>18. ASSUME NEW n \in SettableTo, SetLimit(n) PROVE Same
  BY <1>18 DEF Same, SetLimit, locals, Undecided, Outstanding, Uncounted
<1>19. CASE UNCHANGED vars
  BY <1>19, <1>0 DEF Same, vars, locals, history, Undecided, Outstanding, Uncounted
<1>20. QED
  BY <1>0, <1>1, <1>2, <1>3, <1>4, <1>5, <1>6, <1>7, <1>8, <1>9, <1>10, <1>11,
     <1>12, <1>13, <1>14, <1>15, <1>16, <1>17, <1>18, <1>19 DEF Next, Acquire,
     UseGuard, OnSlotComplete

\* The five outcomes are mutually exclusive and complete, for any number of
\* threads, guards and calls: outcome_counts_ sums to the calls decided.
THEOREM OutcomesComplete == Spec => []EveryCallCountedOnce
<1>1. Init => EveryCallCountedOnce
  <2> SUFFICES ASSUME Init PROVE EveryCallCountedOnce
    OBVIOUS
  <2>1. Undecided = {} /\ Outstanding = {}
    BY DEF Init, Undecided, Outstanding, Uncounted, Live, IsObject, NoObject,
       Deciding, Acquiring
  <2>2. calls = 0 /\ TotalOutcomes = 0
    BY DEF Init, TotalOutcomes, Status
  <2>3. QED
    BY <2>1, <2>2, FS_EmptySet DEF EveryCallCountedOnce
<1>2. QED
  BY Invariance, OutcomesStep, <1>1, PTL DEF Spec

\* Every step of the compare-and-swap loop is a step of the one-step gate or
\* leaves its variables unchanged.
LEMMA GateStep == IndInv /\ [Next]_vars => [Gate!Next]_(Gate!vars)
<1> SUFFICES ASSUME IndInv, [Next]_vars PROVE [Gate!Next]_(Gate!vars)
  OBVIOUS
<1> USE LimiterAssumption DEF IndInv, TypeOK, Registers, AnyLimit, Acquiring
<1>1. ASSUME NEW t \in Thread, NEW g \in Guard, BypassAcquire(t, g) PROVE
   [Gate!Next]_(Gate!vars)
  BY <1>1 DEF BypassAcquire, history, Gate!vars
<1>2. ASSUME NEW t \in Thread, NEW g \in Guard, BeginAcquire(t, g) PROVE
   [Gate!Next]_(Gate!vars)
  <2>1. Gate!Begin(t)
    BY <1>2 DEF BeginAcquire, Gate!Begin, Gate!Calling, Idle, Goto
  <2>2. QED
    BY <2>1 DEF Gate!Next
<1>3. ASSUME NEW t \in Thread, LoadInflight(t) PROVE [Gate!Next]_(Gate!vars)
  BY <1>3 DEF LoadInflight, history, Gate!vars
<1>4. ASSUME NEW t \in Thread, CheckPass(t) PROVE [Gate!Next]_(Gate!vars)
  BY <1>4 DEF CheckPass, history, Gate!vars
<1>5. ASSUME NEW t \in Thread, CheckFail(t) PROVE [Gate!Next]_(Gate!vars)
  <2>1. Gate!Reject(t)
    BY <1>5 DEF CheckFail, Headroom, Gate!Reject, Gate!Calling
  <2>2. QED
    BY <2>1 DEF Gate!Next
<1>6. ASSUME NEW t \in Thread, CasSucceed(t) PROVE [Gate!Next]_(Gate!vars)
  <2>1. Gate!Admit(t)
    BY <1>6 DEF CasSucceed, CasMatches, Gate!Admit, Gate!Calling, Gate!Witness
  <2>2. QED
    BY <2>1 DEF Gate!Next
<1>7. ASSUME NEW t \in Thread, CasFail(t) PROVE [Gate!Next]_(Gate!vars)
  BY <1>7 DEF CasFail, history, Gate!vars
<1>8. ASSUME NEW t \in Thread, CountRejected(t) PROVE [Gate!Next]_(Gate!vars)
  BY <1>8 DEF CountRejected, history, Gate!vars
<1>9. ASSUME NEW t \in Thread, ReturnSlot(t) PROVE [Gate!Next]_(Gate!vars)
  BY <1>9 DEF ReturnSlot, history, Gate!vars
<1>10. ASSUME NEW t \in Thread, NEW g \in Guard, NEW s \in CompletionStatus,
   Complete(t, g, s) PROVE [Gate!Next]_(Gate!vars)
  BY <1>10 DEF Complete, EnterOnSlotComplete, history, Gate!vars
<1>11. ASSUME NEW t \in Thread, NEW g \in Guard, Destroy(t, g) PROVE
   [Gate!Next]_(Gate!vars)
  BY <1>11 DEF Destroy, EnterOnSlotComplete, history, Gate!vars
<1>12. ASSUME NEW t \in Thread, NEW to \in Guard, NEW from \in Guard,
   MoveConstruct(t, to, from) PROVE [Gate!Next]_(Gate!vars)
  BY <1>12 DEF MoveConstruct, history, Gate!vars
<1>13. ASSUME NEW t \in Thread, NEW to \in Guard, NEW from \in Guard,
   MoveAssign(t, to, from) PROVE [Gate!Next]_(Gate!vars)
  BY <1>13 DEF MoveAssign, EnterOnSlotComplete, history, Gate!vars
<1>14. ASSUME NEW t \in Thread, ReleaseInflight(t) PROVE
   [Gate!Next]_(Gate!vars)
  <2>1. Gate!Release
    BY <1>14, ReleaseIsReserved DEF ReleaseInflight, WitnessLoad, Gate!Release,
       Gate!Calling, Gate!Witness
  <2>2. QED
    BY <2>1 DEF Gate!Next
<1>15. ASSUME NEW t \in Thread, CountCompletion(t) PROVE
   [Gate!Next]_(Gate!vars)
  BY <1>15 DEF CountCompletion, history, Gate!vars
<1>16. ASSUME NEW t \in Thread, OnSample(t) PROVE [Gate!Next]_(Gate!vars)
  <2>1. PICK n \in AdaptsTo \union {limit} : SetLimitLocked(n)
    BY <1>16 DEF OnSample
  <2>2. CASE n \in AdaptsTo
    <3>1. Gate!SetLimit(n)
      BY <1>16, <2>1 DEF OnSample, SetLimitLocked, WitnessCap, Gate!SetLimit,
         Gate!Calling, Gate!Witness
    <3>2. QED
      BY <2>2, <3>1 DEF Gate!Next
  <2>3. CASE n = limit
    <3>1. \A u \in Thread : seenCaps'[u] = seenCaps[u]
      BY <2>1, <2>3 DEF SetLimitLocked, WitnessCap
    <3>2. seenCaps' = seenCaps
      BY <2>1, <3>1 DEF SetLimitLocked, WitnessCap
    <3>3. QED
      BY <1>16, <2>1, <2>3, <3>2 DEF OnSample, SetLimitLocked, Gate!vars
  <2>4. QED
    BY <2>1, <2>2, <2>3
<1>17. ASSUME NEW t \in Thread, Finish(t) PROVE [Gate!Next]_(Gate!vars)
  BY <1>17 DEF Finish, history, Gate!vars
<1>18. ASSUME NEW n \in SettableTo, SetLimit(n) PROVE [Gate!Next]_(Gate!vars)
  <2>1. Gate!SetLimit(n)
    BY <1>18 DEF SetLimit, SetLimitLocked, WitnessCap, Gate!SetLimit, Gate!Calling,
       Gate!Witness
  <2>2. QED
    BY <2>1 DEF Gate!Next
<1>19. CASE UNCHANGED vars
  BY <1>19 DEF vars, history, Gate!vars
<1>20. QED
  BY <1>1, <1>2, <1>3, <1>4, <1>5, <1>6, <1>7, <1>8, <1>9, <1>10, <1>11,
     <1>12, <1>13, <1>14, <1>15, <1>16, <1>17, <1>18, <1>19 DEF Next, Acquire,
     UseGuard, OnSlotComplete

\* Refinement: SimpleLimiter implements AdmissionGate.
THEOREM Refinement == Spec => ImplementsGate
<1>1. Init => Gate!Init
  BY DEF Init, Gate!Init
<1>2. QED
  BY Invariance, GateStep, <1>1, PTL DEF Spec, ImplementsGate, Gate!Spec
=============================================================================
