--------------------------- MODULE SimpleLimiter ---------------------------
(***************************************************************************)
(* SimpleLimiter over AbstractLimiter, with the SlotGuards it hands out    *)
(* and the AbstractLimit that publishes its cap.                           *)
(*                                                                         *)
(* Every step touches at most one shared atomic word (`limit_`,            *)
(* `inflight_`, one of `outcome_counts_`), so the threads interleave as    *)
(* finely as the memory does.  A thread's own registers (`current`, `cap`) *)
(* keep what it read earlier and may be stale when used.  SlotGuards are   *)
(* objects of their own: they are moved, assigned over, completed, and     *)
(* destroyed, by any thread but, as the class is not thread-safe, by one   *)
(* thread at a time.                                                       *)
(***************************************************************************)
EXTENDS Integers, FiniteSets

CONSTANTS Thread,         \* threads that use the limiter
          Guard,          \* storage for SlotGuard objects
          InitialLimit,   \* the cap the Limit was built with
          SettableTo,     \* caps the application may pass to SetLimit
          AdaptsTo,       \* caps Update may return besides the current one
          MaxCalls        \* bound: TryAcquire calls in a behaviour

ASSUME LimiterAssumption ==
  /\ IsFiniteSet(Thread)
  /\ IsFiniteSet(Guard)
  /\ "none" \notin Guard
  /\ InitialLimit \in Int
  /\ SettableTo \subseteq Int
  /\ AdaptsTo \subseteq Int
  /\ MaxCalls \in Nat

VARIABLES
  limit,      \* AbstractLimit::limit_
  inflight,   \* AbstractLimiter::inflight_
  outcome,    \* AbstractLimiter::outcome_counts_
  guard,      \* guard[g]: the SlotGuard stored in g, or NoObject
  pc,         \* pc[t]: where t is inside DoTryAcquire or OnSlotComplete
  current,    \* t's local `current` in SimpleLimiter::DoAcquire
  cap,        \* t's local `cap` in SimpleLimiter::DoAcquire
  dst,        \* the guard t's operation works on
  src,        \* the guard t moves from (move assignment)
  status,     \* the CompletionStatus t passes to OnSlotComplete
  after,      \* what t does once OnSlotComplete returns
  calls,      \* history: TryAcquire calls made so far
  seenCaps,   \* history: caps in force since t's acquire began
  seenLoads   \* history: values of inflight since t's acquire began

locals == <<current, cap, dst, src, status, after>>
history == <<calls, seenCaps, seenLoads>>
vars == <<limit, inflight, outcome, guard, pc, locals, history>>

NoGuard == "none"
NoObject == [object |-> "none"]

Status == {"success", "rejected", "dropped", "ignored", "bypassed"}
CompletionStatus == {"success", "ignored", "dropped"}

MakeSlot(inflightAtAcquire, isBypassed) ==
  [object |-> "guard", limiter |-> TRUE, bypassed |-> isBypassed,
   inflight_at_acquire |-> inflightAtAcquire, completed |-> FALSE]

IsObject(slot) == slot.object = "guard"

Live_ForgetsCompleted(slot) == IsObject(slot) /\ slot.limiter

\* The condition under which ~SlotGuard, the move assignment and Complete
\* report to the limiter.
Live(slot) == IsObject(slot) /\ slot.limiter /\ ~slot.completed

MovedFrom_KeepsLimiter(slot) == slot

MovedFrom(slot) == [slot EXCEPT !.limiter = FALSE]

\* ToOutcomeStatus: the outcome counter a completion status lands in.
ToOutcomeStatus(s) ==
  CASE s = "success" -> "success"
    [] s = "dropped" -> "dropped"
    [] s = "ignored" -> "ignored"

CarriesSample(s) == ToOutcomeStatus(s) \in {"success", "dropped"}

Acquiring == {"load", "check", "cas"}        \* undecided inside DoAcquire
Deciding == Acquiring \union {"reject", "admit"}
Releasing == {"release", "count", "sample", "finish"}

Idle(t) == pc[t] = "idle"

\* SlotGuard is not thread-safe: no thread touches a guard another is using.
Unused(g) == \A t \in Thread : g # dst[t] /\ g # src[t]

Goto(t, label) == pc' = [pc EXCEPT ![t] = label]

Return(t) == /\ Goto(t, "idle")
             /\ dst' = [dst EXCEPT ![t] = NoGuard]
             /\ src' = [src EXCEPT ![t] = NoGuard]

Headroom_OffByOne(n, c) == n <= c

\* The admission test of DoAcquire.
Headroom(n, c) == n < c

CasMatches_Blind(t) == TRUE

\* compare_exchange succeeds only on the value read before.
CasMatches(t) == inflight = current[t]

EntryLabel_IgnoresBypass(g) == "release"

EntryLabel_CountsBypass(g) == IF guard[g].bypassed THEN "count" ELSE "release"

\* OnSlotComplete returns at once for a bypassed slot.
EntryLabel(g) == IF guard[g].bypassed THEN "finish" ELSE "release"

\* A call in progress witnesses every value a shared word takes.
WitnessLoad(n) ==
  seenLoads' = [t \in Thread |->
                  IF seenCaps[t] # {} THEN seenLoads[t] \union {n} ELSE {}]
WitnessCap(n) ==
  seenCaps' = [t \in Thread |->
                 IF seenCaps[t] # {} THEN seenCaps[t] \union {n} ELSE {}]

----------------------------------------------------------------------------
Init ==
  /\ limit = InitialLimit
  /\ inflight = 0
  /\ outcome = [s \in Status |-> 0]
  /\ guard = [g \in Guard |-> NoObject]
  /\ pc = [t \in Thread |-> "idle"]
  /\ current = [t \in Thread |-> 0]
  /\ cap = [t \in Thread |-> 0]
  /\ dst = [t \in Thread |-> NoGuard]
  /\ src = [t \in Thread |-> NoGuard]
  /\ status = [t \in Thread |-> "ignored"]
  /\ after = [t \in Thread |-> "completed"]
  /\ calls = 0
  /\ seenCaps = [t \in Thread |-> {}]
  /\ seenLoads = [t \in Thread |-> {}]

----------------------------------------------------------------------------
(* AbstractLimiter::DoTryAcquire and SimpleLimiter::DoAcquire.             *)

\* The bypass predicate holds: counted now, the counter never touched.
BypassAcquire(t, g) ==
  /\ Idle(t) /\ Unused(g) /\ guard[g] = NoObject
  /\ calls < MaxCalls
  /\ calls' = calls + 1
  /\ outcome' = [outcome EXCEPT !["bypassed"] = @ + 1]
  /\ guard' = [guard EXCEPT ![g] = MakeSlot(0, TRUE)]
  /\ UNCHANGED <<limit, inflight, pc, locals, seenCaps, seenLoads>>

BeginAcquire(t, g) ==
  /\ Idle(t) /\ Unused(g) /\ guard[g] = NoObject
  /\ calls < MaxCalls
  /\ calls' = calls + 1
  /\ Goto(t, "load")
  /\ dst' = [dst EXCEPT ![t] = g]
  /\ seenCaps' = [seenCaps EXCEPT ![t] = {limit}]
  /\ seenLoads' = [seenLoads EXCEPT ![t] = {inflight}]
  /\ UNCHANGED <<limit, inflight, outcome, guard, current, cap, src, status,
                 after>>

LoadInflight(t) ==
  /\ pc[t] = "load"
  /\ current' = [current EXCEPT ![t] = inflight]
  /\ Goto(t, "check")
  /\ UNCHANGED <<limit, inflight, outcome, guard, cap, dst, src, status,
                 after, history>>

\* GetLimit, and the comparison with the value of inflight_ read before.
CheckPass(t) ==
  /\ pc[t] = "check"
  /\ Headroom(current[t], limit)
  /\ cap' = [cap EXCEPT ![t] = limit]
  /\ Goto(t, "cas")
  /\ UNCHANGED <<limit, inflight, outcome, guard, current, dst, src, status,
                 after, history>>

CheckFail(t) ==
  /\ pc[t] = "check"
  /\ ~Headroom(current[t], limit)
  /\ cap' = [cap EXCEPT ![t] = limit]
  /\ Goto(t, "reject")
  /\ seenCaps' = [seenCaps EXCEPT ![t] = {}]
  /\ seenLoads' = [seenLoads EXCEPT ![t] = {}]
  /\ UNCHANGED <<limit, inflight, outcome, guard, current, dst, src, status,
                 after, calls>>

\* compare_exchange_weak: the only step that admits.
CasSucceed(t) ==
  /\ pc[t] = "cas"
  /\ CasMatches(t)
  /\ inflight' = current[t] + 1
  /\ Goto(t, "admit")
  /\ seenCaps' = [seenCaps EXCEPT ![t] = {}]
  /\ seenLoads' = [u \in Thread |->
                     IF u # t /\ seenCaps[u] # {}
                     THEN seenLoads[u] \union {inflight'} ELSE {}]
  /\ UNCHANGED <<limit, outcome, guard, locals, calls>>

\* It may fail spuriously; either way `current` becomes the live value.
CasFail(t) ==
  /\ pc[t] = "cas"
  /\ current' = [current EXCEPT ![t] = inflight]
  /\ Goto(t, "check")
  /\ UNCHANGED <<limit, inflight, outcome, guard, cap, dst, src, status,
                 after, history>>

CountRejected(t) ==
  /\ pc[t] = "reject"
  /\ outcome' = [outcome EXCEPT !["rejected"] = @ + 1]
  /\ Return(t)
  /\ UNCHANGED <<limit, inflight, guard, current, cap, status, after, history>>

ReturnSlot(t) ==
  /\ pc[t] = "admit"
  /\ guard' = [guard EXCEPT ![dst[t]] = MakeSlot(current[t] + 1, FALSE)]
  /\ Return(t)
  /\ UNCHANGED <<limit, inflight, outcome, current, cap, status, after,
                 history>>

----------------------------------------------------------------------------
(* SlotGuard: Complete, the destructor, the move constructor, the move     *)
(* assignment.  The three that report a completion share OnSlotComplete.   *)

\* Enter OnSlotComplete for guard g; a bypassed slot returns at once.
EnterOnSlotComplete(t, g, from, s, then) ==
  /\ Goto(t, EntryLabel(g))
  /\ dst' = [dst EXCEPT ![t] = g]
  /\ src' = [src EXCEPT ![t] = from]
  /\ status' = [status EXCEPT ![t] = s]
  /\ after' = [after EXCEPT ![t] = then]
  /\ UNCHANGED <<limit, inflight, outcome, guard, current, cap, history>>

Complete(t, g, s) ==
  /\ Idle(t) /\ Unused(g)
  /\ Live(guard[g])
  /\ EnterOnSlotComplete(t, g, NoGuard, s, "completed")

Destroy(t, g) ==
  /\ Idle(t) /\ Unused(g) /\ IsObject(guard[g])
  /\ \/ /\ Live(guard[g])
        /\ EnterOnSlotComplete(t, g, NoGuard, "ignored", "destroyed")
     \/ /\ ~Live(guard[g])
        /\ guard' = [guard EXCEPT ![g] = NoObject]
        /\ UNCHANGED <<limit, inflight, outcome, pc, locals, history>>

MoveConstruct(t, to, from) ==
  /\ Idle(t) /\ Unused(to) /\ Unused(from)
  /\ guard[to] = NoObject /\ IsObject(guard[from])
  /\ guard' = [guard EXCEPT ![to] = guard[from],
                            ![from] = MovedFrom(guard[from])]
  /\ UNCHANGED <<limit, inflight, outcome, pc, locals, history>>

MoveAssign(t, to, from) ==
  /\ Idle(t) /\ Unused(to) /\ Unused(from) /\ to # from
  /\ IsObject(guard[to]) /\ IsObject(guard[from])
  /\ \/ /\ Live(guard[to])
        /\ EnterOnSlotComplete(t, to, from, "ignored", "assigned")
     \/ /\ ~Live(guard[to])
        /\ guard' = [guard EXCEPT ![to] = guard[from],
                                  ![from] = MovedFrom(guard[from])]
        /\ UNCHANGED <<limit, inflight, outcome, pc, locals, history>>

----------------------------------------------------------------------------
(* AbstractLimiter::OnSlotComplete, after the bypass test.                 *)

ReleaseInflight(t) ==
  /\ pc[t] = "release"
  /\ inflight' = inflight - 1
  /\ WitnessLoad(inflight')
  /\ Goto(t, "count")
  /\ UNCHANGED <<limit, outcome, guard, locals, calls, seenCaps>>

CountCompletion(t) ==
  /\ pc[t] = "count"
  /\ outcome' = [outcome EXCEPT ![ToOutcomeStatus(status[t])] = @ + 1]
  /\ Goto(t, IF CarriesSample(status[t]) THEN "sample" ELSE "finish")
  /\ UNCHANGED <<limit, inflight, guard, locals, history>>

\* AbstractLimit::SetLimitLocked, atomic under mu_; no listener here.
SetLimitLocked(n) ==
  /\ limit' = n
  /\ WitnessCap(n)

\* AbstractLimit::OnSample: the algorithm may publish a new cap.
OnSample(t) ==
  /\ pc[t] = "sample"
  /\ \E n \in AdaptsTo \union {limit} : SetLimitLocked(n)
  /\ Goto(t, "finish")
  /\ UNCHANGED <<inflight, outcome, guard, locals, calls, seenLoads>>

\* OnSlotComplete has returned: the rest of the SlotGuard method.
Finish(t) ==
  /\ pc[t] = "finish"
  /\ guard' =
       CASE after[t] = "completed" ->
              [guard EXCEPT ![dst[t]].completed = TRUE]
         [] after[t] = "destroyed" ->
              [guard EXCEPT ![dst[t]] = NoObject]
         [] after[t] = "assigned" ->
              [guard EXCEPT ![dst[t]] = guard[src[t]],
                            ![src[t]] = MovedFrom(guard[src[t]])]
  /\ Return(t)
  /\ UNCHANGED <<limit, inflight, outcome, current, cap, status, after,
                 history>>

\* SettableLimit::SetLimit, by the application, at any time.
SetLimit(n) ==
  /\ n # limit
  /\ SetLimitLocked(n)
  /\ UNCHANGED <<inflight, outcome, guard, pc, locals, calls, seenLoads>>

----------------------------------------------------------------------------
Acquire(t) ==
  \/ \E g \in Guard : BypassAcquire(t, g) \/ BeginAcquire(t, g)
  \/ LoadInflight(t) \/ CheckPass(t) \/ CheckFail(t)
  \/ CasSucceed(t) \/ CasFail(t) \/ CountRejected(t) \/ ReturnSlot(t)

UseGuard(t) ==
  \/ \E g \in Guard : Destroy(t, g) \/ \E s \in CompletionStatus : Complete(t, g, s)
  \/ \E to, from \in Guard : MoveConstruct(t, to, from) \/ MoveAssign(t, to, from)

OnSlotComplete(t) ==
  ReleaseInflight(t) \/ CountCompletion(t) \/ OnSample(t) \/ Finish(t)

Next == \/ \E t \in Thread : Acquire(t) \/ UseGuard(t) \/ OnSlotComplete(t)
        \/ \E n \in SettableTo : SetLimit(n)

Spec == Init /\ [][Next]_vars

----------------------------------------------------------------------------
(* Properties.                                                             *)

SlotGuard ==
  [object : {"guard"}, limiter : BOOLEAN, bypassed : BOOLEAN,
   inflight_at_acquire : Nat, completed : BOOLEAN]

Labels == {"idle"} \union Deciding \union Releasing

\* Every word keeps its type; in particular inflight_, a signed int that only
\* fetch_sub lowers, never goes below zero.
TypeOK ==
  /\ limit \in Int
  /\ inflight \in Nat
  /\ outcome \in [Status -> Nat]
  /\ guard \in [Guard -> SlotGuard \union {NoObject}]
  /\ pc \in [Thread -> Labels]
  /\ current \in [Thread -> Nat]
  /\ cap \in [Thread -> Int]
  /\ dst \in [Thread -> Guard \union {NoGuard}]
  /\ src \in [Thread -> Guard \union {NoGuard}]
  /\ status \in [Thread -> CompletionStatus]
  /\ after \in [Thread -> {"completed", "destroyed", "assigned"}]
  /\ calls \in 0 .. MaxCalls
  /\ seenCaps \in [Thread -> SUBSET Int]
  /\ seenLoads \in [Thread -> SUBSET Nat]

\* The guards whose admission is still in inflight_: not moved from, not
\* completed, and not past fetch_sub in a completion that is under way.
Reserving(g) ==
  /\ Live(guard[g])
  /\ ~guard[g].bypassed
  /\ \A t \in Thread : dst[t] = g => pc[t] \notin {"count", "sample", "finish"}

Admitted == {t \in Thread : pc[t] = "admit"}
Reserved == {g \in Guard : Reserving(g)}

\* inflight_ is exactly the number of admissions not yet given back, whatever
\* moves, double completions, assignments and destructions the guards go
\* through: no slot is leaked and none is released twice.
InflightIsReserved ==
  inflight = Cardinality(Admitted) + Cardinality(Reserved)

Uncounted(g) ==
  /\ Live(guard[g])
  /\ ~guard[g].bypassed
  /\ \A t \in Thread : dst[t] = g => pc[t] \notin {"sample", "finish"}

Undecided == {t \in Thread : pc[t] \in Deciding}
Outstanding == {g \in Guard : Uncounted(g)}

TotalOutcomes == outcome["success"] + outcome["rejected"] + outcome["dropped"]
                   + outcome["ignored"] + outcome["bypassed"]

\* The five outcomes are mutually exclusive and complete: every TryAcquire is
\* still undecided, or holds an uncounted slot, or was counted exactly once.
EveryCallCountedOnce ==
  calls = TotalOutcomes + Cardinality(Undecided) + Cardinality(Outstanding)

\* The counter never passes the largest cap the limiter was ever given; with a
\* FixedLimit (no cap but the initial one) it never passes the cap.
CapCeiling ==
  \E l \in {0, InitialLimit} \union SettableTo \union AdaptsTo : inflight <= l

----------------------------------------------------------------------------
(* What the proofs need besides the properties above.                      *)

\* Which guards a thread uses, and what state they are in meanwhile.
GuardDiscipline ==
  /\ \A t \in Thread :
       /\ pc[t] = "idle" => dst[t] = NoGuard /\ src[t] = NoGuard
       /\ pc[t] \in Deciding =>
            dst[t] \in Guard /\ src[t] = NoGuard /\ guard[dst[t]] = NoObject
       /\ pc[t] \in Releasing =>
            /\ dst[t] \in Guard /\ Live(guard[dst[t]])
            /\ pc[t] # "finish" => ~guard[dst[t]].bypassed
            /\ after[t] # "assigned" => src[t] = NoGuard
            /\ after[t] = "assigned" => /\ src[t] \in Guard
                                        /\ src[t] # dst[t]
                                        /\ IsObject(guard[src[t]])
  /\ \A t, u \in Thread : t # u =>
       /\ dst[t] = dst[u] => dst[t] = NoGuard
       /\ src[t] = src[u] => src[t] = NoGuard
       /\ dst[t] = src[u] => dst[t] = NoGuard

AnyLimit == {InitialLimit} \union SettableTo \union AdaptsTo

\* What the registers of a call in progress say about what it witnessed.
Registers ==
  /\ limit \in AnyLimit
  /\ \A t \in Thread :
       /\ seenCaps[t] \subseteq AnyLimit
       /\ pc[t] \in Acquiring <=> seenCaps[t] # {}
       /\ pc[t] \notin Acquiring => seenLoads[t] = {}
       /\ pc[t] \in Acquiring => limit \in seenCaps[t] /\ inflight \in seenLoads[t]
       /\ pc[t] \in {"check", "cas"} => current[t] \in seenLoads[t]
       /\ pc[t] = "cas" => cap[t] \in seenCaps[t] /\ current[t] < cap[t]

IndInv == TypeOK /\ GuardDiscipline /\ Registers /\ InflightIsReserved

----------------------------------------------------------------------------
Gate == INSTANCE AdmissionGate
          WITH Caller <- Thread, LimitValue <- SettableTo \union AdaptsTo,
               held <- inflight, caps <- seenCaps, loads <- seenLoads

\* The compare-and-swap loop implements the one-step gate: each admission is
\* based on the load of that very moment and on a cap in force during the
\* call, each rejection on a load and a cap the call overlapped.
ImplementsGate == Gate!Spec
=============================================================================
