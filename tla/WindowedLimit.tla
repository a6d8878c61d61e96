--------------------------- MODULE WindowedLimit ---------------------------
(***************************************************************************)
(* WindowedLimit over two AverageSampleWindow slots.                       *)
(*                                                                         *)
(* Request threads fold their samples into the active slot, one atomic     *)
(* field at a time; the thread that wins boundary_mu_ reads the aggregate, *)
(* flips the slots, drives the delegate and resets the slot it closed,     *)
(* again one field at a time and while others may still be folding into    *)
(* it.  The loops that keep a running minimum or maximum act as one step.  *)
(* The delegate is external: it only receives what is reported to it.      *)
(***************************************************************************)
EXTENDS Integers, Sequences, FiniteSets, FiniteSetsExt

CONSTANTS Thread,            \* request threads
          Samples,           \* what they may bring: rtt, inflight, drop
          MinRttThreshold,   \* samples below it are noise
          MinWindowTime, MaxWindowTime,
          WindowSize,        \* samples a window must have to be reported
          Infinite,          \* the int64 maximum: no RTT seen yet
          Ends,              \* bound: when their samples may end
          MaxSamples         \* bound: samples in a behaviour

\* What Builder::Build insists on.
ValidConfiguration ==
  /\ MinWindowTime \in Nat \ {0} /\ MaxWindowTime \in Nat
  /\ MinWindowTime <= MaxWindowTime
  /\ WindowSize \in Nat \ {0}
  /\ MinRttThreshold \in Nat

ASSUME WindowAssumption ==
  /\ ValidConfiguration
  /\ IsFiniteSet(Thread) /\ "none" \notin Thread
  /\ Infinite \in Nat \ {0}
  /\ Samples \subseteq [rtt : 1 .. Infinite - 1, inflight : Nat, drop : BOOLEAN]
  /\ Ends \subseteq Nat /\ MaxSamples \in Nat

VARIABLES
  slots,     \* slots_[0], slots_[1]
  active,    \* active_index_
  nextDue,   \* next_update_time_ns_
  mu,        \* who holds boundary_mu_, or None
  pc,        \* where a thread is in OnSample
  sample,    \* the sample a thread brings
  end,       \* end_time_ns, its start time plus its RTT
  idx,       \* the slot a thread folds into, or closes
  step,      \* the field a thread is at in a slot
  read,      \* what a boundary thread has read from the slot it closes
  begun,     \* history: samples begun
  folded,    \* history: samples counted in a slot
  reported,  \* history: samples reported to the delegate
  batch,     \* history: samples folded completely since the last flip
  quiet      \* history: no boundary has overlapped a fold so far

history == <<begun, folded, reported, batch, quiet>>
locals == <<sample, end, idx, step, read>>
vars == <<slots, active, nextDue, mu, pc, locals, history>>
counts == <<begun, folded, reported, batch>>

None == "none"

Empty == [count |-> 0, sum |-> 0, min |-> Infinite,
          inflight |-> 0, drop |-> FALSE]

\* The order in which AddSample and Reset go through the fields, and the
\* boundary thread reads them: CandidateRttNs, TrackedRttNs (count and sum),
\* MaxInflight, SampleCount, DidDrop.
Fields == <<"count", "sum", "min", "inflight", "drop">>

Reads == <<"min", "count", "sum", "inflight", "count", "drop">>

Fold(s, x, f) ==
  CASE f = "count"    -> s.count + 1
    [] f = "sum"      -> s.sum + x.rtt
    [] f = "min"      -> Min({s.min, x.rtt})
    [] f = "inflight" -> Max({s.inflight, x.inflight})
    [] f = "drop"     -> s.drop \/ x.drop

NoSample == [rtt |-> 0, inflight |-> 0, drop |-> FALSE]

Init ==
  /\ slots = [i \in {0, 1} |-> Empty]
  /\ active = 0
  /\ nextDue = 0
  /\ mu = None
  /\ pc = [t \in Thread |-> "idle"]
  /\ sample = [t \in Thread |-> NoSample]
  /\ end = [t \in Thread |-> 0]
  /\ idx = [t \in Thread |-> 0]
  /\ step = [t \in Thread |-> 1]
  /\ read = [t \in Thread |-> << >>]
  /\ begun = 0 /\ folded = 0 /\ reported = 0
  /\ batch = << >> /\ quiet = TRUE

Goto(t, label) == pc' = [pc EXCEPT ![t] = label]

\* OnSample returns; the thread's locals are gone.
Return(t) ==
  /\ Goto(t, "idle")
  /\ sample' = [sample EXCEPT ![t] = NoSample]
  /\ end' = [end EXCEPT ![t] = 0]
  /\ idx' = [idx EXCEPT ![t] = 0]
  /\ step' = [step EXCEPT ![t] = 1]
  /\ read' = [read EXCEPT ![t] = << >>]

\* The next field of `order`, or the first one and on to `label`.
Advance(t, order, label) ==
  IF step[t] < Len(order)
  THEN step' = [step EXCEPT ![t] = @ + 1] /\ UNCHANGED pc
  ELSE step' = [step EXCEPT ![t] = 1] /\ Goto(t, label)

----------------------------------------------------------------------------
(* OnSample up to the boundary.                                            *)

\* A sample below the threshold returns at once and is never begun.  A thread
\* may be delayed before it calls: samples come in any order of their ends.
Begin(t, x, e) ==
  /\ pc[t] = "idle"
  /\ begun < MaxSamples
  /\ x.rtt >= MinRttThreshold
  /\ sample' = [sample EXCEPT ![t] = x]
  /\ end' = [end EXCEPT ![t] = e]
  /\ begun' = begun + 1
  /\ Goto(t, "index")
  /\ UNCHANGED <<slots, active, nextDue, mu, idx, step, read,
                 folded, reported, batch>>

LoadIndex(t) ==
  /\ pc[t] = "index"
  /\ idx' = [idx EXCEPT ![t] = active]
  /\ Goto(t, "add")
  /\ UNCHANGED <<slots, active, nextDue, mu, sample, end, step, read, counts>>

\* One field of AverageSampleWindow::AddSample.
AddSample(t) ==
  LET f == Fields[step[t]] IN
  /\ pc[t] = "add"
  /\ slots' = [slots EXCEPT
                 ![idx[t]][f] = Fold(slots[idx[t]], sample[t], f)]
  /\ Advance(t, Fields, "due")
  /\ folded' = IF f = "count" THEN folded + 1 ELSE folded
  /\ batch' = IF step[t] = Len(Fields)
              THEN Append(batch, sample[t]) ELSE batch
  /\ UNCHANGED <<active, nextDue, mu, sample, end, idx, read, begun, reported>>

NotYetDue(t) == end[t] <= nextDue

CheckDue(t) ==
  /\ pc[t] = "due"
  /\ \/ NotYetDue(t) /\ Return(t)
     \/ ~NotYetDue(t) /\ Goto(t, "try") /\ UNCHANGED locals
  /\ UNCHANGED <<slots, active, nextDue, mu, counts>>

TryLock(t) ==
  /\ pc[t] = "try"
  /\ \/ mu # None /\ Return(t) /\ UNCHANGED mu
     \/ mu = None /\ mu' = t /\ Goto(t, "recheck") /\ UNCHANGED locals
  /\ UNCHANGED <<slots, active, nextDue, counts>>

----------------------------------------------------------------------------
(* The boundary, under boundary_mu_.                                       *)

StillDue_Unchecked(t) == TRUE

\* Another thread may have closed this window in the meantime.
StillDue(t) == end[t] > nextDue

Recheck(t) ==
  /\ pc[t] = "recheck"
  /\ \/ /\ ~StillDue(t)
        /\ mu' = None
        /\ Return(t)
     \/ /\ StillDue(t)
        /\ idx' = [idx EXCEPT ![t] = active]
        /\ Goto(t, "read")
        /\ UNCHANGED <<mu, sample, end, step, read>>
  /\ UNCHANGED <<slots, active, nextDue, counts>>

\* One load of the aggregate of the window that closes.
ReadField(t) ==
  /\ pc[t] = "read"
  /\ read' = [read EXCEPT ![t] = Append(@, slots[idx[t]][Reads[step[t]]])]
  /\ Advance(t, Reads, "flip")
  /\ UNCHANGED <<slots, active, nextDue, mu, sample, end, idx, counts>>

CandidateRttNs(t) == read[t][1]

\* The mean, from a count and a sum that were loaded one after the other.
TrackedRttNs(t) == IF read[t][2] = 0 THEN 0 ELSE read[t][3] \div read[t][2]

MaxInflight(t) == read[t][4]

SampleCount(t) == read[t][5]

DidDrop(t) == read[t][6]

FlipTo_Same(t) == idx[t]

FlipTo_Next(t) == idx[t] + 1

FlipTo(t) == 1 - idx[t]

Flip(t) ==
  /\ pc[t] = "flip"
  /\ active' = FlipTo(t)
  /\ batch' = << >>
  /\ Goto(t, "schedule")
  /\ UNCHANGED <<slots, nextDue, mu, locals, begun, folded, reported>>

AdaptiveTime(t) ==
  IF CandidateRttNs(t) = Infinite THEN MinWindowTime
  ELSE Min({Max({CandidateRttNs(t) * 2, MinWindowTime}), MaxWindowTime})

WindowReady(t) ==
  CandidateRttNs(t) # Infinite /\ SampleCount(t) >= WindowSize

Schedule(t) ==
  /\ pc[t] = "schedule"
  /\ nextDue' = end[t] + AdaptiveTime(t)
  /\ Goto(t, IF WindowReady(t) THEN "report" ELSE "reset")
  /\ UNCHANGED <<slots, active, mu, locals, counts>>

\* delegate_->OnSample
Report(t) ==
  /\ pc[t] = "report"
  /\ reported' = reported + SampleCount(t)
  /\ Goto(t, "reset")
  /\ UNCHANGED <<slots, active, nextDue, mu, locals, begun, folded,
                 batch>>

ResetTo_KeepsSum(s, f) == IF f = "sum" THEN s.sum ELSE Empty[f]

ResetTo_KeepsCount(s, f) == IF f = "count" THEN s.count ELSE Empty[f]

\* Reset stores the initial value into a field, whatever it holds now.
ResetTo(s, f) == Empty[f]

\* One field of AverageSampleWindow::Reset.
ResetField(t) ==
  LET f == Fields[step[t]] IN
  /\ pc[t] = "reset"
  /\ slots' = [slots EXCEPT ![idx[t]][f] = ResetTo(slots[idx[t]], f)]
  /\ Advance(t, Fields, "unlock")
  /\ UNCHANGED <<active, nextDue, mu, sample, end, idx, read, counts>>

Unlock(t) ==
  /\ pc[t] = "unlock"
  /\ mu' = None
  /\ Return(t)
  /\ UNCHANGED <<slots, active, nextDue, counts>>

----------------------------------------------------------------------------
OnSample(t) ==
  \/ \E x \in Samples, e \in Ends : Begin(t, x, e)
  \/ LoadIndex(t) \/ AddSample(t) \/ CheckDue(t) \/ TryLock(t) \/ Recheck(t)
  \/ ReadField(t) \/ Flip(t) \/ Schedule(t) \/ Report(t)
  \/ ResetField(t) \/ Unlock(t)

Step == \E t \in Thread : OnSample(t)

\* Somebody is closing a window; somebody is folding a sample.
Closing == \E t \in Thread : pc[t] \in {"read", "flip", "schedule", "report",
                                        "reset", "unlock"}
Folding == \E t \in Thread : pc[t] \in {"index", "add"}

Watch == quiet' = (quiet /\ ~(Closing' /\ Folding'))

Next == Step /\ Watch

Spec == Init /\ [][Next]_vars

----------------------------------------------------------------------------
(* Properties.                                                             *)

Label == {"idle", "index", "add", "due", "try", "recheck", "read", "flip",
          "schedule", "report", "reset", "unlock"}

Slot == [count : Nat, sum : Nat, min : 1 .. Infinite, inflight : Nat,
         drop : BOOLEAN]

\* Every variable keeps its type; "the active-buffer index only ever takes the
\* values 0 and 1".
TypeOK ==
  /\ slots \in [{0, 1} -> Slot]
  /\ active \in {0, 1}
  /\ nextDue \in Nat
  /\ mu \in Thread \union {None}
  /\ pc \in [Thread -> Label]
  /\ idx \in [Thread -> {0, 1}]
  /\ step \in [Thread -> 1 .. Len(Reads)]
  /\ \A t \in Thread : Len(read[t]) \in 0 .. Len(Reads)
  /\ folded \in 0 .. begun
  /\ reported \in Nat
  /\ quiet \in BOOLEAN

\* "Drives the wrapped Limit at most once per window boundary": however many
\* threads see the boundary crossed, each one that closes a window moves the
\* due time by more than a whole window.
OncePerWindow ==
  [][nextDue' # nextDue => nextDue' > nextDue + MinWindowTime]_vars

\* A sample may be lost between the boundary's read and its reset, but none is
\* reported to the delegate in two windows.
NoSampleCountedTwice == reported <= folded

\* The slot a boundary thread resets is never the one new samples go to.
ResetsInactiveSlot ==
  \A t \in Thread :
    pc[t] \in {"schedule", "report", "reset", "unlock"} => idx[t] # active

\* The time units of the RTTs of some samples, as many as their sum.
RttUnits(who, x) == UNION {{i} \X (1 .. x[i].rtt) : i \in who}

\* However many threads fill a window, and in whatever order, it reports exactly
\* what its samples say, as long as nobody has been folding a sample while a
\* window was closed: how many they are, the smallest and the mean of their
\* RTTs, the highest in-flight count, and whether any of them was a drop.
ReportIsAggregate ==
  \A t \in Thread : quiet /\ pc[t] = "flip" =>
    LET window == DOMAIN batch
        total == Cardinality(RttUnits(window, batch))
    IN  /\ SampleCount(t) = Len(batch)
        /\ CandidateRttNs(t) = Min({Infinite} \union {batch[i].rtt : i \in window})
        /\ batch # << >> => TrackedRttNs(t) = total \div Len(batch)
        /\ MaxInflight(t) = Max({0} \union {batch[i].inflight : i \in window})
        /\ DidDrop(t) = (\E i \in window : batch[i].drop)

\* A racing sample "is included in the aggregate the algorithm sees", or "is
\* attributed to whichever future window picks up that buffer", or lost: in
\* every case the mean reported to the delegate is a mean of RTTs, neither
\* below the smallest nor above the largest one there is.
MeanOfWholeSamples ==
  \A t \in Thread :
    pc[t] = "report" =>
      LET rtts == {x.rtt : x \in Samples}
      IN  TrackedRttNs(t) \in Min(rtts) .. Max(rtts)
=============================================================================
