---------------------------- MODULE CodelQueue -----------------------------
(***************************************************************************)
(* CodelFilter in front of an application's FIFO queue, used the way the   *)
(* documentation asks: the application stamps an item when it queues it    *)
(* and consults the filter when it takes the item off.  The filter is not  *)
(* told when the queue runs empty.                                         *)
(***************************************************************************)
EXTENDS CodelFilter, Sequences

CONSTANT MaxQueue   \* bound: items in the queue

VARIABLES queue,      \* enqueue times of the queued items, oldest first
          busySince   \* history: when the queue last became non-empty

queueVars == <<vars, queue, busySince>>

QInit == Init /\ queue = << >> /\ busySince = Epoch

Enqueue ==
  /\ Len(queue) < MaxQueue
  /\ queue' = Append(queue, now)
  /\ busySince' = IF queue = << >> THEN now ELSE busySince
  /\ UNCHANGED vars

Dequeue ==
  /\ queue # << >>
  /\ ShouldDrop(Head(queue))
  /\ queue' = Tail(queue)
  /\ UNCHANGED busySince

QAdvance ==
  /\ \E d \in Advances : Advance(d)
  /\ UNCHANGED <<queue, busySince>>

QNext == Enqueue \/ Dequeue \/ QAdvance

QSpec == QInit /\ [][QNext]_queueVars

\* "Transient bursts that resolve within the interval are not dropped at all":
\* nothing is dropped before the queue has been non-empty for an interval.
BurstsAreSpared ==
  [][drop_count' > drop_count => now - busySince >= Interval]_queueVars
=============================================================================
