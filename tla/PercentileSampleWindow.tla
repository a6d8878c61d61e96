----------------------- MODULE PercentileSampleWindow -----------------------
(***************************************************************************)
(* PercentileSampleWindow: an array of RTTs that request threads fill and  *)
(* the boundary thread of WindowedLimit sorts.                             *)
(*                                                                         *)
(* A writer claims an index with fetch_add and stores its RTT there in a   *)
(* second step; the boundary thread loads the count, then the claimed      *)
(* entries one by one, and later resets the count but not the array.       *)
(* boundary_mu_ admits one boundary thread at a time; writers that still   *)
(* hold this window's slot come at any moment, before, during and after    *)
(* its reads and its reset.  The minimum, the in-flight maximum and the    *)
(* drop flag are words of their own, kept by the very code that            *)
(* WindowedLimit models for AverageSampleWindow, and are left out here.    *)
(***************************************************************************)
EXTENDS Integers, Sequences, FiniteSets, FiniteSetsExt, Functions, TLC

CONSTANTS Writer,              \* request threads
          Rtts,                \* the RTTs they measure
          MaxSamplesPerWindow, \* the size of rtts_
          PercentileOver,      \* percentile_ is PercentileOver / PercentileBase,
          PercentileBase,      \*   a power of two: the product is exact
          MaxAdds              \* bound: AddSample calls in a behaviour

ASSUME PercentileAssumption ==
  /\ IsFiniteSet(Writer)
  /\ Rtts \subseteq Nat \ {0}
  /\ MaxSamplesPerWindow \in Nat \ {0}
  /\ PercentileBase \in Nat \ {0} /\ PercentileOver \in 0 .. PercentileBase
  /\ MaxAdds \in Nat

VARIABLES
  sample_count,  \* sample_count_
  rtts,          \* rtts_
  pc,            \* pc[w]: where a writer is in AddSample
  adding,        \* adding[w]: the RTT it brings
  index,         \* index[w]: the entry it has claimed
  reader,        \* where the boundary thread is
  observed,      \* its local `observed` in TrackedRttNs
  sort_buffer,   \* sort_buffer_
  adds,          \* history: AddSample calls so far
  window,        \* history: the RTTs counted since the last Reset, in order
  late,          \* history: stores that were outstanding at the last Reset
  unstored       \* history: stores outstanding when the count was loaded

writers == <<pc, adding, index>>
boundary == <<reader, observed, sort_buffer>>
vars == <<sample_count, rtts, writers, boundary, adds, window, late, unstored>>

Entry == 0 .. MaxSamplesPerWindow - 1

Init ==
  /\ sample_count = 0
  /\ rtts = [i \in Entry |-> 0]
  /\ pc = [w \in Writer |-> "idle"]
  /\ adding = [w \in Writer |-> 0]
  /\ index = [w \in Writer |-> 0]
  /\ reader = "away"
  /\ observed = 0
  /\ sort_buffer = << >>
  /\ adds = 0
  /\ window = << >>
  /\ late = 0
  /\ unstored = 0

----------------------------------------------------------------------------
(* AddSample.                                                              *)

Fits_OffByOne(i) == i <= MaxSamplesPerWindow

\* A sample past the end of the array is counted and not stored.
Fits(i) == i < MaxSamplesPerWindow

Claim(w, rtt) ==
  /\ pc[w] = "idle"
  /\ adds < MaxAdds
  /\ adds' = adds + 1
  /\ sample_count' = sample_count + 1
  /\ window' = Append(window, rtt)
  /\ \/ /\ Fits(sample_count)
        /\ pc' = [pc EXCEPT ![w] = "store"]
        /\ adding' = [adding EXCEPT ![w] = rtt]
        /\ index' = [index EXCEPT ![w] = sample_count]
     \/ /\ ~Fits(sample_count)
        /\ UNCHANGED writers
  /\ UNCHANGED <<rtts, boundary, late, unstored>>

Store(w) ==
  /\ pc[w] = "store"
  /\ rtts' = [rtts EXCEPT ![index[w]] = adding[w]]
  /\ pc' = [pc EXCEPT ![w] = "idle"]
  /\ adding' = [adding EXCEPT ![w] = 0]
  /\ index' = [index EXCEPT ![w] = 0]
  /\ UNCHANGED <<sample_count, boundary, adds, window, late, unstored>>

Storing == {w \in Writer : pc[w] = "store"}

----------------------------------------------------------------------------
(* TrackedRttNs and Reset, by the thread that closes the window.           *)

LoadCount ==
  /\ reader = "away"
  /\ observed' = sample_count
  /\ sort_buffer' = << >>
  /\ reader' = IF sample_count = 0 THEN "read" ELSE "scan"
  /\ unstored' = Cardinality({w \in Storing : index[w] < sample_count})
  /\ UNCHANGED <<sample_count, rtts, writers, adds, window, late>>

usable == Min({observed, MaxSamplesPerWindow})

LoadEntry ==
  /\ reader = "scan"
  /\ sort_buffer' = Append(sort_buffer, rtts[Len(sort_buffer)])
  /\ reader' = IF Len(sort_buffer') = usable THEN "read" ELSE "scan"
  /\ UNCHANGED <<sample_count, rtts, writers, observed, adds, window, late,
                 unstored>>

\* lround(usable * percentile_)
rtt_index ==
  (2 * usable * PercentileOver + PercentileBase) \div (2 * PercentileBase)

Pick_ZeroBasedTwice == Max({0, Min({rtt_index - 2, usable - 1})})

\* The zero-based index into the sorted buffer.
Pick == Max({0, Min({rtt_index - 1, usable - 1})})

\* std::ranges::sort: the same entries in ascending order.
Sorted(s) ==
  LET order == CHOOSE p \in Bijection(DOMAIN s, DOMAIN s) :
                 \A i, j \in DOMAIN s : i < j => s[p[i]] <= s[p[j]]
  IN  [i \in DOMAIN s |-> s[order[i]]]

TrackedRttNs == IF observed = 0 THEN 0 ELSE Sorted(sort_buffer)[Pick + 1]

CountAfterReset_Kept == sample_count

CountAfterReset == 0

\* Reset leaves the array alone.
Reset ==
  /\ reader = "read"
  /\ sample_count' = CountAfterReset
  /\ reader' = "away"
  /\ observed' = 0
  /\ sort_buffer' = << >>
  /\ window' = << >>
  /\ late' = Cardinality(Storing)
  /\ unstored' = 0
  /\ UNCHANGED <<rtts, writers, adds>>

----------------------------------------------------------------------------
AddSample(w) == Store(w) \/ \E rtt \in Rtts : Claim(w, rtt)

Next == \/ \E w \in Writer : AddSample(w)
        \/ LoadCount \/ LoadEntry \/ Reset

Spec == Init /\ [][Next]_vars

----------------------------------------------------------------------------
(* Properties.                                                             *)

\* Every variable keeps its type; in particular no store is ever outstanding
\* for an entry beyond the array.
TypeOK ==
  /\ sample_count \in Nat
  /\ rtts \in [Entry -> Rtts \union {0}]
  /\ pc \in [Writer -> {"idle", "store"}]
  /\ adding \in [Writer -> Rtts \union {0}]
  /\ index \in [Writer -> Entry]
  /\ reader \in {"away", "scan", "read"}
  /\ observed \in Nat
  /\ Len(sort_buffer) \in 0 .. MaxSamplesPerWindow
  /\ late \in Nat
  /\ unstored \in Nat

\* The samples of this window that take part in its percentile.
Participants == SubSeq(window, 1, Min({usable, Len(window)}))

\* How many of s are below v, and how many at most v.
Below(s, v) == Cardinality({i \in DOMAIN s : s[i] < v})
AtMost(s, v) == Cardinality({i \in DOMAIN s : s[i] <= v})

\* The nearest rank: the percentile of the participants, half a rank up, and
\* the first one when it would be none.
Rank == Max({1, (2 * PercentileOver * usable + PercentileBase)
                  \div (2 * PercentileBase)})

\* When no store crossed the last reset and none was outstanding when the
\* count was loaded, the tracked RTT is the nearest-rank percentile of the
\* samples counted until then, whatever is counted meanwhile.
PercentileOfWindow ==
  reader = "read" /\ observed > 0 /\ late = 0 /\ unstored = 0 =>
    /\ \E i \in DOMAIN Participants : TrackedRttNs = Participants[i]
    /\ Below(Participants, TrackedRttNs) < Rank
    /\ Rank <= AtMost(Participants, TrackedRttNs)

\* "Old samples past the next sample_count_ are never read", though one below
\* it may be: an index is claimed before its RTT is stored, and a store may
\* come after a reset.  What the percentile is taken of differs from the
\* window's samples in at most one entry for each such store.
StaleEntriesBounded ==
  reader = "read" =>
    Cardinality({i \in DOMAIN sort_buffer :
                   i > Len(window) \/ sort_buffer[i] # window[i]})
      <= late + unstored
=============================================================================
