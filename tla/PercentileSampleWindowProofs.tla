-------------------- MODULE PercentileSampleWindowProofs --------------------
(***************************************************************************)
(* Proofs about PercentileSampleWindow for any number of writers, any size *)
(* of the array and any percentile.                                        *)
(*                                                                         *)
(* The bound on the entries that are read wrong is not inductive: it says  *)
(* nothing before the boundary thread reads.  The invariant StaleInv       *)
(* counts what can still go wrong.  OverwrittenBounded: since the last     *)
(* Reset, the entries a late store has spoilt and the stores that may yet  *)
(* spoil one are together at most the stores that were outstanding at that *)
(* Reset.  MisreadBounded: during a scan, the entries read wrong, those    *)
(* that are wrong and not read yet and the stores that may yet spoil one   *)
(* of these are at most late + unstored.  No variable remembers which      *)
(* stores are late; a store is known to be astray by what it would write.  *)
(*                                                                         *)
(* With no such store the buffer holds the window's samples, and the last  *)
(* part of the module shows that sorting it and taking Pick gives their    *)
(* nearest-rank percentile: an ordering permutation exists for every       *)
(* length, and the k-th entry it yields has rank k.                        *)
(***************************************************************************)
EXTENDS PercentileSampleWindow, FiniteSetTheorems, WellFoundedInduction, TLAPS

----------------------------------------------------------------------------
(* The inductive invariant.                                                *)

\* The count is that of the window's samples, and the boundary thread has
\* loaded no more entries than it will use.
Shape ==
  /\ window \in Seq(Rtts)
  /\ Len(window) = sample_count
  /\ sort_buffer \in Seq(Rtts \union {0})
  /\ reader = "away" => observed = 0 /\ sort_buffer = << >>
  /\ reader = "scan" => Len(sort_buffer) < usable
  /\ reader = "read" => Len(sort_buffer) = usable
  /\ observed <= sample_count
  /\ adds \in Nat

Claimed == {i \in Entry : i < sample_count}

\* A claimed entry does not hold the sample it was claimed for.
Wrong(i) == rtts[i] # window[i + 1]

\* The store of w, if it came now, would be that of the sample which claimed
\* its entry.
Right(w) == index[w] < sample_count /\ adding[w] = window[index[w] + 1]

Astray == {w \in Storing : ~Right(w)}

Coming(i) == \E w \in Storing : index[w] = i /\ Right(w)

Overwritten == {i \in Claimed : Wrong(i) /\ ~Coming(i)}

OverwrittenBounded == Cardinality(Overwritten) + Cardinality(Astray) <= late

Unread == {i \in Entry : Len(sort_buffer) <= i /\ i < usable}

Misread == {i \in DOMAIN sort_buffer :
              i > Len(window) \/ sort_buffer[i] # window[i]}

WrongUnread == {i \in Unread : Wrong(i)}

AstrayUnread == {w \in Storing : index[w] \in Unread /\ ~Right(w)}

MisreadBounded ==
  reader # "away" =>
    Cardinality(Misread) + Cardinality(WrongUnread) + Cardinality(AstrayUnread)
      <= late + unstored

StaleInv == TypeOK /\ Shape /\ OverwrittenBounded /\ MisreadBounded

----------------------------------------------------------------------------
(* Finite sets.                                                            *)

\* A subset has at most as many elements.
LEMMA Fewer ==
  ASSUME NEW A, IsFiniteSet(A), NEW B, B \subseteq A
  PROVE  /\ IsFiniteSet(B) /\ Cardinality(B) \in Nat /\ Cardinality(A) \in Nat
         /\ Cardinality(B) <= Cardinality(A)
BY FS_Subset, FS_CardinalityType

\* One set gains at most an element, another loses one.
LEMMA Swap ==
  ASSUME NEW A, IsFiniteSet(A), NEW B, IsFiniteSet(B), NEW x, NEW y \in B,
         NEW C, C \subseteq A \union {x}, NEW D, D \subseteq B \ {y}
  PROVE  /\ Cardinality(C) \in Nat /\ Cardinality(D) \in Nat
         /\ Cardinality(C) + Cardinality(D) <= Cardinality(A) + Cardinality(B)
<1>1. /\ IsFiniteSet(A \union {x}) /\ Cardinality(A) \in Nat
      /\ Cardinality(A \union {x}) \in Nat
      /\ Cardinality(A \union {x}) <= Cardinality(A) + 1
  <2>1. IsFiniteSet(A \union {x}) /\ Cardinality(A) \in Nat
    BY FS_AddElement, FS_CardinalityType
  <2>2. Cardinality(A \union {x}) = IF x \in A THEN Cardinality(A)
                                    ELSE Cardinality(A) + 1
    BY FS_AddElement
  <2>3. QED
    BY <2>1, <2>2
<1>2. /\ IsFiniteSet(B \ {y}) /\ Cardinality(B) \in Nat
      /\ Cardinality(B \ {y}) \in Nat
      /\ Cardinality(B \ {y}) = Cardinality(B) - 1
  BY FS_RemoveElement, FS_CardinalityType
<1>3. Cardinality(C) \in Nat /\ Cardinality(C) <= Cardinality(A \union {x})
  BY <1>1, Fewer
<1>4. Cardinality(D) \in Nat /\ Cardinality(D) <= Cardinality(B \ {y})
  BY <1>2, Fewer
<1>5. QED
  BY <1>1, <1>2, <1>3, <1>4

\* Everything the invariant counts is finite.
LEMMA FiniteParts ==
  ASSUME sort_buffer \in Seq(Rtts \union {0})
  PROVE  /\ IsFiniteSet(Overwritten) /\ Cardinality(Overwritten) \in Nat
         /\ IsFiniteSet(Astray) /\ Cardinality(Astray) \in Nat
         /\ IsFiniteSet(Misread) /\ Cardinality(Misread) \in Nat
         /\ IsFiniteSet(WrongUnread) /\ Cardinality(WrongUnread) \in Nat
         /\ IsFiniteSet(AstrayUnread) /\ Cardinality(AstrayUnread) \in Nat
         /\ IsFiniteSet(Storing) /\ Cardinality(Storing) \in Nat
         /\ IsFiniteSet(Claimed)
<1>1. IsFiniteSet(Entry)
  BY PercentileAssumption, FS_Interval DEF Entry
<1>2. IsFiniteSet(Writer)
  BY PercentileAssumption
<1>3. IsFiniteSet(DOMAIN sort_buffer)
  <2>1. DOMAIN sort_buffer = 1 .. Len(sort_buffer) /\ Len(sort_buffer) \in Nat
    OBVIOUS
  <2>2. QED
    BY <2>1, FS_Interval
<1>4. Overwritten \subseteq Entry /\ WrongUnread \subseteq Entry
      /\ Claimed \subseteq Entry
  BY DEF Overwritten, WrongUnread, Unread, Claimed
<1>5. Astray \subseteq Writer /\ AstrayUnread \subseteq Writer
      /\ Storing \subseteq Writer
  BY DEF Astray, AstrayUnread, Storing
<1>6. Misread \subseteq DOMAIN sort_buffer
  BY DEF Misread
<1>7. QED
  BY <1>1, <1>2, <1>3, <1>4, <1>5, <1>6, Fewer

\* What the boundary thread uses of what it observed.
LEMMA Usable ==
  ASSUME observed \in Nat
  PROVE  /\ usable \in 0 .. MaxSamplesPerWindow /\ usable <= observed
         /\ observed > 0 => usable > 0
<1>1. \E x \in {observed, MaxSamplesPerWindow} :
        \A y \in {observed, MaxSamplesPerWindow} : x <= y
  BY PercentileAssumption
<1>2. /\ usable \in {observed, MaxSamplesPerWindow}
      /\ \A y \in {observed, MaxSamplesPerWindow} : usable <= y
  BY <1>1 DEF usable, Min
<1>3. QED
  BY <1>2, PercentileAssumption

\* Another sample in the window leaves the earlier ones where they are.
LEMMA Appended ==
  ASSUME NEW S, NEW s \in Seq(S), NEW e \in S
  PROVE  /\ Append(s, e) \in Seq(S) /\ Len(s) \in Nat
         /\ Len(Append(s, e)) = Len(s) + 1
         /\ Append(s, e)[Len(s) + 1] = e
         /\ \A i \in 1 .. Len(s) : Append(s, e)[i] = s[i]
         /\ DOMAIN s = 1 .. Len(s) /\ DOMAIN Append(s, e) = 1 .. Len(s) + 1
OBVIOUS

----------------------------------------------------------------------------
(* The types and the shape.                                                *)

\* Every step keeps the types and what the two loops rely on.
LEMMA ShapeStep == TypeOK /\ Shape /\ [Next]_vars => TypeOK' /\ Shape'
<1> SUFFICES ASSUME TypeOK, Shape, [Next]_vars PROVE TypeOK' /\ Shape'
  OBVIOUS
<1>1. ASSUME NEW w \in Writer, NEW rtt \in Rtts, Claim(w, rtt)
      PROVE  TypeOK' /\ Shape'
  <2>1. /\ window' \in Seq(Rtts) /\ Len(window') = sample_count'
        /\ sample_count' = sample_count + 1 /\ sample_count' \in Nat
        /\ adds' \in Nat
    BY <1>1, Appended DEF Claim, Shape, TypeOK
  <2>2. UNCHANGED <<rtts, reader, observed, sort_buffer, late, unstored, usable>>
    BY <1>1 DEF Claim, boundary, usable
  <2>3. /\ pc' \in [Writer -> {"idle", "store"}]
        /\ adding' \in [Writer -> Rtts \union {0}]
        /\ index' \in [Writer -> Entry]
    <3>1. CASE Fits(sample_count)
      <4>1. sample_count \in Entry
        BY <3>1, PercentileAssumption DEF TypeOK, Fits, Entry
      <4>2. /\ pc' = [pc EXCEPT ![w] = "store"]
            /\ adding' = [adding EXCEPT ![w] = rtt]
            /\ index' = [index EXCEPT ![w] = sample_count]
        BY <1>1, <3>1 DEF Claim
      <4>3. QED
        BY <4>1, <4>2 DEF TypeOK
    <3>2. CASE ~Fits(sample_count)
      BY <1>1, <3>2 DEF Claim, TypeOK, writers
    <3>3. QED
      BY <3>1, <3>2
  <2>4. observed' <= sample_count'
    BY <2>1, <2>2 DEF Shape, TypeOK
  <2>5. QED
    BY <2>1, <2>2, <2>3, <2>4 DEF TypeOK, Shape
<1>2. ASSUME NEW w \in Writer, Store(w) PROVE TypeOK' /\ Shape'
  <2>1. UNCHANGED <<sample_count, boundary, adds, window, late, unstored, usable>>
    BY <1>2 DEF Store, boundary, usable
  <2>2. /\ pc' \in [Writer -> {"idle", "store"}]
        /\ adding' \in [Writer -> Rtts \union {0}]
        /\ index' \in [Writer -> Entry]
        /\ rtts' \in [Entry -> Rtts \union {0}]
    BY <1>2, PercentileAssumption DEF Store, TypeOK, Entry
  <2>3. QED
    BY <2>1, <2>2 DEF TypeOK, Shape, boundary
<1>3. CASE LoadCount
  <2>1. /\ observed' = sample_count /\ observed' \in Nat /\ sort_buffer' = << >>
        /\ reader' = IF sample_count = 0 THEN "read" ELSE "scan"
        /\ UNCHANGED <<sample_count, rtts, writers, adds, window, late>>
    BY <1>3 DEF LoadCount, TypeOK
  <2>2. unstored' \in Nat
    <3>1. {w \in Storing : index[w] < sample_count} \subseteq Storing
      OBVIOUS
    <3>2. QED
      BY <1>3, <3>1, FiniteParts, Fewer DEF LoadCount, Shape
  <2>3. /\ usable' \in 0 .. MaxSamplesPerWindow /\ usable' <= observed'
        /\ observed' > 0 => usable' > 0
    <3>1. observed' \in Nat
      BY <2>1
    <3>2. \E x \in {observed', MaxSamplesPerWindow} :
            \A y \in {observed', MaxSamplesPerWindow} : x <= y
      BY <3>1, PercentileAssumption
    <3>3. /\ usable' \in {observed', MaxSamplesPerWindow}
          /\ \A y \in {observed', MaxSamplesPerWindow} : usable' <= y
      BY <3>2 DEF usable, Min
    <3>4. QED
      BY <3>1, <3>3, PercentileAssumption
  <2>4. /\ sort_buffer' \in Seq(Rtts \union {0}) /\ Len(sort_buffer') = 0
        /\ 0 \in 0 .. MaxSamplesPerWindow
    BY <2>1, PercentileAssumption
  <2>5. /\ reader' \in {"scan", "read"}
        /\ reader' = "scan" => Len(sort_buffer') < usable'
        /\ reader' = "read" => Len(sort_buffer') = usable'
    BY <2>1, <2>3, <2>4, PercentileAssumption DEF TypeOK
  <2>6. observed' <= sample_count'
    BY <2>1 DEF TypeOK
  <2>7. Shape'
    BY <2>1, <2>4, <2>5, <2>6 DEF Shape
  <2>8. TypeOK'
    BY <2>1, <2>2, <2>4, <2>5 DEF TypeOK, writers
  <2>9. QED
    BY <2>7, <2>8
<1>4. CASE LoadEntry
  <2>1. /\ UNCHANGED <<sample_count, rtts, writers, observed, adds, window, late,
                       unstored, usable>>
        /\ sort_buffer' = Append(sort_buffer, rtts[Len(sort_buffer)])
        /\ reader' = IF Len(sort_buffer') = usable THEN "read" ELSE "scan"
    BY <1>4 DEF LoadEntry, usable
  <2>2. /\ usable \in 0 .. MaxSamplesPerWindow /\ Len(sort_buffer) < usable
        /\ Len(sort_buffer) \in Nat
    BY <1>4, Usable DEF LoadEntry, Shape, TypeOK
  <2>3. rtts[Len(sort_buffer)] \in Rtts \union {0}
    <3>1. Len(sort_buffer) \in Entry
      BY <2>2, PercentileAssumption DEF Entry
    <3>2. QED
      BY <3>1 DEF TypeOK
  <2>4. /\ sort_buffer' \in Seq(Rtts \union {0})
        /\ Len(sort_buffer') = Len(sort_buffer) + 1
    BY <2>1, <2>3, Appended DEF Shape
  <2>5. /\ Len(sort_buffer') \in 0 .. MaxSamplesPerWindow
        /\ reader' = "scan" => Len(sort_buffer') < usable'
        /\ reader' = "read" => Len(sort_buffer') = usable'
        /\ reader' \in {"scan", "read"}
    BY <2>1, <2>2, <2>4, PercentileAssumption
  <2>6. Shape'
    BY <2>1, <2>4, <2>5 DEF Shape
  <2>7. TypeOK'
    BY <2>1, <2>5 DEF TypeOK, writers
  <2>8. QED
    BY <2>6, <2>7
<1>5. CASE Reset
  <2>1. /\ sample_count' = 0 /\ reader' = "away" /\ observed' = 0
        /\ sort_buffer' = << >> /\ window' = << >> /\ unstored' = 0
        /\ UNCHANGED <<rtts, writers, adds>>
    BY <1>5 DEF Reset, CountAfterReset
  <2>2. late' \in Nat
    BY <1>5, FiniteParts DEF Reset, Shape
  <2>3. /\ window' \in Seq(Rtts) /\ Len(window') = 0
        /\ sort_buffer' \in Seq(Rtts \union {0})
        /\ Len(sort_buffer') \in 0 .. MaxSamplesPerWindow
    BY <2>1, PercentileAssumption
  <2>4. QED
    BY <2>1, <2>2, <2>3 DEF TypeOK, Shape, writers
<1>6. CASE UNCHANGED vars
  BY <1>6 DEF vars, writers, boundary, TypeOK, Shape, usable
<1>7. QED
  BY <1>1, <1>2, <1>3, <1>4, <1>5, <1>6 DEF Next, AddSample

----------------------------------------------------------------------------
(* Counting what may go wrong.                                             *)

\* A step that adds nothing to any of the sets that are counted.
LEMMA NothingNew ==
  ASSUME StaleInv, Overwritten' \subseteq Overwritten, Astray' \subseteq Astray,
         Misread' \subseteq Misread, WrongUnread' \subseteq WrongUnread,
         AstrayUnread' \subseteq AstrayUnread, UNCHANGED <<late, unstored, reader>>
  PROVE  OverwrittenBounded' /\ MisreadBounded'
<1>1. sort_buffer \in Seq(Rtts \union {0}) /\ late \in Nat /\ unstored \in Nat
  BY DEF StaleInv, Shape, TypeOK
<1>2. /\ Cardinality(Overwritten') \in Nat /\ Cardinality(Astray') \in Nat
      /\ Cardinality(Overwritten') <= Cardinality(Overwritten)
      /\ Cardinality(Astray') <= Cardinality(Astray)
      /\ Cardinality(Overwritten) \in Nat /\ Cardinality(Astray) \in Nat
  BY <1>1, FiniteParts, Fewer
<1>3. /\ Cardinality(Misread') \in Nat /\ Cardinality(WrongUnread') \in Nat
      /\ Cardinality(AstrayUnread') \in Nat
      /\ Cardinality(Misread') <= Cardinality(Misread)
      /\ Cardinality(WrongUnread') <= Cardinality(WrongUnread)
      /\ Cardinality(AstrayUnread') <= Cardinality(AstrayUnread)
      /\ Cardinality(Misread) \in Nat /\ Cardinality(WrongUnread) \in Nat
      /\ Cardinality(AstrayUnread) \in Nat
  BY <1>1, FiniteParts, Fewer
<1>4. OverwrittenBounded'
  BY <1>1, <1>2 DEF StaleInv, OverwrittenBounded
<1>5. MisreadBounded'
  BY <1>1, <1>3 DEF StaleInv, MisreadBounded
<1>6. QED
  BY <1>4, <1>5

\* A claim spoils nothing: its own store is still to come.
LEMMA ClaimSpoilsNothing ==
  ASSUME StaleInv, NEW w \in Writer, NEW rtt \in Rtts, Claim(w, rtt)
  PROVE  OverwrittenBounded' /\ MisreadBounded'
<1>1. /\ window \in Seq(Rtts) /\ Len(window) = sample_count /\ sample_count \in Nat
      /\ sort_buffer \in Seq(Rtts \union {0}) /\ observed \in Nat
      /\ observed <= sample_count /\ index \in [Writer -> Entry]
      /\ pc \in [Writer -> {"idle", "store"}]
      /\ adding \in [Writer -> Rtts \union {0}]
  BY DEF StaleInv, Shape, TypeOK
<1>2. /\ sample_count' = sample_count + 1 /\ window' = Append(window, rtt)
      /\ UNCHANGED <<rtts, reader, observed, sort_buffer, late, unstored, usable>>
      /\ pc[w] = "idle"
  BY DEF Claim, boundary, usable
<1>3. /\ Len(window') = sample_count + 1 /\ window'[sample_count + 1] = rtt
      /\ \A i \in 1 .. sample_count : window'[i] = window[i]
  BY <1>1, <1>2, Appended
<1>4. usable <= sample_count /\ usable \in Nat
  BY <1>1, Usable
<1>5. \A i \in Entry : i < sample_count => (Wrong(i)' <=> Wrong(i))
  BY <1>1, <1>2, <1>3, PercentileAssumption DEF Wrong, Entry
<1>6. ASSUME NEW u \in Writer, u # w
      PROVE  /\ index'[u] = index[u] /\ adding'[u] = adding[u] /\ pc'[u] = pc[u]
             /\ Right(u) => Right(u)'
             /\ index[u] < sample_count => (Right(u)' <=> Right(u))
  <2>1. index'[u] = index[u] /\ adding'[u] = adding[u] /\ pc'[u] = pc[u]
    BY <1>1, <1>6 DEF Claim, writers
  <2>2. index[u] \in Nat
    BY <1>1, PercentileAssumption DEF Entry
  <2>3. index[u] < sample_count => window'[index[u] + 1] = window[index[u] + 1]
    BY <1>1, <1>3, <2>2
  <2>4. QED
    BY <1>1, <1>2, <2>1, <2>2, <2>3 DEF Right
<1>7. CASE Fits(sample_count)
  <2>1. /\ pc' = [pc EXCEPT ![w] = "store"]
        /\ adding' = [adding EXCEPT ![w] = rtt]
        /\ index' = [index EXCEPT ![w] = sample_count]
    BY <1>7 DEF Claim
  <2>2. index'[w] = sample_count /\ adding'[w] = rtt /\ pc'[w] = "store"
    BY <1>1, <2>1
  <2>3. Right(w)'
    BY <1>1, <1>2, <1>3, <2>2 DEF Right
  <2>4. w \in Storing'
    BY <2>2 DEF Storing
  <2>5. \A i \in Overwritten' : i \in Overwritten
    <3> SUFFICES ASSUME NEW i \in Overwritten' PROVE i \in Overwritten
      OBVIOUS
    <3>1. i \in Entry /\ i < sample_count' /\ Wrong(i)' /\ ~Coming(i)'
      BY DEF Overwritten, Claimed
    <3>2. i # sample_count
      BY <2>2, <2>3, <2>4, <3>1 DEF Coming
    <3>3. i \in Claimed /\ i < sample_count
      BY <1>1, <1>2, <3>1, <3>2, PercentileAssumption DEF Claimed, Entry
    <3>4. ASSUME Coming(i) PROVE FALSE
      <4>1. PICK u \in Storing : index[u] = i /\ Right(u)
        BY <3>4 DEF Coming
      <4>2. u \in Writer /\ u # w /\ pc[u] = "store"
        BY <1>2, <4>1 DEF Storing
      <4>3. u \in Storing' /\ index'[u] = i /\ Right(u)'
        BY <1>6, <4>1, <4>2 DEF Storing
      <4>4. QED
        BY <3>1, <4>3 DEF Coming
    <3>5. QED
      BY <1>5, <3>1, <3>3, <3>4 DEF Overwritten
  <2>6. \A u \in Astray' : u \in Astray
    BY <1>6, <2>3 DEF Astray, Storing
  <2>7. \A i \in Misread' : i \in Misread
    <3>1. DOMAIN sort_buffer = 1 .. Len(sort_buffer) /\ Len(sort_buffer) \in Nat
      BY <1>1
    <3>2. QED
      BY <1>1, <1>2, <1>3, <3>1 DEF Misread
  <2>8. Unread' = Unread /\ \A i \in Unread : i < sample_count
    BY <1>1, <1>2, <1>4, PercentileAssumption DEF Unread, Entry
  <2>9. \A i \in WrongUnread' : i \in WrongUnread
    BY <1>5, <2>8 DEF WrongUnread, Unread
  <2>10. \A u \in AstrayUnread' : u \in AstrayUnread
    BY <1>6, <2>3, <2>8 DEF AstrayUnread, Storing
  <2>11. QED
    BY <1>2, <2>5, <2>6, <2>7, <2>9, <2>10, NothingNew
<1>8. CASE ~Fits(sample_count)
  <2>1. UNCHANGED <<pc, adding, index>> /\ Storing' = Storing
    BY <1>8 DEF Claim, writers, Storing
  <2>2. \A i \in Entry : i < sample_count
    BY <1>1, <1>8, PercentileAssumption DEF Entry, Fits
  <2>3. \A u \in Storing : Right(u)' <=> Right(u)
    <3>1. ASSUME NEW u \in Storing PROVE Right(u)' <=> Right(u)
      <4>1. u # w /\ u \in Writer
        BY <1>2, <3>1 DEF Storing
      <4>2. index[u] < sample_count
        BY <1>1, <2>2, <4>1
      <4>3. QED
        BY <1>6, <4>1, <4>2
    <3>2. QED
      BY <3>1
  <2>4. \A i \in Overwritten' : i \in Overwritten
    BY <1>5, <2>1, <2>2, <2>3 DEF Overwritten, Claimed, Coming
  <2>5. \A u \in Astray' : u \in Astray
    BY <2>1, <2>3 DEF Astray
  <2>6. \A i \in Misread' : i \in Misread
    <3>1. DOMAIN sort_buffer = 1 .. Len(sort_buffer) /\ Len(sort_buffer) \in Nat
      BY <1>1
    <3>2. QED
      BY <1>1, <1>2, <1>3, <3>1 DEF Misread
  <2>7. Unread' = Unread /\ \A i \in Unread : i \in Entry
    BY <1>2 DEF Unread
  <2>8. \A i \in WrongUnread' : i \in WrongUnread
    BY <1>5, <2>2, <2>7 DEF WrongUnread
  <2>9. \A u \in AstrayUnread' : u \in AstrayUnread
    BY <2>1, <2>3, <2>7 DEF AstrayUnread
  <2>10. QED
    BY <1>2, <2>4, <2>5, <2>6, <2>8, <2>9, NothingNew
<1>9. QED
  BY <1>7, <1>8

\* A store that is not astray spoils nothing; one that is astray spoils at most
\* one entry and is then over.
LEMMA StoreSpoilsOne ==
  ASSUME StaleInv, NEW w \in Writer, Store(w)
  PROVE  OverwrittenBounded' /\ MisreadBounded'
<1>0. PICK j \in Entry : j = index[w]
  BY DEF StaleInv, TypeOK
<1>1. /\ rtts \in [Entry -> Rtts \union {0}] /\ index \in [Writer -> Entry]
      /\ pc \in [Writer -> {"idle", "store"}] /\ adding \in [Writer -> Rtts \union {0}]
      /\ sort_buffer \in Seq(Rtts \union {0})
      /\ late \in Nat /\ unstored \in Nat
  BY DEF StaleInv, Shape, TypeOK
<1>2. /\ pc[w] = "store" /\ w \in Storing
      /\ rtts' = [rtts EXCEPT ![j] = adding[w]]
      /\ pc' = [pc EXCEPT ![w] = "idle"]
      /\ index' = [index EXCEPT ![w] = 0] /\ adding' = [adding EXCEPT ![w] = 0]
      /\ UNCHANGED <<sample_count, reader, observed, sort_buffer, adds, window,
                     late, unstored, usable>>
  BY <1>0 DEF Store, boundary, usable, Storing
<1>3. Storing' = Storing \ {w}
  BY <1>1, <1>2 DEF Storing
<1>4. \A u \in Writer : u # w => /\ index'[u] = index[u] /\ adding'[u] = adding[u]
                                 /\ Right(u)' <=> Right(u)
  BY <1>1, <1>2 DEF Right
<1>5. \A i \in Entry : i # j => (Wrong(i)' <=> Wrong(i))
  BY <1>1, <1>2 DEF Wrong
<1>6. Misread' = Misread /\ Unread' = Unread /\ Claimed' = Claimed
  BY <1>2 DEF Misread, Unread, Claimed
<1>7. Storing \subseteq Writer /\ Unread \subseteq Entry /\ Claimed \subseteq Entry
  BY DEF Storing, Unread, Claimed
<1>8. \A i \in Entry : Coming(i) /\ (i # j \/ ~Right(w)) => Coming(i)'
  <2> SUFFICES ASSUME NEW i \in Entry, Coming(i), i # j \/ ~Right(w)
               PROVE  Coming(i)'
    OBVIOUS
  <2>1. PICK u \in Storing : index[u] = i /\ Right(u)
    BY DEF Coming
  <2>2. u # w /\ u \in Writer
    BY <1>0, <2>1, <1>7
  <2>3. QED
    BY <1>3, <1>4, <2>1, <2>2 DEF Coming
<1>9. \A u \in Astray' : u \in Astray /\ u # w
  BY <1>3, <1>4, <1>7 DEF Astray
<1>10. \A u \in AstrayUnread' : u \in AstrayUnread /\ u # w
  BY <1>3, <1>4, <1>6, <1>7 DEF AstrayUnread
<1>11. CASE Right(w)
  <2>1. ~Wrong(j)'
    <3>1. rtts'[j] = adding[w]
      BY <1>1, <1>2
    <3>2. window' = window /\ adding[w] = window[j + 1]
      BY <1>0, <1>2, <1>11 DEF Right
    <3>3. QED
      BY <3>1, <3>2 DEF Wrong
  <2>2. \A i \in Overwritten' : i \in Overwritten
    BY <1>5, <1>6, <1>7, <1>8, <2>1 DEF Overwritten
  <2>3. \A i \in WrongUnread' : i \in WrongUnread
    BY <1>5, <1>6, <1>7, <2>1 DEF WrongUnread
  <2>4. QED
    BY <1>2, <1>6, <1>9, <1>10, <2>2, <2>3, NothingNew
<1>12. CASE ~Right(w)
  <2>1. w \in Astray /\ Astray' \subseteq Astray \ {w}
    BY <1>2, <1>9, <1>12 DEF Astray
  <2>2. Overwritten' \subseteq Overwritten \union {j}
    <3>1. \A i \in Overwritten' : i \in Overwritten \union {j}
      BY <1>5, <1>6, <1>7, <1>8, <1>12 DEF Overwritten
    <3>2. QED
      BY <3>1
  <2>3. /\ Cardinality(Overwritten') \in Nat /\ Cardinality(Astray') \in Nat
        /\ Cardinality(Overwritten') + Cardinality(Astray')
             <= Cardinality(Overwritten) + Cardinality(Astray)
    BY <1>1, <2>1, <2>2, FiniteParts, Swap
  <2>4. OverwrittenBounded'
    BY <1>1, <1>2, <2>3, FiniteParts DEF StaleInv, OverwrittenBounded
  <2>5. /\ Cardinality(WrongUnread') \in Nat /\ Cardinality(AstrayUnread') \in Nat
        /\ Cardinality(WrongUnread') + Cardinality(AstrayUnread')
             <= Cardinality(WrongUnread) + Cardinality(AstrayUnread)
    <3>1. CASE j \in Unread
      <4>1. w \in AstrayUnread /\ AstrayUnread' \subseteq AstrayUnread \ {w}
        BY <1>0, <1>2, <1>10, <1>12, <3>1 DEF AstrayUnread
      <4>2. WrongUnread' \subseteq WrongUnread \union {j}
        <5>1. \A i \in WrongUnread' : i \in WrongUnread \union {j}
          BY <1>5, <1>6, <1>7 DEF WrongUnread
        <5>2. QED
          BY <5>1
      <4>3. QED
        BY <1>1, <4>1, <4>2, FiniteParts, Swap
    <3>2. CASE j \notin Unread
      <4>1. WrongUnread' \subseteq WrongUnread
        <5>1. \A i \in WrongUnread' : i \in WrongUnread
          BY <1>5, <1>6, <1>7, <3>2 DEF WrongUnread
        <5>2. QED
          BY <5>1
      <4>2. AstrayUnread' \subseteq AstrayUnread
        BY <1>10
      <4>3. /\ Cardinality(WrongUnread') \in Nat /\ Cardinality(AstrayUnread') \in Nat
            /\ Cardinality(WrongUnread') <= Cardinality(WrongUnread)
            /\ Cardinality(AstrayUnread') <= Cardinality(AstrayUnread)
            /\ Cardinality(WrongUnread) \in Nat /\ Cardinality(AstrayUnread) \in Nat
        BY <1>1, <4>1, <4>2, FiniteParts, Fewer
      <4>4. QED
        BY <4>3
    <3>3. QED
      BY <3>1, <3>2
  <2>6. MisreadBounded'
    BY <1>1, <1>2, <1>6, <2>5, FiniteParts DEF StaleInv, MisreadBounded
  <2>7. QED
    BY <2>4, <2>6
<1>13. QED
  BY <1>11, <1>12

\* When the count is loaded, a wrong entry is one that was spoilt or one whose
\* store is outstanding, and there are no more of the latter than such stores.
LEMMA LoadCountBounds ==
  ASSUME StaleInv, LoadCount
  PROVE  OverwrittenBounded' /\ MisreadBounded'
<1> DEFINE Awaited == {i \in Claimed : Wrong(i) /\ Coming(i)}
           Bringing == {w \in Storing : Right(w) /\ index[w] \in Awaited}
           Below_ == {w \in Storing : index[w] < sample_count}
<1>1. /\ sample_count \in Nat /\ sort_buffer \in Seq(Rtts \union {0})
      /\ late \in Nat /\ index \in [Writer -> Entry]
  BY DEF StaleInv, Shape, TypeOK
<1>2. /\ observed' = sample_count /\ sort_buffer' = << >>
      /\ unstored' = Cardinality(Below_)
      /\ UNCHANGED <<sample_count, rtts, pc, adding, index, window, late>>
  BY DEF LoadCount, writers
<1>3. Storing' = Storing /\ Overwritten' = Overwritten /\ Astray' = Astray
  BY <1>2 DEF Storing, Overwritten, Astray, Claimed, Wrong, Coming, Right
<1>4. OverwrittenBounded'
  BY <1>2, <1>3 DEF StaleInv, OverwrittenBounded
<1>5. Misread' = {}
  BY <1>2 DEF Misread
<1>6. Unread' \subseteq Claimed
  <2>1. usable' <= sample_count /\ usable' \in Nat
    <3>1. \E x \in {sample_count, MaxSamplesPerWindow} :
            \A y \in {sample_count, MaxSamplesPerWindow} : x <= y
      BY <1>1, PercentileAssumption
    <3>2. /\ usable' \in {sample_count, MaxSamplesPerWindow}
          /\ \A y \in {sample_count, MaxSamplesPerWindow} : usable' <= y
      BY <1>2, <3>1 DEF usable, Min
    <3>3. QED
      BY <1>1, <3>2, PercentileAssumption
  <2>2. QED
    BY <1>1, <2>1, PercentileAssumption DEF Unread, Claimed, Entry
<1>7. WrongUnread' \subseteq Overwritten \union Awaited
  <2>1. \A i \in WrongUnread' : i \in Overwritten \union Awaited
    BY <1>2, <1>6 DEF WrongUnread, Overwritten, Wrong
  <2>2. QED
    BY <2>1
<1>8. AstrayUnread' \subseteq Astray
  <2>1. \A w \in AstrayUnread' : w \in Astray
    BY <1>2, <1>3 DEF AstrayUnread, Astray, Right
  <2>2. QED
    BY <2>1
<1>9. IsFiniteSet(Bringing) /\ Cardinality(Bringing) \in Nat
      /\ IsFiniteSet(Below_) /\ Cardinality(Below_) \in Nat
      /\ Cardinality(Bringing) <= Cardinality(Below_)
  <2>1. Below_ \subseteq Storing
    OBVIOUS
  <2>2. Bringing \subseteq Below_
    BY DEF Right
  <2>3. IsFiniteSet(Below_)
    BY <1>1, <2>1, FiniteParts, Fewer
  <2>4. QED
    BY <2>2, <2>3, Fewer
<1>10. IsFiniteSet(Awaited) /\ Cardinality(Awaited) \in Nat
       /\ Cardinality(Awaited) <= Cardinality(Bringing)
  <2> DEFINE f == [w \in Bringing |-> index[w]]
  <2>1. f \in [Bringing -> Awaited]
    OBVIOUS
  <2>2. \A i \in Awaited : \E w \in Bringing : f[w] = i
    <3> SUFFICES ASSUME NEW i \in Awaited PROVE \E w \in Bringing : f[w] = i
      OBVIOUS
    <3>1. PICK w \in Storing : index[w] = i /\ Right(w)
      BY DEF Coming
    <3>2. w \in Bringing /\ f[w] = i
      BY <3>1
    <3>3. QED
      BY <3>2
  <2>3. f \in Surjection(Bringing, Awaited)
    BY <2>1, <2>2 DEF Surjection
  <2> HIDE DEF f
  <2>4. IsFiniteSet(Awaited) /\ Cardinality(Awaited) <= Cardinality(Bringing)
    BY <1>9, <2>3, FS_Surjection
  <2>5. QED
    BY <2>4, FS_CardinalityType
<1>11. Cardinality(WrongUnread') \in Nat
       /\ Cardinality(WrongUnread') <= Cardinality(Overwritten) + Cardinality(Awaited)
  <2>1. Overwritten \cap Awaited = {}
    BY DEF Overwritten
  <2>2. IsFiniteSet(Overwritten) /\ Cardinality(Overwritten) \in Nat
    BY <1>1, FiniteParts
  <2> HIDE DEF Awaited
  <2>3. /\ IsFiniteSet(Overwritten \union Awaited)
        /\ Cardinality(Overwritten \union Awaited)
             = Cardinality(Overwritten) + Cardinality(Awaited)
                 - Cardinality(Overwritten \cap Awaited)
    BY <1>10, <2>2, FS_Union
  <2>4. Cardinality(Overwritten \cap Awaited) = 0
    BY <2>1, FS_EmptySet
  <2>5. /\ Cardinality(WrongUnread') \in Nat
        /\ Cardinality(WrongUnread') <= Cardinality(Overwritten \union Awaited)
    BY <1>7, <2>3, Fewer
  <2>6. QED
    BY <1>10, <2>2, <2>3, <2>4, <2>5
<1>12. Cardinality(AstrayUnread') \in Nat
       /\ Cardinality(AstrayUnread') <= Cardinality(Astray)
  BY <1>1, <1>8, FiniteParts, Fewer
<1> HIDE DEF Awaited, Bringing, Below_
<1>13. Cardinality(Misread') = 0
  BY <1>5, FS_EmptySet
<1>14. /\ Cardinality(Overwritten) \in Nat /\ Cardinality(Astray) \in Nat
       /\ Cardinality(Overwritten) + Cardinality(Astray) <= late
  BY <1>1, FiniteParts DEF StaleInv, OverwrittenBounded
<1>15. Cardinality(Misread') + Cardinality(WrongUnread') + Cardinality(AstrayUnread')
         <= late' + unstored'
  BY <1>1, <1>2, <1>9, <1>10, <1>11, <1>12, <1>13, <1>14
<1>16. MisreadBounded'
  BY <1>15 DEF MisreadBounded
<1>17. QED
  BY <1>4, <1>16

\* A wrong entry that is read moves from the entries not read to those read
\* wrong.
LEMMA LoadEntryBounds ==
  ASSUME StaleInv, LoadEntry
  PROVE  OverwrittenBounded' /\ MisreadBounded'
<1>0. PICK k \in Nat : k = Len(sort_buffer)
  BY DEF StaleInv, Shape
<1>1. /\ sample_count \in Nat /\ sort_buffer \in Seq(Rtts \union {0})
      /\ late \in Nat /\ unstored \in Nat /\ window \in Seq(Rtts)
      /\ Len(window) = sample_count /\ observed \in Nat /\ observed <= sample_count
      /\ rtts \in [Entry -> Rtts \union {0}]
  BY DEF StaleInv, Shape, TypeOK
<1>2. /\ reader = "scan" /\ sort_buffer' = Append(sort_buffer, rtts[k])
      /\ UNCHANGED <<sample_count, rtts, pc, adding, index, window, late, unstored,
                     observed, usable>>
  BY <1>0 DEF LoadEntry, writers, usable
<1>3. k < usable /\ usable <= sample_count /\ usable \in 0 .. MaxSamplesPerWindow
  BY <1>0, <1>1, <1>2, Usable DEF StaleInv, Shape
<1>4. k \in Entry /\ k + 1 <= Len(window)
  BY <1>1, <1>3, PercentileAssumption DEF Entry
<1>5. /\ Len(sort_buffer') = k + 1 /\ DOMAIN sort_buffer' = 1 .. k + 1
      /\ DOMAIN sort_buffer = 1 .. k
      /\ sort_buffer'[k + 1] = rtts[k]
      /\ \A i \in 1 .. k : sort_buffer'[i] = sort_buffer[i]
  BY <1>0, <1>1, <1>2, <1>4, Appended
<1>6. Storing' = Storing /\ Overwritten' = Overwritten /\ Astray' = Astray
  BY <1>2 DEF Storing, Overwritten, Astray, Claimed, Wrong, Coming, Right
<1>7. OverwrittenBounded'
  BY <1>2, <1>6 DEF StaleInv, OverwrittenBounded
<1>8. \A i \in Unread' : i \in Unread /\ i # k
  BY <1>0, <1>2, <1>5, PercentileAssumption DEF Unread, Entry
<1>9. k \in Unread
  BY <1>0, <1>3, <1>4 DEF Unread
<1>10. AstrayUnread' \subseteq AstrayUnread
  <2>1. \A w \in AstrayUnread' : w \in AstrayUnread
    BY <1>2, <1>6, <1>8 DEF AstrayUnread, Right
  <2>2. QED
    BY <2>1
<1>11. /\ Cardinality(AstrayUnread') \in Nat /\ Cardinality(AstrayUnread) \in Nat
       /\ Cardinality(AstrayUnread') <= Cardinality(AstrayUnread)
  BY <1>1, <1>10, FiniteParts, Fewer
<1>12. \A i \in Misread' : i \in Misread \/ (i = k + 1 /\ Wrong(k))
  <2> SUFFICES ASSUME NEW i \in Misread'
               PROVE  i \in Misread \/ (i = k + 1 /\ Wrong(k))
    OBVIOUS
  <2>1. i \in 1 .. k + 1 /\ (i > Len(window) \/ sort_buffer'[i] # window[i])
    BY <1>2, <1>5 DEF Misread
  <2>2. CASE i = k + 1
    BY <1>1, <1>4, <1>5, <2>1, <2>2 DEF Wrong
  <2>3. CASE i # k + 1
    <3>1. i \in 1 .. k
      BY <2>1, <2>3
    <3>2. QED
      BY <1>5, <2>1, <3>1 DEF Misread
  <2>4. QED
    BY <2>2, <2>3
<1>13. \A i \in WrongUnread' : i \in WrongUnread /\ i # k
  BY <1>2, <1>8 DEF WrongUnread, Wrong
<1>14. /\ Cardinality(Misread') \in Nat /\ Cardinality(WrongUnread') \in Nat
       /\ Cardinality(Misread') + Cardinality(WrongUnread')
            <= Cardinality(Misread) + Cardinality(WrongUnread)
  <2>1. CASE Wrong(k)
    <3>1. k \in WrongUnread
      BY <1>9, <2>1 DEF WrongUnread
    <3>2. Misread' \subseteq Misread \union {k + 1}
      BY <1>12
    <3>3. WrongUnread' \subseteq WrongUnread \ {k}
      BY <1>13
    <3>4. QED
      BY <1>1, <3>1, <3>2, <3>3, FiniteParts, Swap
  <2>2. CASE ~Wrong(k)
    <3>1. Misread' \subseteq Misread /\ WrongUnread' \subseteq WrongUnread
      BY <1>12, <1>13, <2>2
    <3>2. /\ Cardinality(Misread') \in Nat /\ Cardinality(WrongUnread') \in Nat
          /\ Cardinality(Misread') <= Cardinality(Misread)
          /\ Cardinality(WrongUnread') <= Cardinality(WrongUnread)
          /\ Cardinality(Misread) \in Nat /\ Cardinality(WrongUnread) \in Nat
      BY <1>1, <3>1, FiniteParts, Fewer
    <3>3. QED
      BY <3>2
  <2>3. QED
    BY <2>1, <2>2
<1>15. /\ Cardinality(Misread) \in Nat /\ Cardinality(WrongUnread) \in Nat
       /\ Cardinality(Misread) + Cardinality(WrongUnread) + Cardinality(AstrayUnread)
            <= late + unstored
  BY <1>1, <1>2, FiniteParts DEF StaleInv, MisreadBounded
<1>16. Cardinality(Misread') + Cardinality(WrongUnread') + Cardinality(AstrayUnread')
         <= late' + unstored'
  BY <1>1, <1>2, <1>11, <1>14, <1>15
<1>17. QED
  BY <1>7, <1>16 DEF MisreadBounded

\* After a Reset nothing is claimed, and every outstanding store is late.
LEMMA ResetBounds ==
  ASSUME StaleInv, Reset
  PROVE  OverwrittenBounded' /\ MisreadBounded'
<1>1. /\ sample_count' = 0 /\ reader' = "away" /\ late' = Cardinality(Storing)
      /\ UNCHANGED <<pc, index>>
  BY DEF Reset, CountAfterReset, writers
<1>2. Overwritten' = {}
  BY <1>1, PercentileAssumption DEF Overwritten, Claimed, Entry
<1>3. Astray' \subseteq Storing
  BY <1>1 DEF Astray, Storing
<1>4. /\ Cardinality(Astray') \in Nat /\ Cardinality(Storing) \in Nat
      /\ Cardinality(Astray') <= Cardinality(Storing)
  BY <1>3, FiniteParts, Fewer DEF StaleInv, Shape
<1>5. Cardinality(Overwritten') = 0
  BY <1>2, FS_EmptySet
<1>6. QED
  BY <1>1, <1>4, <1>5 DEF OverwrittenBounded, MisreadBounded

----------------------------------------------------------------------------
(* The theorems.                                                           *)

\* A new window: nothing counted, nothing outstanding, nobody reading.
LEMMA StaleInit == Init => StaleInv
<1> SUFFICES ASSUME Init PROVE StaleInv
  OBVIOUS
<1>1. 0 \in Entry /\ 0 \in 0 .. MaxSamplesPerWindow
  BY PercentileAssumption DEF Entry
<1>2. TypeOK
  BY <1>1 DEF Init, TypeOK
<1>3. Shape
  BY <1>1 DEF Init, Shape
<1>4. Overwritten = {} /\ Astray = {}
  BY PercentileAssumption DEF Init, Overwritten, Astray, Claimed, Storing, Entry
<1>5. OverwrittenBounded
  BY <1>4, FS_EmptySet DEF Init, OverwrittenBounded
<1>6. MisreadBounded
  BY DEF Init, MisreadBounded
<1>7. QED
  BY <1>2, <1>3, <1>5, <1>6 DEF StaleInv

\* Every step keeps the invariant.
LEMMA StaleStep == StaleInv /\ [Next]_vars => StaleInv'
<1> SUFFICES ASSUME StaleInv, [Next]_vars PROVE StaleInv'
  OBVIOUS
<1>1. TypeOK' /\ Shape'
  BY ShapeStep DEF StaleInv
<1>2. ASSUME Next PROVE OverwrittenBounded' /\ MisreadBounded'
  BY <1>2, ClaimSpoilsNothing, StoreSpoilsOne, LoadCountBounds, LoadEntryBounds,
     ResetBounds DEF Next, AddSample
<1>3. ASSUME UNCHANGED vars PROVE OverwrittenBounded' /\ MisreadBounded'
  <2>1. /\ UNCHANGED <<late, unstored, reader>>
        /\ Overwritten' = Overwritten /\ Astray' = Astray /\ Misread' = Misread
        /\ WrongUnread' = WrongUnread /\ AstrayUnread' = AstrayUnread
    BY <1>3 DEF vars, writers, boundary, Overwritten, Astray, Misread, WrongUnread,
       AstrayUnread, Claimed, Unread, Storing, Wrong, Right, Coming, usable
  <2>2. QED
    BY <2>1, NothingNew
<1>4. QED
  BY <1>1, <1>2, <1>3 DEF StaleInv

\* StaleInv is an invariant of PercentileSampleWindow.
THEOREM Invariance == Spec => []StaleInv
BY StaleInit, StaleStep, PTL DEF Spec

\* Type correctness: no store is ever outstanding for an entry beyond rtts_,
\* and the scan never reads beyond it, for any number of writers and samples.
THEOREM TypeCorrect == Spec => []TypeOK
<1>1. StaleInv => TypeOK
  BY DEF StaleInv
<1>2. QED
  BY <1>1, Invariance, PTL

\* What the percentile is taken of differs from the window's samples in at most
\* one entry for each store that crossed the last Reset or was outstanding when
\* the count was loaded, for any number of writers and any size of the array.
THEOREM StaleBounded == Spec => []StaleEntriesBounded
<1>1. StaleInv => StaleEntriesBounded
  <2> SUFFICES ASSUME StaleInv, reader = "read"
               PROVE  Cardinality(Misread) <= late + unstored
    BY DEF StaleEntriesBounded, Misread
  <2>1. Cardinality(Misread) + Cardinality(WrongUnread) + Cardinality(AstrayUnread)
          <= late + unstored
    BY DEF StaleInv, MisreadBounded
  <2>2. /\ Cardinality(Misread) \in Nat /\ Cardinality(WrongUnread) \in Nat
        /\ Cardinality(AstrayUnread) \in Nat /\ late \in Nat /\ unstored \in Nat
    BY FiniteParts DEF StaleInv, Shape, TypeOK
  <2>3. QED
    BY <2>1, <2>2
<1>2. QED
  BY <1>1, Invariance, PTL

\* When no store crossed the last Reset and none was outstanding at the load of
\* the count, the buffer that is sorted holds exactly the first usable samples
\* of the window, in the order in which they were counted.
SnapshotExact ==
  reader = "read" /\ late = 0 /\ unstored = 0 =>
    /\ Len(sort_buffer) = usable /\ usable <= Len(window)
    /\ \A i \in 1 .. usable : sort_buffer[i] = window[i]

\* What TrackedRttNs sorts is then the window itself: the part of
\* PercentileOfWindow that is about threads, for any number of them.
THEOREM SnapshotOfWindow == Spec => []SnapshotExact
<1>1. StaleInv /\ StaleEntriesBounded => SnapshotExact
  <2> SUFFICES ASSUME StaleInv, StaleEntriesBounded, reader = "read", late = 0,
                      unstored = 0
               PROVE  /\ Len(sort_buffer) = usable /\ usable <= Len(window)
                      /\ \A i \in 1 .. usable : sort_buffer[i] = window[i]
    BY DEF SnapshotExact
  <2>1. /\ Len(sort_buffer) = usable /\ sort_buffer \in Seq(Rtts \union {0})
        /\ observed \in Nat /\ observed <= Len(window) /\ Len(window) \in Nat
    BY DEF StaleInv, Shape, TypeOK
  <2>2. usable \in Nat /\ usable <= Len(window)
    BY <2>1, Usable, PercentileAssumption
  <2>3. IsFiniteSet(Misread) /\ Cardinality(Misread) \in Nat
    BY <2>1, FiniteParts
  <2>4. Cardinality(Misread) <= 0
    BY DEF StaleEntriesBounded, Misread
  <2>5. Misread = {}
    BY <2>3, <2>4, FS_EmptySet
  <2>6. DOMAIN sort_buffer = 1 .. usable
    BY <2>1
  <2>7. QED
    BY <2>1, <2>2, <2>5, <2>6 DEF Misread
<1>2. QED
  BY <1>1, Invariance, StaleBounded, PTL

----------------------------------------------------------------------------
(* Sorting.  What follows is an induction on the length: a sequence that   *)
(* cannot be sorted would have a shortest one, from which its smallest     *)
(* entry can be taken away.                                                *)

\* Every set of natural numbers has a least one.
LEMMA LeastNumber ==
  ASSUME NEW S \in SUBSET Nat, S # {}
  PROVE  \E n \in S : \A m \in S : n <= m
<1> DEFINE R == OpToRel(<, Nat)
<1>1. IsWellFoundedOn(R, Nat)
  BY NatLessThanWellFounded
<1>2. \A x, y \in Nat : <<x, y>> \in R <=> x < y
  BY DEF OpToRel
<1> HIDE DEF R
<1>3. PICK n \in S : \A m \in S : ~(<<m, n>> \in R)
  BY <1>1, WFMin
<1>4. ASSUME NEW m \in S PROVE n <= m
  <2>1. n \in Nat /\ m \in Nat
    OBVIOUS
  <2>2. ~(m < n)
    BY <1>2, <1>3, <2>1
  <2>3. QED
    BY <2>1, <2>2
<1>5. QED
  BY <1>4

\* p takes the entries of s in ascending order.
Orders(p, n, s) == \A i, j \in 1 .. n : i < j => s[p[i]] <= s[p[j]]

\* The order of all but the smallest entry, and then of all.
LEMMA OrderMore ==
  ASSUME NEW k \in Nat, k # 0, NEW r \in [1 .. k -> Nat], NEW m \in 1 .. k,
         \A i \in 1 .. k : r[m] <= r[i],
         NEW q, q = [i \in 1 .. k - 1 |-> IF i = m THEN r[k] ELSE r[i]],
         NEW p \in Bijection(1 .. k - 1, 1 .. k - 1), Orders(p, k - 1, q)
  PROVE  \E z \in Bijection(1 .. k, 1 .. k) : Orders(z, k, r)
<1> DEFINE z == [i \in 1 .. k |->
                   IF i = 1 THEN m ELSE IF p[i - 1] = m THEN k ELSE p[i - 1]]
<1>1. /\ p \in [1 .. k - 1 -> 1 .. k - 1]
      /\ \A i, j \in 1 .. k - 1 : p[i] = p[j] => i = j
      /\ \A w \in 1 .. k - 1 : \E i \in 1 .. k - 1 : p[i] = w
  BY DEF Bijection, Injection, Surjection, IsInjective
<1>2. ASSUME NEW i \in 1 .. k, i # 1
      PROVE  /\ i - 1 \in 1 .. k - 1 /\ p[i - 1] \in 1 .. k - 1
             /\ p[i - 1] = m => z[i] = k
             /\ p[i - 1] # m => z[i] = p[i - 1]
  <2>1. i - 1 \in 1 .. k - 1
    BY <1>2
  <2>2. p[i - 1] \in 1 .. k - 1
    BY <1>1, <2>1
  <2>3. z[i] = IF p[i - 1] = m THEN k ELSE p[i - 1]
    BY <1>2
  <2> HIDE DEF z
  <2>4. QED
    BY <2>1, <2>2, <2>3
<1>3. z[1] = m /\ 1 \in 1 .. k
  OBVIOUS
<1>4. z \in [1 .. k -> 1 .. k]
  BY <1>1
<1> HIDE DEF z
<1>5. ASSUME NEW i \in 1 .. k, NEW j \in 1 .. k, z[i] = z[j] PROVE i = j
  <2>1. ASSUME NEW l \in 1 .. k, l # 1 PROVE z[l] # m
    <3> DEFINE a == p[l - 1]
    <3>1. a \in 1 .. k - 1 /\ (a = m => z[l] = k) /\ (a # m => z[l] = a)
      BY <1>2, <2>1
    <3> HIDE DEF a
    <3>2. CASE a = m
      <4>1. k # a /\ z[l] = k
        BY <3>1, <3>2
      <4>2. QED
        BY <3>2, <4>1
    <3>3. QED
      BY <3>1, <3>2
  <2>2. CASE i = 1 \/ j = 1
    BY <1>3, <1>5, <2>1, <2>2
  <2>3. CASE i # 1 /\ j # 1
    <3> DEFINE a == p[i - 1]
               b == p[j - 1]
    <3>1. /\ a \in 1 .. k - 1 /\ (a = m => z[i] = k) /\ (a # m => z[i] = a)
          /\ i - 1 \in 1 .. k - 1
      BY <1>2, <2>3
    <3>2. /\ b \in 1 .. k - 1 /\ (b = m => z[j] = k) /\ (b # m => z[j] = b)
          /\ j - 1 \in 1 .. k - 1
      BY <1>2, <2>3
    <3>3. a = b
      <4> HIDE DEF a, b
      <4>1. a # k /\ b # k
        BY <3>1, <3>2
      <4>2. QED
        BY <1>5, <3>1, <3>2, <4>1
    <3>4. i - 1 = j - 1
      BY <1>1, <3>1, <3>2, <3>3
    <3>5. QED
      BY <3>4
  <2>4. QED
    BY <2>2, <2>3
<1>6. ASSUME NEW w \in 1 .. k PROVE \E i \in 1 .. k : z[i] = w
  <2>1. CASE w = m
    BY <1>3, <2>1
  <2>2. CASE w # m
    <3> DEFINE v == IF w = k THEN m ELSE w
    <3>1. v \in 1 .. k - 1
      BY <2>2
    <3>2. PICK i \in 1 .. k - 1 : p[i] = v
      BY <1>1, <3>1
    <3>3. i + 1 \in 1 .. k /\ i + 1 # 1 /\ (i + 1) - 1 = i
      OBVIOUS
    <3>4. (p[i] = m => z[i + 1] = k) /\ (p[i] # m => z[i + 1] = p[i])
      BY <1>2, <3>3
    <3>5. z[i + 1] = w
      BY <2>2, <3>2, <3>4
    <3>6. QED
      BY <3>3, <3>5
  <2>3. QED
    BY <2>1, <2>2
<1>7. ASSUME NEW i \in 1 .. k, NEW j \in 1 .. k, i < j PROVE r[z[i]] <= r[z[j]]
  <2>1. CASE i = 1
    BY <1>3, <1>4, <2>1
  <2>2. CASE i # 1
    <3>1. ASSUME NEW l \in 1 .. k, l # 1 PROVE r[z[l]] = q[p[l - 1]]
      <4> DEFINE a == p[l - 1]
      <4>1. a \in 1 .. k - 1 /\ (a = m => z[l] = k) /\ (a # m => z[l] = a)
        BY <1>2, <3>1
      <4> HIDE DEF a
      <4>2. r[z[l]] = q[a]
        BY <4>1
      <4>3. QED
        BY <4>2 DEF a
    <3>2. r[z[i]] = q[p[i - 1]] /\ r[z[j]] = q[p[j - 1]]
      BY <1>7, <2>2, <3>1
    <3>3. i - 1 \in 1 .. k - 1 /\ j - 1 \in 1 .. k - 1 /\ i - 1 < j - 1
      BY <1>7, <2>2
    <3>4. q[p[i - 1]] <= q[p[j - 1]]
      BY <3>3 DEF Orders
    <3>5. QED
      BY <3>2, <3>4
  <2>3. QED
    BY <2>1, <2>2
<1>8. z \in Bijection(1 .. k, 1 .. k)
  BY <1>4, <1>5, <1>6 DEF Bijection, Injection, Surjection, IsInjective
<1>9. QED
  BY <1>7, <1>8 DEF Orders

\* Every finite sequence can be ordered.
LEMMA OrderExists ==
  ASSUME NEW n \in Nat, NEW s \in [1 .. n -> Nat]
  PROVE  \E p \in Bijection(1 .. n, 1 .. n) : Orders(p, n, s)
<1> DEFINE Sortable(k, r) == \E p \in Bijection(1 .. k, 1 .. k) : Orders(p, k, r)
           Bad == {k \in Nat : \E r \in [1 .. k -> Nat] : ~Sortable(k, r)}
<1> SUFFICES ASSUME ~Sortable(n, s) PROVE FALSE
  OBVIOUS
<1>1. n \in Bad /\ Bad \in SUBSET Nat
  OBVIOUS
<1>2. PICK k \in Bad : \A m \in Bad : k <= m
  <2> HIDE DEF Bad
  <2>1. QED
    BY <1>1, LeastNumber
<1>3. k \in Nat
  BY <1>1
<1>4. PICK r \in [1 .. k -> Nat] : ~Sortable(k, r)
  BY <1>2
<1> HIDE DEF Sortable
<1>5. k # 0
  <2>1. SUFFICES ASSUME k = 0 PROVE FALSE
    OBVIOUS
  <2> DEFINE p == [i \in 1 .. 0 |-> i]
  <2>2. p \in Bijection(1 .. 0, 1 .. 0)
    BY DEF Bijection, Injection, Surjection, IsInjective
  <2>3. Orders(p, 0, r)
    BY DEF Orders
  <2>4. QED
    BY <1>4, <2>1, <2>2, <2>3 DEF Sortable
<1>6. PICK m \in 1 .. k : \A i \in 1 .. k : r[m] <= r[i]
  <2> DEFINE S == {r[i] : i \in 1 .. k}
  <2>1. S \in SUBSET Nat
    OBVIOUS
  <2>2. S # {}
    <3>1. 1 \in 1 .. k
      BY <1>3, <1>5
    <3>2. QED
      BY <3>1
  <2>3. PICK v \in S : \A y \in S : v <= y
    BY <2>1, <2>2, LeastNumber
  <2>4. PICK m \in 1 .. k : v = r[m]
    OBVIOUS
  <2>5. QED
    BY <2>3, <2>4
<1> DEFINE q == [i \in 1 .. k - 1 |-> IF i = m THEN r[k] ELSE r[i]]
<1>7. k - 1 \in Nat /\ q \in [1 .. k - 1 -> Nat]
  BY <1>3, <1>5
<1> HIDE DEF q
<1>8. k - 1 \notin Bad
  <2>1. ~(k <= k - 1)
    BY <1>3
  <2> HIDE DEF Bad
  <2>2. QED
    BY <1>2, <2>1
<1>9. Sortable(k - 1, q)
  BY <1>7, <1>8
<1>10. PICK p \in Bijection(1 .. k - 1, 1 .. k - 1) : Orders(p, k - 1, q)
  BY <1>9 DEF Sortable
<1>11. \E z \in Bijection(1 .. k, 1 .. k) : Orders(z, k, r)
  BY ZenonT(60), <1>3, <1>5, <1>6, <1>10, OrderMore DEF q
<1>12. QED
  BY <1>4, <1>11 DEF Sortable

\* What std::ranges::sort leaves in the buffer.
LEMMA SortedOrder ==
  ASSUME NEW s \in Seq(Nat)
  PROVE  \E p \in Bijection(1 .. Len(s), 1 .. Len(s)) :
           /\ Orders(p, Len(s), s)
           /\ \A k \in 1 .. Len(s) : Sorted(s)[k] = s[p[k]]
<1> DEFINE n == Len(s)
           P(p) == \A i, j \in DOMAIN s : i < j => s[p[i]] <= s[p[j]]
           order == CHOOSE p \in Bijection(DOMAIN s, DOMAIN s) : P(p)
<1>1. n \in Nat /\ s \in [1 .. n -> Nat] /\ DOMAIN s = 1 .. n
  OBVIOUS
<1>2. \E p \in Bijection(1 .. n, 1 .. n) : Orders(p, n, s)
  BY <1>1, OrderExists
<1>3. \E p \in Bijection(DOMAIN s, DOMAIN s) : P(p)
  BY <1>1, <1>2 DEF Orders
<1>4. order \in Bijection(DOMAIN s, DOMAIN s) /\ P(order)
  <2> HIDE DEF P
  <2>1. QED
    BY <1>3
<1>5. Sorted(s) = [i \in DOMAIN s |-> s[order[i]]]
  BY DEF Sorted
<1> HIDE DEF order, n
<1>6. Orders(order, n, s) /\ order \in Bijection(1 .. n, 1 .. n)
  BY <1>1, <1>4 DEF Orders
<1>7. \A k \in 1 .. n : Sorted(s)[k] = s[order[k]]
  BY <1>1, <1>5
<1>8. QED
  BY <1>6, <1>7 DEF n

\* The k-th entry of an ordered arrangement has fewer than k entries below
\* it, and at least k that are not above it.
LEMMA OrderRank ==
  ASSUME NEW n \in Nat, NEW s \in [1 .. n -> Nat],
         NEW p \in Bijection(1 .. n, 1 .. n), Orders(p, n, s),
         NEW k \in 1 .. n
  PROVE  /\ p[k] \in 1 .. n
         /\ Cardinality({i \in 1 .. n : s[i] < s[p[k]]}) < k
         /\ k <= Cardinality({i \in 1 .. n : s[i] <= s[p[k]]})
<1> DEFINE v == s[p[k]]
           lower == {i \in 1 .. n : s[i] < v}
           upto == {i \in 1 .. n : s[i] <= v}
           T == {p[j] : j \in 1 .. k - 1}
           f == [j \in 1 .. k - 1 |-> p[j]]
           g == [j \in 1 .. k |-> p[j]]
<1>1. /\ p \in [1 .. n -> 1 .. n]
      /\ \A i, j \in 1 .. n : p[i] = p[j] => i = j
      /\ \A w \in 1 .. n : \E i \in 1 .. n : p[i] = w
  BY DEF Bijection, Injection, Surjection, IsInjective
<1>2. k \in Int /\ 1 <= k /\ k <= n /\ p[k] \in 1 .. n /\ v \in Nat
  BY <1>1
<1>3. \A i, j \in 1 .. n : i < j => s[p[i]] <= s[p[j]]
  BY DEF Orders
<1>4. Cardinality(lower) < k
  <2>1. f \in Surjection(1 .. k - 1, T)
    <3>1. f \in [1 .. k - 1 -> T]
      OBVIOUS
    <3>2. \A t \in T : \E j \in 1 .. k - 1 : f[j] = t
      OBVIOUS
    <3> HIDE DEF f, T
    <3>3. QED
      BY <3>1, <3>2 DEF Surjection
  <2>2. IsFiniteSet(1 .. k - 1) /\ Cardinality(1 .. k - 1) = k - 1
    <3> DEFINE m == k - 1
    <3>1. m \in Int /\ 1 <= m + 1
      BY <1>2
    <3> HIDE DEF m
    <3>2. IsFiniteSet(1 .. m)
          /\ Cardinality(1 .. m) = IF 1 > m THEN 0 ELSE m - 1 + 1
      BY <3>1, FS_Interval
    <3>3. Cardinality(1 .. m) = m
      BY <3>1, <3>2
    <3>4. QED
      BY <3>2, <3>3 DEF m
  <2>3. IsFiniteSet(T) /\ Cardinality(T) <= Cardinality(1 .. k - 1)
    <3> HIDE DEF T, f
    <3>1. QED
      BY <2>1, <2>2, FS_Surjection
  <2>4. ASSUME NEW i \in lower PROVE i \in T
    <3>1. i \in 1 .. n /\ s[i] < v
      OBVIOUS
    <3>2. PICK j \in 1 .. n : p[j] = i
      BY <1>1, <3>1
    <3> HIDE DEF lower, T, f, g
    <3>3. j \in Int /\ 1 <= j /\ j <= n
      OBVIOUS
    <3>4. k < j => v <= s[i]
      <4>1. k < j => s[p[k]] <= s[p[j]]
        BY <1>3
      <4>2. QED
        BY <4>1, <3>2
    <3>5. k = j => v = s[i]
      BY <3>2
    <3>6. s[i] \in Nat
      BY <3>1
    <3> HIDE DEF v
    <3>7. j < k
      BY <1>2, <3>1, <3>3, <3>4, <3>5, <3>6
    <3>8. j \in 1 .. k - 1
      BY <1>2, <3>3, <3>7
    <3>9. QED
      BY <3>2, <3>8 DEF T
  <2>5. lower \in SUBSET T
    <3> HIDE DEF lower, T
    <3>1. QED
      BY <2>4
  <2> HIDE DEF lower, T
  <2>6. IsFiniteSet(lower) /\ Cardinality(lower) <= Cardinality(T)
    BY <2>3, <2>5, FS_Subset
  <2>7. Cardinality(lower) \in Nat /\ Cardinality(T) \in Nat
    BY <2>3, <2>6, FS_CardinalityType
  <2>8. QED
    BY <1>2, <2>2, <2>3, <2>6, <2>7
<1>5. k <= Cardinality(upto)
  <2>1. ASSUME NEW j \in 1 .. k PROVE p[j] \in upto
    <3>1. j \in Int /\ 1 <= j /\ j <= k
      BY <1>2
    <3>2. j \in 1 .. n
      BY <1>2, <3>1
    <3>3. p[j] \in 1 .. n
      BY <1>1, <3>2
    <3>4. j < k => s[p[j]] <= v
      BY <1>3, <3>2
    <3>5. j = k => s[p[j]] <= v
      BY <1>2
    <3>6. s[p[j]] <= v
      BY <1>2, <3>1, <3>4, <3>5
    <3> HIDE DEF v
    <3>7. QED
      BY <3>3, <3>6
  <2>2. \A i \in 1 .. k : i \in 1 .. n
    BY <1>2
  <2>3. \A i, j \in 1 .. k : p[i] = p[j] => i = j
    BY <1>1, <2>2
  <2>4. IsFiniteSet(1 .. n) /\ IsFiniteSet(1 .. k) /\ Cardinality(1 .. k) = k
    BY <1>2, FS_Interval
  <2>5. upto \in SUBSET (1 .. n)
    OBVIOUS
  <2> HIDE DEF upto
  <2>6. g \in [1 .. k -> upto]
    BY <2>1
  <2>7. \A i, j \in 1 .. k : g[i] = g[j] => i = j
    BY <2>3
  <2> HIDE DEF g
  <2>8. g \in Injection(1 .. k, upto)
    BY <2>6, <2>7 DEF Injection, IsInjective
  <2>9. IsFiniteSet(upto)
    BY <2>4, <2>5, FS_Subset
  <2>10. Cardinality(1 .. k) <= Cardinality(upto)
    BY <2>8, <2>9, FS_Injection
  <2>11. QED
    BY <2>4, <2>10
<1>6. QED
  BY <1>2, <1>4, <1>5

\* The k-th entry of the sorted buffer is an entry of rank k.
LEMMA SortedRank ==
  ASSUME NEW s \in Seq(Nat), NEW k \in 1 .. Len(s)
  PROVE  /\ \E i \in DOMAIN s : Sorted(s)[k] = s[i]
         /\ Below(s, Sorted(s)[k]) < k
         /\ k <= AtMost(s, Sorted(s)[k])
<1> DEFINE n == Len(s)
<1>1. n \in Nat /\ s \in [1 .. n -> Nat] /\ DOMAIN s = 1 .. n
  OBVIOUS
<1>2. PICK p \in Bijection(1 .. n, 1 .. n) :
        Orders(p, n, s) /\ \A j \in 1 .. n : Sorted(s)[j] = s[p[j]]
  BY SortedOrder
<1>3. k \in 1 .. n
  OBVIOUS
<1> HIDE DEF n
<1>4. /\ p[k] \in 1 .. n
      /\ Cardinality({i \in 1 .. n : s[i] < s[p[k]]}) < k
      /\ k <= Cardinality({i \in 1 .. n : s[i] <= s[p[k]]})
  BY <1>1, <1>2, <1>3, OrderRank
<1>5. Sorted(s)[k] = s[p[k]]
  BY <1>2, <1>3
<1>6. QED
  BY <1>1, <1>4, <1>5 DEF Below, AtMost

\* lround of a product with a fraction of at most one: between 0 and usable.
LEMMA Rounding ==
  ASSUME NEW u \in Nat, NEW d \in Nat, NEW b \in Nat, b # 0, d <= b
  PROVE  (2 * u * d + b) \div (2 * b) \in 0 .. u
<1> DEFINE X == 2 * u * d + b
           Y == 2 * b
           q == X \div Y
<1>1. u * d \in Nat /\ u * b \in Nat /\ 2 * u * d = 2 * (u * d)
  OBVIOUS
<1>2. u * d <= u * b
  OBVIOUS
<1>3. X \in Nat /\ Y \in Nat /\ Y > 0 /\ X < 2 * (u * b) + Y
  BY <1>1, <1>2
<1>4. 2 * (u * b) + Y = Y * (u + 1)
  BY <1>1
<1> HIDE DEF X, Y
<1>5. q \in Int /\ Y * q <= X /\ X < Y * (q + 1)
  BY <1>3
<1> HIDE DEF q
<1>6. 0 <= q
  <2>1. ASSUME q + 1 <= 0 PROVE FALSE
    <3>1. Y * (q + 1) <= 0
      BY <1>3, <1>5, <2>1
    <3>2. QED
      BY <1>3, <1>5, <3>1
  <2>2. QED
    BY <1>5, <2>1
<1>7. q <= u
  <2>1. ASSUME u + 1 <= q PROVE FALSE
    <3>1. Y * (u + 1) <= Y * q
      BY <1>3, <1>5, <2>1
    <3>2. QED
      BY <1>3, <1>4, <1>5, <3>1
  <2>2. QED
    BY <1>5, <2>1
<1>8. q \in 0 .. u
  BY <1>5, <1>6, <1>7
<1>9. QED
  BY <1>8 DEF q, X, Y

\* A sequence over a set is one over a larger set.
LEMMA Wider ==
  ASSUME NEW S, NEW W, S \subseteq W, NEW s \in Seq(S)
  PROVE  s \in Seq(W)
OBVIOUS

\* The larger and the smaller of two integers.
LEMMA TwoInts ==
  ASSUME NEW a \in Int, NEW b \in Int
  PROVE  /\ a <= b => Max({a, b}) = b /\ Min({a, b}) = a
         /\ b <= a => Max({a, b}) = a /\ Min({a, b}) = b
<1>1. a <= b => Max({a, b}) = b
  BY DEF Max
<1>2. a <= b => Min({a, b}) = a
  BY DEF Min
<1>3. b <= a => Max({a, b}) = a
  BY DEF Max
<1>4. b <= a => Min({a, b}) = b
  BY DEF Min
<1>5. QED
  BY <1>1, <1>2, <1>3, <1>4

\* The index TrackedRttNs takes is the nearest rank, counted from zero, and
\* lies within the buffer.
LEMMA PickIsRank ==
  ASSUME observed \in Nat, observed > 0
  PROVE  Pick + 1 = Rank /\ Rank \in 1 .. usable
<1>1. usable \in Nat /\ usable > 0
  BY Usable, PercentileAssumption
<1>2. rtt_index \in 0 .. usable
  <2>1. /\ PercentileOver \in Nat /\ PercentileBase \in Nat /\ PercentileBase # 0
        /\ PercentileOver <= PercentileBase
    BY PercentileAssumption
  <2>2. QED
    BY <1>1, <2>1, Rounding DEF rtt_index
<1>3. Rank = Max({1, rtt_index})
  <2>1. 2 * PercentileOver * usable = 2 * usable * PercentileOver
    BY <1>1, PercentileAssumption
  <2>2. QED
    BY <2>1 DEF Rank, rtt_index
<1>4. Pick = Max({0, Min({rtt_index - 1, usable - 1})})
  BY DEF Pick
<1> DEFINE r == rtt_index
           u == usable
<1>5. r \in Int /\ u \in Int /\ 0 <= r /\ r <= u /\ u > 0
  BY <1>1, <1>2
<1>6. Rank = Max({1, r}) /\ Pick = Max({0, Min({r - 1, u - 1})})
  BY <1>3, <1>4
<1> HIDE DEF r, u
<1> DEFINE r1 == r - 1
           u1 == u - 1
<1>7. r1 \in Int /\ u1 \in Int /\ r1 <= u1
  BY <1>5
<1>8. Pick = Max({0, Min({r1, u1})})
  BY <1>6
<1> HIDE DEF r1, u1
<1>9. Min({r1, u1}) = r1
  BY <1>7, TwoInts
<1>10. (0 <= r1 => Pick = r1) /\ (r1 <= 0 => Pick = 0)
  <2>1. Pick = Max({0, r1})
    BY <1>8, <1>9
  <2>2. /\ 0 <= r1 => Max({0, r1}) = r1
        /\ r1 <= 0 => Max({0, r1}) = 0
    BY <1>7, TwoInts
  <2>3. QED
    BY <2>1, <2>2
<1>11. (1 <= r => Rank = r) /\ (r <= 1 => Rank = 1)
  <2>1. /\ 1 <= r => Max({1, r}) = r
        /\ r <= 1 => Max({1, r}) = 1
    BY <1>5, TwoInts
  <2>2. QED
    BY <1>6, <2>1
<1>12. r1 = r - 1
  BY DEF r1
<1>13. Pick + 1 = Rank /\ Rank \in 1 .. u
  BY <1>5, <1>7, <1>10, <1>11, <1>12
<1>14. QED
  BY <1>13 DEF u

\* When no store crossed the last Reset and none was outstanding at the load of
\* the count, TrackedRttNs returns the nearest-rank percentile of the window's
\* samples: for any number of threads, any size of the array, any percentile
\* and any samples.
THEOREM PercentileExact == Spec => []PercentileOfWindow
<1>1. StaleInv /\ SnapshotExact => PercentileOfWindow
  <2> SUFFICES ASSUME StaleInv, SnapshotExact, reader = "read", observed > 0,
                      late = 0, unstored = 0
               PROVE  /\ \E i \in DOMAIN Participants :
                           TrackedRttNs = Participants[i]
                      /\ Below(Participants, TrackedRttNs) < Rank
                      /\ Rank <= AtMost(Participants, TrackedRttNs)
    BY DEF PercentileOfWindow
  <2>1. /\ observed \in Nat /\ sort_buffer \in Seq(Rtts \union {0})
        /\ window \in Seq(Rtts)
    BY DEF StaleInv, Shape, TypeOK
  <2>2. /\ Len(sort_buffer) = usable /\ usable <= Len(window)
        /\ \A i \in 1 .. usable : sort_buffer[i] = window[i]
    BY DEF SnapshotExact
  <2>3. usable \in Nat
    BY <2>1, Usable, PercentileAssumption
  <2>4. Participants = sort_buffer
    <3>1. Len(window) \in Nat
      BY <2>1
    <3>2. Min({usable, Len(window)}) = usable
      <4> DEFINE a == usable
                 b == Len(window)
      <4>1. a \in Int /\ b \in Int /\ a <= b
        BY <2>2, <2>3, <3>1
      <4> HIDE DEF a, b
      <4>2. Min({a, b}) = a
        BY <4>1, TwoInts
      <4>3. QED
        BY <4>2 DEF a, b
    <3>3. Participants = SubSeq(window, 1, usable)
      BY <3>2 DEF Participants
    <3> DEFINE u == usable
               S == SubSeq(window, 1, u)
    <3>4. u \in Nat /\ u <= Len(window) /\ Len(sort_buffer) = u
      BY <2>2, <2>3
    <3>5. \A i \in 1 .. u : sort_buffer[i] = window[i]
      BY <2>2
    <3>6. Participants = S
      BY <3>3
    <3> HIDE DEF u
    <3>7. S \in Seq(Rtts) /\ Len(S) = u /\ \A i \in 1 .. u : S[i] = window[i]
      BY <2>1, <3>4
    <3> HIDE DEF S
    <3>8. S = sort_buffer
      BY <2>1, <3>4, <3>5, <3>7
    <3>9. QED
      BY <3>6, <3>8
  <2>5. sort_buffer \in Seq(Nat)
    <3> DEFINE R == Rtts \union {0}
    <3>1. R \subseteq Nat
      BY PercentileAssumption
    <3>2. sort_buffer \in Seq(R)
      BY <2>1
    <3> HIDE DEF R
    <3>3. QED
      BY <3>1, <3>2, Wider
  <2>6. Pick + 1 = Rank /\ Rank \in 1 .. Len(sort_buffer)
    BY <2>1, <2>2, PickIsRank
  <2>7. TrackedRttNs = Sorted(sort_buffer)[Rank]
    <3>1. observed # 0
      BY <2>1
    <3>2. QED
      BY <2>6, <3>1 DEF TrackedRttNs
  <2>8. /\ \E i \in DOMAIN sort_buffer : Sorted(sort_buffer)[Rank] = sort_buffer[i]
        /\ Below(sort_buffer, Sorted(sort_buffer)[Rank]) < Rank
        /\ Rank <= AtMost(sort_buffer, Sorted(sort_buffer)[Rank])
    BY <2>5, <2>6, SortedRank
  <2>9. QED
    BY <2>4, <2>7, <2>8
<1>2. QED
  BY <1>1, Invariance, SnapshotOfWindow, PTL
=============================================================================
