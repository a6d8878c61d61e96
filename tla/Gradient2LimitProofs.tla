----------------------- MODULE Gradient2LimitProofs -----------------------
(***************************************************************************)
(* Proofs about Gradient2Limit for every configuration, every RTT and      *)
(* every in-flight maximum a window may report.                            *)
(*                                                                         *)
(* The inductive invariant is GradientInv: the types, the bounds of the    *)
(* baseline, and the same bounds for the sum of the warm-up (SumWithin),   *)
(* without which the plain mean could not be bounded: its value is         *)
(* recomputed from the sum and not from the value before.  Every formula   *)
(* of the code is a rounded fraction; RoundedBounds says that rounding     *)
(* either way stays on the same side of every whole number of units.       *)
(***************************************************************************)
EXTENDS Gradient2Limit, WellFoundedInduction, TLAPS

----------------------------------------------------------------------------
(* Arithmetic.                                                             *)

\* The larger of two numbers.
LEMMA PairMax ==
  ASSUME NEW a \in Int, NEW b \in Int
  PROVE  Max({a, b}) = IF a >= b THEN a ELSE b
<1>1. \E x \in {a, b} : \A y \in {a, b} : x >= y
  OBVIOUS
<1>2. Max({a, b}) \in {a, b} /\ \A y \in {a, b} : Max({a, b}) >= y
  BY <1>1 DEF Max
<1>3. QED
  BY <1>2

\* The smaller of two numbers.
LEMMA PairMin ==
  ASSUME NEW a \in Int, NEW b \in Int
  PROVE  Min({a, b}) = IF a <= b THEN a ELSE b
<1>1. \E x \in {a, b} : \A y \in {a, b} : x <= y
  OBVIOUS
<1>2. Min({a, b}) \in {a, b} /\ \A y \in {a, b} : Min({a, b}) <= y
  BY <1>1 DEF Min
<1>3. QED
  BY <1>2

\* Products of natural numbers.
LEMMA Products ==
  ASSUME NEW a \in Nat, NEW b \in Nat
  PROVE  a * b \in Nat /\ (a > 0 /\ b > 0 => a * b > 0)
OBVIOUS

\* Multiplication by a natural number keeps the order.
LEMMA Monotone ==
  ASSUME NEW a \in Int, NEW b \in Int, NEW d \in Nat, a <= b
  PROVE  a * d <= b * d
<1>1. (b - a) * d >= 0
  OBVIOUS
<1>2. (b - a) * d = b * d - a * d
  OBVIOUS
<1>3. QED
  BY <1>1, <1>2

\* Division by a positive number is division of the order.
LEMMA Cancel ==
  ASSUME NEW a \in Int, NEW b \in Int, NEW d \in Nat \ {0}, a * d < b * d
  PROVE  a < b
<1>1. ASSUME b <= a PROVE FALSE
  BY <1>1, Monotone
<1>2. QED
  BY <1>1

\* The quotient is the largest whole number that fits.
LEMMA Quotient ==
  ASSUME NEW n \in Int, NEW d \in Nat \ {0}
  PROVE  /\ n \div d \in Int
         /\ (n \div d) * d <= n
         /\ n < (n \div d + 1) * d
OBVIOUS

\* What lies between two whole numbers of units is rounded to between them.
LEMMA RoundedBounds ==
  ASSUME NEW n \in Int, NEW d \in Nat \ {0}, NEW r \in Rounded(n, d)
  PROVE  /\ r \in Int
         /\ \A a \in Int : a * d <= n => a <= r
         /\ \A b \in Int : n <= b * d => r <= b
<1>1. CASE r = n \div d
  <2>1. r \in Int /\ r * d <= n /\ n < (r + 1) * d
    BY <1>1, Quotient
  <2>2. ASSUME NEW a \in Int, a * d <= n PROVE a <= r
    <3>1. a * d < (r + 1) * d
      BY <2>1, <2>2
    <3>2. a < r + 1
      BY <2>1, <3>1, Cancel
    <3>3. QED
      BY <2>1, <3>2
  <2>3. ASSUME NEW b \in Int, n <= b * d PROVE r <= b
    <3>1. r * d < (b + 1) * d
      BY <2>1, <2>3
    <3>2. r < b + 1
      BY <2>1, <3>1, Cancel
    <3>3. QED
      BY <2>1, <3>2
  <2>4. QED
    BY <2>1, <2>2, <2>3
<1>2. CASE r = -((-n) \div d)
  <2> DEFINE q == (-n) \div d
  <2>1. q \in Int /\ q * d <= -n /\ -n < (q + 1) * d
    BY Quotient
  <2>2. r = -q
    BY <1>2
  <2> HIDE DEF q
  <2>3. r \in Int /\ n <= r * d /\ (r - 1) * d < n
    BY <2>1, <2>2
  <2>4. ASSUME NEW a \in Int, a * d <= n PROVE a <= r
    <3>1. (a - 1) * d < r * d
      BY <2>3, <2>4
    <3>2. a - 1 < r
      BY <2>3, <3>1, Cancel
    <3>3. QED
      BY <2>3, <3>2
  <2>5. ASSUME NEW b \in Int, n <= b * d PROVE r <= b
    <3>1. (r - 1) * d < b * d
      BY <2>3, <2>5
    <3>2. r - 1 < b
      BY <2>3, <3>1, Cancel
    <3>3. QED
      BY <2>3, <3>2
  <2>6. QED
    BY <2>3, <2>4, <2>5
<1>3. QED
  BY <1>1, <1>2 DEF Rounded
----------------------------------------------------------------------------
(* The baseline.                                                           *)

\* The sum of the warm-up is that of count_ RTTs, each between the smallest and
\* the largest; count_ is zero only before the first.
SumWithin ==
  /\ measured.hi = 0 => long_rtt.count = 0 /\ long_rtt.sum = 0
  /\ measured.hi > 0 => /\ long_rtt.count > 0
                        /\ measured.lo * long_rtt.count <= long_rtt.sum
                        /\ long_rtt.sum <= measured.hi * long_rtt.count

GradientInv == TypeOK /\ BaselineWithinMeasured /\ SumWithin

Long == [value : Nat, sum : Nat, count : 0 .. WarmupWindow]

\* The smallest and the largest RTT once rtt is measured.
Widened(rtt) ==
  IF measured.hi = 0 THEN [lo |-> rtt, hi |-> rtt]
  ELSE [lo |-> Min({measured.lo, rtt}), hi |-> Max({measured.hi, rtt})]

\* A new RTT is inside the range it widens.
LEMMA WidenedRange ==
  ASSUME TypeOK, NEW rtt \in Nat, rtt > 0
  PROVE  /\ Widened(rtt) \in [lo : Nat, hi : Nat]
         /\ Widened(rtt).lo <= rtt /\ rtt <= Widened(rtt).hi
         /\ Widened(rtt).hi > 0
         /\ measured.hi > 0 => /\ Widened(rtt).lo <= measured.lo
                               /\ measured.hi <= Widened(rtt).hi
<1>1. measured.lo \in Nat /\ measured.hi \in Nat
  BY DEF TypeOK
<1>2. CASE measured.hi = 0
  BY <1>2 DEF Widened
<1>3. CASE measured.hi # 0
  <2>1. /\ Min({measured.lo, rtt}) = IF measured.lo <= rtt THEN measured.lo ELSE rtt
        /\ Max({measured.hi, rtt}) = IF measured.hi >= rtt THEN measured.hi ELSE rtt
    BY <1>1, PairMin, PairMax
  <2>2. Widened(rtt) = [lo |-> Min({measured.lo, rtt}), hi |-> Max({measured.hi, rtt})]
    BY <1>3 DEF Widened
  <2>3. QED
    BY <1>1, <1>3, <2>1, <2>2
<1>4. QED
  BY <1>2, <1>3

\* A sum of RTTs within a range, and one more of them.
LEMMA WarmupMean ==
  ASSUME NEW lo \in Nat, NEW hi \in Nat, NEW rtt \in Nat, NEW sum \in Nat,
         NEW count \in Nat, NEW scale \in Nat, lo <= rtt, rtt <= hi,
         lo * count <= sum, sum <= hi * count
  PROVE  /\ lo * (count + 1) <= sum + rtt
         /\ sum + rtt <= hi * (count + 1)
         /\ (lo * scale) * (count + 1) <= (sum + rtt) * scale
         /\ (sum + rtt) * scale <= (hi * scale) * (count + 1)
<1>1. lo * (count + 1) = lo * count + lo /\ hi * (count + 1) = hi * count + hi
  OBVIOUS
<1>2. lo * count \in Nat /\ hi * count \in Nat
  BY Products
<1>3. lo * (count + 1) <= sum + rtt /\ sum + rtt <= hi * (count + 1)
  BY <1>1, <1>2
<1>4. lo * (count + 1) \in Nat /\ hi * (count + 1) \in Nat /\ sum + rtt \in Nat
  BY <1>1, <1>2
<1>5. /\ (lo * (count + 1)) * scale <= (sum + rtt) * scale
      /\ (sum + rtt) * scale <= (hi * (count + 1)) * scale
  BY <1>3, <1>4, Monotone
<1>6. /\ (lo * scale) * (count + 1) = (lo * (count + 1)) * scale
      /\ (hi * scale) * (count + 1) = (hi * (count + 1)) * scale
  OBVIOUS
<1>7. QED
  BY <1>3, <1>5, <1>6

\* A weighted mean of two numbers within a range.
LEMMA ExponentialMean ==
  ASSUME NEW lo \in Nat, NEW hi \in Nat, NEW new \in Nat, NEW old \in Nat,
         NEW w \in Nat \ {0}, lo <= new, new <= hi, lo <= old, old <= hi
  PROVE  /\ lo * (w + 1) <= old * (w - 1) + 2 * new
         /\ old * (w - 1) + 2 * new <= hi * (w + 1)
<1>1. w - 1 \in Nat
  OBVIOUS
<1>2. lo * (w - 1) <= old * (w - 1) /\ old * (w - 1) <= hi * (w - 1)
  BY <1>1, Monotone
<1>3. /\ lo * (w + 1) = lo * (w - 1) + 2 * lo
      /\ hi * (w + 1) = hi * (w - 1) + 2 * hi
  OBVIOUS
<1>4. lo * (w - 1) \in Nat /\ old * (w - 1) \in Nat /\ hi * (w - 1) \in Nat
  BY <1>1, Products
<1>5. QED
  BY <1>2, <1>3, <1>4

\* Add keeps the baseline within the range of the RTTs, the new one included.
LEMMA AddWithin ==
  ASSUME GradientInv, NEW rtt \in Rtts, rtt > 0, NEW long \in Add(rtt)
  PROVE  /\ long \in Long
         /\ Widened(rtt).lo * Scale <= long.value
         /\ long.value <= Widened(rtt).hi * Scale
         /\ long.count > 0
         /\ Widened(rtt).lo * long.count <= long.sum
         /\ long.sum <= Widened(rtt).hi * long.count
<1> DEFINE lo == Widened(rtt).lo
           hi == Widened(rtt).hi
           c == long_rtt.count
           s == long_rtt.sum
           v == long_rtt.value
<1>1. rtt \in Nat /\ Scale \in Nat \ {0} /\ WarmupWindow \in Nat \ {0}
      /\ LongWindow \in Nat \ {0}
  BY Gradient2Assumption
<1>2. lo \in Nat /\ hi \in Nat /\ lo <= rtt /\ rtt <= hi
      /\ (measured.hi > 0 => lo <= measured.lo /\ measured.hi <= hi)
  BY <1>1, WidenedRange DEF GradientInv
<1>3. /\ long_rtt \in Long /\ c \in 0 .. WarmupWindow /\ s \in Nat /\ v \in Nat
      /\ measured.lo \in Nat /\ measured.hi \in Nat
  BY DEF GradientInv, TypeOK, Long
<1>4. lo * c <= s /\ s <= hi * c
  <2>1. CASE measured.hi = 0
    BY <1>2, <2>1 DEF GradientInv, SumWithin
  <2>2. CASE measured.hi > 0
    <3>1. measured.lo * c <= s /\ s <= measured.hi * c
      BY <2>2 DEF GradientInv, SumWithin
    <3>2. lo * c <= measured.lo * c /\ measured.hi * c <= hi * c
      BY <1>2, <1>3, <2>2, Monotone
    <3>3. lo * c \in Nat /\ measured.lo * c \in Nat /\ measured.hi * c \in Nat
          /\ hi * c \in Nat
      BY <1>2, <1>3, Products
    <3>4. QED
      BY <1>3, <3>1, <3>2, <3>3
  <2>3. QED
    BY <1>3, <2>1, <2>2
<1>5. CASE c < WarmupWindow
  <2>1. PICK r \in Rounded((s + rtt) * Scale, c + 1) :
          long = [value |-> r, sum |-> s + rtt, count |-> c + 1]
    BY <1>5 DEF Add
  <2>2. /\ lo * (c + 1) <= s + rtt /\ s + rtt <= hi * (c + 1)
        /\ (lo * Scale) * (c + 1) <= (s + rtt) * Scale
        /\ (s + rtt) * Scale <= (hi * Scale) * (c + 1)
    BY <1>1, <1>2, <1>3, <1>4, WarmupMean
  <2>3. /\ lo * Scale \in Nat /\ hi * Scale \in Nat
        /\ (s + rtt) * Scale \in Int /\ c + 1 \in Nat \ {0}
    BY <1>1, <1>2, <1>3, Products
  <2> HIDE DEF lo, hi, c, s, v
  <2>4. r \in Int /\ lo * Scale <= r /\ r <= hi * Scale
    BY <2>1, <2>2, <2>3, RoundedBounds
  <2>5. r \in Nat /\ s + rtt \in Nat /\ c + 1 \in 0 .. WarmupWindow /\ c + 1 > 0
    BY <1>1, <1>3, <1>5, <2>3, <2>4
  <2>6. /\ long.value = r /\ long.sum = s + rtt /\ long.count = c + 1
        /\ long \in Long
    BY <2>1, <2>5 DEF Long
  <2>7. QED
    BY <2>2, <2>4, <2>5, <2>6 DEF lo, hi
<1>6. CASE ~(c < WarmupWindow)
  <2>1. c > 0 /\ measured.hi > 0
    BY <1>1, <1>3, <1>6 DEF GradientInv, SumWithin
  <2>2. PICK r \in Rounded(v * (LongWindow - 1) + 2 * rtt * Scale, LongWindow + 1) :
          long = [long_rtt EXCEPT !.value = r]
    BY <1>6 DEF Add
  <2>3. lo * Scale \in Nat /\ hi * Scale \in Nat /\ rtt * Scale \in Nat
    BY <1>1, <1>2, Products
  <2>4. lo * Scale <= rtt * Scale /\ rtt * Scale <= hi * Scale
    BY <1>1, <1>2, Monotone
  <2>5. lo * Scale <= v /\ v <= hi * Scale
    <3>1. measured.lo * Scale <= v /\ v <= measured.hi * Scale
      BY <2>1 DEF GradientInv, BaselineWithinMeasured
    <3>2. lo * Scale <= measured.lo * Scale /\ measured.hi * Scale <= hi * Scale
      BY <1>1, <1>2, <1>3, <2>1, Monotone
    <3>3. measured.lo * Scale \in Nat /\ measured.hi * Scale \in Nat
      BY <1>1, <1>3, Products
    <3>4. QED
      BY <1>3, <2>3, <3>1, <3>2, <3>3
  <2> HIDE DEF lo, hi, c, s, v
  <2>6. 2 * rtt * Scale = 2 * (rtt * Scale)
    BY <1>1
  <2>7. /\ (lo * Scale) * (LongWindow + 1)
             <= v * (LongWindow - 1) + 2 * rtt * Scale
        /\ v * (LongWindow - 1) + 2 * rtt * Scale
             <= (hi * Scale) * (LongWindow + 1)
    BY <1>1, <1>3, <2>3, <2>4, <2>5, <2>6, ExponentialMean
  <2>8. v * (LongWindow - 1) + 2 * rtt * Scale \in Int /\ LongWindow + 1 \in Nat \ {0}
    BY <1>1, <1>3, <2>3, <2>6, Products
  <2>9. r \in Int /\ lo * Scale <= r /\ r <= hi * Scale
    BY <2>2, <2>3, <2>7, <2>8, RoundedBounds
  <2>10. r \in Nat
    BY <2>3, <2>9
  <2>11. /\ long.value = r /\ long.sum = s /\ long.count = c /\ long \in Long
    BY <1>3, <2>2, <2>10 DEF Long, s, c
  <2>12. QED
    BY <1>4, <2>1, <2>9, <2>11 DEF lo, hi
<1>7. QED
  BY <1>5, <1>6

\* The drift correction takes 5 percent off a baseline that is more than twice
\* the RTT, and so leaves one that is above the RTT.
LEMMA CorrectionWithin ==
  ASSUME NEW rtt \in Nat, NEW long \in Long, NEW new \in Corrected(long, rtt)
  PROVE  /\ new \in Long /\ new.sum = long.sum /\ new.count = long.count
         /\ new.value <= long.value
         /\ new.value >= long.value \/ new.value >= rtt * Scale
<1>1. Scale \in Nat /\ long.value \in Nat
  BY Gradient2Assumption DEF Long
<1>2. CASE ~Drifted(long, rtt)
  <2>1. new = long
    BY <1>2 DEF Corrected
  <2>2. QED
    BY <1>1, <2>1
<1>3. CASE Drifted(long, rtt)
  <2>1. PICK r \in Rounded(long.value * 19, 20) :
          new = [long EXCEPT !.value = r]
    BY <1>3 DEF Corrected
  <2>2. rtt * Scale \in Nat
    BY <1>1, Products
  <2>3. 2 * rtt * Scale = 2 * (rtt * Scale)
    BY <1>1
  <2>4. long.value > 2 * (rtt * Scale)
    BY <1>3, <2>3 DEF Drifted
  <2>5. /\ (rtt * Scale) * 20 <= long.value * 19
        /\ long.value * 19 <= long.value * 20
        /\ long.value * 19 \in Int
    BY <1>1, <2>2, <2>4
  <2>6. 20 \in Nat \ {0}
    OBVIOUS
  <2>7. r \in Int /\ rtt * Scale <= r /\ r <= long.value
    <3>1. /\ r \in Int
          /\ \A a \in Int : a * 20 <= long.value * 19 => a <= r
          /\ \A b \in Int : long.value * 19 <= b * 20 => r <= b
      BY <2>1, <2>5, <2>6, RoundedBounds
    <3>2. rtt * Scale \in Int /\ long.value \in Int
      BY <1>1, <2>2
    <3>3. QED
      BY <2>5, <3>1, <3>2
  <2>8. r \in Nat
    BY <2>2, <2>7
  <2>9. QED
    BY <1>1, <2>1, <2>7, <2>8 DEF Long
<1>4. QED
  BY <1>2, <1>3

----------------------------------------------------------------------------
(* The estimate.                                                           *)

\* The constants as the lemmas use them.
LEMMA Constants ==
  /\ Scale \in Nat \ {0} /\ WarmupWindow \in Nat \ {0}
  /\ MinLimit \in Nat /\ MaxConcurrency \in Nat /\ MinLimit <= MaxConcurrency
  /\ Tolerance[1] \in Nat /\ Tolerance[2] \in Nat \ {0}
  /\ Smoothing[1] \in Nat /\ Smoothing[2] \in Nat \ {0}
  /\ Smoothing[1] <= Smoothing[2]
  /\ MinLimit * Scale \in Nat /\ MaxConcurrency * Scale \in Nat
  /\ MinLimit * Scale <= MaxConcurrency * Scale
  /\ \A i \in InitialLimits : i \in Nat /\ i * Scale \in Nat
  /\ \A r \in Rtts : r \in Nat
<1>1. /\ Scale \in Nat \ {0} /\ WarmupWindow \in Nat \ {0}
      /\ MinLimit \in Nat /\ MaxConcurrency \in Nat /\ MinLimit <= MaxConcurrency
      /\ Tolerance[1] \in Nat /\ Tolerance[2] \in Nat \ {0}
      /\ Smoothing[1] \in Nat /\ Smoothing[2] \in Nat \ {0}
      /\ Smoothing[1] <= Smoothing[2]
      /\ \A i \in InitialLimits : i \in Nat
      /\ \A r \in Rtts : r \in Nat
  BY Gradient2Assumption
<1>2. MinLimit * Scale \in Nat /\ MaxConcurrency * Scale \in Nat
  BY <1>1, Products
<1>3. MinLimit * Scale <= MaxConcurrency * Scale
  BY <1>1, Monotone
<1>4. \A i \in InitialLimits : i * Scale \in Nat
  BY <1>1, Products
<1>5. QED
  BY <1>1, <1>2, <1>3, <1>4

\* The whole part of a number of units between two whole caps.
LEMMA WholePart ==
  ASSUME NEW a \in Nat, NEW b \in Nat, NEW e \in Nat,
         a * Scale <= e, e <= b * Scale
  PROVE  e \div Scale \in a .. b
<1> DEFINE q == e \div Scale
<1>1. q \in Int /\ q * Scale <= e /\ e < (q + 1) * Scale
  BY Constants, Quotient
<1> HIDE DEF q
<1>2. b * Scale < (b + 1) * Scale /\ a * Scale \in Nat /\ b * Scale \in Nat
  BY Constants, Products
<1>3. q * Scale \in Int /\ (q + 1) * Scale \in Int /\ (b + 1) * Scale \in Int
  BY <1>1, Constants
<1>4. a * Scale < (q + 1) * Scale /\ q * Scale < (b + 1) * Scale
  BY <1>1, <1>2, <1>3
<1>5. a < q + 1 /\ q < b + 1
  BY <1>1, <1>4, Constants, Cancel
<1>6. q \in a .. b
  BY <1>1, <1>5
<1>7. QED
  BY <1>6 DEF q

\* The cap is one QueueSizeFn was given a number of slots for.
LEMMA EstimateRange ==
  ASSUME TypeOK
  PROVE  estimated_limit \in Nat /\ QueueSizeFn(limit) \in Nat
<1>1. CASE estimated_limit \in {i * Scale : i \in InitialLimits}
  <2>1. PICK i \in InitialLimits : estimated_limit = i * Scale
    BY <1>1
  <2>2. i \in Nat /\ estimated_limit \in Nat
    BY <2>1, Constants
  <2>3. limit \in i .. i
    BY <2>1, <2>2, WholePart DEF TypeOK
  <2>4. limit = i
    BY <2>2, <2>3
  <2>5. QED
    BY <2>2, <2>4, Gradient2Assumption
<1>2. CASE estimated_limit \in (MinLimit * Scale) .. (MaxConcurrency * Scale)
  <2>1. estimated_limit \in Nat
    BY <1>2, Constants
  <2>2. limit \in MinLimit .. MaxConcurrency
    <3>1. /\ MinLimit * Scale <= estimated_limit
          /\ estimated_limit <= MaxConcurrency * Scale
      BY <1>2, Constants
    <3>2. MinLimit \in Nat /\ MaxConcurrency \in Nat
      BY Constants
    <3>3. estimated_limit \div Scale \in MinLimit .. MaxConcurrency
      BY <2>1, <3>1, <3>2, WholePart
    <3>4. QED
      BY <3>3 DEF TypeOK
  <2>3. QED
    BY <2>1, <2>2, Gradient2Assumption
<1>3. QED
  BY <1>1, <1>2 DEF TypeOK

\* The clamp keeps the configured range and lowers only what is above it.
LEMMA ClampedRange ==
  ASSUME NEW e \in Int
  PROVE  /\ Clamped(e) \in (MinLimit * Scale) .. (MaxConcurrency * Scale)
         /\ Clamped(e) >= e \/ Clamped(e) = MaxConcurrency * Scale
<1> DEFINE lo == MinLimit * Scale
           hi == MaxConcurrency * Scale
           m == IF hi <= e THEN hi ELSE e
<1>1. lo \in Nat /\ hi \in Nat /\ lo <= hi
  BY Constants
<1>2. Clamped(e) = Max({lo, Min({hi, e})})
  BY DEF Clamped
<1> HIDE DEF lo, hi
<1>3. Min({hi, e}) = m /\ m \in Int
  BY <1>1, PairMin
<1>4. Clamped(e) = IF lo >= m THEN lo ELSE m
  BY <1>1, <1>2, <1>3, PairMax
<1>5. Clamped(e) \in lo .. hi /\ (Clamped(e) >= e \/ Clamped(e) = hi)
  BY <1>1, <1>4
<1>6. QED
  BY <1>5 DEF lo, hi

\* The gradient is a fraction between one half and one, and is one when the
\* tolerance times the baseline is not below the RTT.
LEMMA GradientRange ==
  ASSUME NEW rtt \in Rtts, rtt > 0, NEW long \in Long
  PROVE  LET g == Gradient(long, rtt)[1]
             d == Gradient(long, rtt)[2]
         IN  /\ d \in Nat \ {0} /\ g \in Nat /\ 2 * g >= d
             /\ rtt * Scale * Tolerance[2] <= Tolerance[1] * long.value => g = d
<1> DEFINE h == Tolerance[2] * rtt * Scale
           p == Tolerance[1] * long.value
           n == 2 * Tolerance[1] * long.value
           d == 2 * Tolerance[2] * rtt * Scale
<1>1. rtt \in Nat \ {0} /\ long.value \in Nat
  BY Constants DEF Long
<1>2. Tolerance[2] * rtt \in Nat \ {0}
  BY <1>1, Constants, Products
<1>3. h \in Nat \ {0} /\ p \in Nat
  BY <1>1, <1>2, Constants, Products
<1>4. n = 2 * p /\ d = 2 * h /\ rtt * Scale * Tolerance[2] = h
  BY <1>1, Constants
<1>5. Gradient(long, rtt) = <<Max({d \div 2, Min({d, n})}), d>>
  BY DEF Gradient
<1> HIDE DEF h, p, n, d
<1>6. d \div 2 = h /\ n \in Nat /\ d \in Nat
  BY <1>3, <1>4
<1>7. Min({d, n}) = IF d <= n THEN d ELSE n
  BY <1>6, PairMin
<1>8. Min({d, n}) \in Nat
  BY <1>6, <1>7
<1>9. Max({d \div 2, Min({d, n})}) = IF h >= Min({d, n}) THEN h ELSE Min({d, n})
  BY <1>3, <1>6, <1>8, PairMax
<1> DEFINE g == Max({d \div 2, Min({d, n})})
<1>10. g \in Nat /\ 2 * g >= d /\ d \in Nat \ {0} /\ (h <= p => g = d)
  BY <1>3, <1>4, <1>6, <1>7, <1>8, <1>9
<1> HIDE DEF g
<1>11. Gradient(long, rtt)[1] = g /\ Gradient(long, rtt)[2] = d
  BY <1>5 DEF g
<1>12. QED
  BY <1>4, <1>10, <1>11 DEF p

\* Blending with the old estimate keeps what both sides are above of.
LEMMA Blend ==
  ASSUME NEW a \in Nat, NEW old \in Nat, NEW raised \in Nat,
         NEW d \in Nat \ {0}, NEW s1 \in Nat, NEW s2 \in Nat \ {0}, s1 <= s2,
         a <= old, a * d <= raised
  PROVE  /\ d * s2 \in Nat \ {0}
         /\ old * d * (s2 - s1) + raised * s1 \in Nat
         /\ a * (d * s2) <= old * d * (s2 - s1) + raised * s1
<1>1. d * s2 \in Nat \ {0}
  BY Products
<1>2. s2 - s1 \in Nat /\ old * d \in Nat /\ a * d \in Nat
  BY Products
<1>3. old * d * (s2 - s1) \in Nat /\ raised * s1 \in Nat
  BY <1>2, Products
<1>4. a * d <= old * d
  BY Monotone
<1>5. (a * d) * (s2 - s1) <= old * d * (s2 - s1) /\ (a * d) * s1 <= raised * s1
  BY <1>2, <1>4, Monotone
<1>6. a * (d * s2) = (a * d) * (s2 - s1) + (a * d) * s1
  OBVIOUS
<1>7. (a * d) * (s2 - s1) \in Nat /\ (a * d) * s1 \in Nat
  BY <1>2, Products
<1>8. QED
  BY <1>1, <1>3, <1>5, <1>6, <1>7

\* A new estimate is in the configured range, and not below a value that the
\* old estimate, the raised one and the maximum are not below.
LEMMA NewLimitsRange ==
  ASSUME TypeOK, NEW rtt \in Rtts, rtt > 0, NEW long \in Long,
         NEW e \in NewLimits(long, rtt)
  PROVE  LET g == Gradient(long, rtt)[1]
             d == Gradient(long, rtt)[2]
             raised == estimated_limit * g + QueueSizeFn(limit) * Scale * d
         IN  /\ raised \in Nat
             /\ e \in (MinLimit * Scale) .. (MaxConcurrency * Scale)
             /\ \A a \in Nat : /\ a <= estimated_limit
                               /\ a <= MaxConcurrency * Scale
                               /\ a * d <= raised
                               => a <= e
<1> DEFINE g == Gradient(long, rtt)[1]
           d == Gradient(long, rtt)[2]
           raised == estimated_limit * g + QueueSizeFn(limit) * Scale * d
           blended == estimated_limit * d * (Smoothing[2] - Smoothing[1])
                        + raised * Smoothing[1]
<1>1. d \in Nat \ {0} /\ g \in Nat
  BY GradientRange
<1>2. PICK r \in Rounded(blended, d * Smoothing[2]) : e = Clamped(r)
  BY DEF NewLimits
<1>3. estimated_limit \in Nat /\ QueueSizeFn(limit) \in Nat
  BY EstimateRange
<1>4. raised \in Nat
  <2>1. QueueSizeFn(limit) * Scale \in Nat /\ estimated_limit * g \in Nat
    BY <1>1, <1>3, Constants, Products
  <2>2. QueueSizeFn(limit) * Scale * d \in Nat
    BY <1>1, <2>1, Products
  <2>3. QED
    BY <2>1, <2>2
<1> HIDE DEF g, d, raised
<1>5. 0 * d <= raised
  BY <1>1, <1>4
<1>6. d * Smoothing[2] \in Nat \ {0} /\ blended \in Nat
  BY <1>1, <1>3, <1>4, <1>5, Constants, Blend
<1>7. ASSUME NEW a \in Nat, a <= estimated_limit, a * d <= raised
      PROVE  a * (d * Smoothing[2]) <= blended
  BY <1>1, <1>3, <1>4, <1>7, Constants, Blend
<1> HIDE DEF blended
<1>8. r \in Int /\ \A a \in Int : a * (d * Smoothing[2]) <= blended => a <= r
  BY <1>2, <1>6, RoundedBounds
<1>9. /\ e \in (MinLimit * Scale) .. (MaxConcurrency * Scale)
      /\ e >= r \/ e = MaxConcurrency * Scale
  BY <1>2, <1>8, ClampedRange
<1>10. e \in Int
  BY <1>9, Constants
<1>11. ASSUME NEW a \in Nat, a <= estimated_limit, a <= MaxConcurrency * Scale,
              a * d <= raised
       PROVE  a <= e
  <2>1. a <= r
    BY <1>7, <1>8, <1>11
  <2>2. QED
    BY <1>8, <1>9, <1>10, <1>11, <2>1, Constants
<1>12. QED
  BY <1>4, <1>9, <1>11 DEF g, d, raised

----------------------------------------------------------------------------
(* The theorems.                                                           *)

\* A sample with a latency, whether or not the cap is touched, keeps what the
\* invariant says of the baseline.
LEMMA MeasureStep ==
  ASSUME GradientInv, NEW rtt \in Rtts, NEW inflight \in Inflights,
         NEW long \in Add(rtt), Measure(rtt, inflight, long)
  PROVE  /\ rtt > 0 /\ long \in Long
         /\ measured' = Widened(rtt)
         /\ measured'.lo * Scale <= long.value
         /\ long_rtt' \in Long /\ measured' \in [lo : Nat, hi : Nat]
         /\ BaselineWithinMeasured' /\ SumWithin'
<1> DEFINE lo == Widened(rtt).lo
           hi == Widened(rtt).hi
<1>1. rtt \in Nat /\ rtt > 0 /\ Scale \in Nat
  BY Constants DEF Measure
<1>2. measured' = Widened(rtt) /\ long_rtt' \in Corrected(long, rtt)
  BY DEF Measure, Widened
<1>3. /\ Widened(rtt) \in [lo : Nat, hi : Nat] /\ lo \in Nat /\ hi \in Nat
      /\ hi > 0 /\ lo <= rtt /\ rtt <= hi
  BY <1>1, WidenedRange DEF GradientInv
<1>4. /\ long \in Long /\ lo * Scale <= long.value /\ long.value <= hi * Scale
      /\ long.count > 0 /\ lo * long.count <= long.sum
      /\ long.sum <= hi * long.count
  BY <1>1, AddWithin
<1>5. /\ long_rtt' \in Long /\ long_rtt'.sum = long.sum
      /\ long_rtt'.count = long.count /\ long_rtt'.value <= long.value
      /\ long_rtt'.value >= long.value \/ long_rtt'.value >= rtt * Scale
  BY <1>1, <1>2, <1>4, CorrectionWithin
<1>6. lo * Scale <= rtt * Scale
  BY <1>1, <1>3, Monotone
<1>7. lo * Scale \in Nat /\ hi * Scale \in Nat /\ rtt * Scale \in Nat
      /\ long.value \in Nat /\ long_rtt'.value \in Nat
  BY <1>1, <1>3, <1>4, <1>5, Products DEF Long
<1>8. measured'.lo = lo /\ measured'.hi = hi
  BY <1>2
<1> HIDE DEF lo, hi
<1>9. lo * Scale <= long_rtt'.value /\ long_rtt'.value <= hi * Scale
  BY <1>4, <1>5, <1>6, <1>7
<1>10. BaselineWithinMeasured'
  BY <1>8, <1>9 DEF BaselineWithinMeasured
<1>11. SumWithin'
  BY <1>3, <1>4, <1>5, <1>8 DEF SumWithin
<1>12. QED
  BY <1>1, <1>2, <1>3, <1>4, <1>5, <1>8, <1>10, <1>11

\* The history of the last sample has its type.
LEMMA RememberType ==
  ASSUME parity \in {0, 1}, NEW rtt \in Rtts, NEW inflight, Remember(rtt, inflight)
  PROVE  sample' \in [rtt : Rtts \cup {0}, full : BOOLEAN] /\ parity' \in {0, 1}
<1>1. sample' = [rtt |-> rtt, full |-> inflight >= limit] /\ parity' = 1 - parity
  BY DEF Remember
<1>2. (inflight >= limit) \in BOOLEAN
  OBVIOUS
<1>3. parity' \in {0, 1}
  BY <1>1
<1>4. QED
  BY <1>1, <1>2, <1>3

\* An unchanged estimate stored again gives the cap it gave before.
LEMMA SameEstimate ==
  ASSUME TypeOK, SetLimit(estimated_limit)
  PROVE  estimated_limit' = estimated_limit /\ limit' = limit
BY DEF TypeOK, SetLimit

\* Every sample preserves the invariant.
LEMMA GradientStep == GradientInv /\ [Next]_vars => GradientInv'
<1> SUFFICES ASSUME GradientInv, [Next]_vars PROVE GradientInv'
  OBVIOUS
<1>1. ASSUME NEW rtt \in Rtts, NEW inflight \in Inflights,
             IgnoreZeroRtt(rtt, inflight)
      PROVE  GradientInv'
  <2>1. UNCHANGED <<long_rtt, measured>> /\ Remember(rtt, inflight)
    BY <1>1 DEF IgnoreZeroRtt
  <2>2. estimated_limit' = estimated_limit /\ limit' = limit
    BY <1>1, SameEstimate DEF IgnoreZeroRtt, GradientInv
  <2>3. sample' \in [rtt : Rtts \cup {0}, full : BOOLEAN] /\ parity' \in {0, 1}
    BY <2>1, RememberType DEF GradientInv, TypeOK
  <2>4. QED
    BY <2>1, <2>2, <2>3 DEF GradientInv, TypeOK, BaselineWithinMeasured, SumWithin
<1>2. ASSUME NEW rtt \in Rtts, NEW inflight \in Inflights,
             SkipAppLimited(rtt, inflight)
      PROVE  GradientInv'
  <2>1. PICK long \in Add(rtt) : Measure(rtt, inflight, long)
                                 /\ SetLimit(estimated_limit)
    BY <1>2 DEF SkipAppLimited
  <2>2. estimated_limit' = estimated_limit /\ limit' = limit
    BY <2>1, SameEstimate DEF GradientInv
  <2>3. sample' \in [rtt : Rtts \cup {0}, full : BOOLEAN] /\ parity' \in {0, 1}
    BY <2>1, RememberType DEF GradientInv, TypeOK, Measure
  <2>4. /\ long_rtt' \in Long /\ measured' \in [lo : Nat, hi : Nat]
        /\ BaselineWithinMeasured' /\ SumWithin'
    BY <2>1, MeasureStep
  <2>5. QED
    BY <2>2, <2>3, <2>4 DEF GradientInv, TypeOK, Long
<1>3. ASSUME NEW rtt \in Rtts, NEW inflight \in Inflights, Adapt(rtt, inflight)
      PROVE  GradientInv'
  <2>1. PICK long \in Add(rtt) : /\ Measure(rtt, inflight, long)
                                 /\ \E e \in NewLimits(long, rtt) : SetLimit(e)
    BY <1>3 DEF Adapt
  <2>2. PICK e \in NewLimits(long, rtt) : SetLimit(e)
    BY <2>1
  <2>3. /\ rtt > 0 /\ long \in Long
        /\ long_rtt' \in Long /\ measured' \in [lo : Nat, hi : Nat]
        /\ BaselineWithinMeasured' /\ SumWithin'
    BY <2>1, MeasureStep
  <2>4. e \in (MinLimit * Scale) .. (MaxConcurrency * Scale)
    BY <2>2, <2>3, NewLimitsRange DEF GradientInv
  <2>5. estimated_limit' = e /\ limit' = e \div Scale
    BY <2>2 DEF SetLimit
  <2>6. limit' \in Nat
    <3>1. e \in Nat /\ MinLimit * Scale <= e /\ e <= MaxConcurrency * Scale
          /\ MinLimit \in Nat /\ MaxConcurrency \in Nat
      BY <2>4, Constants
    <3>2. e \div Scale \in MinLimit .. MaxConcurrency
      BY <3>1, WholePart
    <3>3. QED
      BY <2>5, <3>1, <3>2
  <2>7. sample' \in [rtt : Rtts \cup {0}, full : BOOLEAN] /\ parity' \in {0, 1}
    BY <2>1, RememberType DEF GradientInv, TypeOK, Measure
  <2>8. QED
    BY <2>3, <2>4, <2>5, <2>6, <2>7 DEF GradientInv, TypeOK, Long
<1>4. CASE UNCHANGED vars
  BY <1>4 DEF vars, GradientInv, TypeOK, BaselineWithinMeasured, SumWithin
<1>5. QED
  BY <1>1, <1>2, <1>3, <1>4 DEF Next, OnSample

\* The invariant holds of a new limit, whatever its initial cap.
LEMMA GradientInit == Init => GradientInv
<1> SUFFICES ASSUME Init PROVE GradientInv
  OBVIOUS
<1>1. PICK i \in InitialLimits : limit = i /\ estimated_limit = i * Scale
  BY DEF Init
<1>2. i \in Nat /\ i * Scale \in Nat
  BY Constants
<1>3. (i * Scale) \div Scale \in i .. i
  BY <1>2, WholePart
<1>4. limit \in Nat /\ limit = estimated_limit \div Scale
  BY <1>1, <1>2, <1>3
<1>5. long_rtt \in [value : Nat, sum : Nat, count : 0 .. WarmupWindow]
  BY Constants DEF Init
<1>6. sample \in [rtt : Rtts \cup {0}, full : BOOLEAN]
  BY DEF Init
<1>7. measured \in [lo : Nat, hi : Nat] /\ parity \in {0, 1}
  BY DEF Init
<1>8. TypeOK
  BY <1>1, <1>4, <1>5, <1>6, <1>7 DEF TypeOK
<1>9. BaselineWithinMeasured /\ SumWithin
  BY DEF Init, BaselineWithinMeasured, SumWithin
<1>10. QED
  BY <1>8, <1>9 DEF GradientInv

\* GradientInv is an invariant of Gradient2Limit.
THEOREM Invariance == Spec => []GradientInv
BY GradientInit, GradientStep, PTL DEF Spec

\* Type correctness: the cap is the whole part of the estimate and, once it has
\* changed, within MinLimit and MaxConcurrency, for every configuration.
THEOREM TypeCorrect == Spec => []TypeOK
<1>1. GradientInv => TypeOK
  BY DEF GradientInv
<1>2. QED
  BY <1>1, Invariance, PTL

\* The baseline never leaves the range of the RTTs measured, for every warm-up,
\* window length, tolerance and sequence of RTTs.
THEOREM BaselineMeasured == Spec => []BaselineWithinMeasured
<1>1. GradientInv => BaselineWithinMeasured
  BY DEF GradientInv
<1>2. QED
  BY <1>1, Invariance, PTL

\* A sample the tolerance covers, compared with the best RTT so far, has the
\* gradient one.
LEMMA Tolerated ==
  ASSUME NEW rtt \in Nat, NEW lo \in Nat, NEW value \in Nat,
         lo * Scale <= value, rtt * Tolerance[2] <= Tolerance[1] * lo
  PROVE  rtt * Scale * Tolerance[2] <= Tolerance[1] * value
<1> DEFINE t1 == Tolerance[1]
           t2 == Tolerance[2]
<1>1. t1 \in Nat /\ t2 \in Nat /\ Scale \in Nat
  BY Constants
<1>2. rtt * t2 <= t1 * lo
  OBVIOUS
<1> HIDE DEF t1, t2
<1>3. rtt * t2 \in Nat /\ t1 * lo \in Nat /\ lo * Scale \in Nat
  BY <1>1, Products
<1>4. (rtt * t2) * Scale <= (t1 * lo) * Scale
  BY <1>1, <1>2, <1>3, Monotone
<1>5. (lo * Scale) * t1 <= value * t1
  BY <1>1, <1>3, Monotone
<1>6. /\ rtt * Scale * t2 = (rtt * t2) * Scale
      /\ (t1 * lo) * Scale = (lo * Scale) * t1
      /\ value * t1 = t1 * value
  BY <1>1
<1>7. (rtt * t2) * Scale \in Nat /\ (lo * Scale) * t1 \in Nat /\ value * t1 \in Nat
  BY <1>1, <1>3, Products
<1>8. rtt * Scale * t2 <= t1 * value
  BY <1>4, <1>5, <1>6, <1>7
<1>9. QED
  BY <1>8 DEF t1, t2

\* What an Adapt step computes, as the two action properties use it.
LEMMA AdaptStep ==
  ASSUME GradientInv, NEW rtt \in Rtts, NEW inflight \in Inflights,
         Adapt(rtt, inflight)
  PROVE  \E long \in Long :
           LET g == Gradient(long, rtt)[1]
               d == Gradient(long, rtt)[2]
               raised == estimated_limit * g + QueueSizeFn(limit) * Scale * d
           IN  /\ rtt > 0 /\ sample'.rtt = rtt
               /\ measured'.lo \in Nat /\ measured'.lo * Scale <= long.value
               /\ estimated_limit' \in Nat
               /\ d \in Nat \ {0} /\ g \in Nat /\ 2 * g >= d
               /\ rtt * Scale * Tolerance[2] <= Tolerance[1] * long.value => g = d
               /\ \A a \in Nat : /\ a <= estimated_limit
                                 /\ a <= MaxConcurrency * Scale
                                 /\ a * d <= raised
                                 => a <= estimated_limit'
<1>1. PICK long \in Add(rtt) : /\ Measure(rtt, inflight, long)
                               /\ \E e \in NewLimits(long, rtt) : SetLimit(e)
  BY DEF Adapt
<1>2. PICK e \in NewLimits(long, rtt) : SetLimit(e)
  BY <1>1
<1>3. /\ rtt > 0 /\ long \in Long /\ measured' \in [lo : Nat, hi : Nat]
      /\ measured'.lo * Scale <= long.value
  BY <1>1, MeasureStep
<1>4. sample'.rtt = rtt /\ estimated_limit' = e
  BY <1>1, <1>2 DEF Measure, Remember, SetLimit
<1> DEFINE g == Gradient(long, rtt)[1]
           d == Gradient(long, rtt)[2]
           raised == estimated_limit * g + QueueSizeFn(limit) * Scale * d
<1>5. /\ d \in Nat \ {0} /\ g \in Nat /\ 2 * g >= d
      /\ rtt * Scale * Tolerance[2] <= Tolerance[1] * long.value => g = d
  BY <1>3, GradientRange
<1>6. /\ e \in (MinLimit * Scale) .. (MaxConcurrency * Scale)
      /\ \A a \in Nat : /\ a <= estimated_limit
                        /\ a <= MaxConcurrency * Scale
                        /\ a * d <= raised
                        => a <= e
  BY <1>2, <1>3, NewLimitsRange DEF GradientInv
<1>7. e \in Nat
  BY <1>6, Constants
<1>8. QED
  BY <1>3, <1>4, <1>5, <1>6, <1>7

\* Only Adapt moves the estimate.
LEMMA OnlyAdaptMoves ==
  ASSUME GradientInv, [Next]_vars
  PROVE  \/ estimated_limit' = estimated_limit
         \/ \E rtt \in Rtts, inflight \in Inflights : Adapt(rtt, inflight)
<1>1. ASSUME NEW rtt \in Rtts, NEW inflight \in Inflights,
             IgnoreZeroRtt(rtt, inflight) \/ SkipAppLimited(rtt, inflight)
      PROVE  estimated_limit' = estimated_limit
  BY <1>1 DEF IgnoreZeroRtt, SkipAppLimited, SetLimit
<1>2. QED
  BY <1>1 DEF Next, OnSample, vars

\* The cap falls only for a latency above the tolerance times the best one, or
\* from above the maximum, for every configuration.
THEOREM ShrinkNeedsLatency == Spec => ShrinksOnlyOnLatency
<1> DEFINE Latency == sample'.rtt * Tolerance[2] > Tolerance[1] * measured'.lo
           Shrinks == estimated_limit' < estimated_limit =>
                        Latency \/ estimated_limit > MaxConcurrency * Scale
<1>1. GradientInv /\ [Next]_vars => Shrinks
  <2> SUFFICES ASSUME GradientInv, [Next]_vars, ~Latency,
                      ~(estimated_limit > MaxConcurrency * Scale)
               PROVE  ~(estimated_limit' < estimated_limit)
    OBVIOUS
  <2>1. estimated_limit \in Nat /\ QueueSizeFn(limit) \in Nat
    BY EstimateRange DEF GradientInv
  <2>2. CASE estimated_limit' = estimated_limit
    BY <2>1, <2>2
  <2>3. ASSUME NEW rtt \in Rtts, NEW inflight \in Inflights, Adapt(rtt, inflight)
        PROVE  ~(estimated_limit' < estimated_limit)
    <3> DEFINE g(long) == Gradient(long, rtt)[1]
               d(long) == Gradient(long, rtt)[2]
               raised(long) == estimated_limit * g(long)
                                 + QueueSizeFn(limit) * Scale * d(long)
    <3>1. PICK long \in Long :
            /\ rtt > 0 /\ sample'.rtt = rtt
            /\ measured'.lo \in Nat /\ measured'.lo * Scale <= long.value
            /\ estimated_limit' \in Nat
            /\ d(long) \in Nat \ {0} /\ g(long) \in Nat
            /\ rtt * Scale * Tolerance[2] <= Tolerance[1] * long.value
                 => g(long) = d(long)
            /\ \A a \in Nat : /\ a <= estimated_limit
                              /\ a <= MaxConcurrency * Scale
                              /\ a * d(long) <= raised(long)
                              => a <= estimated_limit'
      BY <2>3, AdaptStep
    <3> HIDE DEF g, d
    <3>2. rtt \in Nat /\ long.value \in Nat
      BY Constants DEF Long
    <3>3. rtt * Tolerance[2] <= Tolerance[1] * measured'.lo
      <4>1. rtt * Tolerance[2] \in Nat /\ Tolerance[1] * measured'.lo \in Nat
        BY <3>1, <3>2, Constants, Products
      <4>2. QED
        BY <3>1, <4>1
    <3>4. g(long) = d(long)
      BY <3>1, <3>2, <3>3, Tolerated
    <3>5. QueueSizeFn(limit) * Scale * d(long) \in Nat
      <4>1. QueueSizeFn(limit) * Scale \in Nat
        BY <2>1, Constants, Products
      <4>2. QED
        BY <3>1, <4>1, Products
    <3>6. estimated_limit * d(long) \in Nat
      BY <2>1, <3>1, Products
    <3>7. estimated_limit * d(long) <= raised(long)
      BY <3>4, <3>5, <3>6
    <3> HIDE DEF raised
    <3>8. estimated_limit <= estimated_limit'
      BY <2>1, <3>1, <3>7, Constants
    <3>9. QED
      BY <2>1, <3>1, <3>8
  <2>4. QED
    BY <2>2, <2>3, OnlyAdaptMoves
<1>2. QED
  BY <1>1, Invariance, PTL DEF Spec, ShrinksOnlyOnLatency

\* A set of natural numbers has a smallest element.
LEMMA LeastNatural ==
  ASSUME NEW T, T \subseteq Nat, T # {}
  PROVE  Min(T) \in T
<1> DEFINE R == OpToRel(<, Nat)
<1>1. PICK x \in T : \A y \in T : <<y, x>> \notin R
  BY NatLessThanWellFounded, WFMin, Zenon
<1>2. R = {ss \in Nat \X Nat : ss[1] < ss[2]}
  BY Zenon DEF OpToRel
<1> HIDE DEF R
<1>3. ASSUME NEW y \in T PROVE x <= y
  <2>1. ~(y < x)
    <3>1. <<y, x>> \notin R /\ <<y, x>> \in Nat \X Nat
      BY <1>1
    <3>2. QED
      BY <1>2, <3>1
  <2>2. QED
    BY <2>1
<1>4. QED
  BY <1>3 DEF Min

\* The default probe is at least two for a cap of four or more.
LEMMA ProbeOfFour ==
  ASSUME NEW cap \in Nat, cap >= 4
  PROVE  DefaultSqrtQueueSize(cap) \in Nat /\ DefaultSqrtQueueSize(cap) >= 2
<1> DEFINE T == {n \in 1 .. (cap + 1) : n * n >= cap}
<1>1. cap * cap >= cap
  OBVIOUS
<1>2. cap \in T /\ T \subseteq Nat
  BY <1>1
<1>3. Min(T) \in T
  BY <1>2, LeastNatural
<1>4. Min(T) \in 1 .. (cap + 1) /\ Min(T) * Min(T) >= cap
  BY <1>3
<1>5. Min(T) \in Nat /\ Min(T) # 0
  BY <1>4
<1>6. Min(T) # 1
  BY <1>4
<1>7. QED
  BY <1>5, <1>6 DEF DefaultSqrtQueueSize

\* Half of an estimate of four or more, and a probe of two, make four.
LEMMA HalfAndProbe ==
  ASSUME NEW e \in Nat, NEW g \in Nat, NEW d \in Nat, NEW q \in Nat,
         NEW u \in Nat, 2 * g >= d, e >= 4 * u, q >= 2
  PROVE  (4 * u) * d <= e * g + q * u * d
<1>1. u * d \in Nat /\ u * g \in Nat /\ e * g \in Nat /\ q * (u * d) \in Nat
  BY Products
<1>2. (4 * u) * g <= e * g
  BY Monotone
<1>3. d * u <= (2 * g) * u
  BY Monotone
<1>4. 2 * (u * d) <= q * (u * d)
  BY <1>1, Monotone
<1>5. /\ (4 * u) * g = 4 * (u * g) /\ d * u = u * d /\ (2 * g) * u = 2 * (u * g)
      /\ q * u * d = q * (u * d) /\ (4 * u) * d = 4 * (u * d)
  OBVIOUS
<1>6. QED
  BY <1>1, <1>2, <1>3, <1>4, <1>5

\* With the default probe an estimate of four or more stays four or more, for
\* every tolerance, smoothing, MinLimit and sequence of RTTs.
THEOREM ProbeFloor ==
  ASSUME \A cap \in Nat : QueueSizeFn(cap) = DefaultSqrtQueueSize(cap)
  PROVE  Spec => ProbeKeepsFour
<1> DEFINE Keeps == estimated_limit >= 4 * Scale /\ MaxConcurrency >= 4
                      => estimated_limit' >= 4 * Scale
<1>1. GradientInv /\ [Next]_vars => Keeps
  <2> SUFFICES ASSUME GradientInv, [Next]_vars, estimated_limit >= 4 * Scale,
                      MaxConcurrency >= 4
               PROVE  estimated_limit' >= 4 * Scale
    OBVIOUS
  <2>1. /\ estimated_limit \in Nat /\ limit \in Nat /\ Scale \in Nat \ {0}
        /\ 4 * Scale \in Nat
    BY EstimateRange, Constants DEF GradientInv, TypeOK
  <2>2. limit >= 4
    <3>1. limit \in Int /\ estimated_limit < (limit + 1) * Scale
      BY <2>1, Quotient DEF GradientInv, TypeOK
    <3>2. 4 * Scale < (limit + 1) * Scale
      BY <2>1, <3>1
    <3>3. 4 < limit + 1
      BY <2>1, <3>2, Cancel
    <3>4. QED
      BY <2>1, <3>3
  <2>3. QueueSizeFn(limit) \in Nat /\ QueueSizeFn(limit) >= 2
    BY <2>1, <2>2, ProbeOfFour
  <2>4. 4 * Scale <= MaxConcurrency * Scale
    BY <2>1, Constants, Monotone
  <2>5. CASE estimated_limit' = estimated_limit
    BY <2>1, <2>5
  <2>6. ASSUME NEW rtt \in Rtts, NEW inflight \in Inflights, Adapt(rtt, inflight)
        PROVE  estimated_limit' >= 4 * Scale
    <3> DEFINE g(long) == Gradient(long, rtt)[1]
               d(long) == Gradient(long, rtt)[2]
               raised(long) == estimated_limit * g(long)
                                 + QueueSizeFn(limit) * Scale * d(long)
    <3>1. PICK long \in Long :
            /\ estimated_limit' \in Nat
            /\ d(long) \in Nat \ {0} /\ g(long) \in Nat /\ 2 * g(long) >= d(long)
            /\ \A a \in Nat : /\ a <= estimated_limit
                              /\ a <= MaxConcurrency * Scale
                              /\ a * d(long) <= raised(long)
                              => a <= estimated_limit'
      BY <2>6, AdaptStep
    <3> HIDE DEF g, d
    <3>2. (4 * Scale) * d(long) <= raised(long)
      BY <2>1, <2>3, <3>1, HalfAndProbe
    <3> HIDE DEF raised
    <3>3. 4 * Scale <= estimated_limit'
      BY <2>1, <2>4, <3>1, <3>2
    <3>4. QED
      BY <2>1, <3>1, <3>3
  <2>7. QED
    BY <2>5, <2>6, OnlyAdaptMoves
<1>2. QED
  BY <1>1, Invariance, PTL DEF Spec, ProbeKeepsFour
===========================================================================
