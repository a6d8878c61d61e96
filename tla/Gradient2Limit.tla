--------------------------- MODULE Gradient2Limit ---------------------------
(***************************************************************************)
(* Gradient2Limit with its long-term baseline, an ExpAvgMeasurement.       *)
(* AbstractLimit::OnSample holds mu_ around Update and the store of the    *)
(* new cap, so one sample is one step, whichever thread delivers it.       *)
(*                                                                         *)
(* The doubles estimated_limit_ and value_ are counted in units of         *)
(* 1/Scale.  A formula of the code is evaluated exactly and its result     *)
(* rounded to either neighbouring unit: an error far coarser than that of  *)
(* a double, except where the exact result is a whole number of units.     *)
(***************************************************************************)
EXTENDS Integers, FiniteSetsExt

CONSTANTS Scale,            \* units in one
          InitialLimits,    \* Builder::InitialLimit; not checked against the next two
          MinLimit,         \* Builder::MinLimit
          MaxConcurrency,   \* Builder::MaxConcurrency
          QueueSizeFn(_),   \* Builder::QueueSize
          Tolerance,        \* Builder::RttTolerance, a fraction <<n, d>>
          Smoothing,        \* Builder::Smoothing, a fraction <<n, d>>
          LongWindow,       \* Builder::LongWindow
          WarmupWindow,     \* 10 in the code
          Rtts,             \* the RTTs a window may report
          Inflights         \* and the in-flight maxima

\* The builder checks none of this; its comments ask for the two fractions, and
\* a probe is a number of slots.
ASSUME Gradient2Assumption ==
  /\ {Scale, WarmupWindow, LongWindow} \subseteq Nat \ {0}
  /\ MinLimit \in Nat /\ MaxConcurrency \in Nat /\ MinLimit <= MaxConcurrency
  /\ \A f \in {Tolerance, Smoothing} : f[1] \in Nat /\ f[2] \in Nat \ {0}
  /\ Tolerance[1] >= Tolerance[2] /\ Smoothing[1] <= Smoothing[2]
  /\ \A s \in {InitialLimits, Rtts, Inflights} : s \subseteq Nat
  /\ \A l \in InitialLimits \union (MinLimit .. MaxConcurrency) :
       QueueSizeFn(l) \in Nat

VARIABLES
  estimated_limit,   \* estimated_limit_, in units
  limit,             \* limit_ of AbstractLimit
  long_rtt,          \* long_rtt_: value_ in units, sum_, count_
  sample,            \* history: the last sample, and whether it used the whole cap
  measured,          \* history: the smallest and the largest RTT, 0 before one
  parity             \* history: changes with every sample

vars == <<estimated_limit, limit, long_rtt, sample, measured, parity>>

Rounded(n, d) == {n \div d, -((-n) \div d)}

\* The smallest whole number whose square is at least the cap, at least one.
DefaultSqrtQueueSize(cap) ==
  Min({n \in 1 .. (cap + 1) : n * n >= cap})

Init ==
  /\ \E i \in InitialLimits : limit = i /\ estimated_limit = i * Scale
  /\ long_rtt = [value |-> 0, sum |-> 0, count |-> 0]
  /\ sample = [rtt |-> 0, full |-> FALSE]
  /\ measured = [lo |-> 0, hi |-> 0]
  /\ parity = 0

\* What long_rtt_ may be after Add(rtt): a plain mean during the warm-up, then
\* an exponential one with factor 2 / (window + 1).
Add(rtt) ==
  IF long_rtt.count < WarmupWindow
  THEN LET n == long_rtt.count + 1
           s == long_rtt.sum + rtt
       IN  {[value |-> v, sum |-> s, count |-> n] : v \in Rounded(s * Scale, n)}
  ELSE {[long_rtt EXCEPT !.value = v] :
          v \in Rounded(long_rtt.value * (LongWindow - 1) + 2 * rtt * Scale,
                        LongWindow + 1)}

Drifted_Always(long, rtt) == TRUE

\* The baseline is more than twice the RTT.
Drifted(long, rtt) == long.value > 2 * rtt * Scale

\* The drift correction takes 5 percent off the stored baseline; the gradient
\* of the same sample still uses the value Add returned.
Corrected(long, rtt) ==
  IF Drifted(long, rtt)
  THEN {[long EXCEPT !.value = v] : v \in Rounded(long.value * 19, 20)}
  ELSE {long}

AppLimited_Whole(inflight) == inflight * Scale < estimated_limit

\* Less than half of the cap was in use.
AppLimited(inflight) == 2 * inflight * Scale < estimated_limit

Gradient_NoFloor(long, rtt) ==
  LET n == Tolerance[1] * long.value
      d == Tolerance[2] * rtt * Scale
  IN  <<Min({d, n}), d>>

\* tolerance_ * long / short, as a fraction, clamped to [1/2, 1].
Gradient(long, rtt) ==
  LET n == 2 * Tolerance[1] * long.value
      d == 2 * Tolerance[2] * rtt * Scale
  IN  <<Max({d \div 2, Min({d, n})}), d>>

Clamped_MinOnly(e) == Max({MinLimit * Scale, e})

Clamped(e) == Max({MinLimit * Scale, Min({MaxConcurrency * Scale, e})})

\* estimated_limit_ * gradient + queue_size, blended with the old estimate.
NewLimits(long, rtt) ==
  LET g == Gradient(long, rtt)
      raised == estimated_limit * g[1] + QueueSizeFn(limit) * Scale * g[2]
      blended == estimated_limit * g[2] * (Smoothing[2] - Smoothing[1])
                   + raised * Smoothing[1]
  IN  {Clamped(e) : e \in Rounded(blended, g[2] * Smoothing[2])}

\* OnSample stores what Update returns, the estimate without its fraction.
SetLimit(e) == estimated_limit' = e /\ limit' = e \div Scale

Remember(rtt, inflight) ==
  /\ sample' = [rtt |-> rtt, full |-> inflight >= limit]
  /\ parity' = 1 - parity

\* A window without a measured latency changes nothing.
IgnoreZeroRtt(rtt, inflight) ==
  /\ rtt = 0
  /\ SetLimit(estimated_limit)
  /\ Remember(rtt, inflight)
  /\ UNCHANGED <<long_rtt, measured>>

Measure(rtt, inflight, long) ==
  /\ rtt > 0
  /\ long_rtt' \in Corrected(long, rtt)
  /\ measured' = IF measured.hi = 0 THEN [lo |-> rtt, hi |-> rtt]
                 ELSE [lo |-> Min({measured.lo, rtt}), hi |-> Max({measured.hi, rtt})]
  /\ Remember(rtt, inflight)

\* The baseline moves, the cap stays.
SkipAppLimited(rtt, inflight) ==
  \E long \in Add(rtt) :
    /\ Measure(rtt, inflight, long)
    /\ AppLimited(inflight)
    /\ SetLimit(estimated_limit)

Adapt(rtt, inflight) ==
  \E long \in Add(rtt) :
    /\ Measure(rtt, inflight, long)
    /\ ~AppLimited(inflight)
    /\ \E e \in NewLimits(long, rtt) : SetLimit(e)

OnSample(rtt, inflight) ==
  \/ IgnoreZeroRtt(rtt, inflight)
  \/ SkipAppLimited(rtt, inflight)
  \/ Adapt(rtt, inflight)

Next == \E rtt \in Rtts, inflight \in Inflights : OnSample(rtt, inflight)

\* Windows keep closing as long as there is traffic; a liveness property speaks
\* of a server that has some.
Spec == Init /\ [][Next]_vars /\ WF_vars(Next)

----------------------------------------------------------------------------
\* The variables have their types, the cap is the whole part of the estimate,
\* and the estimate is within the configured bounds from the first change on.
TypeOK ==
  /\ limit \in Nat
  /\ limit = estimated_limit \div Scale
  /\ \/ estimated_limit \in {i * Scale : i \in InitialLimits}
     \/ estimated_limit \in (MinLimit * Scale) .. (MaxConcurrency * Scale)
  /\ long_rtt \in [value : Nat, sum : Nat, count : 0 .. WarmupWindow]
  /\ sample \in [rtt : Rtts \cup {0}, full : BOOLEAN]
  /\ measured \in [lo : Nat, hi : Nat]
  /\ parity \in {0, 1}

\* The baseline stays between the smallest and the largest RTT measured so far,
\* through the warm-up, the change to the exponential mean and any number of
\* drift corrections (gradient2_limit.cc:187): those stop before they invent a
\* latency the server never had.
BaselineWithinMeasured ==
  measured.hi > 0 => /\ measured.lo * Scale <= long_rtt.value
                     /\ long_rtt.value <= measured.hi * Scale

\* The estimate falls only for an RTT above the tolerance times the smallest RTT
\* ever measured, or because it started above the maximum: whatever the history
\* of spikes and recoveries, a server at its best latency does not lose cap.
ShrinksOnlyOnLatency ==
  [][estimated_limit' < estimated_limit =>
       \/ sample'.rtt * Tolerance[2] > Tolerance[1] * measured'.lo
       \/ estimated_limit > MaxConcurrency * Scale]_vars

\* With the default probe an estimate of four or more never falls below four,
\* however slow the server becomes and however low MinLimit is: the gradient is
\* at least one half (gradient2_limit.cc:203) and ceil(sqrt(4)) gives the other
\* half back.
ProbeKeepsFour ==
  [][estimated_limit >= 4 * Scale /\ MaxConcurrency >= 4
       => estimated_limit' >= 4 * Scale]_vars

\* A server whose RTT settles, at whatever value, while its whole cap is in use
\* ends at MaxConcurrency: the baseline follows the RTT and the estimate does
\* not stop at a fraction short of the next whole cap.
SettledServerReachesMax ==
  \A r \in Rtts \ {0} :
    <>[](sample.rtt = r /\ sample.full) => <>(limit = MaxConcurrency)
=============================================================================
