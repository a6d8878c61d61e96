-------------------- MODULE MCAbstractPartitionedLimiter --------------------
(* Model-checking instances of AbstractPartitionedLimiter.                 *)
EXTENDS AbstractPartitionedLimiter, TLC

\* Two declared partitions; a quarter of the cap stays undeclared.
QuarterAndHalf == <<1, 2>>

\* The second resolver is asked only when the first one has no opinion; the
\* context "other" matches nowhere and falls through to "unknown".
Contexts == {"live", "batch", "other"}

TwoResolvers == << [x \in Contexts |-> IF x = "live" THEN 1 ELSE NoMatch],
                   [x \in Contexts |-> IF x = "other" THEN NoMatch ELSE 2] >>

Symmetry == Permutations(Call)
=============================================================================
