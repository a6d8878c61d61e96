-------------------------- MODULE MCWindowedLimit --------------------------
(* Model-checking instances of WindowedLimit.                              *)
EXTENDS WindowedLimit, TLC

\* A slow and a fast sample that differ in every field, and one that is noise.
Mixed == {[rtt |-> 2, inflight |-> 3, drop |-> FALSE],
          [rtt |-> 5, inflight |-> 1, drop |-> TRUE],
          [rtt |-> 1, inflight |-> 9, drop |-> TRUE]}

\* All the same: any other mean than 2 is not a mean of samples.
Uniform == {[rtt |-> 2, inflight |-> 1, drop |-> FALSE]}

Symmetry == Permutations(Thread)
=============================================================================
