-------------------------- MODULE MCSimpleLimiter --------------------------
(* Model-checking instances of SimpleLimiter.                              *)
EXTENDS SimpleLimiter, TLC

Symmetry == Permutations(Thread) \union Permutations(Guard)
=============================================================================
