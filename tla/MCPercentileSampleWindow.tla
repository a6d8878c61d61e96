---------------------- MODULE MCPercentileSampleWindow ----------------------
(* Model-checking instances of PercentileSampleWindow.                     *)
EXTENDS PercentileSampleWindow

Symmetry == Permutations(Writer)
=============================================================================
