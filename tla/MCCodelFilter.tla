--------------------------- MODULE MCCodelFilter ---------------------------
(* Model-checking instances of CodelFilter.                                *)
EXTENDS CodelFilter
MCSojourns == {-1, 1}
MCAdvances == {-1, 1, 33}
=============================================================================
