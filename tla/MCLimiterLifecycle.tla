------------------------- MODULE MCLimiterLifecycle -------------------------
(* Instances of LimiterLifecycle.                                          *)
EXTENDS LimiterLifecycle
=============================================================================
