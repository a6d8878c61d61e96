-------------------------- MODULE MCGradient2Limit --------------------------
(* Model-checking instance of Gradient2Limit.                              *)
EXTENDS Gradient2Limit

OneAndAHalf == <<3, 2>>
OneFifth == <<1, 5>>
=============================================================================
