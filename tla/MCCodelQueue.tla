---------------------------- MODULE MCCodelQueue ---------------------------
(* Model-checking instance of CodelQueue.                                  *)
EXTENDS CodelQueue
MCAdvances == {1}
=============================================================================
