--------------------------- MODULE AdmissionGate ---------------------------
(***************************************************************************)
(* What an admit-or-reject limiter promises its callers, without saying    *)
(* how: a counter `held` of admitted calls and a cap `limit` that may      *)
(* change at any time.  A call is an interval: it begins, and later it is  *)
(* admitted or rejected in one step.                                       *)
(*                                                                         *)
(* The cap is not part of the counter's atomic word, so a decision may be  *)
(* judged by any cap that was in force since the call began, and a         *)
(* rejection may pair a load with a cap of different moments.  What the    *)
(* gate does promise:                                                      *)
(*   - an admission is based on the load of that very moment, so two calls *)
(*     never share the last slot under a cap;                              *)
(*   - a rejection is based on a load and a cap the call really overlapped.*)
(***************************************************************************)
EXTENDS Integers

CONSTANTS Caller,          \* the threads that call TryAcquire
          InitialLimit,    \* the cap at construction
          LimitValue       \* the caps that may be set later

VARIABLES limit,   \* the cap in force
          held,    \* admitted calls that have not been released
          caps,    \* caps[c]: the caps in force since c's call began, {} if none
          loads    \* loads[c]: the values of held since c's call began

vars == <<limit, held, caps, loads>>

Init == /\ limit = InitialLimit
        /\ held = 0
        /\ caps = [c \in Caller |-> {}]
        /\ loads = [c \in Caller |-> {}]

Calling(c) == caps[c] # {}

\* Every call in progress witnesses the cap c.
Witness(seen, c, v) == IF Calling(c) THEN seen[c] \union {v} ELSE {}

Begin(c) ==
  /\ ~Calling(c)
  /\ caps' = [caps EXCEPT ![c] = {limit}]
  /\ loads' = [loads EXCEPT ![c] = {held}]
  /\ UNCHANGED <<limit, held>>

Admit(c) ==
  /\ Calling(c)
  /\ \E cap \in caps[c] : held < cap
  /\ held' = held + 1
  /\ caps' = [caps EXCEPT ![c] = {}]
  /\ loads' = [d \in Caller |->
                 IF d = c THEN {} ELSE Witness(loads, d, held + 1)]
  /\ UNCHANGED limit

Reject(c) ==
  /\ Calling(c)
  /\ \E cap \in caps[c], load \in loads[c] : load >= cap
  /\ caps' = [caps EXCEPT ![c] = {}]
  /\ loads' = [loads EXCEPT ![c] = {}]
  /\ UNCHANGED <<limit, held>>

Release ==
  /\ held > 0
  /\ held' = held - 1
  /\ loads' = [d \in Caller |-> Witness(loads, d, held - 1)]
  /\ UNCHANGED <<limit, caps>>

SetLimit(n) ==
  /\ limit' = n
  /\ caps' = [d \in Caller |-> Witness(caps, d, n)]
  /\ UNCHANGED <<held, loads>>

Next == \/ \E c \in Caller : Begin(c) \/ Admit(c) \/ Reject(c)
        \/ Release
        \/ \E n \in LimitValue : SetLimit(n)

Spec == Init /\ [][Next]_vars
=============================================================================
