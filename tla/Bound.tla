-------------------------------- MODULE Bound --------------------------------
(***************************************************************************)
(* What bounds the state space of a model composed of several modules: a   *)
(* number of events from outside the program, which they share.  It stands *)
(* for nothing in the code.                                                *)
(***************************************************************************)
EXTENDS Integers

CONSTANT MaxEvents

VARIABLE left     \* events left

Spend == left > 0 /\ left' = left - 1
=============================================================================
