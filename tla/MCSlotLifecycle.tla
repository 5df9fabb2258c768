-------------------------- MODULE MCSlotLifecycle --------------------------
(* A small instance of SlotLifecycle: a datum for each of two slots. *)
EXTENDS SlotLifecycle, TLC

CONSTANTS d1, d2, p1, p2

SlotOfData == d1 :> 1 @@ d2 :> 2

Positions == Permutations({p1, p2})
=============================================================================
