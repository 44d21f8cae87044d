------------------------ MODULE MCPositionLifecycle ------------------------
(* Instances of PositionLifecycle for TLC. *)
EXTENDS PositionLifecycle, TLC

CONSTANTS i1, i2

TwoBins == (i1 :> 2) @@ (i2 :> 3)    \* read against 0: index in, index out
Nowhere == [j \in {} |-> 0]
=============================================================================
