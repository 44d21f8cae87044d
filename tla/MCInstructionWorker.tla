------------------------ MODULE MCInstructionWorker ------------------------
(* Instances of InstructionWorker for TLC. *)
EXTENDS InstructionWorker, TLC

CONSTANTS j1, j2, j3, k1, k2

\* j1 and j2 carry the same instruction, j3 one of its own.
TwoOfThree == (j1 :> k1) @@ (j2 :> k1) @@ (j3 :> k2)
Two == (j1 :> k1) @@ (j2 :> k1)
Last == {j3}
None == {}

SlotSymmetry == Permutations(Slots)
=============================================================================
