----------------------------- MODULE MCScanner -----------------------------
(* Instances of Scanner for TLC. *)
EXTENDS Scanner, TLC

OneEach  == <<1, 2>>         \* blocks of one signature each
OneBlock == <<1, 1>>         \* two signatures of one block
Straddle == <<1, 1, 2, 2>>   \* two blocks of two signatures each
Half     == <<1, 1, 2>>
NoneFailed   == {}
SecondFailed == {2}
ThirdFailed  == {3}
FixedSecond  == [p \in 1..ChainLength |-> 2]   \* every job works on the second
FixedThird   == [p \in 1..ChainLength |-> 3]

TickSymmetry == Permutations(ScanTicks) \cup Permutations(QueueTicks)
=============================================================================
