--------------------------- MODULE InOrderRouting ---------------------------
(***************************************************************************)
(* What the transaction queue promises about a transaction, however many   *)
(* jobs and runs look at it and whatever fails: seen from the instruction  *)
(* queues it is one run that never fails.  The instructions that have a    *)
(* queue are covered (in their queue, or put aside) one at a time, in the  *)
(* order of the parser; the row is marked when all are; and nothing that   *)
(* was covered or marked is ever taken back.                               *)
(***************************************************************************)
EXTENDS Naturals

CONSTANTS
  Txs,      \* transactions
  Rows,     \* those that have a row
  Steps     \* Steps[t]: positions of the instructions of t that have a queue

VARIABLES
  covered,  \* covered[t]: the instructions of t in a queue or put aside
  marked    \* transactions whose row is marked processed

vars == <<covered, marked>>

Init ==
  /\ covered = [t \in Txs |-> {}]
  /\ marked = {}

Cover(t) ==
  \E i \in Steps[t] \ covered[t] :
    /\ \A k \in Steps[t] : k < i => k \in covered[t]
    /\ covered' = [covered EXCEPT ![t] = @ \cup {i}]
    /\ UNCHANGED marked

Mark(t) ==
  /\ covered[t] = Steps[t]
  /\ marked' = marked \cup {t}
  /\ UNCHANGED covered

Next == (\E t \in Txs : Cover(t)) \/ (\E t \in Rows : Mark(t))

Spec == Init /\ [][Next]_vars
=============================================================================
