----------------------------- MODULE AtMostOnce -----------------------------
(***************************************************************************)
(* What the instruction queues promise about an instruction, whatever the  *)
(* number of jobs that carry it: its effects, Writes database writes, are  *)
(* begun at most once.  Begun effects either all happen or are abandoned   *)
(* part of the way, and nothing resumes or repeats them.                   *)
(***************************************************************************)
EXTENDS Naturals

CONSTANTS
  Keys,     \* instruction ids
  Writes    \* number of writes an instruction's effects consist of

VARIABLES
  phase,    \* phase[k]: how far instruction k has come
  effects   \* effects[k]: number of writes made for k

vars == <<phase, effects>>

Phase == {"new", "applying", "applied", "abandoned"}

Init ==
  /\ phase = [k \in Keys |-> "new"]
  /\ effects = [k \in Keys |-> 0]

Start(k) ==
  /\ phase[k] = "new"
  /\ phase' = [phase EXCEPT ![k] = "applying"]
  /\ UNCHANGED effects

Effect(k) ==
  /\ phase[k] = "applying"
  /\ effects[k] < Writes
  /\ effects' = [effects EXCEPT ![k] = @ + 1]
  /\ phase' = [phase EXCEPT ![k] = IF effects[k] + 1 = Writes
                                   THEN "applied" ELSE "applying"]

\* One failure may abandon several instructions: a process runs many.
Abandon(K) ==
  /\ \A k \in K : phase[k] = "applying"
  /\ phase' = [k \in Keys |-> IF k \in K THEN "abandoned" ELSE phase[k]]
  /\ UNCHANGED effects

Next ==
  \/ \E k \in Keys : Start(k) \/ Effect(k)
  \/ \E K \in SUBSET Keys : Abandon(K)

Spec == Init /\ [][Next]_vars
=============================================================================
