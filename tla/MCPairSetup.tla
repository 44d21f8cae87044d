---------------------------- MODULE MCPairSetup ----------------------------
(* Three sets of jobs: two pairs of the same mints, one of them set up by  *)
(* two copies of a job; a pair and an update of its fees; the other rows.  *)
EXTENDS PairSetup, TLC

CONSTANTS c, p1, p1copy, p2, a1, a1copy, f1, q1, s1,
          config, pair1, pair2, mintX, mintY, array, asset

MCOf ==
  (c :> config) @@ (p1 :> pair1) @@ (p1copy :> pair1) @@ (p2 :> pair2) @@ (a1 :> array)
    @@ (a1copy :> array) @@ (f1 :> pair1) @@ (q1 :> asset) @@ (s1 :> asset)
MCConfigOf == [p \in {pair1, pair2} |-> config]
MCMintX == [p \in {pair1, pair2} |-> mintX]
MCMintY == [p \in {pair1, pair2} |-> mintY]

Queued == {{c, p1, p1copy, p2}, {c, p1, p1copy, f1}, {c, a1, a1copy, q1, s1}}

MCInit ==
  /\ Init
  /\ \E Q \in Queued : pc = [j \in Jobs |-> IF j \in Q THEN "waiting" ELSE "absent"]

MCSpec == MCInit /\ [][Next]_vars /\ \A j \in Jobs : WF_vars(Work(j))
=============================================================================
