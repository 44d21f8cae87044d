----------------------------- MODULE MCHelpers -----------------------------
(* What the processors call: a lookup of SolanaService, then one           *)
(* computation of BinMath, over small ranges.                              *)
EXTENDS AccountOwner, BinMath

MCIds == 0..15

MCInit == Init /\ call = NoCall

MCNext ==
  \/ Next /\ UNCHANGED call
  \/ pc = "done" /\ Call /\ UNCHANGED vars

MCSpec ==
  /\ MCInit /\ [][MCNext]_<<vars, call>>
  /\ WF_<<vars, call>>(Request /\ UNCHANGED call)
=============================================================================
