------------------------- MODULE MCLiquidityLedger -------------------------
(* An instance of LiquidityLedger for TLC. *)
EXTENDS LiquidityLedger, TLC

CONSTANTS s1, e1, i1, i2, f1, f2, b1, b2

Emitters == e1 :> s1
OneSwap == (e1 :> <<b1>>) @@ (i1 :> <<b1, b2>>) @@ (i2 :> <<b2>>)
=============================================================================
