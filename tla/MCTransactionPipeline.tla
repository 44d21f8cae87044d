----------------------- MODULE MCTransactionPipeline -----------------------
(* Instances of TransactionPipeline for TLC, with what TransactionParser    *)
(* extracts from two transactions.                                         *)
EXTENDS TransactionPipeline, TransactionParser, TLC

CONSTANTS t1, t2

LOCAL Call(name) == [program |-> LIQUIDITY_BOOK_PROGRAM_ID, name |-> name]
LOCAL Foreign == [program |-> "token", name |-> "transfer"]

\* A swap with its event between calls of other programs, and an increase,
\* which has no queue of its own.
Swap ==
  [instructions |-> <<Foreign, Call("swap"), Call("increase_position")>>,
   innerInstructions |->
     << [index |-> 2, instructions |-> <<Foreign, Call("BinSwapEvent")>>] >>]
\* A transaction that calls the program nowhere.
Other == [instructions |-> <<Foreign>>, innerInstructions |-> << >>]

Parsed == (t1 :> extractLiquidityBookInstructions(Swap)) @@
          (t2 :> extractLiquidityBookInstructions(Other))

\* transaction.processor.ts:57: every run looks at one transaction.
HardCoded == (t1 :> t1) @@ (t2 :> t1)
=============================================================================
