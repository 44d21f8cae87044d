------------------------- MODULE TransactionParser -------------------------
(***************************************************************************)
(* TransactionParserService: the instructions of the liquidity book in a   *)
(* transaction, as the sequence that TransactionProcessor walks through.   *)
(*                                                                         *)
(* A transaction has a sequence "instructions" and a sequence              *)
(* "innerInstructions" of sets, each the calls made below the instruction  *)
(* at its "index".  An instruction is a record of the program it calls and *)
(* of its name in that program's IDL; an event is an inner instruction.    *)
(***************************************************************************)
EXTENDS Naturals, Sequences, SequencesExt

LIQUIDITY_BOOK_PROGRAM_ID == "liquidity-book"

\* What the RPC node returns.
Calls == [program : STRING, name : STRING]
Transactions ==
  [instructions : Seq(Calls),
   innerInstructions : Seq([index : Nat, instructions : Seq(Calls)])]

\* The positions at which a sequence of instructions calls the program.
OwnCalls(instructions) ==
  FlattenSeq([i \in DOMAIN instructions |->
                IF instructions[i].program = LIQUIDITY_BOOK_PROGRAM_ID THEN <<i>> ELSE << >>])

Outer(transaction) ==
  LET own == OwnCalls(transaction.instructions)
  IN  [p \in DOMAIN own |->
         [name |-> transaction.instructions[own[p]].name,
          instructionIndex |-> own[p], isInner |-> FALSE]]

Inner(set) ==
  LET own == OwnCalls(set.instructions)
  IN  [p \in DOMAIN own |->
         [name |-> set.instructions[own[p]].name,
          instructionIndex |-> set.index, isInner |-> TRUE]]

AllInner(transaction) ==
  FlattenSeq([s \in DOMAIN transaction.innerInstructions |->
                Inner(transaction.innerInstructions[s])])

\* The inner instructions in front.
extractLiquidityBookInstructions_InnerFirst(transaction) ==
  AllInner(transaction) \o Outer(transaction)

extractLiquidityBookInstructions(transaction) ==
  Outer(transaction) \o AllInner(transaction)
=============================================================================
