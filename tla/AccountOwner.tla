---------------------------- MODULE AccountOwner ----------------------------
(***************************************************************************)
(* How create-position learns who owns a position: SolanaService asks the  *)
(* node for the token account and, when there is none any more, for the    *)
(* payer of the first transaction of the account, which it looks for page  *)
(* by page from the newest one.  Each of the two calls is repeated from    *)
(* its beginning when one of its requests fails, while the chain goes on.  *)
(***************************************************************************)
EXTENDS Integers

CONSTANTS
  Limit,          \* signatures per page, 1000
  MaxRetries,     \* config.maxRetries
  MaxSignatures,  \* bound on the signatures of the account
  MaxFaults       \* bound on failed requests

ASSUME AccountOwnerAssumption ==
  /\ Limit \in Nat \ {0}
  /\ MaxRetries \in Nat /\ MaxSignatures \in Nat /\ MaxFaults \in Nat

VARIABLES
  signatures,  \* number of finalized signatures, 1 the oldest
  account,     \* "token", or "gone": closed, or no token account
  pc,          \* the request under way
  before,      \* cursor of the next page, 0 for none
  oldest,      \* oldest signature seen, 0 for none
  retries,     \* retries of the call under way
  answer,      \* what create-position gets: 0 while it waits
  faults       \* failed requests so far

vars == <<signatures, account, pc, before, oldest, retries, answer, faults>>

Owner == -1    \* the owner in the account; n > 0 is the payer of signature n
Null == -2     \* nothing found: create-position throws
Error == -3    \* the retries are used up: so does the call

Init ==
  /\ signatures \in 0..MaxSignatures
  /\ account \in {"token", "gone"}
  /\ pc = "account"
  /\ before = 0 /\ oldest = 0 /\ retries = 0 /\ answer = 0 /\ faults = 0

chain == <<signatures, account>>
-----------------------------------------------------------------------------
(* The chain *)

Sign ==
  /\ signatures < MaxSignatures
  /\ signatures' = signatures + 1
  /\ UNCHANGED <<account, pc, before, oldest, retries, answer, faults>>

\* Its signature is finalized some time after the account is gone.
Close ==
  /\ account = "token"
  /\ account' = "gone"
  /\ UNCHANGED <<signatures, pc, before, oldest, retries, answer, faults>>
-----------------------------------------------------------------------------
(* The service *)

Answer(a) == pc' = "done" /\ answer' = a

\* getTokenAccount; its null sends create-position to getAccountCreator.
GetTokenAccount ==
  /\ pc = "account"
  /\ \/ account = "token" /\ Answer(Owner) /\ UNCHANGED retries
     \/ account = "gone" /\ pc' = "page" /\ retries' = 0 /\ UNCHANGED answer
  /\ UNCHANGED <<chain, before, oldest, faults>>

\* A page as long as the limit is taken for the last one.
GetPage_StopsWhenFull ==
  LET newest == IF before = 0 THEN signatures ELSE before - 1
      count == IF newest < Limit THEN newest ELSE Limit IN
  /\ pc = "page"
  /\ oldest' = IF count = 0 THEN oldest ELSE newest - count + 1
  /\ UNCHANGED before
  /\ IF oldest' = 0 THEN Answer(Null) ELSE pc' = "transaction" /\ UNCHANGED answer
  /\ UNCHANGED <<chain, retries, faults>>

\* The cursor stays at the first page.
GetPage_NoCursor ==
  LET newest == IF before = 0 THEN signatures ELSE before - 1
      count == IF newest < Limit THEN newest ELSE Limit IN
  /\ pc = "page"
  /\ oldest' = IF count = 0 THEN oldest ELSE newest - count + 1
  /\ UNCHANGED before
  /\ IF count = Limit THEN UNCHANGED <<pc, answer>>
     ELSE IF oldest' = 0 THEN Answer(Null)
     ELSE pc' = "transaction" /\ UNCHANGED answer
  /\ UNCHANGED <<chain, retries, faults>>

\* A page shorter than the limit is the last one.
GetPage ==
  LET newest == IF before = 0 THEN signatures ELSE before - 1
      count == IF newest < Limit THEN newest ELSE Limit IN
  /\ pc = "page"
  /\ oldest' = IF count = 0 THEN oldest ELSE newest - count + 1
  /\ before' = IF count = Limit THEN oldest' ELSE before
  /\ IF count = Limit THEN UNCHANGED <<pc, answer>>
     ELSE IF oldest' = 0 THEN Answer(Null)
     ELSE pc' = "transaction" /\ UNCHANGED answer
  /\ UNCHANGED <<chain, retries, faults>>

\* The node may have dropped the transaction.  That the keys of one with
\* lookup tables cannot be had is a request that fails, again and again.
GetTransaction ==
  /\ pc = "transaction"
  /\ \E a \in {oldest, Null} : Answer(a)
  /\ UNCHANGED <<chain, before, oldest, retries, faults>>

\* The call begins anew, with its local variables.
RequestFails ==
  /\ pc # "done" /\ faults < MaxFaults
  /\ faults' = faults + 1
  /\ \/ /\ retries < MaxRetries
        /\ retries' = retries + 1
        /\ pc' = IF pc = "account" THEN "account" ELSE "page"
        /\ before' = 0 /\ oldest' = 0
        /\ UNCHANGED answer
     \/ /\ retries = MaxRetries
        /\ Answer(Error)
        /\ UNCHANGED <<retries, before, oldest>>
  /\ UNCHANGED chain
-----------------------------------------------------------------------------
Request == GetTokenAccount \/ GetPage \/ GetTransaction

Next == Sign \/ Close \/ Request \/ RequestFails

Spec == Init /\ [][Next]_vars

(* The node answers, or a request fails. *)
FairSpec == Spec /\ WF_vars(Request)
-----------------------------------------------------------------------------
TypeOK ==
  /\ signatures \in 0..MaxSignatures
  /\ account \in {"token", "gone"}
  /\ pc \in {"account", "page", "transaction", "done"}
  /\ before \in 0..MaxSignatures /\ oldest \in 0..MaxSignatures
  /\ retries \in 0..MaxRetries
  /\ answer \in {0, Owner, Null, Error} \cup 1..MaxSignatures
  /\ faults \in 0..MaxFaults

(* The creator is the payer of the first transaction of the account,       *)
(* wherever its pages end and whatever is signed or fails meanwhile.       *)
CreatorIsFirst == answer > 0 => answer = 1

(* create-position gets an answer: a chain that grows does not keep the    *)
(* search from its end.                                                    *)
EventuallyAnswered == <>(pc = "done")
=============================================================================
