# TLA+ verification of saros-dlmm-indexer

The repository indexes the transactions of Saros' Solana DLMM program (a
liquidity book) into MongoDB. This directory holds the TLA+ modules that model
it, the TLC configurations that check them and the TLAPS proofs about them.
Paths below are relative to `src/src/modules/indexer/` unless they start with
`src/`.

## 1. The system

    Solana RPC --> Scanner --> transactionevents (MongoDB)
                      |
                      +--> transaction queue --> TransactionProcessor --+--> DLQ queue --> DlqProcessor
                                                                        |
                     +------- one queue per kind of instruction <-------+
                     v
            InstructionService (instructions, unique id)
                     v
            processor: positions, shares, bins, pairs, events (MongoDB)

All of it is one Node.js process. Actors interleave at every `await`: cron
ticks that overlap, BullMQ worker slots (`concurrency` of each queue), and the
start-up task. MongoDB and Redis survive a crash; everything else is lost. No
MongoDB transaction or lock is used anywhere; the only atomic things are single
document operations and unique indexes.

### Inventory

| part | state | operations | what makes it hard | what makes it correct |
| --- | --- | --- | --- | --- |
| ScannerService `scanner/scanner.service.ts` | collection `transactionevents` (`processed`, `queued`), flags `isBackwardScanComplete`, `isProcessingQueue` | `initializeScanner`, `runBackwardScan`, `scanForwards` (cron), `processUnprocessedTransactions` (cron) | overlapping ticks on stale cursors, pages against the chain's growth, restart in the middle of the history, add-then-mark | no gap in the history, complete history, no row marked without a job, jobs in slot order |
| BullMQ queues and ConsumerService `consumer/consumer.service.ts`, `src/src/modules/queue/queue.module.ts` | jobs, attempts, locks, stalled counters | take, retry with backoff, complete, fail, stalled check | lost locks, two runs of one job, crash | every job settles, a settled job stays so |
| InstructionService `services/instruction.service.ts` | collection `instructions`, unique `id` | `checkAndInsertInstruction` | check and insert are two calls; record precedes effects | effects begin at most once per id |
| TransactionProcessor and parser `processors/transaction.processor.ts`, `services/transaction-parser.service.ts` | marks `processed`, adds jobs, DLQ | `process`, `processInstruction`, `routeToQueue` | retry after part of the instructions was routed, early returns that leave the row unprocessed, errors sent to the DLQ | every instruction of a processed transaction routed or in the DLQ |
| Position processors `processors/{create,increase,decrease,close}-position.processor.ts` | `positions`, `liquidityshares`, `bins`, `pairs`, `positionupdateevents`, `tokenaccounts` | create from instruction and from event, add, burn, delete | four queues without an order between them, read-modify-write over awaits, throw after the record | bounds and owner set, shares with their position, each increase credited once and to its own share |
| Swap and composition fees `processors/{swap,composition-fees}.processor.ts` | `bins`, `pairs`, `swapevents`, `binswapevents`, fee events | apply bin deltas | concurrent read-modify-write of bins and reserves, bins written before the event is stored, an event before its swap | an amount a row has lost was overwritten by an overlapping job and by nothing else; rows and events agree; vaults known |
| Pair set-up `processors/{initialize-pair,initialize-bin-step-config,initialize-bin-array,update-pair-static-fee-parameters,quote-asset}.processor.ts` | `pairs`, `binstepconfigs`, `bins`, `tokenmints`, `quoteassets` | create, update | races for shared mints against three attempts, partly inserted bin arrays, update before create after the record | a pair has its rows, its set-up survives its competitors, an update of its fees stands |
| DlqProcessor | `dlqevents` | save | field names | failed instructions kept |
| SolanaService `services/solana.service.ts` | none | RPC calls, `getTokenAccount`, `getAccountCreator` (pagination) | a full last page, a chain that grows and requests that fail between pages | the creator is the payer of the first transaction; the search ends |
| BinMath `src/src/utils/bin-math.ts` | none | fixed-point price, sums over doubles, normalized amounts | truncation, 2^53, units of two tokens | prices grow by one factor per bin; sums exact below 2^53; no digit lost |
| rate limit, cache, auth, health, openapi, logger, RabbitMQ, unused queue services | Redis counters | HTTP shell | - | not part of the indexing logic |

At this commit production wiring is partly commented out: the start-up scan
(`scanner.service.ts:42-44`), both cron decorators (`:137`, `:197`) and
`startWorkers` (`consumer.service.ts:46`). The modules model the handlers with
the wiring those comments name ("TODO: uncomment for production"); what a
handler does is never changed. That includes the signature in
`TransactionProcessor.process`: line 47, which takes it from the job, is
commented out, and line 57 gives every job the same one. `TransactionPipeline`
checks it so (`HardCoded`), and `Scanner` marks the row of `Signature[p]` after
a run of the job of `p`, in its runs one signature for every `p`. The theorems
of both hold for either line.

## 2. Modules

### `Scanner.tla`

One module for `ScannerService` and the collection it fills.

* The chain is a sequence of `ChainLength` signatures, 1 the oldest, with
  `Slot[p]` the block of `p` and `Failed` the ones whose transaction failed.
  `head` is the newest confirmed one and `Confirm` advances it at any time.
* `rows` is `transactionevents`: records of signature, insertion order `id`
  (MongoDB's `_id`), `processed`, `queued`.
* `backward` is the start-up task (`checkGenesisReached`, `runBackwardScan`),
  `forward[t]` a run of `scanForwards`, `queueing[t]` a run of
  `processUnprocessedTransactions`. Several `t` are cron ticks that overlap. A
  task's record holds its program counter and the values it read before its
  last `await`: the stale cursors are the point of the module.
* One action per segment between two awaits. `*Fails` actions are the `catch`
  blocks. `Crash` drops every task and flag, `Restart` is `onModuleInit`.
* `MarkProcessed` is the transaction processor's part: a run of any job marks
  the row of the signature it works on, also before that row was queued. The
  queueing find asks for rows that are not processed, so such a row is never
  queued (`PassedOver`).
* `lost` and `skipped` are history variables: signatures an `insertMany` error
  swallowed (`:190`), and signatures older than a full forward page.

`startScanning` is left out: `startupComplete` is never set, so it returns at
its first line.

### `InstructionWorker.tla` and `AtMostOnce.tla`

`InstructionWorker` is one instruction queue: jobs with BullMQ's life cycle,
worker slots, the lock a slot holds on its job, and the processor skeleton all
instruction processors share (decode, `isInstructionProcessed`,
`insertInstruction`, then `Writes` awaited writes). The writes are only counted:
what they do is the business of the processors' own modules. `Key[j]` is the id
`generateInstructionId` computes; two jobs with one key are a transaction job's
retry that routed its instructions again. A job of `Unreadable` is one whose
payload the processor cannot decode and skips with a warning.

BullMQ is external, modelled from how the code configures it: `attempts`,
backoff (`Promote`), concurrency (`Slots`), `maxStalledCount`. `Stall` hands a
job out again when its lock is gone, because the process died or because the
lock was not renewed while its run goes on; the old run cannot settle the job
any more (`Report`) but its writes go through. A write may take effect although
its call fails: for the record and all writes but the last that is the step
followed by `Throw`, for the last one `LastWriteFails`.

`AtMostOnce` states what that amounts to for an instruction: new, applying,
applied or abandoned, with the number of writes made. `Effects == INSTANCE
AtMostOnce` with the mapping `phase` and the property `EffectsAtMostOnce` say
that the queue implements it.

### `PositionLifecycle.tla`

One position and the jobs of four queues that meet at it: the create
instruction (`create`), the event it emits (`event`, which
`create-position.processor.ts` handles in another path of the same processor),
increases, decreases and closes. Each job is a run of its processor's handler,
one action per segment between two awaits, with what `InstructionWorker` shows
about runs taken over: one at a time per job, and a retry that meets its own
record returns at once (`Check`).

* `position` keeps only what the paths disagree about: the instruction knows the
  owner, the event the bounds, and each stores a placeholder for the other's
  half ("dummy-owner-id", bin id 0). `shares` is the state of the liquidity
  shares, whose unique ids decide a race of the two paths.
* `tokenAccount` is the row of `tokenaccounts` that only the create instruction
  looks for and stores, between its record and its lookup of the position.
* An increase keeps the lower bin id it read (`lower[j]`) across its awaits and
  credits the share `Bin[j] - lower[j]`. One bin stands for its loop over bins;
  the rows of `bins` and `pairs` it writes and its update events are in
  `LiquidityLedger`, and the pair exists.
* `Refused` collects what the code itself throws. Every decrease ends there, at
  the subtraction of a string from a `BigInt`, and every close, because its
  lookup uses a name no record has. The rest of both handlers
  (`decrease-position.processor.ts` after 223, `close-position.processor.ts`
  134-171) is unreachable and not modelled.
* `CallFails` and `Crash` break a job off at any await; an `insertMany` of the
  shares that is broken off by either may have stored some of them
  (`SharesCutOff`).
* `thrown` and `hasty` are history variables: jobs of which a run threw, and
  increases begun before the event's job was completed.

### `TransactionParser.tla`, `TransactionPipeline.tla` and `InOrderRouting.tla`

`TransactionParser` holds `extractLiquidityBookInstructions`: the calls to the
program at top level, then those in the sets of inner instructions, each with
the index of the instruction it belongs to. Names stand for the discriminators
of the IDL. Its loops with `continue` are `FlattenSeq` of one-element and empty
sequences. `Transactions` is what the node may return: any calls, any indexes.

`TransactionPipeline` is what `TransactionProcessor` does with that sequence.
`Instructions[t]` is the extracted sequence of `t`, given by the MC module from
the parser; `Signature[j]` is the transaction a run of job `j` looks at.

* A run is a program counter `pc[j][n]` and a position `at[j][n]`. `GoOn` is the
  loop: it passes the instructions `processInstruction` returns from without a
  queue and stops at the next add or at the mark. One action per awaited call:
  `getParsedTransaction`, `routeToQueue`, `AddToDlq` (the catch block),
  `MarkProcessed`; `RouteFails` and `CallFails` are their failures. A failed
  `add` may have stored its job.
* Jobs are taken, retried, stalled and crashed as in `InstructionWorker`, but
  here each run has its own place, because a run that lost its lock goes on with
  the loop beside the next one. The worker's slots are not counted: the code
  does not fix the number of processes.
* `copies[t][i]` counts the jobs added for instruction `i`; what their queues do
  with two copies is `InstructionWorker`'s subject (two jobs, one `Key`).
* `ProcessDlq` is `DlqProcessor`. Its document has the fields `Given`, the schema
  requires `Required`. The dead-letter queue gives one attempt.
* `unfound` is a history variable: jobs of which a run got no transaction.

`InOrderRouting` states what all the runs of all jobs amount to: for each
transaction one run that never fails, which covers the instructions that have a
queue (in it, or put aside) one at a time and in order, marks the row when all
are covered, and takes nothing back. `Router == INSTANCE InOrderRouting` with the
covered positions and the marked rows, and the property `RoutesAsOneRun`, say
that the pipeline implements it.

### `LiquidityLedger.tla`

The rows that amounts are added to: the bins of a pair (`Bins`), its reserves
(`reserves`) and its fee columns (`fees`), and the processors that do it:
`swap.processor.ts` for the instruction and for its bin-swap event,
`increase-position.processor.ts` for its loop over bins and the pair,
`composition-fees.processor.ts`.

* A row is the set of jobs whose amounts are in its sums. A processor reads it
  (`seen[<<j, r>>] = row[r]`), awaits other calls, and writes back what it read
  plus its own: a write of a job that was not in `seen` is gone. An increase
  reads the pair first, passes all its bins, and writes the pair last.
* One action per awaited call that touches these rows. `Abandon` breaks a job
  off at any of them: its data cannot be decoded, a row is missing, a call fails
  or the process dies; the retry finds the record (`InstructionWorker`).
* A swap stores its row under an id with its inner index (`SwapEventId`); the
  event looks for it under an id without one (`LookUpVaults`) and otherwise puts
  dummy vaults in their place. `FillVaults` is the `updateOne` that should
  repair them; its filter has a field the schema has not, so it matches nothing.
* `written`, `missed` and `hasty` are history variables: who has written a row,
  which writes a job has missed since it read one, and the events begun before
  the job of their swap was completed.

Protocol fees of a pair are kept as strings and the code joins their decimals
(`NewProtocolFees` of `BinMath`); in this module they count as added.

### `PairSetup.tla`

The rows all other processors look for, and the five processors that make and
change them: bin-step configurations, pairs with their two mints, bin arrays,
quote assets, updates of a pair's static fees and of an asset's status.

* A job's `pc` is the next find or create it makes; any number of jobs may be
  about one row, and mints are shared by pairs. `Create` is an insert under the
  unique index of `id`: it fails if the row is there, and the run is over
  (`Throw`). After `MaxAttempts` runs the job is `failed`. A job may also be
  `absent`: nothing was routed, or it cannot be decoded and is skipped.
* `initialize-bin-array` looks at the first bin only and inserts the array in
  order (`InsertBin`, one bin at a time, as `insertMany` does it).
* `Fault` is the failure of any call, the first one of a run included: the
  attempt is lost, and the job is `broken`.
* The last two processors record the instruction first, so a retry of theirs
  does nothing (`CheckAndInsertInstruction`); the first three do not record.
* Fee parameters are represented by where they come from: the configuration, or
  an update. `UpdateStatus` changes nothing: the decoded status is an object,
  equals no member of the enum, and the row is set to what it is.
* `broken` and `applied` are history variables: jobs of which a call failed or
  a row was missing, and fee updates that were written.

### `AccountOwner.tla`

`SolanaService.getTokenAccount` and `getAccountCreator`, the way
`create-position` calls them. The account's signatures are `1..signatures`, the
oldest first; more are finalized and the account is closed at any time (`Sign`,
`Close`). `GetPage` asks for a page before the cursor and goes on as long as
pages are full; a request that fails sends the call back to its beginning as
long as it has retries.

### `BinMath.tla`, `MCHelpers.tla`

`BinMath` holds `powQ64`, `getPriceFromId`, `add` and `normalizeAmount` and what
the swap and composition-fees processors compute with them, as functions. Fixed
point numbers are integers in units of 1/`Scale`; a double is an integer of at
most `Mantissa` significant bits (`Double` rounds to the nearest, ties to even).
`PriceQ64` is the Q64.64 number that `getPriceFromId` computes, `PriceFromId` the
double that `q64ToFloat` makes of it and the function returns.
`CallSpec` is one call of a price or of a swap's amounts, with any arguments;
`MCHelpers` runs a lookup of `AccountOwner` and then such a call over small
ranges. `BinMathAssumption`: the scale is a power of two, so that dividing by it
is exact; a double has two bits or more, so that the tie at a
power of two has an even neighbour (the code's have 53); and the steps from the
middle (`Reach(id)`) are few for the scale, so that truncations do not add up to
a bin step (the code's ids have 32 bits, its scale 64, and a bin step is at
least 1/10000).

## 3. Runs

| run | instance | shows |
| --- | --- | --- |
| scanner_safety | 4 signatures in 2 blocks, 1 failed; pages of 2; 2 forward and 2 queueing ticks; 1 fault or crash | `NoGap`, `HistoryComplete`, `QueuedHasJob`, `QueuedOncePerFault`, `SlotOrder` |
| scanner_live | 3 signatures, 2 forward ticks, 1 queueing tick, 1 fault | `EventuallyStored`, `EventuallyQueued` |
| scanner_duplicates | 2 signatures, no fault | violates `UniqueSignatures` |
| worker | 3 jobs (2 of one instruction, 1 unreadable), 2 slots, 2 attempts, 2 writes, 3 faults | `OneWriter`, `CompletedRecorded`, `FaultFreeApplied`, `EffectsAtMostOnce`, `EventuallySettled` |
| worker_lost | 2 jobs of one instruction, 1 fault | violates `ProcessedMeansApplied` |
| position_safety | both create paths, 2 increases, 3 attempts, 2 faults | `SharesWithPosition`, `NoRegress`, `CompleteUnlessThrown`, `CreditsRightShare`, `CreditedOnce` |
| position_live | both create paths, 1 decrease, 1 close, 2 faults | `EventuallyPosition` |
| position_race | both create paths, no fault | violates `UpdateOrInsert` |
| pipeline | 2 jobs on 1 transaction (swap, increase_position, BinSwapEvent among calls of other programs), 2 attempts, 1 stall, 2 faults | `ProcessedMeansRouted`, `EventAfterInstruction`, `CopiesPaid`, `CompletedAccounted`, `RoutesAsOneRun`, `EventuallySettled` |
| ledger | 1 swap and its event on bin 1, an increase of bins 1 and 2, one of bin 2, 2 composition fees; any of them broken off anywhere | `LossesExplained`, `PairAfterBins`, `EventsMatchRows`, `VaultsKnown` |
| pair_setup | 3 sets of jobs, each with the configuration: 2 pairs of the same mints, one with a copy of its job; a pair, a copy and an update of its fees; an array of 3 bins and a copy, a quote asset and its status; 3 attempts, 1 failed call | `PairComplete`, `UpdatesStand`, `ArraysWhole`, `RetriesSuffice`, `PairEventually` |
| helpers | pages of 2, up to 5 signatures, 1 retry, 2 failed requests; then prices (in 1/4096, bin steps up to 8%, ids 0..15) and amounts, both in 10-bit doubles (3 fraction digits, mints of 0, 2 and 4 decimals) | `CreatorIsFirst`, `EventuallyAnswered`, `PricesGeometric`, `ReservesAgree`, `AmountsNormalized` |

Bounds. Two ticks of a kind are enough for a stale cursor to be overtaken;
pages of two with four signatures give a page that crosses a block, a page that
ends inside the history and a forward page that is too short. One fault at any
point covers each `catch` and each crash point; the worker run uses three, so
that a job can use up its two attempts or its stalls while the other one goes
on. Two writes are the least for a run that fails half way. In position_safety
the bins of the two increases are chosen so that, against a lower bin id of 0,
one index is in range and wrong and the other is out of range. The pipeline's
transaction has an instruction and its event, an instruction between them that
has no queue, and calls of other programs for the parser to leave out; two
attempts, one stall and two faults let a run that lost its lock overlap the
next run of its job and both runs of the other one.

In the ledger the increase of both bins can be overtaken by the event on one, by
the other increase on the other, and on the pair; the two fees race on the
pair's other columns. Three attempts in pair_setup are the code's; a competitor
takes at most one for each mint and one for the pair, and one fault more lets a
job fail for good. Pages of two with five signatures give an empty, a partial, a
full last and a growing chain; ten bits of mantissa round prices from a quarter
of the scale on, and have amounts on both sides of the last exact integer (1024).

The three runs that end in a violation show disagreements of the code with its
comments:

* `UniqueSignatures`: "Bulk insert, ignore duplicates" (`scanner.service.ts:183`),
  but `signature` has no unique index and overlapping ticks insert twice.
* `ProcessedMeansApplied`: the record is taken for "already been processed"
  (`instruction.service.ts:54`) although it is written before the effects.
* `UpdateOrInsert`: "Check if position already exists and update or insert"
  (`create-position.processor.ts:165`, `:254`): of two paths that both find no
  position, one fails on the share ids and its retry returns at its own record.

More is in the models as the code has it and needs no interleaving to be seen:

* "For same-slot txs, smaller _id means older." (`scanner.service.ts:275`) fails
  when a block spans two pages of the backward scan, whose older page is
  inserted later. "ensure dont missing transaction at start time" (`:143`): an
  empty collection makes every forward tick skip.
* Every decrease throws (`Refused`): "Subtract liquidity_burned from balance"
  (`decrease-position.processor.ts:222`) subtracts a string from a `BigInt`.
  Every close throws: "Check if decrease position event has been indexed"
  (`close-position.processor.ts:119`) spells the processor's name otherwise than
  the records do (`instruction.service.ts:83`).
* Nothing is saved from the dead-letter queue (`ProcessDlq`): "Save failed
  instruction to DLQ" (`dlq.processor.ts:32`) builds a document without two
  fields that the schema requires (`dlq-event.schema.ts:15`, `:18`).
* With the signature of `transaction.processor.ts:57`, every completed job but
  that transaction's own leaves its row unmarked (`CompletedAccounted` speaks of
  `Signature[j]`), and when that transaction's row is stored and not yet queued,
  it is marked all the same and never queued (`PassedOver`).
* `FillVaults` finds no row: its filter (`swap.processor.ts:201-207`) asks for
  `instructionIndex`, which rows of bin-swap events have not. A swap called by
  another program has an id with an inner index, and the lookup (`:327`) asks
  for one without, so its events keep dummy vaults (`VaultsKnown` leaves them
  out).
* Protocol fees are joined as strings (`composition-fees.processor.ts:245`), and
  `inner_instruction_index || null` there takes inner index 0 for none.
* An asset's status is always Enabled (`quote-asset.processor.ts:191`, "Update
  status (matching Rust enum conversion)").
* An update of fees or of a status that comes before its row is recorded and
  lost; a bin array of which only a part was inserted passes for a whole one at
  the retry (`ArraysWhole` names the cause); a mint stored without metadata is
  never refreshed; `pair.reserves` follow increases only, never swaps.
* The keys of a transaction with lookup tables cannot be read
  (`getAccountKeys()` without the tables throws), so `getAccountCreator` fails
  on all its retries for an account whose first transaction has one.

## 4. Fairness

`Scanner!Fairness`: the start-up task and every tick that began go on (awaits
resolve), cron starts the next tick, a crashed process is restarted. Faults are
bounded, so after the last one the loops succeed; in the code the same holds
when RPC and database come back. `InstructionWorker!Fairness`: a run's awaits
resolve, BullMQ hands waiting jobs to free slots, ends backoffs and looks for
stalled jobs. `PositionLifecycle!Fairness`: every job that waits is run and its
awaits resolve. `TransactionPipeline!Fairness`: waiting jobs (also those the
stalled-job check returned) are taken, and every run's awaits resolve.
`PairSetup!FairSpec`: each job's next call is made (`WF_vars(Work(j))`).
`AccountOwner!FairSpec`: the node answers (`WF_vars(Request)`), with the number
of failures and of new signatures bounded; that the search ends in spite of a
growing chain rests on the cursor, not on the bound (`SearchEnds` of section 5).
`LiquidityLedger` claims nothing about the end of a job and has no fairness. No
fairness is put on failures.

## 5. Proofs

Each `<Module>Proofs.tla` proves theorems about its module, for every value of
the constants under the module's named assumption; `HelperProofs` about
`AccountOwner` and `BinMath`, `TransactionPipelineProofs` also about the parser.

* Scanner: `TypeOK`, `NoGap`, `HistoryComplete`, `QueuedHasJob`,
  `QueuedOncePerFault`, `SlotOrder`. The inductive invariant `IInv` adds to them
  what every task in flight knows: the page a backward step holds is adjacent to
  the stored part or to nothing, the page a forward tick holds starts right
  after a stored signature, and everything between that cursor and the page is
  accounted for. `NoGap` alone is not inductive: an insert keeps it only because
  of where its page starts. The last two rest on `QueueInv`. `LBInv`: the flag
  `isProcessingQueue` lets one tick in, and the rows of its batch are still
  there and not queued. `CountInv`: a row free to be queued has no more jobs
  than there were faults, because only a fault or a crash between `addBulk` and
  the mark leaves a row with a job unmarked. `OrderInv`: ticks begin after the
  backward scan, so every older transaction was stored (or `lost`, or `skipped`)
  before a batch is read; it is in the batch, or had its job, or its row was
  marked by another's run and is passed over (`Gone`). This is where
  `HistoryComplete` is used: without it an older page could be stored after a
  newer block was queued. `BackwardAdvances` and `QueueingAdvances` are about
  the two loops. The page a backward step holds ends below its cursor, so the
  cursor moves towards the genesis whatever the chain and the collection do; the
  batch of a queueing tick is not empty (`BatchFound`) and, by `LBInv`, not
  queued, so each turn leaves fewer rows for the next find.
* InstructionWorker: `TypeOK`, `OneWriter`, `CompletedRecorded` (a completed
  job's instruction is recorded), `FaultFreeApplied`, `SettledStays` and the
  refinement `Implements`. The inductive invariant says that a busy slot serves
  a job, that only an active job is locked, and that a run that writes owns a
  recorded id no other run writes for, with as many writes made as the id has
  received. For the refinement, every step other than an insert or a write
  abandons a (perhaps empty) set of ids, which is one action of `AtMostOnce`; a
  last write whose call fails is its last effect. `NoLivelock`: a job's measure
  counts the failures and stalls it may still have and where it is in its life
  cycle, a run's the awaits in front of it.
* PositionLifecycle: `TypeOK`, every invariant of position_safety, `NoRegress`
  and `OneCreator` (of the two paths at most one makes the row). A run about to
  store the row has stored the shares and is alone, because the share ids are
  unique (`StoreInv`). Without a fault, a job none of whose runs threw is
  unrecorded until it inserts, so its check never turns it away, and its effect
  is there once it is completed (`Fresh`, `Effective`); the token account is
  there once the create instruction is past it (`Accounted`). From that an
  increase begun after the event finds the real bounds (`CreditInv`), a stored
  row with all its shares and an index in range, so it does not throw
  (`Unharmed`): it is credited once, and an increase that is lost came too early
  or the event's job threw. `StoredWhenSettled`: without a fault, where both
  create jobs are settled the position is stored. A job that gave up met all the
  shares, and as long as there are shares and no row, the job that stored them
  is at its next await, to store the row (`HalfStored`). `NoLivelock`: every
  step lessens what is left of a job.
* TransactionPipeline: `TypeOK`, `ProcessedMeansRouted`, `CompletedAccounted`,
  `RoutedInOrder`, `EventAfterInstruction`, `CopiesPaid` and the refinement
  `Implements`. The invariant says of
  every run, also of one that lost its lock, that the instructions in front of
  its position are in a queue or put aside, and that a run at the mark has
  passed them all. Overlapping runs then keep the order, because each adds only
  what it stands at. `TypeOK` needs the count of runs (`Counted`: begun is
  failures plus stalls, plus one while active). For the refinement, a step covers
  at most the instruction its run stands at, whose predecessors are covered, and a
  run at the mark has everything covered; all other steps are stutters.
  `CopiesPaid` needs `CopyInv`: the copies of an instruction are no more than the
  runs that are past it, or at it after a failed add (`CopiesOwned`), and a job
  begins no more than its first run, its failures and its stalls (`RunsBegun`); it
  sums over the finite set of jobs. `NoLivelock`: a step takes something from a
  job; or from no job, and something from a run, also from one that lost its
  lock; or from neither, and an item from the dead-letter queue, which is finite
  (`WaitingFinite`).
* TransactionParser: two theorems take raw transactions `raw` with `Parses(raw)`:
  every `raw[t]` is one of `Transactions` and `Instructions[t]` is what
  `extractLiquidityBookInstructions` makes of it. `EventAfterInstruction` follows
  because the parser puts events behind instructions (`ParserPutsEventsBehind`,
  of every transaction), and `ProcessedMeansCallsRouted` says of the raw
  transaction that each call to the program with a queue, outer or inner, is
  routed or put aside once the row is marked: no call is left out by the parser
  either. The lemmas say where `FlattenSeq` puts the items of each part.
* LiquidityLedger: `TypeOK`, `LossesExplained`, `PairAfterBins`,
  `EventsMatchRows`, `VaultsKnown`. `LossesExplained` is not inductive: a job
  about to write a row must already account for what its own write will remove,
  and the one that removed something may itself be removed. `HeldExplained` says
  it of every job that holds a row: what was written and is not in its `seen` it
  has missed, or a job in its `seen` has. The others follow from one invariant
  per kind of job that says what it has written and stored at each `pc`
  (`Progress`): a job leaves a bin behind only with its event, so at most the
  bin it stands at is without one. `SumsComplete`: a row whose writers missed
  nothing holds every amount that was added to it. `NoLivelock`: an increase
  goes through its bins once.
* PairSetup: `TypeOK`, `PairComplete`, `RetriesSuffice`, `UpdatesStand`,
  `ArraysWhole`. `Order` says which rows are there at each `pc` of a pair's job;
  `Budget` bounds the attempts an unbroken job has lost by the number of its
  three rows that others have stored, so the third loss leaves the pair stored.
  `UpdatesStand` has two halves: fees once written by an update stay those of some
  update (`Standing`), and a job that is not broken has one run only, which has
  its record and its row and writes (`OneRun`).
  `Filled` says that the job filling an array has inserted every bin there is
  (`Within`: no job has inserted more). `StoredWhenSettled`: a pair's job that is
  settled and was not broken has its pair stored, because it completes only
  after the pair was found or created and fails only with its budget spent.
  `NoLivelock`: a job has its calls left and its attempts.
* AccountOwner: `TypeOK`, `CreatorIsFirst`. `Search`: the cursor is the oldest
  signature seen, and the search leaves the pages only when nothing is older.
  `SearchShrinks`: every request lessens the number of requests ahead, and once
  the first page is had, a chain that grows does not add to it; a failed request
  is the only way back.
* BinMath: `PricesGeometric`. `powQ64` multiplies squares and cuts each product,
  so its errors depend on the binary digits of the exponent. Two invariants of
  the loop (`LoopBelow`, `LoopAbove`) compare it with the exact power: the
  result is never above, and below by the factor (1 - 1/`Scale`) at most once
  for each factor multiplied, however these are paired. With Bernoulli's
  inequality that is a relative error of `e`/`Scale` for the exponent `e`
  (`PowQ64Accurate`), and two neighbours differ by one factor more, on either
  side of the middle and across it. The double made of a price is at most one
  last bit from it, and rounding keeps the order. `PricesOrdered` sums up over
  the ids: all prices of a pair are in the order of their ids.
* BinMath, the amounts: `ReservesAgree`, `AmountsNormalized`. `Nearest` is exact
  below 2^`Mantissa` and off by at most half a last bit's value (`Unit`) above,
  and no rounding of a number crosses a power of two, which is its own double.
  With the unit of `most`, the roundings before the last one put the sum off by
  two units at the most, and the last one adds half a unit. But such a sum can
  pass the next power of two, where doubles are two units apart: `NearestAbove`,
  with its tie to the even one, shows that the total stays below three there as
  well. `AmountsNormalized` follows from the divisions of `NormalizeAmount`,
  exact when the mint has no more decimals than are kept.

The type invariants of `PositionLifecycle`, `TransactionPipeline`,
`LiquidityLedger`, `PairSetup` and `AccountOwner`, and `SettledStays`,
`OneCreator`, `RoutedInOrder`, `ProcessedMeansCallsRouted`, `SumsComplete`,
`PowQ64Accurate`, `PricesOrdered` and the properties named in the next paragraph
are proved only; no run lists them.

What can be proved of liveness is proved. Descent: in every module with jobs
each step lessens a natural number or a finite set (`NoLivelock` of five
modules, `BackwardAdvances`, `QueueingAdvances`, `SearchShrinks`), so finitely
many jobs and slots do not work for ever, whatever interleaves or fails. Goal:
where the work has ended, what should have come about is there
(`StoredWhenSettled` of `PositionLifecycle` and `PairSetup`). What is left to
TLC is that a job that can go on does, which is the fairness of section 4.

`DataInduction` holds what these need of data. The induction theorems of the
library take an operator, which the provers cannot instantiate, so it argues
with sets: a set of numbers that is not empty has a least element (`Least`), a
family of subsets of a finite set a smallest one (`Smallest`). From these come the
equations of the recursive functions (`RecursionExists`, used for `Ten`, `Two` and
`Unit`, `TailRecursionExists` for the loop of `powQ64`, which recurs on a
triple), the sums over finite sets (`SumStep`, `PairsCounted`), and the powers of
a number with their laws and Bernoulli's inequality (`Power`, `Bernoulli`).

Model-checked only: the liveness properties (`EventuallyStored`,
`EventuallyQueued`, `EventuallySettled`, `EventuallyPosition`, `PairEventually`,
`EventuallyAnswered`), because fairness speaks of ENABLED, which is out of the
prover's reach. Every other property of the passing runs has a theorem.

## 6. Not modelled, and the plan

* The IDL and the Borsh decoder (generated; what a decoder returns is an input),
  formatting, logging, HTTP, authentication, health, RabbitMQ (a test queue), the
  statistics helpers of the queues, `RateLimitService` (injected nowhere).
* Methods of `SolanaService` that hand one request on: they are calls that may
  fail, in the modules that use them. What the node or Metaplex says of a token.
* `BinMath.getIdFromPrice`, `getLiquidityFromAmounts`, `subtract`, `divide` and
  the other functions nothing calls, and `calculatePriceXY`, whose value is
  stored nowhere.
* The code behind the throws of decrease and close: no run reaches it.
* `startScanning`, `stopWorkers` and the status reads.

Left for later: the composition of `PairSetup` with
`LiquidityLedger`, where an event that comes before its bins is broken off
(today one `Abandon`).
