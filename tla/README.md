# TLA+ models of the transfers consumer

This directory holds TLA+ models of `src/lib/Transfers/TransfersConsumer.cpp`.
That file is the wallet-side component that scans blocks and pool transactions
for outputs belonging to watched accounts and credits them to per-account
containers. The TLC model checker checks the models.

## The system

`TransfersConsumer` is made of these parts.

| Part | Code | State it owns |
|---|---|---|
| Output scanner | `checkOutputKey`, `findMyOutputs` (46-100) | none (pure) |
| Transfer builder and seen registry | `createTransfers` (447-558), `addPublicKeysSeen` (438-445), the globals `transactions_hash_seen`, `public_keys_seen`, `seen_mutex` (38-40) | the process-wide registry |
| Preprocessor | `preprocessOutputs` (560-597), `getGlobalIndices` (678-694) | none; calls the node and the builder |
| Batch pipeline | `onNewBlocks` (226-353) | pushing thread, bounded `BlockingQueue`, worker threads, `stopProcessing`, results vector |
| Per-transaction apply | `processTransaction`, `processOutputs` (599-676) | the containers |
| Facade | `add/removeSubscription`, `updateSyncStart`, `initTransactionPool`, `onBlockchainDetach`, `onPoolUpdated`, `add/removeUnconfirmedTransaction` | `m_subscriptions`, `m_spendKeys`, `m_syncStart`, `m_poolTxs` |
| Subscription container | not in `src/` | the transactions and transfers of one account |
| Node | not in `src/` | delivers blocks and pool changes, and answers global-index requests |

### How the parts interact

The blockchain synchronizer calls `onNewBlocks` with a batch of consecutive
blocks.

- **Pushing thread.** It skips blocks older than `m_syncStart.timestamp` and
  pushes every transaction into a queue of capacity `2 * workers`. Push
  blocks while the queue is full.
- **Worker threads.** `hardware_concurrency()` workers run, or 2 if it
  returns 0. Each pops an item and preprocesses it:
  - scans the item with `findMyOutputs`;
  - asks the node for global indices;
  - calls `createTransfers` once per matched account, under `seen_mutex`.
- **Worker error.** A worker that gets an error sets `stopProcessing` and
  exits.
- **Joining.** The calling thread joins the workers.
- **On success** it sorts the results by (height, transaction index) and
  applies them serially through `processTransaction`.
- **On error** it calls `onError` on each subscription and returns false.

Pool updates take a sequential path: `onPoolUpdated` →
`preprocessOutputs` → `processTransaction` at the unconfirmed height.

The duplicate-key registry is global. A transaction whose hash it already
holds skips the key check. A transaction with a key already seen is dropped
for that account.

## Modules

| Module | Models | State and actions |
|---|---|---|
| `OutputScanner` | the output scanner | `FindMyOutputs` and `ScanFrom` (RECURSIVE) translate the loop. `Key` outputs use the running key index; each key of a `Multisignature` output is checked with the output index, as line 95 does. Key derivation is the constant `Underive(key, index)`. |
| `TransferBuilder` | `createTransfers` | `BuildFrom` is the loop over owned indices. It covers the hard error for an index out of range and the soft early `return {}` on a duplicate key. On completion the hash and the temp keys are merged. One call is one critical section, so it is one operator. |
| `TransfersContainer` | the subscription container (modelled from `spec.md`) | A container maps each transaction to a height, `Unconfirmed` or `Absent`, and holds the credited transfers. `AddTransaction`, `MarkTransactionConfirmed`, `DeleteUnconfirmedTransaction` and `Detach` are defined here. |
| `ConsumerObserver` | the observer notifications | One record per `IBlockchainConsumerObserver` call: `DetachNotice(h)`, `BlocksAddedNotice(start, count)` (the hashes of `getBlockHashes` abstracted to heights), `TxUpdatedNotice(t, containers)` and `DeleteNotices(deleted)`, which gives the begin/end pair for each hash. |
| `TransfersConsumer` | the consumer and its environment | See below. |
| `SequentialConsumer` | what the consumer promises (abstract, from spec 4.4, 4.5, 4.6 and 8) | Variables `subs`, `container`, `registry`, `cursor` and `notified` (the last call's notifications). `ApplyBatch(n)` scans a batch's transactions in chain order, one at a time, each against the registry left by those before it. It notifies `onBlocksAdded`, then `onTransactionUpdated` for each transaction that changed a container. `FailBatch(n)` leaves the containers alone and only adds the batch's hashes and keys to the registry. `PoolUpdate(a, d)` scans the added transaction the same way at the unconfirmed height, then drops the deleted ones from the pool. `Subscribe`, `Unsubscribe`, `DetachAt(h)` and `RestoreKey` are the other steps. |
| `ConsumerPair` | two consumers in one process (lines 38-40) | Two `INSTANCE`s of `TransfersConsumer`, `First` and `Second`, each with its own copy of every variable except `registry`, which they share. A step of `Next` is a step of one consumer with the other's variables unchanged; each keeps the fairness of its own threads. `Keys1` and `Keys2` are the spend keys under each view secret. |
| `Ledgers` | ledgers for TLC | Accounts, keys and transaction hashes are model values. `Underive` is a table. |
| `MCTransfersConsumer`, `MCConsumerPair` | TLC instances | `TransfersConsumer` and `ConsumerPair` over the ledgers. `MCConsumerPair` has a `VIEW`, `PairView`, that leaves out `notified1` and `notified2`. No step reads them, so states that differ only in them have the same futures. |
| `MCSequentialConsumer` | the refinement | A history variable `before` holds the containers, the registry and the notifications as they were when the running batch began. While a batch runs, the abstract state is `before`; the step back to idle is the abstract batch step. `SequentialRefinement` is `SequentialConsumer!Spec` under this mapping. |
| `MCOutputScanner` | the scanner check | Every transaction of up to three outputs over a seven-output alphabet, derivable or not, with every set of watched keys. `ScannerMatchesReference` compares `FindMyOutputs` with the reference `OwnedList` of spec 4.1. |

### `TransfersConsumer`

**Variables.**

| Group | Variables | What they are |
|---|---|---|
| Consumer | `subs`, `container`, `syncStart`, `poolTxs`, `registry` | consumer state and the registry |
| Pipeline | `phase`, `batch`, `prod`, `queue`, `closed`, `stop`, `wk`, `results`, `toApply` | the in-flight `onNewBlocks` call |
| Environment | `cursor`, `detaches`, `nodeErrors`, `poolEvents`, `subChanges` | the node's next height and fault budgets |
| Observers | `notified` | what `m_observerManager` delivered during the running or the last call, in order; every facade call starts it afresh |
| History | `addedAt`, `heightAssert` | kept only for the properties; `heightAssert` records that the assert at line 670 would have failed |

The constant `NodeFaults` says how the node may answer a global-index
request badly: `"error"` (an error code) and `"lost"` (the callback never
comes). `consumer_history` allows a lost callback; the other runs allow only
errors.

The constant `ThreadStartMayFail` lets `std::async` fail to start a worker
thread: it throws `std::system_error`, and nothing in `onNewBlocks` catches it.
`OnNewBlocksThreadFails(n, k)` starts only the first `k` workers and marks
the batch `threw`. `BatchUnwound` ends the call once those workers and the
pushing thread have ended, as the futures' destructors wait for them; it
calls no `onError` and applies nothing. `consumer_history`,
`sequential_refinement` and `thread_start_hang` enable it. A failure to start the pushing thread
itself throws before anything happens and is not modelled.

**Actions.**

- **Producer.** `ProducerNextBlock` covers the loop head, the `stopProcessing`
  test and the timestamp filter. `ProducerPush` pushes one transaction and is
  enabled only while the queue has room. At the end it closes the queue.
- **Worker `w`.** There is one action per step:
  - `WorkerCheck` tests `stopProcessing`;
  - `WorkerPop` pops an item, or exits on a closed and empty queue;
  - `WorkerScan` runs `findMyOutputs` and requests global indices;
  - `WorkerNodeError` is the node's error reply; it sets `stop` and the worker exits;
  - `WorkerCallbackLost` is a request whose callback never comes: the worker waits in `f.get()` (pc `"wait"`) and has no further step;
  - `WorkerCreate(w, s)` runs `createTransfers` for one account, in any order of the matched accounts (an `unordered_map`), then publishes the result.
- **Aggregation.** `BatchFailed` calls `onError`. `BatchUnwound` is the
  exception path of a worker that failed to start. `BatchSucceeded` notifies
  `onBlocksAdded` and performs the sort. `ApplyNext` runs `processTransaction`
  for one result. If some subscription's `processOutputs` reports it updated
  (`ContainerUpdated`), it appends `onTransactionUpdated` naming the
  containers that hold the transaction (`ProcessTransactionNotice`).
  `FinishBatch` is the `return true` after `advanceHeight`; it moves the
  node's cursor past the batch.
- **Environment.** The environment issues `OnNewBlocks(count)` for up to
  `MaxBatch` blocks at the cursor, or `OnNewBlocksThreadFails(count, k)`. It can also issue `OnBlockchainDetach(h)`
  followed by redelivery, `OnPoolUpdated` with at most one added and one
  deleted hash, `AddUnconfirmedTransaction`, `RemoveUnconfirmedTransaction`,
  `AddPublicKeysSeen`, `InitTransactionPool`, `AddSubscription` and
  `RemoveSubscription`. `OnBlockchainDetach` notifies the observers first.
  The pool calls notify `onTransactionUpdated` for an added transaction that
  updated a container, and delete-begin and delete-end around each deleted
  hash.

## Runs

| Run | cfg | Expect | What it shows |
|---|---|---|---|
| `consumer_history` | `MCTransfersConsumer.cfg` | pass | `TypeOK`; `SyncStartIsMin` (`m_syncStart` is the component-wise minimum over the subscriptions: the initial states run the constructor and `addSubscription`'s running minimum (lines 142-148) for A and B in both orders, and a later remove and re-add follow); `OwnedTransfersRecorded` (when no batch is running, every transaction delivered after a subscription was added, owned by it, passing the timestamp filter and with a public key, is recorded at its height, even across a failed batch, a detach and redelivery, or an earlier pool sighting); `ChangesAnnounced`, an action property: every change a call makes to what a subscription's container holds for a transaction is announced to the observers in that same call, by `onTransactionUpdated` naming that container, by delete-end, or by a detach at or below the transaction's height. That includes a pool transaction confirmed in a block and a transaction owned by only one of two subscriptions. A batch whose worker failed to start is included. 1,321,651 distinct states, about 1.5 minutes; deadlock is not checked, since a hung batch really stops. |
| `batch_returns` | `MCBatchReturns.cfg` | pass | `BatchReturns`: when the node answers, every `onNewBlocks` returns, under weak fairness of the threads. B subscribes between batches (`AddSubscription`). 24,918 distinct states. |
| `partial_drop` | `MCPartialDrop.cfg` | violation | `TransfersAllOrNothing` fails: a transaction whose second output repeats a seen key keeps the transfer of its first output. |
| `worker_order` | `MCWorkerOrder.cfg` | violation | `DuplicateLosesInChainOrder` fails: two workers race on two transactions with the same key, and the later one in the chain can win. |
| `scanner_reference` | `MCOutputScanner.cfg` | pass | `ScannerMatchesReference`: `findMyOutputs` matches spec 4.1 on all 3,200 (transaction, watched set) pairs. The cases include the multisignature output-index quirk, duplicate entries for a repeated key, and derivation failure. |
| `sequential_refinement` | `MCSequentialConsumer.cfg` | pass | `SequentialRefinement`: the setup is 2 workers on the shared-output ledger (T1 pays A and B, so one transaction runs `createTransfers` for two accounts), batches of up to two blocks, a failed batch, a detach with redelivery, one pool update, `addUnconfirmedTransaction` or `removeUnconfirmedTransaction`, one `addSubscription` or `removeSubscription`, and a restored key. Every batch that returns leaves the containers and the registry exactly as a single thread scanning in chain order would, also for a transaction the pool announced first. A batch also delivers the observer notifications of the sequential scan, in the same order: `onBlocksAdded`, then one `onTransactionUpdated` per transaction that changed a container, in chain order (spec 8, "identical observer events"). A failed batch, and one aborted because a worker thread failed to start, leaves the containers untouched and notifies nothing. Each facade call, subscription changes included, is one abstract step. 164,030 distinct states, about 80 seconds. The refinement catches the `BatchSucceededUnsorted` mutant (its own) and also `ContainerUpdatedNoConfirm`. The same check on the repeated-key ledger of `worker_order` holds with 1 worker and fails with 2. |
| `pool_lag` | `MCPoolLag.cfg` | violation | `HeightAssertHolds` fails: T2 is confirmed at height 2, then a pool update announces T2. `processOutputs` reaches `assert(blockHeight == blockInfo.height)` at line 670. |
| `key_index` | `MCKeyIndex.cfg` | violation | `CreditedKeysRederive` fails. T1 is `[Msig(k1, k2), Key k3]`. `findMyOutputs` matches k3 under key index 2, but `createTransfers` regenerates its key image under output index 1, so the assert at line 494 would fail. |
| `consumer_pair` | `MCConsumerPair.cfg` | pass | `OwnedTransfersRecordedBoth`: two consumers (A under one view key, B under another), one worker each, share the registry. T1 pays both; either may scan it first, in a block or (for B) from the pool, and either may detach and redeliver. Each still records every owned transaction. 674,666 distinct states. |
| `cross_consumer` | `MCCrossConsumer.cfg` | violation | `ProcessOutputKeyUnique` fails. T1 pays A and B (first consumer) and C (second consumer); T2 repeats B's key k2 and C's key k3. The first `createTransfers` call for T1 marks its hash seen, so the later calls never register their keys, whether they run for another account of the same consumer or in the other consumer. T2 is then credited a second time. |
| `stuck_batch` | `MCStuckBatch.cfg` | violation | `BatchReturns` fails: there is one worker, so the queue capacity is 2. One block has 4 transactions, and the first gets a node error. The worker exits, the pushing thread blocks in `push` on the full queue, and `onNewBlocks` never returns. |
| `thread_start_hang` | `MCThreadStart.cfg` | violation | `BatchReturns` fails with no node fault at all, the `stuck_batch` ledger and `ThreadStartMayFail = TRUE`. `std::async` cannot start the only worker (line 305) and throws `std::system_error`, which nothing catches. The pushing thread fills the queue with two items and blocks in `push`, and the destructor of its future waits for it during unwinding. `onNewBlocks` neither returns nor reports the error, in five steps. |

Each property of a passing run has a mutant in `PROJECT.json`: a plausible
bug in the mapped definition that TLC detects.

The mutants:

- `BlockItemsNextHeight`: an off-by-one block height.
- `AddedSyncStartOverwriteTimestamp`: `addSubscription` copies the new
  subscription's timestamp into `m_syncStart` instead of taking the minimum.
- `BuildFromAlwaysCheck`: the seen-hash guard is dropped.
- `BatchSucceededUnsorted`: the `std::sort` is dropped, so results are
  applied and announced in worker completion order; the refinement fails.
- `WorkerPopSpin`: the pop does not exit on a closed queue.
- `ScanFromKeyIndexMsig`: multisignature keys are underived with the running key index.
- `ContainerUpdatedNoConfirm`: the pool-to-blockchain branch of
  `processOutputs` does not set `updated`. The confirmation goes
  unannounced, which breaks `ChangesAnnounced`.
- `BuildFromAlwaysCheck` again, for the pair: a consumer's own redelivered or
  pool-seen transaction is rejected for its own registered key.

## Bounds and why they are enough

- **Main ledger.** There are 2 accounts and 3 blocks holding 4 chain
  transactions, plus 1 pool-only transaction. The transactions exercise every
  branch of the scanner:
  - a `Key` output;
  - a multisignature output whose output index differs from its key index;
  - an `Other` output;
  - a null transaction public key;
  - an output paying two accounts.

  B's start timestamp filters the first block. T2 is both announced in the
  pool and mined, so the pool-to-chain transition is reached.
- **Threads.** 2 workers give a queue of capacity 4. This is enough to
  reorder results and to interleave two workers' `createTransfers`.
- **Batches and faults.** Batches have up to 2 blocks. The run allows one
  detach with redelivery, one node error (a failed batch followed by a
  retry), one pool event and one subscription change. Raising the pool
  events to 2 took about 3 minutes without reaching new kinds of behaviour.
- **The hang.** It needs more remaining items than the queue holds plus the
  one the worker holds, hence 4 transactions with one worker.
- **Scanner.** There are 7 outputs in the alphabet: Key outputs with k1, k2
  and k3, multisignature outputs with keys (k1, k2), (k2) and (k1, k1), and
  Other. Transactions have up to 3 outputs. Indices 0 to 2 are where a running
  key index and an output index can differ in either direction. The
  derivation table makes k1 and k2 derive from different accounts at
  different indices.
- **Refinement.** It uses the shared-output ledger with one pool event and
  one subscription change. On the main ledger with a subscription change the
  check takes about 5 minutes, past the limit for a run; the main ledger's
  multisig, null-key and uninitialized cases are covered by
  `consumer_history`. Two pool events on the shared ledger take over 2
  minutes and add no new kind of step.
- **Pair.** Two blocks: T1 pays A and B, T2 pays B with a fresh key. Each
  consumer has one worker, batches of one block, one detach and, for the
  pool, one announcement of T1. A node error is left out. With it as well
  the pair reaches 2,884,228 states in over 5 minutes. A node error without
  the detach takes 42 seconds, and without the pool 10 seconds. A failed
  batch is already covered by `consumer_history`.
- **Integers.** Heights and timestamps are small naturals. `UInt64Max` stands
  for `numeric_limits<uint64_t>::max()` in `updateSyncStart`.

## Fairness

The pushing thread, the worker threads and the calling thread are OS threads
started with `std::launch::async`. Each gets weak fairness: a thread that can
take a step eventually does. The environment (node, facade callers) has no
fairness; it may stop at any time, and deadlock is checked only where that is
meaningful.

## Not modelled

- The observers' own reactions: they are outside `src/`, and the consumer
  reads nothing back from them. Block hashes are abstracted to heights.
- `markTransactionSafe`: it forwards to the subscriptions only.
- `advanceHeight` (lines 347-350): it moves each subscription's own
  synchronised height, which the model's containers do not keep; only its
  effect on the node, which resumes past the batch, is modelled.
- Cryptography: key derivation and key images are abstracted by `Underive`.
- Amounts, global indices and spends: the container keeps only heights and
  credited transfers.
- The node's global-index reply: the model's node answers with an error,
  never, or one index per output. Line 478 indexes the reply without checking
  its length, which matters only for a node that breaks its contract.
- `unconfirmedBlockInfo.transactionIndex` in `onPoolUpdated` is left
  uninitialized (line 359). Only the container stores it, and the container
  keeps no transaction index in this model.
- The synchronizer, which is not in `src/`. It decides which blocks a
  subscription added later is given again, and it reconciles the node's pool
  with `getKnownPoolTxIds`.

## Plan for further work

- The pair with a detach, a pool event and a node error on each side, once
  the time limit allows it (measured at 2.9 million states).
- A bound on the global-index wait (line 693): no property states one,
  since neither the code nor the spec gives one; a lost callback is only
  shown not to break the safety properties of `consumer_history`.
