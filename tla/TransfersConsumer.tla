------------------------- MODULE TransfersConsumer -------------------------
(***************************************************************************)
(* TransfersConsumer (src/lib/Transfers/TransfersConsumer.cpp): the       *)
(* subscription facade, the pool handlers, and onNewBlocks with its        *)
(* producer thread, bounded BlockingQueue, worker threads, stop flag and   *)
(* serial aggregation.  The node and the wallet caller are the             *)
(* environment: the node delivers the blocks of Chain from cursor on and   *)
(* may fail a getTransactionOutsGlobalIndices request; the caller calls    *)
(* one operation at a time, never while onNewBlocks runs (spec 5).         *)
(***************************************************************************)
EXTENDS TransfersContainer, ConsumerObserver, FiniteSets

CONSTANTS
    Chain,               \* Seq([initialized, timestamp, txs : Seq(Txs)]); Chain[h] is at height h
    PoolTxs,             \* transactions the node may announce in pool updates
    SubStart,            \* [SpendKeys -> [height, timestamp]]: each subscription's syncStart
    HardwareConcurrency, \* std::thread::hardware_concurrency()
    UInt64Max,           \* std::numeric_limits<uint64_t>::max(), above every height and timestamp
    MaxBatch,            \* largest count passed to onNewBlocks
    MaxDetach,           \* bound on onBlockchainDetach calls
    MaxNodeErrors,       \* bound on failed global-index requests
    MaxPoolEvents,       \* bound on pool update calls
    RecoveredKeys,       \* (hash, output key) pairs the wallet may restore from its file
    InitialSubs,         \* accounts subscribed before the first block arrives
    MaxSubChanges,       \* bound on addSubscription/removeSubscription calls
    NodeFaults,          \* how the node may answer a global-index request badly
    ThreadStartMayFail   \* std::async may throw: a thread cannot be started

Heights == 1..Len(Chain)

ASSUME /\ PoolTxs \subseteq Txs
       /\ InitialSubs \subseteq SpendKeys
       /\ \A p \in RecoveredKeys : p \in Txs \X OutKeys
       /\ HardwareConcurrency \in Nat
       /\ \A h \in Heights : Chain[h].timestamp < UInt64Max
       /\ NodeFaults \subseteq {"error", "lost"}
       /\ ThreadStartMayFail \in BOOLEAN

\* onNewBlocks: workers = hardware_concurrency(), or 2 when that is 0, and a
\* BlockingQueue of capacity workers * 2.
WorkerCount == IF HardwareConcurrency = 0 THEN 2 ELSE HardwareConcurrency
Workers == 1..WorkerCount
QueueCapacity == WorkerCount * 2

VARIABLES
    subs,        \* keys of m_subscriptions (= m_spendKeys)
    container,   \* [SpendKeys -> container] of each subscription
    syncStart,   \* m_syncStart
    poolTxs,     \* m_poolTxs
    registry,    \* transactions_hash_seen and public_keys_seen (process-wide)
    cursor,      \* the node: height of the next block it delivers
    detaches, nodeErrors, poolEvents, subChanges,   \* bounded environment counters
    phase,       \* "idle", "batch" (threads running) or "apply" (aggregation)
    batch,       \* [start, count] of the running onNewBlocks; threw: a worker failed to start
    prod,        \* the pushing thread: [blk, pos, done]
    queue,       \* inputQueue contents
    closed,      \* inputQueue.close() was called
    stop,        \* stopProcessing
    wk,          \* the processing threads
    results,     \* preprocessedTransactions, in push order
    toApply,     \* preprocessedTransactions after the sort, not yet applied
    addedAt,     \* history: cursor when each subscription was added (1 when none)
    heightAssert,\* history: the height assert of processOutputs has failed
    notified     \* what m_observerManager delivered during the running or last call

consumerVars == <<subs, container, syncStart, poolTxs, registry, notified>>
envVars == <<cursor, detaches, nodeErrors, poolEvents, subChanges>>
pipeVars == <<phase, batch, prod, queue, closed, stop, wk, results, toApply>>
vars == <<consumerVars, envVars, pipeVars, addedAt, heightAssert>>

----------------------------------------------------------------------------
(* Data of one onNewBlocks run.                                            *)

Items == [height : Heights, txIndex : Nat, tx : Txs]
NoItem == [height |-> 1, txIndex |-> 0, tx |-> CHOOSE t \in Txs : TRUE]
NoTransfers == [s \in SpendKeys |-> <<>>]
IdleWorker == [pc |-> "check", item |-> NoItem, found |-> NoOutputs,
               pending |-> {}, transfers |-> NoTransfers, ec |-> "ok"]
NotStarted == [IdleWorker EXCEPT !.pc = "done"]
NoBatch == [start |-> 1, count |-> 0, threw |-> FALSE]

\* Fault-injected variant of BlockItems: blockInfo.height one past
\* startHeight + i.
BlockItemsNextHeight(h) ==
    LET b == Chain[h]
        js == SelectSeq([j \in 1..Len(b.txs) |-> j],
                        LAMBDA j : ~TxData[b.txs[j]].nullKey)
    IN  IF ~b.initialized \/ (syncStart.timestamp # 0 /\ b.timestamp < syncStart.timestamp)
        THEN <<>>
        ELSE [k \in 1..Len(js) |-> [height |-> h + 1, txIndex |-> js[k] - 1, tx |-> b.txs[js[k]]]]

\* The items the pushing thread pushes for the block at height h: none for
\* an uninitialized block or one older than syncStart.timestamp; otherwise
\* each transaction with a non-null public key, with its position in the
\* block as transactionIndex.
BlockItems(h) ==
    LET b == Chain[h]
        js == SelectSeq([j \in 1..Len(b.txs) |-> j],
                        LAMBDA j : ~TxData[b.txs[j]].nullKey)
    IN  IF ~b.initialized \/ (syncStart.timestamp # 0 /\ b.timestamp < syncStart.timestamp)
        THEN <<>>
        ELSE [k \in 1..Len(js) |-> [height |-> h, txIndex |-> js[k] - 1, tx |-> b.txs[js[k]]]]

CurrentItems == IF prod.blk = 0 THEN <<>> ELSE BlockItems(batch.start + prod.blk - 1)

\* The sort comparator: std::tie(height, transactionIndex) <.
Before(a, b) ==
    \/ a.height < b.height
    \/ a.height = b.height /\ a.txIndex < b.txIndex

----------------------------------------------------------------------------
(* processTransaction(blockInfo, tx, info) and processOutputs.             *)

ProcessOutputs(c, height, t, transfers) ==
    IF Knows(c, t)
    THEN IF c.txs[t] = Unconfirmed /\ height # Unconfirmed
         THEN MarkTransactionConfirmed(c, height, t)    \* pool -> blockchain
         ELSE c                                          \* assert(heights equal)
    ELSE AddTransaction(c, height, t, transfers)

\* The else branch of processOutputs: assert(blockHeight == blockInfo.height)
\* fails for some subscription that already knows t.
HeightAssertFails(cs, height, t) ==
    \E s \in subs : /\ Knows(cs[s], t)
                   /\ ~(cs[s].txs[t] = Unconfirmed /\ height # Unconfirmed)
                   /\ cs[s].txs[t] # height

ProcessTransaction(cs, height, t, transfers) ==
    [s \in SpendKeys |-> IF s \in subs THEN ProcessOutputs(cs[s], height, t, transfers[s])
                         ELSE cs[s]]

\* Fault-injected variant of ContainerUpdated: the pool -> blockchain
\* branch does not set updated.
ContainerUpdatedNoConfirm(c, height, t, transfers) ==
    IF Knows(c, t) THEN FALSE ELSE AddTransactionUpdates(transfers)

\* processOutputs' out-parameters for one subscription: updated by the
\* pool -> blockchain transition or by addTransaction's result; contains
\* when the container knew t or addTransaction recorded it.
ContainerUpdated(c, height, t, transfers) ==
    IF Knows(c, t) THEN c.txs[t] = Unconfirmed /\ height # Unconfirmed
    ELSE AddTransactionUpdates(transfers)

ContainerContains(c, t, transfers) == Knows(c, t) \/ AddTransactionUpdates(transfers)

\* The end of processTransaction: onTransactionUpdated(hash, the containers
\* holding t) when some subscription's container was updated.
ProcessTransactionNotice(cs, height, t, transfers) ==
    IF \E s \in subs : ContainerUpdated(cs[s], height, t, transfers[s])
    THEN <<TxUpdatedNotice(t, {s \in subs : ContainerContains(cs[s], t, transfers[s])})>>
    ELSE <<>>

\* preprocessOutputs for an unconfirmed transaction, the matched accounts
\* taken in the unordered_map's order: createTransfers per account, each
\* under seen_mutex, stopping at the first error.
PreprocessUnconfirmed(reg, t, found, order) ==
    FoldLeft(LAMBDA acc, s :
                IF acc.ec # "ok" THEN acc
                ELSE LET r == CreateTransfers(acc.registry, t, found[s])
                     IN  [ec |-> r.ec, registry |-> r.registry,
                          transfers |-> [acc.transfers EXCEPT ![s] = r.transfers]],
             [ec |-> "ok", registry |-> reg, transfers |-> NoTransfers], order)

\* updateSyncStart: the component-wise minimum, (max, max) when empty.
MinOver(vals) == IF vals = {} THEN UInt64Max ELSE Min(vals)
UpdateSyncStart(S) ==
    [height |-> MinOver({SubStart[s].height : s \in S}),
     timestamp |-> MinOver({SubStart[s].timestamp : s \in S})]

\* Fault-injected variant of AddedSyncStart: a later subscription's start
\* timestamp overwrites m_syncStart.timestamp instead of taking the minimum.
AddedSyncStartOverwriteTimestamp(start, S, s) ==
    IF S = {} THEN SubStart[s]
    ELSE [height |-> IF SubStart[s].height < start.height
                     THEN SubStart[s].height ELSE start.height,
          timestamp |-> SubStart[s].timestamp]

\* addSubscription's update of m_syncStart for a new subscription s added
\* to the subscriptions S: its own start when it is the only one, else the
\* component-wise minimum of it and the current start.
AddedSyncStart(start, S, s) ==
    IF S = {} THEN SubStart[s]
    ELSE [height |-> IF SubStart[s].height < start.height
                     THEN SubStart[s].height ELSE start.height,
          timestamp |-> IF SubStart[s].timestamp < start.timestamp
                        THEN SubStart[s].timestamp ELSE start.timestamp]

\* m_syncStart after the constructor and addSubscription of the keys of ord
\* in that order.
SyncStartAfterAdding(ord) ==
    LET step(acc, s) == [start |-> AddedSyncStart(acc.start, acc.subs, s),
                         subs |-> acc.subs \cup {s}]
    IN  FoldLeft(step, [start |-> UpdateSyncStart({}), subs |-> {}], ord).start

----------------------------------------------------------------------------
(* Initial state: the constructor (updateSyncStart of no subscription),    *)
(* then addSubscription of each of InitialSubs in any order, each taking   *)
(* the running minimum; an empty process-wide registry; the node at the   *)
(* first block.                                                            *)

Init ==
    /\ subs = InitialSubs
    /\ container = [s \in SpendKeys |-> EmptyContainer]
    /\ \E ord \in SetToSeqs(InitialSubs) : syncStart = SyncStartAfterAdding(ord)
    /\ poolTxs = {}
    /\ registry = EmptyRegistry
    /\ cursor = 1
    /\ detaches = 0 /\ nodeErrors = 0 /\ poolEvents = 0 /\ subChanges = 0
    /\ phase = "idle"
    /\ batch = NoBatch
    /\ prod = [blk |-> 0, pos |-> 1, done |-> TRUE]
    /\ queue = <<>> /\ closed = FALSE /\ stop = FALSE
    /\ wk = [w \in Workers |-> IdleWorker]
    /\ results = <<>> /\ toApply = <<>>
    /\ addedAt = [s \in SpendKeys |-> 1]
    /\ heightAssert = FALSE
    /\ notified = <<>>

----------------------------------------------------------------------------
(* The facade, called by the wallet between batches.                       *)

\* addSubscription: idempotent by spend key; the first subscription sets
\* syncStart, later ones take the minimum with it.
AddSubscription(s) ==
    /\ phase = "idle"
    /\ subChanges < MaxSubChanges
    /\ s \notin subs
    /\ subs' = subs \cup {s}
    /\ container' = [container EXCEPT ![s] = EmptyContainer]
    /\ syncStart' = AddedSyncStart(syncStart, subs, s)
    /\ addedAt' = [addedAt EXCEPT ![s] = cursor]
    /\ subChanges' = subChanges + 1
    /\ notified' = <<>>
    /\ UNCHANGED <<poolTxs, registry, cursor, detaches, nodeErrors, poolEvents,
                   pipeVars, heightAssert>>

\* removeSubscription: erase, then recompute syncStart.
RemoveSubscription(s) ==
    /\ phase = "idle"
    /\ subChanges < MaxSubChanges
    /\ s \in subs
    /\ subs' = subs \ {s}
    /\ container' = [container EXCEPT ![s] = EmptyContainer]
    /\ syncStart' = UpdateSyncStart(subs \ {s})
    /\ subChanges' = subChanges + 1
    /\ addedAt' = [addedAt EXCEPT ![s] = 1]
    /\ notified' = <<>>
    /\ UNCHANGED <<poolTxs, registry, cursor, detaches, nodeErrors, poolEvents,
                   pipeVars, heightAssert>>

\* initTransactionPool: pool ids from every container's unconfirmed list,
\* except the uncommitted ones.
InitTransactionPool(uncommitted) ==
    /\ phase = "idle"
    /\ poolTxs' = poolTxs \cup
                  ({t \in Txs : \E s \in subs : container[s].txs[t] = Unconfirmed} \ uncommitted)
    /\ notified' = <<>>
    /\ UNCHANGED <<subs, container, syncStart, registry, envVars, pipeVars, addedAt, heightAssert>>

\* addPublicKeysSeen: restores a (hash, output key) pair of a transaction.
AddPublicKeysSeen(t, k) ==
    /\ phase = "idle"
    /\ registry' = [hashes |-> registry.hashes \cup {t}, keys |-> registry.keys \cup {k}]
    /\ notified' = <<>>
    /\ UNCHANGED <<subs, container, syncStart, poolTxs, envVars, pipeVars, addedAt, heightAssert>>

\* onBlockchainDetach: observers are notified, then every subscription
\* detaches; the node rewinds.
OnBlockchainDetach(h) ==
    /\ phase = "idle"
    /\ detaches < MaxDetach
    /\ notified' = <<DetachNotice(h)>>
    /\ container' = [s \in SpendKeys |-> IF s \in subs THEN Detach(container[s], h)
                                         ELSE container[s]]
    /\ cursor' = h
    /\ detaches' = detaches + 1
    /\ UNCHANGED <<subs, syncStart, poolTxs, registry, nodeErrors, poolEvents, subChanges,
                   pipeVars, addedAt, heightAssert>>

\* processTransaction(unconfirmedBlockInfo, tx), shared by onPoolUpdated
\* and addUnconfirmedTransaction: preprocessOutputs (no global-index request
\* for the pool), then the serial apply.  order is the unordered_map's
\* iteration order over the matched accounts.
UnconfirmedOrders(t) == SetToSeqs(Matched(FindMyOutputs(t, subs)))

ProcessUnconfirmed(t, order) ==
    LET r == PreprocessUnconfirmed(registry, t, FindMyOutputs(t, subs), order)
    IN  [ec |-> r.ec, registry |-> r.registry,
         container |-> IF r.ec = "ok"
                       THEN ProcessTransaction(container, Unconfirmed, t, r.transfers)
                       ELSE container,
         notice |-> IF r.ec = "ok"
                    THEN ProcessTransactionNotice(container, Unconfirmed, t, r.transfers)
                    ELSE <<>>]

\* deleteUnconfirmedTransaction of each deleted hash on every subscription.
DeleteFromAll(cs, deleted) ==
    [s \in SpendKeys |->
        IF s \in subs THEN FoldSet(LAMBDA d, c : DeleteUnconfirmedTransaction(c, d), cs[s], deleted)
        ELSE cs[s]]

\* onPoolUpdated(added, deleted): each added hash goes into m_poolTxs and is
\* processed, an error is fanned out as onError and returned at once; then
\* each deleted hash leaves m_poolTxs and every container.  added holds at
\* most one hash: a longer list behaves as a sequence of such calls, since
\* the first error returns before any deletion.
OnPoolUpdated(added, deleted) ==
    /\ phase = "idle"
    /\ poolEvents < MaxPoolEvents
    /\ added # {} \/ deleted # {}
    /\ \/ /\ added = {}
          /\ container' = DeleteFromAll(container, deleted)
          /\ poolTxs' = poolTxs \ deleted
          /\ notified' = DeleteNotices(deleted)
          /\ UNCHANGED <<registry, heightAssert>>
       \/ \E t \in added : \E order \in UnconfirmedOrders(t) :
             LET r == ProcessUnconfirmed(t, order)
             IN  /\ registry' = r.registry
                 /\ heightAssert' = (heightAssert \/
                                     (r.ec = "ok" /\ HeightAssertFails(container, Unconfirmed, t)))
                 /\ IF r.ec = "ok"
                    THEN /\ container' = DeleteFromAll(r.container, deleted)
                         /\ poolTxs' = (poolTxs \cup {t}) \ deleted
                         /\ notified' = r.notice \o DeleteNotices(deleted)
                    ELSE /\ container' = container
                         /\ poolTxs' = poolTxs \cup {t}
                         /\ notified' = <<>>
    /\ poolEvents' = poolEvents + 1
    /\ UNCHANGED <<subs, syncStart, cursor, detaches, nodeErrors, subChanges, pipeVars, addedAt>>

\* addUnconfirmedTransaction: the unconfirmed path without m_poolTxs.
AddUnconfirmedTransaction(t) ==
    /\ phase = "idle"
    /\ poolEvents < MaxPoolEvents
    /\ \E order \in UnconfirmedOrders(t) :
          LET r == ProcessUnconfirmed(t, order)
          IN  /\ registry' = r.registry
              /\ container' = r.container
              /\ notified' = r.notice
              /\ heightAssert' = (heightAssert \/
                                  (r.ec = "ok" /\ HeightAssertFails(container, Unconfirmed, t)))
    /\ poolEvents' = poolEvents + 1
    /\ UNCHANGED <<subs, syncStart, poolTxs, cursor, detaches, nodeErrors, subChanges, pipeVars, addedAt>>

\* removeUnconfirmedTransaction: every subscription, m_poolTxs untouched.
RemoveUnconfirmedTransaction(t) ==
    /\ phase = "idle"
    /\ poolEvents < MaxPoolEvents
    /\ container' = DeleteFromAll(container, {t})
    /\ notified' = DeleteNotices({t})
    /\ poolEvents' = poolEvents + 1
    /\ UNCHANGED <<subs, syncStart, poolTxs, registry, cursor, detaches, nodeErrors, subChanges,
                   pipeVars, addedAt, heightAssert>>

----------------------------------------------------------------------------
(* onNewBlocks(blocks, startHeight, count).                                *)

\* The call: the node hands over count blocks from cursor; the pushing
\* thread starts, then the loop of line 305 starts the processing threads.
\* std::async throws std::system_error when it cannot start a thread; then
\* only the first `started` workers run, and the exception leaves
\* onNewBlocks once the destructors of their futures and of the pushing
\* thread's future have waited for those threads (BatchUnwound).
StartBatch(count, started) ==
    /\ phase = "idle"
    /\ count \in 1..MaxBatch
    /\ cursor + count - 1 <= Len(Chain)
    /\ phase' = "batch"
    /\ batch' = [start |-> cursor, count |-> count, threw |-> started < WorkerCount]
    /\ prod' = [blk |-> 0, pos |-> 1, done |-> FALSE]
    /\ queue' = <<>> /\ closed' = FALSE /\ stop' = FALSE
    /\ wk' = [w \in Workers |-> IF w <= started THEN IdleWorker ELSE NotStarted]
    /\ results' = <<>> /\ toApply' = <<>>
    /\ notified' = <<>>
    /\ UNCHANGED <<subs, container, syncStart, poolTxs, registry, envVars, addedAt, heightAssert>>

OnNewBlocks(count) == StartBatch(count, WorkerCount)

OnNewBlocksThreadFails(count, started) ==
    /\ ThreadStartMayFail
    /\ started \in 0..(WorkerCount - 1)
    /\ StartBatch(count, started)

\* Pushing thread, outer loop: `i < count && !stopProcessing`, else close.
ProducerNextBlock ==
    /\ ~prod.done
    /\ prod.pos > Len(CurrentItems)
    /\ IF prod.blk < batch.count /\ ~stop
       THEN /\ prod' = [blk |-> prod.blk + 1, pos |-> 1, done |-> FALSE]
            /\ UNCHANGED closed
       ELSE /\ prod' = [prod EXCEPT !.done = TRUE]
            /\ closed' = TRUE
    /\ UNCHANGED <<consumerVars, envVars, phase, batch, queue, stop, wk, results,
                   toApply, addedAt, heightAssert>>

\* Pushing thread, inner loop: inputQueue.push blocks while the queue is full.
ProducerPush ==
    /\ ~prod.done
    /\ prod.pos <= Len(CurrentItems)
    /\ Len(queue) < QueueCapacity
    /\ queue' = Append(queue, CurrentItems[prod.pos])
    /\ prod' = [prod EXCEPT !.pos = @ + 1]
    /\ UNCHANGED <<consumerVars, envVars, phase, batch, closed, stop, wk, results,
                   toApply, addedAt, heightAssert>>

WorkerBecomes(w, rec) == wk' = [wk EXCEPT ![w] = rec]

\* processingFunction: `while (!stopProcessing && inputQueue.pop(item))`.
WorkerCheck(w) ==
    /\ wk[w].pc = "check"
    /\ WorkerBecomes(w, [wk[w] EXCEPT !.pc = IF stop THEN "done" ELSE "pop"])
    /\ UNCHANGED <<consumerVars, envVars, phase, batch, prod, queue, closed, stop,
                   results, toApply, addedAt, heightAssert>>

\* Fault-injected variant of WorkerPop: pop's false return on a closed,
\* empty queue is ignored and the loop goes round again.
WorkerPopSpin(w) ==
    /\ wk[w].pc = "pop"
    /\ \/ /\ queue # <<>>
          /\ WorkerBecomes(w, [wk[w] EXCEPT !.pc = "pre", !.item = Head(queue)])
          /\ queue' = Tail(queue)
       \/ /\ queue = <<>>
          /\ closed
          /\ WorkerBecomes(w, [wk[w] EXCEPT !.pc = "check"])
          /\ UNCHANGED queue
    /\ UNCHANGED <<consumerVars, envVars, phase, batch, prod, closed, stop,
                   results, toApply, addedAt, heightAssert>>

\* pop() blocks until an item arrives, or returns false once the queue is
\* closed and empty.
WorkerPop(w) ==
    /\ wk[w].pc = "pop"
    /\ \/ /\ queue # <<>>
          /\ WorkerBecomes(w, [wk[w] EXCEPT !.pc = "pre", !.item = Head(queue)])
          /\ queue' = Tail(queue)
       \/ /\ queue = <<>>
          /\ closed
          /\ WorkerBecomes(w, [wk[w] EXCEPT !.pc = "done"])
          /\ UNCHANGED queue
    /\ UNCHANGED <<consumerVars, envVars, phase, batch, prod, closed, stop,
                   results, toApply, addedAt, heightAssert>>

\* preprocessOutputs, first part: findMyOutputs; with no match the empty
\* PreprocessInfo is pushed to preprocessedTransactions; otherwise the
\* global indices are requested and waited for, and they arrive.
WorkerScan(w) ==
    /\ wk[w].pc = "pre"
    /\ LET found == FindMyOutputs(wk[w].item.tx, subs)
       IN  IF Matched(found) = {}
           THEN /\ results' = Append(results, [item |-> wk[w].item, transfers |-> NoTransfers])
                /\ WorkerBecomes(w, IdleWorker)
           ELSE /\ WorkerBecomes(w, [wk[w] EXCEPT !.pc = "create", !.found = found,
                                                  !.pending = Matched(found)])
                /\ UNCHANGED results
    /\ UNCHANGED <<consumerVars, envVars, phase, batch, prod, queue, closed, stop,
                   toApply, addedAt, heightAssert>>

\* Faults of the node's answer to getTransactionOutsGlobalIndices, each
\* taken at most MaxNodeErrors times in all.
NodeMayFail(w, kind) ==
    /\ wk[w].pc = "pre"
    /\ Matched(FindMyOutputs(wk[w].item.tx, subs)) # {}
    /\ kind \in NodeFaults
    /\ nodeErrors < MaxNodeErrors
    /\ nodeErrors' = nodeErrors + 1

\* getGlobalIndices returns an error: the thread sets stopProcessing and
\* leaves its loop with that error.
WorkerNodeError(w) ==
    /\ NodeMayFail(w, "error")
    /\ stop' = TRUE
    /\ WorkerBecomes(w, [wk[w] EXCEPT !.pc = "done", !.ec = "node_error"])
    /\ UNCHANGED <<consumerVars, cursor, detaches, poolEvents, subChanges, phase, batch, prod,
                   queue, closed, results, toApply, addedAt, heightAssert>>

\* The node never calls back: f.get() has no timeout, the thread waits
\* for good.
WorkerCallbackLost(w) ==
    /\ NodeMayFail(w, "lost")
    /\ WorkerBecomes(w, [wk[w] EXCEPT !.pc = "wait"])
    /\ UNCHANGED <<consumerVars, cursor, detaches, poolEvents, subChanges, phase, batch, prod,
                   queue, closed, stop, results, toApply, addedAt, heightAssert>>

\* preprocessOutputs, second part: createTransfers for one matched account
\* (the unordered_map's order is unspecified), atomically under seen_mutex.
\* After the last account the result is pushed under its own mutex.
WorkerCreate(w, s) ==
    /\ wk[w].pc = "create"
    /\ s \in wk[w].pending
    /\ LET r == CreateTransfers(registry, wk[w].item.tx, wk[w].found[s])
           tr == [wk[w].transfers EXCEPT ![s] = r.transfers]
       IN  /\ registry' = r.registry
           /\ IF r.ec # "ok"
              THEN /\ stop' = TRUE
                   /\ WorkerBecomes(w, [wk[w] EXCEPT !.pc = "done", !.ec = r.ec])
                   /\ UNCHANGED results
              ELSE IF wk[w].pending = {s}
              THEN /\ results' = Append(results, [item |-> wk[w].item, transfers |-> tr])
                   /\ WorkerBecomes(w, IdleWorker)
                   /\ UNCHANGED stop
              ELSE /\ WorkerBecomes(w, [wk[w] EXCEPT !.pending = @ \ {s}, !.transfers = tr])
                   /\ UNCHANGED <<stop, results>>
    /\ UNCHANGED <<subs, container, syncStart, poolTxs, notified, envVars, phase, batch, prod,
                   queue, closed, toApply, addedAt, heightAssert>>

AllJoined == prod.done /\ \A w \in Workers : wk[w].pc = "done"

ResetPipeline ==
    /\ prod' = [blk |-> 0, pos |-> 1, done |-> TRUE]
    /\ queue' = <<>> /\ closed' = FALSE /\ stop' = FALSE
    /\ wk' = [w \in Workers |-> IdleWorker]
    /\ results' = <<>>

\* All futures joined with an error: onError(error, startHeight) on every
\* subscription, return false.  Nothing is applied; the node will resend.
BatchFailed ==
    /\ phase = "batch"
    /\ AllJoined
    /\ ~batch.threw
    /\ \E w \in Workers : wk[w].ec # "ok"
    /\ phase' = "idle"
    /\ ResetPipeline
    /\ batch' = NoBatch
    /\ UNCHANGED <<consumerVars, envVars, toApply, addedAt, heightAssert>>

\* The started threads have ended and the exception of std::async leaves
\* onNewBlocks: no onError, nothing applied, the registry keeps what the
\* started workers put in it; the node will resend.
BatchUnwound ==
    /\ phase = "batch"
    /\ AllJoined
    /\ batch.threw
    /\ phase' = "idle"
    /\ ResetPipeline
    /\ batch' = NoBatch
    /\ UNCHANGED <<consumerVars, envVars, toApply, addedAt, heightAssert>>

\* Fault-injected variant of BatchSucceeded: no std::sort, the push order
\* of the worker threads is applied.
BatchSucceededUnsorted ==
    /\ phase = "batch"
    /\ AllJoined
    /\ ~batch.threw
    /\ \A w \in Workers : wk[w].ec = "ok"
    /\ phase' = "apply"
    /\ notified' = <<BlocksAddedNotice(batch.start, batch.count)>>
    /\ toApply' = results
    /\ ResetPipeline
    /\ UNCHANGED <<subs, container, syncStart, poolTxs, registry, envVars, batch, addedAt,
                   heightAssert>>

\* All joined without error: onBlocksAdded, then sort the preprocessed
\* transactions by (height, transactionIndex).
BatchSucceeded ==
    /\ phase = "batch"
    /\ AllJoined
    /\ ~batch.threw
    /\ \A w \in Workers : wk[w].ec = "ok"
    /\ phase' = "apply"
    /\ notified' = <<BlocksAddedNotice(batch.start, batch.count)>>
    /\ toApply' = SortSeq(results, LAMBDA a, b : Before(a.item, b.item))
    /\ ResetPipeline
    /\ UNCHANGED <<subs, container, syncStart, poolTxs, registry, envVars, batch, addedAt,
                   heightAssert>>

\* processTransaction(tx.blockInfo, *tx.tx, tx) for the next sorted entry.
ApplyNext ==
    /\ phase = "apply"
    /\ toApply # <<>>
    /\ LET p == Head(toApply)
       IN  /\ container' = ProcessTransaction(container, p.item.height, p.item.tx, p.transfers)
           /\ notified' = notified \o ProcessTransactionNotice(container, p.item.height, p.item.tx, p.transfers)
           /\ heightAssert' = (heightAssert \/ HeightAssertFails(container, p.item.height, p.item.tx))
    /\ toApply' = Tail(toApply)
    /\ UNCHANGED <<subs, syncStart, poolTxs, registry, envVars, phase, batch, prod,
                   queue, closed, stop, wk, results, addedAt>>

\* advanceHeight(startHeight + count - 1) on every subscription, return
\* true; the node moves past the batch.
FinishBatch ==
    /\ phase = "apply"
    /\ toApply = <<>>
    /\ phase' = "idle"
    /\ cursor' = batch.start + batch.count
    /\ batch' = NoBatch
    /\ UNCHANGED <<consumerVars, detaches, nodeErrors, poolEvents, subChanges, prod, queue,
                   closed, stop, wk, results, toApply, addedAt, heightAssert>>

----------------------------------------------------------------------------

\* The caller has nothing more to deliver and stays idle.
Terminating == phase = "idle" /\ UNCHANGED vars

Producer == ProducerNextBlock \/ ProducerPush
Worker(w) == WorkerCheck(w) \/ WorkerPop(w) \/ WorkerScan(w) \/ \E s \in SpendKeys : WorkerCreate(w, s)
NodeFault(w) == WorkerNodeError(w) \/ WorkerCallbackLost(w)
Aggregation == BatchFailed \/ BatchUnwound \/ BatchSucceeded \/ ApplyNext \/ FinishBatch

Environment ==
    \/ \E s \in SpendKeys : AddSubscription(s) \/ RemoveSubscription(s)
    \/ \E u \in SUBSET PoolTxs : InitTransactionPool(u)
    \/ \E p \in RecoveredKeys : AddPublicKeysSeen(p[1], p[2])
    \/ \E h \in 1..(cursor - 1) : OnBlockchainDetach(h)
    \/ \E a \in {{}} \cup {{t} : t \in PoolTxs} : \E d \in {{}} \cup {{t} : t \in PoolTxs} :
          OnPoolUpdated(a, d)
    \/ \E t \in PoolTxs : AddUnconfirmedTransaction(t) \/ RemoveUnconfirmedTransaction(t)
    \/ \E n \in 1..MaxBatch : OnNewBlocks(n)
    \/ \E n \in 1..MaxBatch, k \in 0..(WorkerCount - 1) : OnNewBlocksThreadFails(n, k)

Next ==
    \/ Environment
    \/ Producer
    \/ \E w \in Workers : Worker(w) \/ NodeFault(w)
    \/ Aggregation
    \/ Terminating

\* The pushing and processing threads are OS threads and aggregation runs on
\* the calling thread: none of them stops while it can run.  A node error is
\* a fault, not something the model is obliged to take.  A thread waiting
\* on a lost callback has no step at all.
Fairness ==
    /\ WF_vars(Producer)
    /\ \A w \in Workers : WF_vars(Worker(w))
    /\ WF_vars(Aggregation)

Spec == Init /\ [][Next]_vars /\ Fairness

----------------------------------------------------------------------------
(* Properties.                                                             *)

TypeOK ==
    /\ subs \subseteq SpendKeys
    /\ container \in [SpendKeys -> Containers(Heights)]
    /\ syncStart \in [height : 0..UInt64Max, timestamp : 0..UInt64Max]
    /\ poolTxs \subseteq PoolTxs
    /\ registry \in Registries
    /\ cursor \in 1..(Len(Chain) + 1)
    /\ phase \in {"idle", "batch", "apply"}
    /\ Len(queue) <= QueueCapacity /\ \A i \in DOMAIN queue : queue[i] \in Items
    /\ \A w \in Workers : wk[w].pc \in {"check", "pop", "pre", "create", "wait", "done"}
                          /\ wk[w].pending \subseteq SpendKeys
    /\ \A i \in DOMAIN notified :
           notified[i].ev \in NoticeKinds

\* m_syncStart is the component-wise minimum of the start of every current
\* subscription, (max, max) with none: addSubscription keeps it by a running
\* minimum, removeSubscription by recomputing it.
SyncStartIsMin == syncStart = UpdateSyncStart(subs)

\* Whenever the consumer is idle, every delivered block a subscription must
\* have scanned (at or above the height the node had reached when it was
\* added, not older than its start timestamp) has each of its transactions
\* that owns an output of the subscription recorded in its container at
\* that block's height.  This must survive pool announcements of the same
\* transaction, pool deletions, detaches and redelivery, failed batches and
\* re-added subscriptions, all of which leave the transaction's hash and keys
\* in the process-wide seen registry (createTransfers, transactions_hash_seen).
OwnedTransfersRecorded ==
    phase = "idle" =>
        \A s \in subs, h \in Heights :
            (/\ addedAt[s] <= h /\ h < cursor
             /\ Chain[h].initialized
             /\ Chain[h].timestamp >= SubStart[s].timestamp)
            => \A j \in DOMAIN Chain[h].txs :
                   LET t == Chain[h].txs[j]
                   IN  (~TxData[t].nullKey /\ OwnedIdx(t, s) # {}) => container[s].txs[t] = h

\* Every onNewBlocks call returns (spec 5, Cancellation: the producer sees
\* stopProcessing and closes the queue, the workers exit, the futures join).
BatchReturns == phase = "batch" ~> phase = "idle"

\* Transaction of the chain: its keys, and chain order.
TxKeys(t) == UNION {ToSet(o.keys) : o \in ToSet(Outs(t))}
ChainSlots == UNION {{[height |-> h, txIndex |-> j - 1] : j \in DOMAIN Chain[h].txs} : h \in Heights}
ChainPos(t) == CHOOSE p \in ChainSlots : Chain[p.height].txs[p.txIndex + 1] = t
InChain == {Chain[p.height].txs[p.txIndex + 1] : p \in ChainSlots}

\* Spec 4.2 / 8: when the seen registry rejects a transaction of an account
\* for a duplicate output key, the account gets no transfer of it; the
\* transfers a container holds for a transaction are all of the account's
\* outputs in it, or none.
TransfersAllOrNothing ==
    \A s \in subs, t \in Txs :
        Knows(container[s], t) =>
            {tr.out : tr \in {x \in container[s].outs : x.tx = t}} \in {{}, OwnedIdx(t, s)}

\* Spec 8, scenario 4 and determinism: of two chain transactions carrying
\* the same output key, the later one in (height, index) order is the one
\* rejected, whatever the worker scheduling.
DuplicateLosesInChainOrder ==
    \A s \in subs : \A tr \in container[s].outs :
        (tr.key # NoKey /\ tr.tx \in InChain) =>
            \A u \in InChain \ {tr.tx} :
                tr.key \in TxKeys(u) => ~Before(ChainPos(u), ChainPos(tr.tx))

\* Spec 4.6 / 7: the heights of a known transaction match whenever the
\* consumer applies it again (the assert of processOutputs), other than the
\* pool -> blockchain transition.  A pool announcement of a transaction
\* already confirmed in a container breaks it.
HeightAssertHolds == ~heightAssert

\* Spec 4.2 step 4: the key of every Key transfer credited to an account
\* regenerates from that account at the transfer's output index
\* (generate_key_image_helper(account, txPubKey, idx) and the assert that
\* its public key is out.key), so the key image stored with it is the
\* output's: findMyOutputs matched the output under its running key index.
CreditedKeysRederive ==
    \A s \in subs : \A tr \in container[s].outs :
        tr.key # NoKey => Underive(tr.key, tr.out) = s

\* Observers learn of every change a call makes to what a subscription's
\* container holds for a transaction, within that call: by
\* onTransactionUpdated naming the container (processTransaction's
\* someContainerUpdated, set by an addTransaction that records and by the
\* pool -> blockchain transition of processOutputs), by
\* onTransactionDeleteEnd of the hash, or by onBlockchainDetach at or below
\* the height the transaction had.
Announces(e, s, t, old) ==
    \/ e.ev = "txUpdated" /\ e.tx = t /\ s \in e.containers
    \/ e.ev = "deleteEnd" /\ e.tx = t
    \/ e.ev = "detach" /\ old \notin {Absent, Unconfirmed} /\ e.height <= old

ChangesAnnounced ==
    [][\A s \in subs \cap subs', t \in Txs :
          container'[s].txs[t] # container[s].txs[t] =>
              \E i \in DOMAIN notified' : Announces(notified'[i], s, t, container[s].txs[t])]_vars
====
