---------------------------- MODULE ConsumerPair ----------------------------
(***************************************************************************)
(* Two TransfersConsumer objects in one process: the consumers of two view *)
(* secrets (a synchronizer holds one per view key, and a process may run   *)
(* several wallets).  Each has its own subscriptions, containers, pool     *)
(* set, onNewBlocks threads and position in the chain; they share only     *)
(* the file-scope transactions_hash_seen, public_keys_seen and seen_mutex  *)
(* of TransfersConsumer.cpp (lines 38-40).  Their steps interleave         *)
(* freely: each consumer's caller and threads run independently.          *)
(***************************************************************************)
EXTENDS TransfersContainer

CONSTANTS
    Chain, PoolTxs, SubStart, HardwareConcurrency, UInt64Max, MaxBatch,
    MaxDetach, MaxNodeErrors, MaxPoolEvents, RecoveredKeys, MaxSubChanges,
    NodeFaults, ThreadStartMayFail,
    Keys1, Keys2,               \* the spend keys of each consumer's view secret
    InitialSubs1, InitialSubs2  \* each consumer's subscriptions at the start

ASSUME Keys1 \cup Keys2 = SpendKeys /\ Keys1 \cap Keys2 = {}

VARIABLES
    registry,   \* transactions_hash_seen and public_keys_seen, shared
    subs1, container1, syncStart1, poolTxs1, cursor1, detaches1, nodeErrors1,
    poolEvents1, subChanges1, phase1, batch1, prod1, queue1, closed1, stop1,
    wk1, results1, toApply1, addedAt1, heightAssert1, notified1,
    subs2, container2, syncStart2, poolTxs2, cursor2, detaches2, nodeErrors2,
    poolEvents2, subChanges2, phase2, batch2, prod2, queue2, closed2, stop2,
    wk2, results2, toApply2, addedAt2, heightAssert2, notified2

own1 == <<subs1, container1, syncStart1, poolTxs1, cursor1, detaches1, nodeErrors1,
          poolEvents1, subChanges1, phase1, batch1, prod1, queue1, closed1, stop1,
          wk1, results1, toApply1, addedAt1, heightAssert1, notified1>>
own2 == <<subs2, container2, syncStart2, poolTxs2, cursor2, detaches2, nodeErrors2,
          poolEvents2, subChanges2, phase2, batch2, prod2, queue2, closed2, stop2,
          wk2, results2, toApply2, addedAt2, heightAssert2, notified2>>
vars == <<registry, own1, own2>>

First == INSTANCE TransfersConsumer WITH
    SpendKeys <- Keys1, InitialSubs <- InitialSubs1,
    subs <- subs1, container <- container1, syncStart <- syncStart1,
    poolTxs <- poolTxs1, cursor <- cursor1, detaches <- detaches1,
    nodeErrors <- nodeErrors1, poolEvents <- poolEvents1, subChanges <- subChanges1,
    phase <- phase1, batch <- batch1, prod <- prod1, queue <- queue1,
    closed <- closed1, stop <- stop1, wk <- wk1, results <- results1,
    toApply <- toApply1, addedAt <- addedAt1,
    heightAssert <- heightAssert1, notified <- notified1

Second == INSTANCE TransfersConsumer WITH
    SpendKeys <- Keys2, InitialSubs <- InitialSubs2,
    subs <- subs2, container <- container2, syncStart <- syncStart2,
    poolTxs <- poolTxs2, cursor <- cursor2, detaches <- detaches2,
    nodeErrors <- nodeErrors2, poolEvents <- poolEvents2, subChanges <- subChanges2,
    phase <- phase2, batch <- batch2, prod <- prod2, queue <- queue2,
    closed <- closed2, stop <- stop2, wk <- wk2, results <- results2,
    toApply <- toApply2, addedAt <- addedAt2,
    heightAssert <- heightAssert2, notified <- notified2

Init == First!Init /\ Second!Init

\* A step of one consumer (its caller, its node or one of its threads); the
\* other consumer's state stays as it is, the registry is shared.
Next ==
    \/ First!Next /\ UNCHANGED own2
    \/ Second!Next /\ UNCHANGED own1

Spec == Init /\ [][Next]_vars /\ First!Fairness /\ Second!Fairness

----------------------------------------------------------------------------
(* Properties.                                                             *)

\* Each consumer records every owned transaction of each block it has
\* delivered, although the other consumer may have put the transaction's
\* hash and keys in the shared registry before it (createTransfers skips
\* the duplicate-key test for a hash already seen).
OwnedTransfersRecordedBoth ==
    First!OwnedTransfersRecorded /\ Second!OwnedTransfersRecorded

\* Spec 3 and 8: the duplicate-key defence is process-wide (the registry
\* is a file-scope global): no two transfers of distinct transactions
\* credited by either consumer carry the same output key.
ProcessOutputKeyUnique ==
    LET outs == UNION {container1[s].outs : s \in subs1} \cup UNION {container2[s].outs : s \in subs2}
    IN  \A a, b \in outs : (a.tx # b.tx /\ a.key # NoKey) => a.key # b.key
====
