-------------------------- MODULE ConsumerObserver --------------------------
(***************************************************************************)
(* The notifications TransfersConsumer's m_observerManager delivers to     *)
(* each IBlockchainConsumerObserver, synchronously and in call order.  A   *)
(* call's notifications are a sequence of these records; block hashes     *)
(* (getBlockHashes) are abstracted to the heights of the blocks.           *)
(***************************************************************************)
EXTENDS FiniteSetsExt, Sequences

DetachNotice(h) == [ev |-> "detach", height |-> h]

BlocksAddedNotice(start, count) == [ev |-> "blocksAdded", heights |-> start..(start + count - 1)]

TxUpdatedNotice(t, containers) == [ev |-> "txUpdated", tx |-> t, containers |-> containers]

\* onTransactionDeleteBegin and onTransactionDeleteEnd around the removal
\* of each deleted hash from the subscriptions.
DeleteNotices(deleted) ==
    FoldSet(LAMBDA d, acc : acc \o <<[ev |-> "deleteBegin", tx |-> d], [ev |-> "deleteEnd", tx |-> d]>>,
            <<>>, deleted)

NoticeKinds == {"detach", "blocksAdded", "txUpdated", "deleteBegin", "deleteEnd"}
=============================================================================
