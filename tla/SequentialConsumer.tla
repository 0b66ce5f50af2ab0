------------------------- MODULE SequentialConsumer -------------------------
(***************************************************************************)
(* What onNewBlocks promises (spec 4.4, 4.6 and 8, determinism across      *)
(* worker counts): a batch of blocks is applied as if one thread scanned   *)
(* its transactions in (height, index) order, running createTransfers for  *)
(* each matched account against the seen registry left by the transactions *)
(* before it, and applying each transaction to every subscription.  A      *)
(* failed batch changes no container and leaves in the registry only       *)
(* hashes and keys of the batch's transactions.  Between batches the      *)
(* facade's calls are atomic steps: a pool update scans its transaction    *)
(* the same way at the unconfirmed height (spec 4.5), a subscription is    *)
(* added or removed with an empty container, a detach rolls the containers *)
(* back, and seen keys are restored.  Each call's observer notifications  *)
(* are those of the sequential scan: onBlocksAdded, then one               *)
(* onTransactionUpdated per transaction that changed a container, in chain *)
(* order.                                                                  *)
(***************************************************************************)
EXTENDS TransfersContainer, ConsumerObserver, FiniteSets

CONSTANTS
    Chain,          \* the blocks the node delivers, Chain[h] at height h
    PoolTxs,        \* the transactions the pool may announce
    SubStart,       \* each account's syncStart
    UInt64Max,      \* the start timestamp with no subscription
    InitialSubs,    \* the subscribed spend keys at the start
    RecoveredKeys   \* (hash, output key) pairs the wallet may restore

VARIABLES subs, container, registry, cursor,
          notified    \* the notifications of the last call
vars == <<subs, container, registry, cursor, notified>>

\* Spec 4.4: blocks are filtered by the least start timestamp of the
\* subscriptions, the maximum when there are none.
SyncTimestamp ==
    IF subs = {} THEN UInt64Max ELSE Min({SubStart[s].timestamp : s \in subs})

\* The transactions of block h that are scanned, in block order.
Scanned(h) ==
    IF ~Chain[h].initialized \/ (SyncTimestamp # 0 /\ Chain[h].timestamp < SyncTimestamp)
    THEN <<>>
    ELSE SelectSeq(Chain[h].txs, LAMBDA t : ~TxData[t].nullKey)

\* The (height, transaction) pairs of the count blocks from cursor.
BatchOf(count) ==
    FoldLeft(LAMBDA acc, h : acc \o [j \in 1..Len(Scanned(h)) |-> <<h, Scanned(h)[j]>>],
             <<>>, [i \in 1..count |-> cursor + i - 1])

\* Spec 4.6: a known pool transaction is confirmed, a known confirmed one
\* is left alone, an unknown one is added with its transfers.
Record(c, h, t, transfers) ==
    IF c.txs[t] = Unconfirmed THEN MarkTransactionConfirmed(c, h, t)
    ELSE IF Knows(c, t) THEN c
    ELSE AddTransaction(c, h, t, transfers)

\* One transaction at height h, the matched accounts taken in order ord.
ScanOne(st, h, t, ord) ==
    LET found == FindMyOutputs(t, subs)
        pre == FoldLeft(LAMBDA acc, s :
                   LET r == CreateTransfers(acc.registry, t, found[s])
                   IN  [registry |-> r.registry, ok |-> acc.ok /\ r.ec = "ok",
                        transfers |-> [acc.transfers EXCEPT ![s] = r.transfers]],
                   [registry |-> st.registry, ok |-> TRUE,
                    transfers |-> [s \in SpendKeys |-> <<>>]],
                   SelectSeq(ord, LAMBDA s : found[s] # <<>>))
        post == [s \in SpendKeys |->
                    IF s \in subs THEN Record(st.container[s], h, t, pre.transfers[s])
                    ELSE st.container[s]]
        notice == IF \E s \in subs : post[s] # st.container[s]
                  THEN <<TxUpdatedNotice(t, {s \in subs : Knows(post[s], t)})>>
                  ELSE <<>>
    IN  [registry |-> pre.registry, ok |-> st.ok /\ pre.ok, container |-> post,
         notified |-> st.notified \o notice]

Init ==
    /\ subs = InitialSubs
    /\ container = [s \in SpendKeys |-> EmptyContainer]
    /\ registry = EmptyRegistry
    /\ cursor = 1
    /\ notified = <<>>

\* A batch of count blocks succeeds.
ApplyBatch(count) ==
    /\ cursor + count - 1 <= Len(Chain)
    /\ \E ord \in [{it[2] : it \in ToSet(BatchOf(count))} -> SetToSeqs(SpendKeys)] :
          LET r == FoldLeft(LAMBDA st, it : ScanOne(st, it[1], it[2], ord[it[2]]),
                            [registry |-> registry, container |-> container, ok |-> TRUE,
                             notified |-> <<BlocksAddedNotice(cursor, count)>>],
                            BatchOf(count))
          IN  /\ r.ok
              /\ registry' = r.registry
              /\ container' = r.container
              /\ notified' = r.notified
    /\ cursor' = cursor + count
    /\ UNCHANGED subs

\* The output keys of t.
TxKeysOf(t) == UNION {ToSet(o.keys) : o \in ToSet(Outs(t))}

\* A batch of count blocks fails: only the registry may have grown, by
\* hashes and keys of the batch's transactions.
FailBatch(count) ==
    /\ cursor + count - 1 <= Len(Chain)
    /\ LET ts == {it[2] : it \in ToSet(BatchOf(count))}
       IN  /\ registry' \in Registries
           /\ registry.hashes \subseteq registry'.hashes
           /\ registry'.hashes \subseteq registry.hashes \cup ts
           /\ registry.keys \subseteq registry'.keys
           /\ registry'.keys \subseteq registry.keys \cup UNION {TxKeysOf(t) : t \in ts}
    /\ notified' = <<>>
    /\ UNCHANGED <<subs, container, cursor>>

DetachAt(h) ==
    /\ h \in 1..(cursor - 1)
    /\ container' = [s \in SpendKeys |-> IF s \in subs THEN Detach(container[s], h)
                                         ELSE container[s]]
    /\ cursor' = h
    /\ notified' = <<DetachNotice(h)>>
    /\ UNCHANGED <<subs, registry>>

RestoreKey(t, k) ==
    /\ registry' = [hashes |-> registry.hashes \cup {t}, keys |-> registry.keys \cup {k}]
    /\ notified' = <<>>
    /\ UNCHANGED <<subs, container, cursor>>

\* A subscription starts, or ends, with an empty container.
Subscribe(s) ==
    /\ s \notin subs
    /\ subs' = subs \cup {s}
    /\ container' = [container EXCEPT ![s] = EmptyContainer]
    /\ notified' = <<>>
    /\ UNCHANGED <<registry, cursor>>

Unsubscribe(s) ==
    /\ s \in subs
    /\ subs' = subs \ {s}
    /\ container' = [container EXCEPT ![s] = EmptyContainer]
    /\ notified' = <<>>
    /\ UNCHANGED <<registry, cursor>>

\* Spec 4.5: the added transaction (if any) is scanned and recorded at the
\* unconfirmed height like a block's, then every deleted one leaves the
\* containers that hold it as a pool transaction, between the observers'
\* delete-begin and delete-end.  With neither, it is a call that changes
\* nothing and notifies nothing.
PoolUpdate(added, deleted) ==
    /\ \E ord \in SetToSeqs(SpendKeys) :
          LET r == FoldSet(LAMBDA t, st : ScanOne(st, Unconfirmed, t, ord),
                           [registry |-> registry, container |-> container, ok |-> TRUE,
                            notified |-> <<>>], added)
          IN  /\ r.ok
              /\ registry' = r.registry
              /\ notified' = r.notified \o DeleteNotices(deleted)
              /\ container' = [s \in SpendKeys |->
                                  IF s \in subs
                                  THEN FoldSet(LAMBDA d, c : DeleteUnconfirmedTransaction(c, d),
                                               r.container[s], deleted)
                                  ELSE r.container[s]]
    /\ UNCHANGED <<subs, cursor>>

Next ==
    \/ \E n \in 1..Len(Chain) : ApplyBatch(n) \/ FailBatch(n)
    \/ \E h \in 1..Len(Chain) : DetachAt(h)
    \/ \E p \in RecoveredKeys : RestoreKey(p[1], p[2])
    \/ \E s \in SpendKeys : Subscribe(s) \/ Unsubscribe(s)
    \/ \E a, d \in SUBSET PoolTxs : Cardinality(a) <= 1 /\ PoolUpdate(a, d)

Spec == Init /\ [][Next]_vars
=============================================================================
