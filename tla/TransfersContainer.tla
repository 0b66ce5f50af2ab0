------------------------- MODULE TransfersContainer -------------------------
(***************************************************************************)
(* The per-subscription container (TransfersSubscription and its          *)
(* ITransfersContainer).  Its code is not part of this repository's        *)
(* sources; these operators follow spec.md sections 4.5, 4.6 and 6: what   *)
(* the consumer calls and what it relies on.  A container knows a          *)
(* transaction at a height (or Unconfirmed) and the transfers credited to  *)
(* it.  Spends of earlier outputs are not modelled, so addTransaction      *)
(* records a transaction exactly when it brings transfers.                 *)
(***************************************************************************)
EXTENDS TransferBuilder

CONSTANT Absent    \* getTransactionInformation finds nothing

Containers(Heights) ==
    [txs : [Txs -> Heights \cup {Unconfirmed, Absent}], outs : SUBSET Transfers]

EmptyContainer == [txs |-> [t \in Txs |-> Absent], outs |-> {}]

Knows(c, t) == c.txs[t] # Absent

\* addTransaction(blockInfo, tx, transfers): returns whether it recorded.
AddTransactionUpdates(transfers) == transfers # <<>>

AddTransaction(c, height, t, transfers) ==
    IF AddTransactionUpdates(transfers)
    THEN [txs |-> [c.txs EXCEPT ![t] = height], outs |-> c.outs \cup ToSet(transfers)]
    ELSE c

\* markTransactionConfirmed(blockInfo, hash, globalIdxs): pool -> chain.
MarkTransactionConfirmed(c, height, t) == [c EXCEPT !.txs[t] = height]

\* Removes t and its transfers.
Forget(c, T) ==
    [txs |-> [u \in Txs |-> IF u \in T THEN Absent ELSE c.txs[u]],
     outs |-> {tr \in c.outs : tr.tx \notin T}]

\* deleteUnconfirmedTransaction(hash): only a pool transaction goes.
DeleteUnconfirmedTransaction(c, t) ==
    IF c.txs[t] = Unconfirmed THEN Forget(c, {t}) ELSE c

\* onBlockchainDetach(height): the transactions of blocks at or above it go.
Detach(c, height) ==
    Forget(c, {t \in Txs : c.txs[t] \notin {Absent, Unconfirmed} /\ c.txs[t] >= height})
=============================================================================
