-------------------------- MODULE TransferBuilder --------------------------
(***************************************************************************)
(* TransfersConsumer::createTransfers and the process-wide seen-keys       *)
(* registry (transactions_hash_seen, public_keys_seen, seen_mutex).  One   *)
(* call runs entirely under seen_mutex, so it is one operator here; the    *)
(* caller applies its result to the registry in a single step.  Key        *)
(* images, amounts and global indices are abstracted: a transfer records   *)
(* the transaction, the output index and the output key it carries.        *)
(***************************************************************************)
EXTENDS OutputScanner

CONSTANTS
    Unconfirmed,   \* WALLET_UNCONFIRMED_TRANSACTION_HEIGHT
    NoKey          \* outputKey of a multisignature TransferInfo (unset)

ASSUME NoKey \notin OutKeys

\* The registry: transactions_hash_seen and public_keys_seen.
Registries == [hashes : SUBSET Txs, keys : SUBSET OutKeys]
EmptyRegistry == [hashes |-> {}, keys |-> {}]

\* TransactionOutputInformationIn, reduced to what the properties tell apart.
Transfers == [tx : Txs, out : Nat, key : OutKeys \cup {NoKey}]

TransferOf(t, idx, out) ==
    [tx |-> t, out |-> idx,
     key |-> IF out.type = "Key" THEN out.keys[1] ELSE NoKey]

\* The duplicate-key test of one output, key by key as the code does: a key
\* already in public_keys_seen, in temp_keys, or earlier in the same
\* output's key list.
HasSeenKey(out, temp, reg) ==
    \E j \in DOMAIN out.keys :
        out.keys[j] \in reg.keys \cup temp \cup ToSet(SubSeq(out.keys, 1, j - 1))

\* Fault-injected variant of BuildFrom: the duplicate test runs even for a
\* transaction whose hash is already in transactions_hash_seen.
RECURSIVE BuildFromAlwaysCheck(_, _, _, _, _)
BuildFromAlwaysCheck(t, idxs, temp, transfers, reg) ==
    IF idxs = <<>>
    THEN [ec |-> "ok", transfers |-> transfers,
          registry |-> [hashes |-> reg.hashes \cup {t}, keys |-> reg.keys \cup temp]]
    ELSE LET idx == Head(idxs) IN
         IF idx >= Len(Outs(t))
         THEN [ec |-> "argument_out_of_domain", transfers |-> transfers, registry |-> reg]
         ELSE LET out == Outs(t)[idx + 1] IN
              IF out.type \notin {"Key", "Multisignature"}
              THEN BuildFromAlwaysCheck(t, Tail(idxs), temp, transfers, reg)
              ELSE IF HasSeenKey(out, temp, reg)
              THEN [ec |-> "ok", transfers |-> transfers, registry |-> reg]
              ELSE BuildFromAlwaysCheck(t, Tail(idxs), temp \cup ToSet(out.keys),
                                        Append(transfers, TransferOf(t, idx, out)), reg)

\* The loop over the owned output indices.  reg is the registry read under
\* the lock; it is not written until the loop completes.  An index out of
\* range is a hard error; a duplicate key returns success with the
\* transfers pushed so far and leaves the registry untouched.
RECURSIVE BuildFrom(_, _, _, _, _)
BuildFrom(t, idxs, temp, transfers, reg) ==
    IF idxs = <<>>
    THEN [ec |-> "ok", transfers |-> transfers,
          registry |-> [hashes |-> reg.hashes \cup {t}, keys |-> reg.keys \cup temp]]
    ELSE LET idx == Head(idxs) IN
         IF idx >= Len(Outs(t))
         THEN [ec |-> "argument_out_of_domain", transfers |-> transfers, registry |-> reg]
         ELSE LET out == Outs(t)[idx + 1] IN
              IF out.type \notin {"Key", "Multisignature"}
              THEN BuildFrom(t, Tail(idxs), temp, transfers, reg)
              ELSE IF t \notin reg.hashes /\ HasSeenKey(out, temp, reg)
              THEN [ec |-> "ok", transfers |-> transfers, registry |-> reg]
              ELSE BuildFrom(t, Tail(idxs),
                             IF t \in reg.hashes THEN temp ELSE temp \cup ToSet(out.keys),
                             Append(transfers, TransferOf(t, idx, out)), reg)

\* createTransfers(account, blockInfo, tx, outputs, globalIdxs, transfers)
\* with transfers initially empty, as preprocessOutputs passes it.
CreateTransfers(reg, t, outputs) == BuildFrom(t, outputs, {}, <<>>, reg)
=============================================================================
