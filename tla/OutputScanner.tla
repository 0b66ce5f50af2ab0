--------------------------- MODULE OutputScanner ---------------------------
(***************************************************************************)
(* The stealth-address ownership test of TransfersConsumer.cpp:           *)
(* findMyOutputs and checkOutputKey.  Elliptic-curve arithmetic is         *)
(* abstracted: a transaction is a record of its outputs, an output key is  *)
(* a model value, and underive_public_key(derivation, index, key) is the   *)
(* constant operator Underive(key, index), whose result is the spend key  *)
(* the output derives from under this consumer's view secret, or NoOwner.  *)
(***************************************************************************)
EXTENDS Naturals, Sequences, SequencesExt

CONSTANTS
    SpendKeys,     \* spend public keys of the accounts that may subscribe
    OutKeys,       \* one-time output keys (stealth addresses)
    Txs,           \* transaction hashes
    NoOwner,       \* Underive result that is no watched spend key
    TxData,        \* [Txs -> TxRecords]: what ITransactionReader returns
    Underive(_, _) \* underive_public_key(derivation(tx), index, key)

OutputTypes == {"Key", "Multisignature", "Other"}

\* An output of TransactionTypes: a KeyOutput carries one key, a
\* MultisignatureOutput a list of keys, other outputs none.
Outputs == [type : OutputTypes, keys : Seq(OutKeys)]

\* nullKey: getTransactionPublicKey() == NULL_PUBLIC_KEY.
\* derivable: generate_key_derivation succeeds for this public key.
TxRecords == [nullKey : BOOLEAN, derivable : BOOLEAN, outputs : Seq(Outputs)]

ASSUME TxData \in [Txs -> TxRecords]
ASSUME NoOwner \notin SpendKeys

Outs(t) == TxData[t].outputs

\* The map outputs: spend key -> list of output indices (0-based, as in
\* the code).  A key absent from the unordered_map is the empty list here.
NoOutputs == [s \in SpendKeys |-> <<>>]

\* checkOutputKey: underive one key and record outputIndex under the spend
\* key it derives from, if that key is watched.
CheckOutputKey(key, keyIndex, outputIndex, spendKeys, outputs) ==
    LET spendKey == Underive(key, keyIndex)
    IN  IF spendKey \in spendKeys
        THEN [outputs EXCEPT ![spendKey] = Append(@, outputIndex)]
        ELSE outputs

\* Fault-injected variant of ScanFrom: each multisignature key is
\* underived with the running keyIndex, as Key outputs are.
RECURSIVE ScanFromKeyIndexMsig(_, _, _, _, _)
ScanFromKeyIndexMsig(t, idx, keyIndex, spendKeys, outputs) ==
    IF idx >= Len(Outs(t)) THEN outputs
    ELSE LET out == Outs(t)[idx + 1]
         IN  CASE out.type = "Key" ->
                    ScanFromKeyIndexMsig(t, idx + 1, keyIndex + 1, spendKeys,
                             CheckOutputKey(out.keys[1], keyIndex, idx, spendKeys, outputs))
               [] out.type = "Multisignature" ->
                    ScanFromKeyIndexMsig(t, idx + 1, keyIndex + Len(out.keys), spendKeys,
                             FoldLeft(LAMBDA acc, j :
                                        CheckOutputKey(out.keys[j], keyIndex + j - 1, idx,
                                                       spendKeys, acc),
                                      outputs, [j \in 1..Len(out.keys) |-> j]))
               [] OTHER -> ScanFromKeyIndexMsig(t, idx + 1, keyIndex, spendKeys, outputs)

\* The loop of findMyOutputs from output idx on, with the running keyIndex.
\* A Key output is underived with keyIndex; each key of a multisignature
\* output with the output index idx, while still advancing keyIndex.
RECURSIVE ScanFrom(_, _, _, _, _)
ScanFrom(t, idx, keyIndex, spendKeys, outputs) ==
    IF idx >= Len(Outs(t)) THEN outputs
    ELSE LET out == Outs(t)[idx + 1]
         IN  CASE out.type = "Key" ->
                    ScanFrom(t, idx + 1, keyIndex + 1, spendKeys,
                             CheckOutputKey(out.keys[1], keyIndex, idx,
                                            spendKeys, outputs))
               [] out.type = "Multisignature" ->
                    ScanFrom(t, idx + 1, keyIndex + Len(out.keys), spendKeys,
                             FoldLeft(LAMBDA acc, k :
                                        CheckOutputKey(k, idx, idx, spendKeys, acc),
                                      outputs, out.keys))
               [] OTHER -> ScanFrom(t, idx + 1, keyIndex, spendKeys, outputs)

\* findMyOutputs: nothing when the key derivation fails.
FindMyOutputs(t, spendKeys) ==
    IF TxData[t].derivable THEN ScanFrom(t, 0, 0, spendKeys, NoOutputs)
    ELSE NoOutputs

\* The accounts the unordered_map has an entry for.
Matched(outputs) == {s \in SpendKeys : outputs[s] # <<>>}

----------------------------------------------------------------------------
(* Reference definition (spec 4.1), in closed form: the key index of an    *)
(* output is the number of addressable keys before it.                     *)

AddressableKeys(out) ==
    CASE out.type = "Key" -> 1
      [] out.type = "Multisignature" -> Len(out.keys)
      [] OTHER -> 0

KeyIndexOf(t, idx) ==
    FoldLeft(LAMBDA n, out : n + AddressableKeys(out), 0, SubSeq(Outs(t), 1, idx))

\* The entries output idx of t contributes to spend key s's list: one per
\* key that derives from s (duplicates are not removed, spec 4.1).
RefEntries(t, s, idx) ==
    LET out == Outs(t)[idx + 1]
    IN  CASE out.type = "Key" ->
               IF Underive(out.keys[1], KeyIndexOf(t, idx)) = s THEN <<idx>> ELSE <<>>
          [] out.type = "Multisignature" ->
               FoldLeft(LAMBDA acc, k : IF Underive(k, idx) = s THEN Append(acc, idx) ELSE acc,
                        <<>>, out.keys)
          [] OTHER -> <<>>

\* scan(tx, v, S)[s]: the output indices of t that derive from s, in
\* transaction order.
OwnedList(t, s) ==
    IF ~TxData[t].derivable THEN <<>>
    ELSE FoldLeft(LAMBDA acc, idx : acc \o RefEntries(t, s, idx), <<>>,
                  [i \in 1..Len(Outs(t)) |-> i - 1])

OwnedIdx(t, s) == ToSet(OwnedList(t, s))
=============================================================================
