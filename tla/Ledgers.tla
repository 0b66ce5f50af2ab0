------------------------------ MODULE Ledgers ------------------------------
(***************************************************************************)
(* Ledgers for model checking the consumer.  Accounts, output keys and     *)
(* transaction hashes are model values; Underive is given by a table of    *)
(* (output key, index) pairs that derive to a watched spend key.           *)
(***************************************************************************)
EXTENDS OutputScanner

CONSTANTS A, B, C,                      \* accounts (spend public keys)
          k1, k2, k3, k4, k5, k6, k7,   \* output keys
          T1, T2, T3, T4, P1            \* transaction hashes

KeyOut(k) == [type |-> "Key", keys |-> <<k>>]
MsigOut(ks) == [type |-> "Multisignature", keys |-> ks]
OtherOut == [type |-> "Other", keys |-> <<>>]
Tx(outs) == [nullKey |-> FALSE, derivable |-> TRUE, outputs |-> outs]
Block(ts, txs) == [initialized |-> TRUE, timestamp |-> ts, txs |-> txs]

UnderiveBy(table, k, i) ==
    IF <<k, i>> \in DOMAIN table THEN table[<<k, i>>] ELSE NoOwner

----------------------------------------------------------------------------
(* Main ledger, no duplicate keys.  T1 pays A and B; T2 (also announced in *)
(* the pool) has an Other output, a multisignature output for A at output *)
(* index 1 but key index 0, and a Key output for B at key index 1; T3 has *)
(* a null public key; T4 pays B; P1 is a pool-only payment to A.           *)

MainTxData ==
    [t \in {T1, T2, T3, T4, P1} |->
        CASE t = T1 -> Tx(<<KeyOut(k1), KeyOut(k2)>>)
          [] t = T2 -> Tx(<<OtherOut, MsigOut(<<k3>>), KeyOut(k4)>>)
          [] t = T3 -> [nullKey |-> TRUE, derivable |-> FALSE, outputs |-> <<KeyOut(k7)>>]
          [] t = T4 -> Tx(<<KeyOut(k5)>>)
          [] t = P1 -> Tx(<<KeyOut(k6)>>)]

MainOwners ==
    (<<k1, 0>> :> A) @@ (<<k2, 1>> :> B) @@ (<<k3, 1>> :> A) @@ (<<k4, 1>> :> B)
    @@ (<<k5, 0>> :> B) @@ (<<k6, 0>> :> A) @@ (<<k7, 0>> :> A)
MainUnderive(k, i) == UnderiveBy(MainOwners, k, i)

MainChain == <<Block(10, <<T1>>), Block(20, <<T2, T3>>), Block(30, <<T4>>)>>
MainPool == {T2, P1}
MainRecovered == {<<T2, k3>>}
MainSubStart == (A :> [height |-> 0, timestamp |-> 0]) @@ (B :> [height |-> 2, timestamp |-> 15])

----------------------------------------------------------------------------
(* Ledgers with a duplicate output key.                                    *)

\* T2 pays A twice: k3, and k1 which T1 already paid to A.
PartialTxData == [t \in {T1, T2} |->
    IF t = T1 THEN Tx(<<KeyOut(k1)>>) ELSE Tx(<<KeyOut(k3), KeyOut(k1)>>)]
PartialOwners == (<<k1, 0>> :> A) @@ (<<k3, 0>> :> A) @@ (<<k1, 1>> :> A)
PartialUnderive(k, i) == UnderiveBy(PartialOwners, k, i)
TwoBlocks == <<Block(10, <<T1>>), Block(20, <<T2>>)>>

\* T1 pays A (k1), B (k2) and C (k3); T2 pays B and C again with k2 and k3.
CrossTxData == [t \in {T1, T2} |->
    IF t = T1 THEN Tx(<<KeyOut(k1), KeyOut(k2), KeyOut(k3)>>) ELSE Tx(<<KeyOut(k2), KeyOut(k3)>>)]
CrossOwners == (<<k1, 0>> :> A) @@ (<<k2, 1>> :> B) @@ (<<k3, 2>> :> C)
               @@ (<<k2, 0>> :> B) @@ (<<k3, 1>> :> C)
CrossUnderive(k, i) == UnderiveBy(CrossOwners, k, i)

\* T1 and T2, in consecutive blocks, both pay A with k1.
RepeatTxData == [t \in {T1, T2} |-> Tx(<<KeyOut(k1)>>)]
RepeatUnderive(k, i) == UnderiveBy(<<k1, 0>> :> A, k, i)

\* T1 pays A (k1) and B (k2); T2 pays B with a fresh key k3.
SharedTxData == [t \in {T1, T2} |->
    IF t = T1 THEN Tx(<<KeyOut(k1), KeyOut(k2)>>) ELSE Tx(<<KeyOut(k3)>>)]
SharedOwners == (<<k1, 0>> :> A) @@ (<<k2, 1>> :> B) @@ (<<k3, 0>> :> B)
SharedUnderive(k, i) == UnderiveBy(SharedOwners, k, i)
SharedRecovered == {<<T2, k3>>}

----------------------------------------------------------------------------
(* One block of four transactions, the first paying A: more than a single  *)
(* worker's queue (capacity 2) and the item it holds.                      *)

WideTxData == [t \in {T1, T2, T3, T4} |->
    CASE t = T1 -> Tx(<<KeyOut(k1)>>)
      [] t = T2 -> Tx(<<KeyOut(k2)>>)
      [] t = T3 -> Tx(<<KeyOut(k3)>>)
      [] t = T4 -> Tx(<<KeyOut(k4)>>)]
WideUnderive(k, i) == UnderiveBy(<<k1, 0>> :> A, k, i)
WideChain == <<Block(10, <<T1, T2, T3, T4>>)>>

----------------------------------------------------------------------------
(* T1 opens with a two-key multisignature output that pays nobody, then a  *)
(* Key output to A whose key derives at its key index 2 (output index 1).  *)

MsigTxData == [t \in {T1} |-> Tx(<<MsigOut(<<k1, k2>>), KeyOut(k3)>>)]
MsigUnderive(k, i) == UnderiveBy(<<k3, 2>> :> A, k, i)
OneBlock == <<Block(10, <<T1>>)>>

ZeroStart == [s \in {A, B, C} |-> [height |-> 0, timestamp |-> 0]]
=============================================================================
