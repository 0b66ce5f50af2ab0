-------------------------- MODULE MCOutputScanner --------------------------
(***************************************************************************)
(* findMyOutputs checked against the reference definition of spec 4.1     *)
(* over every transaction of up to three outputs drawn from a small        *)
(* alphabet, and every set of watched spend keys.  A transaction hash is   *)
(* the transaction record itself.  Key k1 derives from A at indices 0 and  *)
(* 2 and from B at 1; k2 the other way round; k3 from nobody.              *)
(***************************************************************************)
EXTENDS OutputScanner

CONSTANTS A, B, k1, k2, k3

ScanOutputs ==
    {[type |-> "Key", keys |-> <<k>>] : k \in {k1, k2, k3}}
    \cup {[type |-> "Multisignature", keys |-> ks] : ks \in {<<k1, k2>>, <<k2>>, <<k1, k1>>}}
    \cup {[type |-> "Other", keys |-> <<>>]}

ScanTxs ==
    {[nullKey |-> FALSE, derivable |-> d, outputs |-> o] :
        d \in BOOLEAN, o \in UNION {[1..n -> ScanOutputs] : n \in 0..3}}

ScanTxData == [t \in ScanTxs |-> t]

ScanOwners ==
    (<<k1, 0>> :> A) @@ (<<k1, 2>> :> A) @@ (<<k1, 1>> :> B)
    @@ (<<k2, 0>> :> B) @@ (<<k2, 2>> :> B) @@ (<<k2, 1>> :> A)
ScanUnderive(k, i) == IF <<k, i>> \in DOMAIN ScanOwners THEN ScanOwners[<<k, i>>] ELSE NoOwner

VARIABLES tx, watched
vars == <<tx, watched>>

Init == tx = (CHOOSE t \in Txs : Outs(t) = <<>>) /\ watched = {}

\* The wallet scans any transaction for any set of subscribed accounts.
Scan(t, S) == tx' = t /\ watched' = S

Next == \E t \in Txs, S \in SUBSET SpendKeys : Scan(t, S)

Spec == Init /\ [][Next]_vars

\* findMyOutputs returns, for each watched spend key, exactly the reference
\* list of spec 4.1: output indices in transaction order, one entry per
\* matching key, Key outputs underived with the running key index across
\* addressable outputs and multisignature keys with the output index; and
\* nothing for unwatched keys or a transaction whose derivation fails.
ScannerMatchesReference ==
    \A s \in SpendKeys :
        FindMyOutputs(tx, watched)[s] = IF s \in watched THEN OwnedList(tx, s) ELSE <<>>
=============================================================================
