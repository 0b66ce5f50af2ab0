--------------------------- MODULE MCConsumerPair ---------------------------
(***************************************************************************)
(* ConsumerPair instantiated for TLC over the ledgers of Ledgers: account  *)
(* A under one view secret, account B under the other.                     *)
(***************************************************************************)
EXTENDS ConsumerPair, Ledgers

\* No step reads what the observers were told, only what is appended to
\* it: states that differ only in notified1 and notified2 have the same
\* futures for every other variable, so TLC identifies them.
PairView ==
    <<registry, [own1 EXCEPT ![Len(own1)] = <<>>], [own2 EXCEPT ![Len(own2)] = <<>>]>>
====
