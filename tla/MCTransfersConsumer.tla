------------------------ MODULE MCTransfersConsumer ------------------------
(***************************************************************************)
(* TransfersConsumer instantiated for TLC over the ledgers of Ledgers.     *)
(***************************************************************************)
EXTENDS TransfersConsumer, Ledgers
====
