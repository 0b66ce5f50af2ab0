----------------------- MODULE MCSequentialConsumer -----------------------
(***************************************************************************)
(* TransfersConsumer implements SequentialConsumer.  The history variable  *)
(* before holds the containers, the registry and the notifications as     *)
(* they were when the running onNewBlocks began.  While a batch runs, the  *)
(* abstract state is that one, so the worker threads' registry updates,   *)
(* onBlocksAdded and the serial apply are invisible; the step that returns *)
(* to idle is the abstract batch.                                          *)
(***************************************************************************)
EXTENDS MCTransfersConsumer

VARIABLE before

SpecR ==
    /\ Init /\ before = [container |-> container, registry |-> registry, notified |-> notified]
    /\ [][Next /\ before' = IF phase = "idle"
                            THEN [container |-> container', registry |-> registry',
                                  notified |-> notified']
                            ELSE before]_<<vars, before>>
    /\ Fairness

Sequential == INSTANCE SequentialConsumer WITH
    container <- IF phase = "idle" THEN container ELSE before.container,
    registry <- IF phase = "idle" THEN registry ELSE before.registry,
    notified <- IF phase = "idle" THEN notified ELSE before.notified

\* Spec 8, determinism across worker counts: whatever the interleaving of
\* the pushing thread, the worker threads and their createTransfers calls,
\* every onNewBlocks that returns leaves the subscriptions and the seen
\* registry as a single thread scanning the batch in chain order would,
\* and has told the observers what that scan would (identical observer
\* events); one that fails leaves the containers untouched and notifies
\* nothing.
SequentialRefinement == Sequential!Spec
=============================================================================
