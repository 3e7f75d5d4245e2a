------------------------- MODULE MCBatchReplication -------------------------
(* Instances of BatchReplication for TLC, on three brokers.                *)
EXTENDS BatchReplication, TLC

CONSTANTS m1, x1, x2

MCBrokers == {1, 2, 3}
OneBatch == {x1}
OneBatchOneSingle == {x1, m1}
TwoBatches == {x1, x2}
\* The batches are alike.
SymmetryBatches == Permutations(TwoBatches)
=============================================================================
