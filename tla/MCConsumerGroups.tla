-------------------------- MODULE MCConsumerGroups --------------------------
(* Instance of ConsumerGroups for TLC.                                     *)
EXTENDS ConsumerGroups

CONSTANTS g1, w1, w2, w3, orders

OneTopic == {<<orders>>}

\* The workers are alike.
ThreeWorkers == Permutations({w1, w2, w3})
=============================================================================
