---------------------------- MODULE MCReplication ---------------------------
(* Instances of Replication for TLC, on three brokers.                     *)
EXTENDS Replication, TLC

CONSTANTS m1, m2, m3

MCBrokers == {1, 2, 3}
MCMessages2 == {m1, m2}
MCMessages3 == {m1, m2, m3}
Symmetry3 == Permutations(MCMessages3)
=============================================================================
