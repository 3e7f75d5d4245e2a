---------------------------- MODULE MCMembership ----------------------------
(* Instances of Membership for TLC, on three brokers.                      *)
EXTENDS Membership

MCBrokers == {1, 2, 3}
=============================================================================
