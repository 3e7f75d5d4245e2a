---------------------------- MODULE MCTCPServer -----------------------------
(* Instances of TCPServer for TLC: a leader, 1, and a follower, 2.         *)
EXTENDS TCPServer

CONSTANTS c1, c2

MCServers == {1, 2}
AtFollower == [c \in Clients |-> 2]
\* Workers of the leader and of the follower.
Pools12 == <<1, 2>>
Pools22 == <<2, 2>>
FollowerBeats == {<<2, 1>>}
=============================================================================
