----------------------------- MODULE Membership -----------------------------
(***************************************************************************)
(* Fixed-membership failure detection and leader election: the heartbeat   *)
(* half of ReplicationManager (broadcast_heartbeat, handle_heartbeat,      *)
(* maybe_elect_leader, mark_follower_failed) over BrokerConfig's role.     *)
(*                                                                         *)
(* Time is abstracted.  last_heartbeat_ holds times that are only compared *)
(* with kHeartbeatTimeout, so a round of broadcast_heartbeat takes the set *)
(* of peers whose entry has expired as an input.  A live peer expires only *)
(* after a stall (of this process, of the peer or of the network) longer   *)
(* than kHeartbeatTimeout; stalls and failed sends to a live peer are      *)
(* counted in glitches and bounded by MaxGlitches.                         *)
(*                                                                         *)
(* Every broker is configured with the same peer list, which names all     *)
(* the other brokers once.                                                 *)
(***************************************************************************)
EXTENDS Integers, FiniteSets, FiniteSetsExt

CONSTANTS
    Brokers,        \* broker ids; main() accepts only ids above zero
    InitialLeader,  \* the broker started with --role leader
    MaxCrashes,     \* bound: process crashes in a behaviour
    MaxRestarts,    \* bound: restarts of a crashed process
    MaxGlitches     \* bound: stalls and failed sends to a live peer

ASSUME BrokersAssumption ==
    /\ Brokers \subseteq Nat \ {0}
    /\ IsFiniteSet(Brokers)
    /\ InitialLeader \in Brokers

ASSUME BoundsAssumption ==
    MaxCrashes \in Nat /\ MaxRestarts \in Nat /\ MaxGlitches \in Nat

VARIABLES
    up,                \* up[b]: the process of broker b runs and listens
    type,              \* BrokerConfig::type
    leader_broker_id,  \* BrokerConfig::leader_broker_id
    failed_peers,      \* ReplicationManager::failed_peers_
    late,              \* <<p, b>>: a heartbeat of crashed p still queued at b
    crashes,
    glitches

memVars == <<up, type, leader_broker_id, failed_peers, late, crashes, glitches>>

LEADER == "LEADER"
FOLLOWER == "FOLLOWER"

Peers(b) == Brokers \ {b}

is_leader(b) == type[b] = LEADER

is_peer_available(b, p) == p \notin failed_peers[b]

\* The role given on the command line, used at every start of the process.
ConfiguredType(b) == IF b = InitialLeader THEN LEADER ELSE FOLLOWER

MemInit ==
    /\ up = [b \in Brokers |-> TRUE]
    /\ type = [b \in Brokers |-> ConfiguredType(b)]
    /\ leader_broker_id = [b \in Brokers |-> InitialLeader]
    /\ failed_peers = [b \in Brokers |-> {}]
    /\ late = {}
    /\ crashes = 0
    /\ glitches = 0
-----------------------------------------------------------------------------
set_leader(b, id) ==
    /\ leader_broker_id' = [leader_broker_id EXCEPT ![b] = id]
    /\ type' = [type EXCEPT ![b] = IF id = b THEN LEADER ELSE FOLLOWER]

\* Mutations of the election rule, used to test the properties below.
maybe_elect_leader_zero(b, failed) ==
    IF leader_broker_id[b] # b /\ leader_broker_id[b] \notin failed
    THEN UNCHANGED <<leader_broker_id, type>>
    ELSE set_leader(b, Min({0} \cup (Peers(b) \ failed)))

maybe_elect_leader_highest(b, failed) ==
    IF leader_broker_id[b] # b /\ leader_broker_id[b] \notin failed
    THEN UNCHANGED <<leader_broker_id, type>>
    ELSE set_leader(b, Max({b} \cup (Peers(b) \ failed)))

maybe_elect_leader_sticky(b, failed) ==
    IF leader_broker_id[b] \notin failed
    THEN UNCHANGED <<leader_broker_id, type>>
    ELSE set_leader(b, Min({b} \cup (Peers(b) \ failed)))

\* A broker keeps a leader other than itself for as long as that leader is
\* not suspected; otherwise the lowest id it does not suspect becomes leader.
maybe_elect_leader(b, failed) ==
    IF leader_broker_id[b] # b /\ leader_broker_id[b] \notin failed
    THEN UNCHANGED <<leader_broker_id, type>>
    ELSE set_leader(b, Min({b} \cup (Peers(b) \ failed)))

\* One round of Broker::heartbeat_loop.  expired: peers not heard of within
\* kHeartbeatTimeout.  unreachable: live peers the send to which fails.  Every
\* peer is sent to, so the round leaves exactly the failed sends suspected.
broadcast_heartbeat(b, expired, unreachable) ==
    LET glitched == Cardinality({p \in expired : up[p]} \cup unreachable)
    IN  /\ up[b]
        /\ expired \subseteq Peers(b)
        /\ unreachable \subseteq {p \in Peers(b) : up[p]}
        /\ glitches + glitched <= MaxGlitches
        /\ glitches' = glitches + glitched
        /\ maybe_elect_leader(b, failed_peers[b] \cup expired)
        /\ failed_peers' = [failed_peers EXCEPT ![b] =
                              {p \in Peers(b) : ~up[p]} \cup unreachable]
        /\ UNCHANGED <<up, late, crashes>>

HeartbeatRound(b) ==
    \E expired, unreachable \in SUBSET Peers(b) :
        broadcast_heartbeat(b, expired, unreachable)

\* A HEARTBEAT of peer p is handled at b.  A live peer sends one every
\* kHeartbeatInterval, so one may be pending at any time.
handle_heartbeat(b, p) ==
    /\ up[b]
    /\ p \in Peers(b)
    /\ up[p] \/ <<p, b>> \in late
    /\ failed_peers' = [failed_peers EXCEPT ![b] = @ \ {p}]
    /\ late' = late \ {<<p, b>>}
    /\ UNCHANGED <<up, type, leader_broker_id, crashes, glitches>>

\* The process of b dies.  Heartbeats it sent may still be queued at peers.
\* What it held in memory is reset here to what its next start will set.
Crash(b) ==
    /\ up[b]
    /\ crashes < MaxCrashes
    /\ crashes' = crashes + 1
    /\ up' = [up EXCEPT ![b] = FALSE]
    /\ type' = [type EXCEPT ![b] = ConfiguredType(b)]
    /\ leader_broker_id' = [leader_broker_id EXCEPT ![b] = InitialLeader]
    /\ failed_peers' = [failed_peers EXCEPT ![b] = {}]
    /\ \E queued \in SUBSET {p \in Peers(b) : up[p]} :
          late' = {q \in late : q[2] # b} \cup {<<b, p>> : p \in queued}
    /\ UNCHANGED glitches

\* The restarts so far are the crashes less the brokers that are down.
Restart(b) ==
    /\ ~up[b]
    /\ crashes - Cardinality({c \in Brokers : ~up[c]}) < MaxRestarts
    /\ up' = [up EXCEPT ![b] = TRUE]
    /\ UNCHANGED <<type, leader_broker_id, failed_peers, late, crashes, glitches>>

MemNext ==
    \E b \in Brokers :
        \/ HeartbeatRound(b)
        \/ \E p \in Brokers : handle_heartbeat(b, p)
        \/ Crash(b)
        \/ Restart(b)

MemSpec == MemInit /\ [][MemNext]_memVars

\* A round without stalls: only dead peers are missed.
SteadyRound(b) ==
    \E expired \in SUBSET {p \in Peers(b) : ~up[p]} :
        broadcast_heartbeat(b, expired, {})

\* heartbeat_loop runs a round every kHeartbeatInterval while the process
\* lives, and after the last stall every round is steady.  Nothing obliges a
\* process to crash or to stall, or an operator to restart it.
MemFairSpec == MemSpec /\ \A b \in Brokers : WF_memVars(SteadyRound(b))
-----------------------------------------------------------------------------
\* Every variable has its type; suspicion is about configured peers only.
MemTypeOK ==
    /\ up \in [Brokers -> BOOLEAN]
    /\ type \in [Brokers -> {LEADER, FOLLOWER}]
    /\ leader_broker_id \in [Brokers -> Brokers]
    /\ failed_peers \in [Brokers -> SUBSET Brokers]
    /\ late \in SUBSET (Brokers \X Brokers)
    /\ crashes \in 0..MaxCrashes
    /\ glitches \in 0..MaxGlitches

Live == {b \in Brokers : up[b]}

\* When the configured leader has the lowest id, a follower's leader has a
\* lower id than the follower.  forward_to_leader has no hop limit: a request
\* forwarded along these pointers, each followed at any time, descends and
\* never comes back to a broker it has left.
ForwardingDescends ==
    InitialLeader = Min(Brokers) =>
        \A b \in Brokers :
            /\ is_leader(b) <=> leader_broker_id[b] = b
            /\ ~is_leader(b) => leader_broker_id[b] < b

\* Once crashes, restarts and stalls have stopped, the lowest live broker
\* leads and no other live broker does (README.md:11).
LowestLiveLeads ==
    <>[](\A b \in Live : is_leader(b) <=> b = Min(Live))

\* When brokers only crash, every live broker comes to name the lowest live one
\* as leader, which is what METADATA answers and where PRODUCE is forwarded
\* (README.md:188).  A stall or a restart can leave a broker for ever with
\* another leader: maybe_elect_leader keeps one that is not suspected.
AgreeAfterCrashes ==
    [](glitches = 0 /\ crashes = Cardinality(Brokers \ Live)) =>
        <>[](\A b \in Live : leader_broker_id[b] = Min(Live))
=============================================================================
