-------------------------- MODULE ReplicationProofs -------------------------
(***************************************************************************)
(* For every set of brokers and every bound: of Membership, type           *)
(* correctness and the absence of forwarding cycles; of Replication, for   *)
(* every set of requests, that IndInv is inductive, and from it type       *)
(* correctness, that an acknowledged record is held by a majority, that    *)
(* acknowledged offsets are unique, that commit indexes are justified,     *)
(* that a producer reads its own write, and that the cluster implements    *)
(* AckedLog.                                                               *)
(***************************************************************************)
EXTENDS Replication, FiniteSetTheorems, WellFoundedInduction, SequenceTheorems, TLAPS
-----------------------------------------------------------------------------
(* Membership.                                                             *)

\* Min picks the least element of a non-empty set of naturals: the "lowest id"
\* of maybe_elect_leader, and the next peer of a loop over the peers.
LEMMA MinOfNats ==
    ASSUME NEW S \in SUBSET Nat, S # {}
    PROVE  /\ Min(S) \in S
           /\ \A y \in S : Min(S) <= y
  <1>1. PICK x \in S : \A y \in S : ~(<<y, x>> \in OpToRel(<, Nat))
    BY NatLessThanWellFounded, WFMin, Zenon
  <1>2. ASSUME NEW y \in S, y < x PROVE FALSE
    <2>1. y \in Nat /\ x \in Nat
      BY Zenon
    <2>2. <<y, x>> \in OpToRel(<, Nat)
      BY <1>2, <2>1, Zenon DEF OpToRel
    <2>. QED  BY <1>1, <2>2, Zenon
  <1>3. \A y \in S : x <= y
    BY <1>2
  <1>. QED  BY <1>3, Zenon DEF Min

\* mark_committed stores the larger of the two offsets.
LEMMA MaxOfTwo ==
    ASSUME NEW x \in Int, NEW y \in Int
    PROVE  /\ Max({x, y}) \in {x, y}
           /\ Max({x, y}) >= x
           /\ Max({x, y}) >= y
  <1>1. \E z \in {x, y} : \A w \in {x, y} : z >= w
    <2>1. CASE x >= y  BY <2>1
    <2>2. CASE y >= x  BY <2>2
    <2>. QED  BY <2>1, <2>2
  <1>2. Max({x, y}) \in {x, y} /\ \A w \in {x, y} : Max({x, y}) >= w
    BY <1>1, Zenon DEF Max
  <1>. QED  BY <1>2, Zenon

\* The number of peers a heartbeat round found stalled or unreachable.
LEMMA GlitchedIsNat ==
    ASSUME NEW S, S \subseteq Brokers
    PROVE  Cardinality(S) \in Nat
  BY BrokersAssumption, FS_Subset, FS_CardinalityType, Zenon

\* Every step of the failure detector and of the election keeps the types.
LEMMA MemTypeStep == MemTypeOK /\ [MemNext]_memVars => MemTypeOK'
  <1>. SUFFICES ASSUME MemTypeOK, [MemNext]_memVars PROVE MemTypeOK'
    BY Zenon
  <1>. USE BrokersAssumption, BoundsAssumption DEF MemTypeOK, LEADER, FOLLOWER
  <1>1. ASSUME NEW b \in Brokers, HeartbeatRound(b) PROVE MemTypeOK'
    <2>1. PICK expired \in SUBSET Peers(b), unreachable \in SUBSET Peers(b) :
             broadcast_heartbeat(b, expired, unreachable)
      BY <1>1, Zenon DEF HeartbeatRound
    <2>2. leader_broker_id' \in [Brokers -> Brokers]
      <3>. DEFINE F == failed_peers[b] \cup expired
      <3>1. Min({b} \cup (Peers(b) \ F)) \in Brokers
        BY MinOfNats DEF Peers
      <3>. QED  BY <2>1, <3>1 DEF broadcast_heartbeat, maybe_elect_leader, set_leader
    <2>3. type' \in [Brokers -> {LEADER, FOLLOWER}]
      BY <2>1, Zenon DEF broadcast_heartbeat, maybe_elect_leader, set_leader
    <2>4. glitches' \in 0..MaxGlitches
      <3>. DEFINE G == {p \in expired : up[p]} \cup unreachable
      <3>1. Cardinality(G) \in Nat
        BY GlitchedIsNat, Zenon DEF Peers
      <3>. QED  BY <2>1, <3>1 DEF broadcast_heartbeat
    <2>5. failed_peers' \in [Brokers -> SUBSET Brokers]
      BY <2>1, Zenon DEF broadcast_heartbeat, Peers
    <2>. QED  BY <2>1, <2>2, <2>3, <2>4, <2>5, Zenon DEF broadcast_heartbeat
  <1>2. ASSUME NEW b \in Brokers, NEW p \in Brokers, handle_heartbeat(b, p)
        PROVE MemTypeOK'
    BY <1>2, Zenon DEF handle_heartbeat
  <1>3. ASSUME NEW b \in Brokers, Crash(b) PROVE MemTypeOK'
    BY <1>3 DEF Crash, ConfiguredType, Peers
  <1>4. ASSUME NEW b \in Brokers, Restart(b) PROVE MemTypeOK'
    BY <1>4, Zenon DEF Restart
  <1>5. CASE UNCHANGED memVars
    BY <1>5, Zenon DEF memVars
  <1>. QED  BY <1>1, <1>2, <1>3, <1>4, <1>5, Zenon DEF MemNext

\* The configuration main() builds is well typed.
LEMMA MemTypeInit == MemInit => MemTypeOK
  BY BrokersAssumption, BoundsAssumption
     DEF MemInit, MemTypeOK, ConfiguredType, LEADER, FOLLOWER

\* The election code keeps every variable of the failure detector well typed.
THEOREM MemTypeCorrect == MemSpec => []MemTypeOK
  BY MemTypeInit, MemTypeStep, PTL DEF MemSpec

\* An election at a broker looks only at that broker's own suspicions, and
\* picks itself or a lower id: the pointers go on descending.
LEMMA ForwardingStep ==
    MemTypeOK /\ ForwardingDescends /\ [MemNext]_memVars => ForwardingDescends'
  <1>. SUFFICES ASSUME MemTypeOK, ForwardingDescends, [MemNext]_memVars,
                       InitialLeader = Min(Brokers), NEW b \in Brokers
                PROVE  (/\ is_leader(b) <=> leader_broker_id[b] = b
                        /\ ~is_leader(b) => leader_broker_id[b] < b)'
    BY Zenon DEF ForwardingDescends
  <1>. USE BrokersAssumption DEF MemTypeOK, ForwardingDescends, is_leader,
                                 LEADER, FOLLOWER
  <1>1. ASSUME NEW c \in Brokers, HeartbeatRound(c)
        PROVE  (/\ is_leader(b) <=> leader_broker_id[b] = b
                /\ ~is_leader(b) => leader_broker_id[b] < b)'
    <2>1. PICK expired \in SUBSET Peers(c), unreachable \in SUBSET Peers(c) :
             broadcast_heartbeat(c, expired, unreachable)
      BY <1>1, Zenon DEF HeartbeatRound
    <2>. DEFINE C == {c} \cup (Peers(c) \ (failed_peers[c] \cup expired))
    <2>2. Min(C) \in Brokers /\ Min(C) \in Nat /\ c \in Nat /\ Min(C) <= c
      <3>1. C \in SUBSET Nat /\ C # {} /\ C \subseteq Brokers /\ c \in C
        BY Zenon DEF Peers
      <3>. HIDE DEF C
      <3>. QED  BY <3>1, MinOfNats, Zenon
    <2>3. \/ UNCHANGED <<leader_broker_id, type>>
          \/ set_leader(c, Min(C))
      BY <2>1, Zenon DEF broadcast_heartbeat, maybe_elect_leader
    <2>. HIDE DEF C
    <2>4. CASE UNCHANGED <<leader_broker_id, type>>
      BY <2>4, Zenon
    <2>5. CASE set_leader(c, Min(C))
      <3>1. CASE b = c
        <4>1. leader_broker_id'[b] = Min(C)
          BY <2>5, <3>1, Zenon DEF set_leader
        <4>2. type'[b] = IF Min(C) = b THEN LEADER ELSE FOLLOWER
          BY <2>5, <3>1, Zenon DEF set_leader
        <4>3. Min(C) # b => Min(C) < b
          BY <2>2, <3>1
        <4>. QED  BY <4>1, <4>2, <4>3, Zenon
      <3>2. CASE b # c
        <4>1. type'[b] = type[b] /\ leader_broker_id'[b] = leader_broker_id[b]
          BY <2>5, <3>2, Zenon DEF set_leader
        <4>. QED  BY <4>1, Zenon
      <3>. QED  BY <3>1, <3>2, Zenon
    <2>. QED  BY <2>3, <2>4, <2>5, Zenon
  <1>2. ASSUME NEW c \in Brokers, Crash(c)
        PROVE  (/\ is_leader(b) <=> leader_broker_id[b] = b
                /\ ~is_leader(b) => leader_broker_id[b] < b)'
    <2>1. \A d \in Brokers : InitialLeader <= d
      BY MinOfNats, Zenon
    <2>. QED  BY <1>2, <2>1 DEF Crash, ConfiguredType
  <1>3. ASSUME UNCHANGED <<leader_broker_id, type>>
        PROVE  (/\ is_leader(b) <=> leader_broker_id[b] = b
                /\ ~is_leader(b) => leader_broker_id[b] < b)'
    BY <1>3, Zenon
  <1>. QED
    BY <1>1, <1>2, <1>3, Zenon DEF MemNext, memVars, handle_heartbeat, Restart

\* At the start every broker points at the configured leader, the lowest id.
LEMMA ForwardingInit == MemInit => ForwardingDescends
  <1>. SUFFICES ASSUME MemInit, InitialLeader = Min(Brokers)
                PROVE  \A b \in Brokers :
                          /\ is_leader(b) <=> leader_broker_id[b] = b
                          /\ ~is_leader(b) => leader_broker_id[b] < b
    BY Zenon DEF ForwardingDescends
  <1>1. \A d \in Brokers : InitialLeader <= d
    BY BrokersAssumption, MinOfNats, Zenon
  <1>. QED  BY <1>1, BrokersAssumption
            DEF MemInit, is_leader, ConfiguredType, LEADER, FOLLOWER

\* When the lowest id is the configured leader, forward_to_leader always
\* forwards to a lower id: no cycle of leader pointers can form, whatever
\* brokers suspect, crash or restart.
THEOREM NoForwardingCycle == MemSpec => []ForwardingDescends
  BY MemTypeInit, MemTypeStep, ForwardingInit, ForwardingStep, PTL DEF MemSpec
-----------------------------------------------------------------------------
(* Replication.                                                            *)

\* The peer a loop over the peers stands at is a broker.
LEMMA TargetIsBroker ==
    ASSUME TypeOK, NEW m \in Messages, todo[m] # {}
    PROVE  Target(m) \in Brokers
  <1>1. todo[m] \in SUBSET Nat /\ todo[m] \subseteq Brokers
    BY BrokersAssumption, Zenon DEF TypeOK
  <1>. QED  BY <1>1, MinOfNats, Zenon DEF Target

\* A set of brokers that contains a majority is a majority.
LEMMA LargerMajority ==
    ASSUME NEW S, NEW T, S \subseteq T, T \subseteq Brokers,
           Cardinality(S) >= Quorum
    PROVE  Cardinality(T) >= Quorum
  <1>1. IsFiniteSet(T)
    BY BrokersAssumption, FS_Subset, Zenon
  <1>2. Cardinality(S) <= Cardinality(T) /\ IsFiniteSet(S)
    BY <1>1, FS_Subset, Zenon
  <1>3. Cardinality(S) \in Nat /\ Cardinality(T) \in Nat
           /\ Cardinality(Brokers) \in Nat
    BY <1>1, <1>2, BrokersAssumption, FS_CardinalityType, Zenon
  <1>. QED  BY <1>2, <1>3 DEF Quorum

\* Two majorities of the replicas share a replica.
LEMMA MajoritiesMeet ==
    ASSUME NEW S, NEW T, S \subseteq Brokers, T \subseteq Brokers,
           Cardinality(S) >= Quorum, Cardinality(T) >= Quorum
    PROVE  S \cap T # {}
  <1>1. Cardinality(S) \in Nat /\ Cardinality(T) \in Nat
           /\ Cardinality(Brokers) \in Nat
    BY BrokersAssumption, FS_Subset, FS_CardinalityType, Zenon
  <1>2. Cardinality(S) + Cardinality(T) > Cardinality(Brokers)
    BY <1>1 DEF Quorum
  <1>. QED  BY <1>2, BrokersAssumption, FS_MajoritiesIntersect, Zenon
-----------------------------------------------------------------------------
(* Which step changes what.                                                *)

\* What one step of the thread that serves a PRODUCE changes: its own entries,
\* and of the shared state only what the step is for.
LEMMA ServeProduceFrame ==
    ASSUME NEW n \in Messages, ServeProduce(n)
    PROVE  /\ at' = at
           /\ \/ /\ handle_produce_append(n)
                 /\ pc[n] = "admitted"
                 /\ pc' = [pc EXCEPT ![n] = "appended"]
                 /\ \E x : offset' = [offset EXCEPT ![n] = x]
              \/ /\ UNCHANGED <<log, log_open, offset>>
                 /\ pc[n] \in Served
                 /\ \/ pc' = pc
                    \/ \E x \in Points \ {"idle", "admitted", "appended"} :
                          pc' = [pc EXCEPT ![n] = x]
           /\ todo' = todo \/ \E x : todo' = [todo EXCEPT ![n] = x]
           /\ \/ reply' = [reply EXCEPT ![n] = "none"]
              \/ reply' = reply /\ pc[n] # "waiting"
           /\ \/ replicate_message_begin(n) \/ replicate_to_peer_acked(n)
              \/ UNCHANGED ackVars
           /\ replicate_to_peer_send(n) \/ replicates' = replicates
           /\ broadcast_commit_send(n) \/ commits' = commits
           /\ handle_produce_commit(n) \/ commit_index' = commit_index
           /\ \/ handle_produce_commit(n)
              \/ pc[n] \in {"committed", "broadcasting"}
              \/ \E x \in Points \ {"committed", "broadcasting", "ok"} :
                    pc' = [pc EXCEPT ![n] = x]
  <1>. USE DEF logVars, ackVars, netVars, reqVars, Goto, Visited, Served, Points,
               Final, Failures
  <1>1. CASE handle_produce_append(n)
    BY <1>1, Zenon DEF handle_produce_append
  <1>2. CASE replicate_message_begin(n)
    BY <1>2, Zenon DEF replicate_message_begin
  <1>3. CASE replicate_to_peer_send(n)
    BY <1>3, Zenon DEF replicate_to_peer_send
  <1>4. CASE replicate_to_peer_fail(n)
    BY <1>4, Zenon DEF replicate_to_peer_fail
  <1>5. CASE replicate_to_peer_acked(n)
    BY <1>5, Zenon DEF replicate_to_peer_acked
  <1>6. CASE replicate_message_end(n)
    BY <1>6, Zenon DEF replicate_message_end
  <1>7. CASE handle_produce_commit(n)
    BY <1>7, Zenon DEF handle_produce_commit
  <1>8. CASE broadcast_commit_begin(n)
    BY <1>8, Zenon DEF broadcast_commit_begin
  <1>9. CASE broadcast_commit_send(n)
    BY <1>9, Zenon DEF broadcast_commit_send
  <1>10. CASE broadcast_commit_end(n)
    BY <1>10, Zenon DEF broadcast_commit_end
  <1>. QED
    BY <1>1, <1>2, <1>3, <1>4, <1>5, <1>6, <1>7, <1>8, <1>9, <1>10, Zenon
       DEF ServeProduce

\* Requests from other brokers, heartbeats and a restart leave the threads that
\* serve PRODUCE requests and the acknowledgement counts alone.
LEMMA OtherStepsFrame ==
    ASSUME \/ ServePeer
           \/ \E b \in Brokers : heartbeat_loop(b)
           \/ \E b, p \in Brokers : handle_heartbeat_request(b, p)
           \/ \E b \in Brokers : RestartBroker(b)
           \/ UNCHANGED vars
    PROVE  UNCHANGED <<pc, at, offset, todo, ack_counts, ack_followers>>
  <1>. USE DEF logVars, ackVars, netVars, reqVars, replVars
  <1>1. CASE \E r \in replicates : handle_replication_check(r)
    BY <1>1, Zenon DEF handle_replication_check
  <1>2. CASE \E r \in replicates : handle_replication_append(r)
    BY <1>2, Zenon DEF handle_replication_append
  <1>3. CASE \E c \in commits : handle_commit_request(c)
    BY <1>3, Zenon DEF handle_commit_request
  <1>4. CASE \/ \E b \in Brokers : heartbeat_loop(b)
             \/ \E b, p \in Brokers : handle_heartbeat_request(b, p)
             \/ \E b \in Brokers : RestartBroker(b)
             \/ UNCHANGED vars
    BY <1>4, Zenon DEF heartbeat_loop, handle_heartbeat_request, RestartBroker, vars
  <1>. QED  BY <1>1, <1>2, <1>3, <1>4, Zenon DEF ServePeer
-----------------------------------------------------------------------------
(* Logs only grow.                                                         *)

\* The thread of an appended request knows its broker and an offset in range.
LEMMA ServedInRange ==
    ASSUME TypeOK, RequestInv, NEW m \in Messages, pc[m] \in Served
    PROVE  at[m] \in Brokers /\ offset[m] \in Offsets
  BY ReplicationAssumption DEF TypeOK, RequestInv, Holds, Offsets

\* A step leaves all the logs alone or appends one record to one of them.
LEMMA LogStep ==
    ASSUME TypeOK, RequestInv, [Next]_vars
    PROVE  \/ log' = log
           \/ \E b \in Brokers, m \in Messages : append(b, m)
  <1>1. ASSUME NEW m \in Messages, handle_produce_append(m)
        PROVE  \E b \in Brokers : append(b, m)
    BY <1>1, Zenon DEF handle_produce_append, RequestInv
  <1>2. ASSUME NEW r \in replicates, handle_replication_append(r)
        PROVE  \E b \in Brokers, m \in Messages : append(b, m)
    BY <1>2, Zenon DEF handle_replication_append, TypeOK
  <1>3. ASSUME NEW m \in Messages, ServeProduce(m)
        PROVE  log' = log \/ handle_produce_append(m)
    BY <1>3, ServeProduceFrame, Zenon
  <1>4. ASSUME ServePeer
        PROVE  log' = log \/ \E r \in replicates : handle_replication_append(r)
    BY <1>4, Zenon DEF ServePeer, handle_replication_check, handle_commit_request, logVars
  <1>. QED
    BY <1>1, <1>2, <1>3, <1>4, Zenon DEF Next, vars, replVars, logVars,
       handle_produce_admit, heartbeat_loop, handle_heartbeat_request,
       CrashBroker, RestartBroker

\* What a record appended to a log changes: one more record, at the end.
LEMMA AppendedLog ==
    ASSUME TypeOK, NEW b \in Brokers, NEW m \in Messages, append(b, m)
    PROVE  /\ log' \in [Brokers -> Seq(Messages)]
           /\ \A c \in Brokers : Len(log'[c]) <= MaxRecords
           /\ Len(log'[b]) = Len(log[b]) + 1
           /\ log'[b][Len(log[b]) + 1] = m
           /\ \A i \in 1..Len(log[b]) : log'[b][i] = log[b][i]
           /\ \A c \in Brokers : c # b => log'[c] = log[c]
  <1>1. log[b] \in Seq(Messages) /\ Len(log[b]) \in Nat
    BY DEF TypeOK
  <1>2. log'[b] = Append(log[b], m) /\ \A c \in Brokers : c # b => log'[c] = log[c]
    BY Zenon DEF append, TypeOK
  <1>3. /\ Append(log[b], m) \in Seq(Messages)
        /\ Len(Append(log[b], m)) = Len(log[b]) + 1
        /\ \A i \in 1..Len(log[b]) : Append(log[b], m)[i] = log[b][i]
        /\ Append(log[b], m)[Len(log[b]) + 1] = m
    BY <1>1, AppendProperties, ZenonT(40)
  <1>4. log' \in [Brokers -> Seq(Messages)]
    BY <1>3, Zenon DEF append, TypeOK
  <1>5. \A c \in Brokers : Len(log'[c]) <= MaxRecords
    BY <1>1, <1>2, <1>3, ReplicationAssumption DEF append, TypeOK
  <1>. QED  BY <1>2, <1>3, <1>4, <1>5, Zenon

\* A record stays where it is in a log.
LEMMA LogsOnlyGrow ==
    ASSUME TypeOK, RequestInv, [Next]_vars
    PROVE  /\ \A b \in Brokers, o \in Nat, m \in Messages :
                 Holds(b, o, m) => Holds(b, o, m)'
           /\ \A b \in Brokers, o \in Nat :
                 o < Len(log[b]) => o < Len(log'[b]) /\ log'[b][o + 1] = log[b][o + 1]
           /\ \A o \in Nat, m \in Messages : Majority(o, m) => Majority(o, m)'
  <1>1. \A b \in Brokers, o \in Nat :
           o < Len(log[b]) => o < Len(log'[b]) /\ log'[b][o + 1] = log[b][o + 1]
    <2>1. CASE log' = log
      BY <2>1, Zenon
    <2>2. ASSUME NEW c \in Brokers, NEW n \in Messages, append(c, n),
                 NEW b \in Brokers, NEW o \in Nat, o < Len(log[b])
          PROVE  o < Len(log'[b]) /\ log'[b][o + 1] = log[b][o + 1]
      <3>1. Len(log[b]) \in Nat /\ Len(log[c]) \in Nat
        BY DEF TypeOK
      <3>2. CASE b = c
        BY <2>2, <3>1, <3>2, AppendedLog
      <3>3. CASE b # c
        BY <2>2, <3>3, AppendedLog, Zenon
      <3>. QED  BY <3>2, <3>3, Zenon
    <2>. QED  BY <2>1, <2>2, LogStep, Zenon
  <1>2. \A b \in Brokers, o \in Nat, m \in Messages : Holds(b, o, m) => Holds(b, o, m)'
    BY <1>1, Zenon DEF Holds
  <1>3. ASSUME NEW o \in Nat, NEW m \in Messages, Majority(o, m)
        PROVE  Majority(o, m)'
    <2>1. Holders(o, m) \subseteq Holders(o, m)' /\ Holders(o, m)' \subseteq Brokers
      BY <1>2, Zenon DEF Holders
    <2>. QED  BY <1>3, <2>1, LargerMajority, Zenon DEF Majority, Quorum
  <1>. QED  BY <1>1, <1>2, <1>3, Zenon
-----------------------------------------------------------------------------
(* Type correctness.  The types of ack_counts and commits need RequestInv: *)
(* the offset of a request being served is one of Offsets.                 *)

\* The suspicions a request's thread records, and the broken connections it
\* meets, keep Membership's types.
LEMMA SuspicionTypes ==
    ASSUME MemTypeOK, UNCHANGED memRest, NEW b \in Brokers, NEW p \in Brokers,
           mark_follower_failed(b, p) \/ mark_follower_alive(b, p),
           glitches' = glitches \/ (glitches < MaxGlitches /\ glitches' = glitches + 1)
    PROVE  MemTypeOK'
  BY BoundsAssumption DEF MemTypeOK, memRest, mark_follower_failed, mark_follower_alive

\* StorageEngine::append, on either kind of broker, keeps the logs well typed.
LEMMA LogTypes ==
    ASSUME TypeOK, RequestInv, [Next]_vars
    PROVE  /\ log' \in [Brokers -> Seq(Messages)]
           /\ \A b \in Brokers : Len(log'[b]) <= MaxRecords
  <1>1. CASE log' = log
    BY <1>1, Zenon DEF TypeOK
  <1>2. ASSUME NEW b \in Brokers, NEW m \in Messages, append(b, m)
        PROVE  /\ log' \in [Brokers -> Seq(Messages)]
               /\ \A c \in Brokers : Len(log'[c]) <= MaxRecords
    BY <1>2, AppendedLog, Zenon
  <1>. QED  BY <1>1, <1>2, LogStep, Zenon

\* mark_committed is given an offset of the logs, so the commit index is one.
LEMMA CommitIndexType ==
    ASSUME TypeOK, NEW b \in Brokers, NEW o \in Offsets, mark_committed(b, o)
    PROVE  /\ commit_index' \in [Brokers -> Offsets \cup {-1}]
           /\ commit_index'[b] \in {commit_index[b], o}
           /\ commit_index'[b] >= commit_index[b]
           /\ commit_index'[b] >= o
           /\ \A c \in Brokers : c # b => commit_index'[c] = commit_index[c]
  <1>1. commit_index[b] \in Int /\ o \in Int
    BY ReplicationAssumption DEF TypeOK, Offsets
  <1>. DEFINE M == Max({commit_index[b], o})
  <1>2. M \in {commit_index[b], o} /\ M >= commit_index[b] /\ M >= o
    BY <1>1, MaxOfTwo, Zenon
  <1>3. commit_index' = [commit_index EXCEPT ![b] = M]
    BY Zenon DEF mark_committed, TypeOK
  <1>. HIDE DEF M
  <1>. QED  BY <1>2, <1>3, Zenon DEF TypeOK


\* The acknowledgement maps keep their types when one entry is updated.
LEMMA AckEntryTypes ==
    ASSUME TypeOK, NEW b \in Brokers, NEW o \in Offsets, NEW p \in Brokers,
           NEW n \in Nat,
           ack_counts' = [ack_counts EXCEPT ![b][o] = n],
           ack_followers' = [ack_followers EXCEPT ![b][o] = @ \cup {p}]
    PROVE  /\ ack_counts' \in [Brokers -> [Offsets -> Nat]]
           /\ ack_followers' \in [Brokers -> [Offsets -> SUBSET Brokers]]
           /\ ack_counts'[b][o] = n
           /\ ack_followers'[b][o] = ack_followers[b][o] \cup {p}
           /\ \A c \in Brokers, q \in Offsets : c # b \/ q # o =>
                 /\ ack_counts'[c][q] = ack_counts[c][q]
                 /\ ack_followers'[c][q] = ack_followers[c][q]
  <1>1. /\ ack_counts[b] \in [Offsets -> Nat]
        /\ ack_followers[b] \in [Offsets -> SUBSET Brokers]
    BY Zenon DEF TypeOK
  <1>2. ack_counts' \in [Brokers -> [Offsets -> Nat]]
    BY <1>1, Zenon DEF TypeOK
  <1>3. ack_followers' \in [Brokers -> [Offsets -> SUBSET Brokers]]
    BY <1>1, Zenon DEF TypeOK
  <1>4. ack_counts'[b][o] = n /\ ack_followers'[b][o] = ack_followers[b][o] \cup {p}
    BY <1>1, Zenon DEF TypeOK
  <1>5. ASSUME NEW c \in Brokers, NEW q \in Offsets, c # b \/ q # o
        PROVE  /\ ack_counts'[c][q] = ack_counts[c][q]
               /\ ack_followers'[c][q] = ack_followers[c][q]
    BY <1>1, <1>5, Zenon DEF TypeOK
  <1>. QED  BY <1>2, <1>3, <1>4, <1>5, Zenon

\* Each step of a request's thread keeps the types.
LEMMA ServeProduceTypes ==
    ASSUME TypeOK, RequestInv, NetInv, [Next]_vars,
           NEW m \in Messages, ServeProduce(m)
    PROVE  TypeOK'
  <1>. USE DEF logVars, ackVars, netVars, Goto, Visited
  <1>1. /\ log' \in [Brokers -> Seq(Messages)]
        /\ \A b \in Brokers : Len(log'[b]) <= MaxRecords
    BY LogTypes, Zenon
  <1>2. ASSUME UNCHANGED memVars PROVE MemTypeOK'
    BY <1>2, Zenon DEF TypeOK, MemTypeOK, memVars
  <1>3. CASE handle_produce_append(m)
    <2>1. at[m] \in Brokers /\ Len(log[at[m]]) \in Nat
      BY <1>3 DEF handle_produce_append, RequestInv, TypeOK
    <2>. QED  BY <1>1, <1>2, <1>3, <2>1, Zenon DEF TypeOK, handle_produce_append, append, Points
  <1>4. CASE replicate_message_begin(m)
    <2>1. at[m] \in Brokers /\ offset[m] \in Offsets
      BY <1>4, ServedInRange, Zenon DEF replicate_message_begin, Served
    <2>2. CASE is_leader(at[m])
      <3>1. /\ ack_counts' = [ack_counts EXCEPT ![at[m]][offset[m]] = 1]
            /\ ack_followers' =
                 [ack_followers EXCEPT ![at[m]][offset[m]] = @ \cup {at[m]}]
        BY <1>4, <2>2, Zenon DEF replicate_message_begin
      <3>2. 1 \in Nat
        BY Zenon
      <3>3. /\ ack_counts' \in [Brokers -> [Offsets -> Nat]]
            /\ ack_followers' \in [Brokers -> [Offsets -> SUBSET Brokers]]
        BY <2>1, <3>1, <3>2, AckEntryTypes, Zenon
      <3>. DEFINE T == {p \in Peers(at[m]) : is_peer_available(at[m], p)}
      <3>4. T \in SUBSET Brokers
        BY Zenon DEF Peers
      <3>5. /\ pc' = [pc EXCEPT ![m] = "replicating"]
            /\ mutex' = [mutex EXCEPT ![at[m]] = {m}]
            /\ todo' = [todo EXCEPT ![m] = T]
            /\ UNCHANGED <<memVars, logVars, commit_index, at, offset, reply, netVars>>
        BY <1>4, <2>2, Zenon DEF replicate_message_begin
      <3>. HIDE DEF T
      <3>. QED  BY <1>1, <1>2, <2>1, <3>3, <3>4, <3>5, Zenon DEF TypeOK, Points
    <2>3. CASE ~is_leader(at[m])
      BY <1>1, <1>2, <1>4, <2>3, Zenon
         DEF TypeOK, replicate_message_begin, Points, Final, Failures
    <2>. QED  BY <2>2, <2>3, Zenon
  <1>5. CASE replicate_to_peer_send(m)
    <2>1. Target(m) \in Brokers
      BY <1>5, TargetIsBroker, Zenon DEF replicate_to_peer_send
    <2>. DEFINE r == [dst |-> Target(m), message |-> m, fetch_offset |-> offset[m],
                      checked |-> FALSE]
    <2>2. r \in [dst : Brokers, message : Messages, fetch_offset : Nat,
                 checked : BOOLEAN]
      BY <2>1, Zenon DEF TypeOK
    <2>3. replicates' = replicates \cup {r}
      BY <1>5, Zenon DEF replicate_to_peer_send
    <2>. HIDE DEF r
    <2>4. replicates' \in SUBSET [dst : Brokers, message : Messages,
                                  fetch_offset : Nat, checked : BOOLEAN]
      BY <2>2, <2>3, Zenon DEF TypeOK
    <2>. QED  BY <1>1, <1>2, <1>5, <2>4, Zenon DEF TypeOK, replicate_to_peer_send, Points
  <1>6. CASE replicate_to_peer_fail(m)
    <2>1. Target(m) \in Brokers /\ at[m] \in Brokers
      BY <1>6, TargetIsBroker, ServedInRange, Zenon DEF replicate_to_peer_fail, Served
    <2>2. MemTypeOK'
      BY <1>6, <2>1, SuspicionTypes, Zenon DEF replicate_to_peer_fail, TypeOK
    <2>. QED  BY <1>1, <1>6, <2>1, <2>2, Zenon DEF TypeOK, replicate_to_peer_fail, Points
  <1>7. CASE replicate_to_peer_acked(m)
    <2>1. Target(m) \in Brokers /\ at[m] \in Brokers /\ offset[m] \in Offsets
      BY <1>7, ServedInRange, Zenon DEF replicate_to_peer_acked, Served, NetInv
    <2>2. MemTypeOK'
      BY <1>7, <2>1, SuspicionTypes, Zenon DEF replicate_to_peer_acked, TypeOK
    <2>3. /\ ack_counts' \in [Brokers -> [Offsets -> Nat]]
          /\ ack_followers' \in [Brokers -> [Offsets -> SUBSET Brokers]]
      <3>1. ack_counts[at[m]][offset[m]] + 1 \in Nat
        BY <2>1 DEF TypeOK
      <3>2. CASE UNCHANGED ackVars
        BY <3>2, Zenon DEF TypeOK
      <3>3. CASE ~UNCHANGED ackVars
        BY <1>7, <2>1, <3>1, <3>3, AckEntryTypes DEF replicate_to_peer_acked, handle_ack
      <3>. QED  BY <3>2, <3>3, Zenon
    <2>. QED  BY <1>1, <1>7, <2>2, <2>3, Zenon DEF TypeOK, replicate_to_peer_acked, Points
  <1>8. CASE replicate_message_end(m)
    BY <1>1, <1>2, <1>8, ServedInRange, Zenon
       DEF TypeOK, replicate_message_end, Points, Final, Failures
  <1>9. CASE handle_produce_commit(m)
    <2>1. at[m] \in Brokers /\ offset[m] \in Offsets
      BY <1>9, ServedInRange, Zenon DEF handle_produce_commit, Served
    <2>2. commit_index' \in [Brokers -> Offsets \cup {-1}]
      <3>1. CASE UNCHANGED commit_index
        BY <3>1, Zenon DEF TypeOK
      <3>2. CASE mark_committed(at[m], offset[m])
        BY <2>1, <3>2, CommitIndexType, Zenon
      <3>. QED  BY <1>9, <3>1, <3>2, Zenon DEF handle_produce_commit
    <2>. QED  BY <1>1, <1>2, <1>9, <2>2, Zenon
              DEF TypeOK, handle_produce_commit, Points, Final, Failures
  <1>10. CASE broadcast_commit_begin(m)
    <2>. DEFINE T == {p \in Peers(at[m]) : is_peer_available(at[m], p)}
    <2>1. T \in SUBSET Brokers
      BY Zenon DEF Peers
    <2>2. /\ \/ /\ pc' = [pc EXCEPT ![m] = "broadcasting"]
                /\ mutex' = [mutex EXCEPT ![at[m]] = {m}]
                /\ todo' = [todo EXCEPT ![m] = T]
             \/ pc' = [pc EXCEPT ![m] = "ok"] /\ UNCHANGED <<mutex, todo>>
          /\ UNCHANGED <<memVars, logVars, commit_index, ackVars, at, offset, reply,
                         netVars>>
      BY <1>10, Zenon DEF broadcast_commit_begin
    <2>. HIDE DEF T
    <2>3. /\ pc' \in [Messages -> Points]
          /\ mutex' \in [Brokers -> SUBSET Messages]
          /\ todo' \in [Messages -> SUBSET Brokers]
      <3>1. CASE UNCHANGED <<mutex, todo>> /\ pc' = [pc EXCEPT ![m] = "ok"]
        BY <3>1, Zenon DEF TypeOK, Points, Final
      <3>2. CASE /\ pc' = [pc EXCEPT ![m] = "broadcasting"]
                 /\ mutex' = [mutex EXCEPT ![at[m]] = {m}]
                 /\ todo' = [todo EXCEPT ![m] = T]
        <4>1. pc' \in [Messages -> Points]
          BY <3>2, Zenon DEF TypeOK, Points
        <4>2. mutex' \in [Brokers -> SUBSET Messages]
          BY <3>2, Zenon DEF TypeOK
        <4>3. todo' \in [Messages -> SUBSET Brokers]
          BY <2>1, <3>2, Zenon DEF TypeOK
        <4>. QED  BY <4>1, <4>2, <4>3, Zenon
      <3>. QED  BY <2>2, <3>1, <3>2, Zenon
    <2>. QED  BY <1>1, <1>2, <2>2, <2>3, Zenon DEF TypeOK
  <1>11. CASE broadcast_commit_send(m)
    <2>1. Target(m) \in Brokers /\ at[m] \in Brokers /\ offset[m] \in Offsets
      BY <1>11, TargetIsBroker, ServedInRange, Zenon DEF broadcast_commit_send, Served
    <2>2. MemTypeOK'
      BY <1>11, <2>1, SuspicionTypes, Zenon DEF broadcast_commit_send, TypeOK
    <2>3. commits' \in SUBSET [dst : Brokers, fetch_offset : Offsets]
      <3>1. \/ commits' = commits
            \/ commits' = commits \cup {[dst |-> Target(m), fetch_offset |-> offset[m]]}
        BY <1>11, Zenon DEF broadcast_commit_send
      <3>2. commits \in SUBSET [dst : Brokers, fetch_offset : Offsets]
        BY Zenon DEF TypeOK
      <3>. QED  BY <2>1, <3>1, <3>2
    <2>. QED  BY <1>1, <1>11, <2>2, <2>3, Zenon DEF TypeOK, broadcast_commit_send
  <1>12. CASE broadcast_commit_end(m)
    BY <1>1, <1>2, <1>12, Zenon DEF TypeOK, broadcast_commit_end, Points, Final
  <1>. QED
    BY <1>3, <1>4, <1>5, <1>6, <1>7, <1>8, <1>9, <1>10, <1>11, <1>12, Zenon
       DEF ServeProduce

\* So do the handlers of requests from other brokers.
LEMMA ServePeerTypes ==
    ASSUME TypeOK, RequestInv, [Next]_vars, ServePeer
    PROVE  TypeOK'
  <1>. USE DEF logVars, ackVars, netVars, reqVars
  <1>1. /\ log' \in [Brokers -> Seq(Messages)]
        /\ \A b \in Brokers : Len(log'[b]) <= MaxRecords
    BY LogTypes, Zenon
  <1>2. ASSUME UNCHANGED memVars PROVE MemTypeOK'
    BY <1>2, Zenon DEF TypeOK, MemTypeOK, memVars
  <1>3. ASSUME NEW r \in replicates, NEW a \in {"ack", "refused"}, Answer(r, a)
        PROVE  reply' \in [Messages -> {"none", "ack", "refused"}]
    BY <1>3, Zenon DEF TypeOK, Answer
  <1>4. ASSUME NEW r \in replicates, handle_replication_check(r)
        PROVE  TypeOK'
    <2>1. reply' \in [Messages -> {"none", "ack", "refused"}]
      BY <1>3, <1>4, Zenon DEF handle_replication_check, TypeOK
    <2>2. replicates' \in SUBSET [dst : Brokers, message : Messages,
                                  fetch_offset : Nat, checked : BOOLEAN]
      <3>. DEFINE Requests == [dst : Brokers, message : Messages,
                               fetch_offset : Nat, checked : BOOLEAN]
                  r2 == [r EXCEPT !.checked = TRUE]
      <3>1. r2 \in Requests /\ replicates \subseteq Requests
        BY Zenon DEF TypeOK
      <3>2. \/ replicates' = replicates \ {r}
            \/ replicates' = (replicates \ {r}) \cup {r2}
        BY <1>4, Zenon DEF handle_replication_check
      <3>3. replicates' \subseteq Requests
        <4>. HIDE DEF r2, Requests
        <4>. QED  BY <3>1, <3>2, Zenon
      <3>. QED  BY <3>3, Zenon
    <2>. QED  BY <1>1, <1>2, <1>4, <2>1, <2>2, Zenon DEF handle_replication_check, TypeOK
  <1>5. ASSUME NEW r \in replicates, handle_replication_append(r)
        PROVE  TypeOK'
    <2>1. reply' \in [Messages -> {"none", "ack", "refused"}]
      BY <1>3, <1>5, Zenon DEF handle_replication_append
    <2>2. log_open' \in [Brokers -> BOOLEAN]
      BY <1>5, Zenon DEF handle_replication_append, append, TypeOK
    <2>. QED  BY <1>1, <1>2, <1>5, <2>1, <2>2, Zenon DEF handle_replication_append, TypeOK
  <1>6. ASSUME NEW c \in commits, handle_commit_request(c)
        PROVE  TypeOK'
    <2>1. c.dst \in Brokers /\ c.fetch_offset \in Offsets
      BY Zenon DEF TypeOK
    <2>2. commit_index' \in [Brokers -> Offsets \cup {-1}]
      BY <1>6, <2>1, CommitIndexType, Zenon DEF handle_commit_request
    <2>. QED  BY <1>1, <1>2, <1>6, <2>2, Zenon DEF handle_commit_request, TypeOK
  <1>. QED  BY <1>4, <1>5, <1>6, Zenon DEF ServePeer

\* A crash keeps the types.
LEMMA CrashTypes ==
    ASSUME TypeOK, NEW b \in Brokers, CrashBroker(b)
    PROVE  TypeOK'
  <1>1. MemTypeOK'
    BY MemTypeStep, Zenon DEF CrashBroker, TypeOK, MemNext
  <1>2. /\ pc' \in [Messages -> Points]
        /\ at' \in [Messages -> Brokers \cup {0}]
        /\ todo' \in [Messages -> SUBSET Brokers]
    BY Zenon DEF CrashBroker, TypeOK, Points, Final, Failures
  <1>3. reply' \in [Messages -> {"none", "ack", "refused"}]
    BY Zenon DEF CrashBroker, TypeOK
  <1>4. /\ ack_counts' \in [Brokers -> [Offsets -> Nat]]
        /\ ack_followers' \in [Brokers -> [Offsets -> SUBSET Brokers]]
    BY Zenon DEF CrashBroker, TypeOK
  <1>5. /\ commit_index' \in [Brokers -> Offsets \cup {-1}]
        /\ log_open' \in [Brokers -> BOOLEAN]
        /\ mutex' \in [Brokers -> SUBSET Messages]
        /\ replicates' \subseteq replicates
        /\ commits' \subseteq commits
        /\ UNCHANGED <<log, offset>>
    BY Zenon DEF CrashBroker, TypeOK
  <1>. QED  BY <1>1, <1>2, <1>3, <1>4, <1>5, Zenon DEF TypeOK

\* Every step of the cluster keeps the types.
LEMMA TypeStep ==
    ASSUME TypeOK, RequestInv, NetInv, [Next]_vars
    PROVE  TypeOK'
  <1>1. ASSUME NEW m \in Messages, NEW b \in Brokers, handle_produce_admit(m, b)
        PROVE  TypeOK'
    BY <1>1, Zenon DEF handle_produce_admit, TypeOK, MemTypeOK, memVars, logVars, ackVars,
                netVars, Goto, Points
  <1>2. ASSUME [MemNext]_memVars, UNCHANGED replVars
        PROVE  TypeOK'
    <2>1. MemTypeOK'
      BY <1>2, MemTypeStep, Zenon DEF TypeOK
    <2>. QED  BY <1>2, <2>1, Zenon DEF TypeOK, replVars, logVars, ackVars, reqVars, netVars
  <1>3. ASSUME NEW b \in Brokers, NEW p \in Brokers,
               heartbeat_loop(b) \/ handle_heartbeat_request(b, p) \/ RestartBroker(b)
        PROVE  MemNext /\ UNCHANGED replVars
    BY <1>3, Zenon DEF heartbeat_loop, handle_heartbeat_request, RestartBroker, MemNext
  <1>4. CASE UNCHANGED vars
    BY <1>2, <1>4, Zenon DEF vars
  <1>. QED
    BY <1>1, <1>2, <1>3, <1>4, ServeProduceTypes, ServePeerTypes, CrashTypes, Zenon DEF Next
-----------------------------------------------------------------------------
(* The parts of the inductive invariant.                                   *)

\* What a step can do to a request's thread: it moves one request, or a crash
\* loses the requests of one broker.
LEMMA RequestStep ==
    ASSUME TypeOK, RequestInv, [Next]_vars, NEW m \in Messages
    PROVE  /\ (pc[m] \in Served \cup {"admitted"} => at[m] \in Brokers)'
           /\ (pc[m] \in Served => Holds(at[m], offset[m], m))'
  <1>. USE DEF logVars, ackVars, netVars, reqVars, Goto, Served, RequestInv
  <1>1. ASSUME UNCHANGED <<pc[m], at[m], offset[m]>>
        PROVE  /\ (pc[m] \in Served \cup {"admitted"} => at[m] \in Brokers)'
               /\ (pc[m] \in Served => Holds(at[m], offset[m], m))'
    BY <1>1, LogsOnlyGrow, Zenon DEF TypeOK
  <1>2. ASSUME NEW n \in Messages, NEW b \in Brokers, handle_produce_admit(n, b)
        PROVE  /\ (pc[m] \in Served \cup {"admitted"} => at[m] \in Brokers)'
               /\ (pc[m] \in Served => Holds(at[m], offset[m], m))'
    <2>1. CASE m = n
      BY <1>2, <2>1, Zenon DEF handle_produce_admit, TypeOK
    <2>2. CASE m # n
      BY <1>1, <1>2, <2>2, Zenon DEF handle_produce_admit, TypeOK
    <2>. QED  BY <2>1, <2>2, Zenon
  <1>3. ASSUME NEW n \in Messages, handle_produce_append(n)
        PROVE  /\ (pc[m] \in Served \cup {"admitted"} => at[m] \in Brokers)'
               /\ (pc[m] \in Served => Holds(at[m], offset[m], m))'
    <2>1. CASE m = n
      <3>1. at[m] \in Brokers /\ append(at[m], m)
        BY <1>3, <2>1, Zenon DEF handle_produce_append
      <3>2. at'[m] = at[m] /\ offset'[m] = Len(log[at[m]]) /\ Len(log[at[m]]) \in Nat
        BY <1>3, <2>1, <3>1 DEF handle_produce_append, TypeOK
      <3>3. Len(log'[at[m]]) = Len(log[at[m]]) + 1
               /\ log'[at[m]][Len(log[at[m]]) + 1] = m
        BY <3>1, AppendedLog, Zenon
      <3>. QED  BY <3>1, <3>2, <3>3 DEF Holds
    <2>2. CASE m # n
      BY <1>1, <1>3, <2>2, Zenon DEF handle_produce_append, TypeOK
    <2>. QED  BY <2>1, <2>2, Zenon
  <1>4. ASSUME NEW n \in Messages, ServeProduce(n), ~handle_produce_append(n)
        PROVE  /\ (pc[m] \in Served \cup {"admitted"} => at[m] \in Brokers)'
               /\ (pc[m] \in Served => Holds(at[m], offset[m], m))'
    <2>1. /\ at' = at /\ offset' = offset
          /\ pc[n] \in Served
          /\ \/ pc' = pc
             \/ \E point \in Points : pc' = [pc EXCEPT ![n] = point]
      BY <1>4, ServeProduceFrame, Zenon
    <2>2. CASE m = n
      BY <2>1, <2>2, LogsOnlyGrow, Zenon DEF TypeOK
    <2>3. CASE m # n
      BY <1>1, <2>1, <2>3, Zenon DEF TypeOK
    <2>. QED  BY <2>2, <2>3, Zenon
  <1>5. ASSUME NEW b \in Brokers, CrashBroker(b)
        PROVE  /\ (pc[m] \in Served \cup {"admitted"} => at[m] \in Brokers)'
               /\ (pc[m] \in Served => Holds(at[m], offset[m], m))'
    <2>1. CASE at[m] = b
      BY <1>5, <2>1, Zenon DEF CrashBroker, Final, Failures
    <2>2. CASE at[m] # b
      <3>1. UNCHANGED <<pc[m], at[m], offset[m]>>
        BY <1>5, <2>2, Zenon DEF CrashBroker
      <3>. QED  BY <1>1, <3>1, Zenon
    <2>. QED  BY <2>1, <2>2, Zenon
  <1>6. ASSUME \/ ServePeer
               \/ \E b \in Brokers : heartbeat_loop(b)
               \/ \E b, p \in Brokers : handle_heartbeat_request(b, p)
               \/ \E b \in Brokers : RestartBroker(b)
               \/ UNCHANGED vars
        PROVE  UNCHANGED <<pc[m], at[m], offset[m]>>
    BY <1>6, OtherStepsFrame, Zenon
  <1>. QED  BY <1>1, <1>2, <1>3, <1>4, <1>5, <1>6, Zenon DEF Next
\* An entry of the acknowledgement maps that a step leaves alone, or to which
\* it adds a follower that holds the record, still describes real holders.
LEMMA AckEntryStep ==
    ASSUME TypeOK, RequestInv, AckInv, [Next]_vars,
           NEW b \in Brokers, NEW o \in Offsets, NEW P \in SUBSET Brokers,
           \A p \in P : o < Len(log[b]) /\ Holds(p, o, log[b][o + 1]),
           ack_followers'[b][o] = ack_followers[b][o] \cup P
    PROVE  \A f \in ack_followers'[b][o] :
              (o < Len(log[b]) /\ Holds(f, o, log[b][o + 1]))'
  <1>. SUFFICES ASSUME NEW f \in ack_followers[b][o] \cup P
                PROVE  (o < Len(log[b]) /\ Holds(f, o, log[b][o + 1]))'
    BY Zenon
  <1>1. f \in Brokers /\ o \in Nat
    <2>1. ack_followers[b][o] \subseteq Brokers
      BY DEF TypeOK
    <2>2. o \in Nat
      BY ReplicationAssumption DEF Offsets
    <2>. QED  BY <2>1, <2>2
  <1>2. o < Len(log[b]) /\ Holds(f, o, log[b][o + 1])
    BY Zenon DEF AckInv
  <1>3. log[b][o + 1] \in Messages
    BY <1>1, <1>2 DEF TypeOK
  <1>4. o < Len(log'[b]) /\ log'[b][o + 1] = log[b][o + 1]
    BY <1>1, <1>2, LogsOnlyGrow, Zenon
  <1>5. Holds(f, o, log[b][o + 1]) => Len(log'[f]) > o /\ log'[f][o + 1] = log[b][o + 1]
    BY <1>1, <1>3, LogsOnlyGrow, Zenon DEF Holds
  <1>. QED  BY <1>1, <1>2, <1>4, <1>5, Zenon DEF Holds

\* A follower counted for an offset really holds the record there.
LEMMA AckStep ==
    ASSUME TypeOK, RequestInv, AckInv, NetInv, [Next]_vars
    PROVE  AckInv'
  <1>. DEFINE Good(b, o) ==
         /\ \A f \in ack_followers[b][o] :
               o < Len(log[b]) /\ Holds(f, o, log[b][o + 1])
         /\ ack_counts[b][o] <= Cardinality(ack_followers[b][o])
  <1>. SUFFICES ASSUME NEW b \in Brokers, NEW o \in Offsets PROVE Good(b, o)'
    BY Zenon DEF AckInv
  <1>. USE DEF logVars, ackVars, netVars, reqVars
  <1>1. ASSUME ack_followers'[b][o] = ack_followers[b][o],
               ack_counts'[b][o] = ack_counts[b][o]
        PROVE  Good(b, o)'
    <2>. DEFINE P == {}
    <2>1. /\ ack_followers'[b][o] = ack_followers[b][o] \cup P
          /\ P \in SUBSET Brokers
          /\ \A p \in P : o < Len(log[b]) /\ Holds(p, o, log[b][o + 1])
      BY <1>1, Zenon
    <2>2. \A f \in ack_followers'[b][o] :
              (o < Len(log[b]) /\ Holds(f, o, log[b][o + 1]))'
      <3>. HIDE DEF P
      <3>. QED  BY <2>1, AckEntryStep, Zenon
    <2>. QED  BY <1>1, <2>2, Zenon DEF AckInv
  <1>2. ASSUME NEW m \in Messages, NEW p \in Brokers, NEW n \in Nat,
               pc[m] \in Served, Holds(p, offset[m], m),
               ack_followers' = [ack_followers EXCEPT ![at[m]][offset[m]] = @ \cup {p}],
               ack_counts' = [ack_counts EXCEPT ![at[m]][offset[m]] = n],
               n <= Cardinality(ack_followers[at[m]][offset[m]] \cup {p})
        PROVE  Good(b, o)'
    <2>1. at[m] \in Brokers /\ offset[m] \in Offsets /\ Holds(at[m], offset[m], m)
      BY <1>2, ServedInRange, Zenon DEF RequestInv
    <2>2. CASE b = at[m] /\ o = offset[m]
      <3>1. ack_followers'[b][o] = ack_followers[b][o] \cup {p} /\ ack_counts'[b][o] = n
        <4>1. /\ ack_followers' = [ack_followers EXCEPT ![b][o] = @ \cup {p}]
              /\ ack_counts' = [ack_counts EXCEPT ![b][o] = n]
          BY <1>2, <2>2, Zenon
        <4>2. /\ ack_counts[b] \in [Offsets -> Nat]
              /\ ack_followers[b] \in [Offsets -> SUBSET Brokers]
          BY Zenon DEF TypeOK
        <4>. QED  BY <4>1, <4>2, Zenon DEF TypeOK
      <3>2. o < Len(log[b]) /\ Holds(p, o, log[b][o + 1])
        BY <1>2, <2>1, <2>2, Zenon DEF Holds
      <3>3. \A f \in ack_followers'[b][o] :
              (o < Len(log[b]) /\ Holds(f, o, log[b][o + 1]))'
        <4>. DEFINE P == {p}
        <4>1. /\ P \in SUBSET Brokers
              /\ \A q \in P : o < Len(log[b]) /\ Holds(q, o, log[b][o + 1])
              /\ ack_followers'[b][o] = ack_followers[b][o] \cup P
          BY <3>1, <3>2, Zenon
        <4>. HIDE DEF P
        <4>. QED  BY <4>1, AckEntryStep, Zenon
      <3>. QED  BY <1>2, <2>2, <3>1, <3>3, Zenon
    <2>3. CASE b # at[m] \/ o # offset[m]
      <3>1. /\ ack_counts'[b][o] = ack_counts[b][o]
            /\ ack_followers'[b][o] = ack_followers[b][o]
        <4>. DEFINE c == at[m]
                    q == offset[m]
        <4>1. /\ c \in Brokers /\ q \in Offsets
              /\ b # c \/ o # q
              /\ ack_counts' = [ack_counts EXCEPT ![c][q] = n]
              /\ ack_followers' = [ack_followers EXCEPT ![c][q] = @ \cup {p}]
          BY <1>2, <2>1, <2>3, Zenon
        <4>. HIDE DEF c, q
        <4>2. \A d \in Brokers, e \in Offsets : d # c \/ e # q =>
                 /\ ack_counts'[d][e] = ack_counts[d][e]
                 /\ ack_followers'[d][e] = ack_followers[d][e]
          BY <4>1, Zenon DEF TypeOK
        <4>. QED  BY <4>1, <4>2, Zenon
      <3>. QED  BY <1>1, <3>1, Zenon
    <2>. QED  BY <2>2, <2>3, Zenon
  <1>3. ASSUME NEW m \in Messages, replicate_message_begin(m)
        PROVE  Good(b, o)'
    <2>1. CASE UNCHANGED ackVars
      BY <1>1, <2>1, Zenon
    <2>2. CASE ~UNCHANGED ackVars
      <3>1. pc[m] \in Served /\ at[m] \in Brokers /\ offset[m] \in Offsets
               /\ Holds(at[m], offset[m], m)
        BY <1>3, ServedInRange, Zenon DEF replicate_message_begin, Served, RequestInv
      <3>2. /\ ack_followers' = [ack_followers EXCEPT
                                   ![at[m]][offset[m]] = @ \cup {at[m]}]
            /\ ack_counts' = [ack_counts EXCEPT ![at[m]][offset[m]] = 1]
        BY <1>3, <2>2, Zenon DEF replicate_message_begin
      <3>. DEFINE F == ack_followers[at[m]][offset[m]] \cup {at[m]}
      <3>3. F \subseteq Brokers /\ F # {}
        BY <3>1 DEF TypeOK
      <3>4. IsFiniteSet(F) /\ Cardinality(F) \in Nat
        BY <3>3, BrokersAssumption, FS_Subset, FS_CardinalityType, Zenon
      <3>5. Cardinality(F) # 0
        BY <3>3, <3>4, FS_EmptySet, Zenon
      <3>6. 1 <= Cardinality(F)
        BY <3>4, <3>5
      <3>. QED  BY <1>2, <3>1, <3>2, <3>6, Zenon
    <2>. QED  BY <2>1, <2>2, Zenon
  <1>4. ASSUME NEW m \in Messages, replicate_to_peer_acked(m)
        PROVE  Good(b, o)'
    <2>1. CASE UNCHANGED ackVars
      BY <1>1, <2>1, Zenon
    <2>2. CASE ~UNCHANGED ackVars
      <3>. DEFINE p == Target(m)
                  F == ack_followers[at[m]][offset[m]]
                  n == ack_counts[at[m]][offset[m]] + 1
      <3>1. /\ pc[m] \in Served /\ at[m] \in Brokers /\ offset[m] \in Offsets
            /\ p \in Brokers /\ Holds(p, offset[m], m)
        BY <1>4, ServedInRange, Zenon DEF replicate_to_peer_acked, Served, NetInv
      <3>2. /\ p \notin F
            /\ ack_followers' = [ack_followers EXCEPT
                                   ![at[m]][offset[m]] = @ \cup {p}]
            /\ ack_counts' = [ack_counts EXCEPT ![at[m]][offset[m]] = @ + 1]
        BY <1>4, <2>2, Zenon DEF replicate_to_peer_acked, handle_ack
      <3>3. ack_counts' = [ack_counts EXCEPT ![at[m]][offset[m]] = n] /\ n \in Nat
        BY <3>1, <3>2 DEF TypeOK
      <3>4. IsFiniteSet(F) /\ Cardinality(F) \in Nat
        <4>1. F \subseteq Brokers
          BY <3>1 DEF TypeOK
        <4>. QED  BY <4>1, BrokersAssumption, FS_Subset, FS_CardinalityType, Zenon
      <3>5. Cardinality(F \cup {p}) = Cardinality(F) + 1
        BY <3>2, <3>4, FS_AddElement, Zenon
      <3>6. n <= Cardinality(F \cup {p})
        BY <3>1, <3>4, <3>5 DEF AckInv, TypeOK
      <3>. HIDE DEF n
      <3>. QED  BY <1>2, <3>1, <3>2, <3>3, <3>6, Zenon
    <2>. QED  BY <2>1, <2>2, Zenon
  <1>5. ASSUME NEW c \in Brokers, CrashBroker(c)
        PROVE  Good(b, o)'
    <2>1. CASE b = c
      <3>1. ack_followers'[b][o] = {} /\ ack_counts'[b][o] = 0
        BY <1>5, <2>1, Zenon DEF CrashBroker, TypeOK
      <3>. QED  BY <3>1, FS_EmptySet
    <2>2. CASE b # c
      <3>1. ack_followers'[b] = ack_followers[b] /\ ack_counts'[b] = ack_counts[b]
        BY <1>5, <2>2, Zenon DEF CrashBroker, TypeOK
      <3>. QED  BY <1>1, <3>1, Zenon
    <2>. QED  BY <2>1, <2>2, Zenon
  <1>6. ASSUME NEW m \in Messages, ServeProduce(m),
               ~replicate_message_begin(m), ~replicate_to_peer_acked(m)
        PROVE  UNCHANGED ackVars
    BY <1>6, ServeProduceFrame, Zenon
  <1>7. ASSUME \/ ServePeer
               \/ \E m \in Messages, c \in Brokers : handle_produce_admit(m, c)
               \/ \E c \in Brokers : heartbeat_loop(c)
               \/ \E c, p \in Brokers : handle_heartbeat_request(c, p)
               \/ \E c \in Brokers : RestartBroker(c)
               \/ UNCHANGED vars
        PROVE  UNCHANGED ackVars
    BY <1>7, OtherStepsFrame, Zenon DEF handle_produce_admit
  <1>8. CASE UNCHANGED ackVars
    BY <1>1, <1>8, Zenon
  <1>. HIDE DEF Good
  <1>. QED  BY <1>3, <1>4, <1>5, <1>6, <1>7, <1>8, Zenon DEF Next
\* Once a request is past its append and the start of replicate_message, its
\* offset is fixed and its thread does not go back.
LEMMA PastAppend ==
    ASSUME TypeOK, [Next]_vars, NEW m \in Messages,
           pc[m] \notin {"idle", "admitted", "appended"}
    PROVE  /\ offset'[m] = offset[m]
           /\ pc'[m] \notin {"idle", "admitted", "appended"}
  <1>. USE DEF logVars, ackVars, netVars, reqVars, Goto
  <1>1. ASSUME NEW n \in Messages, ServeProduce(n)
        PROVE  /\ offset'[m] = offset[m]
               /\ pc'[m] \notin {"idle", "admitted", "appended"}
    <2>1. CASE m = n
      <3>1. ~handle_produce_append(n)
        BY <2>1, Zenon DEF handle_produce_append
      <3>2. /\ offset' = offset
            /\ pc' = pc \/ \E point \in Points \ {"idle", "admitted", "appended"} :
                              pc' = [pc EXCEPT ![m] = point]
        BY <1>1, <2>1, <3>1, ServeProduceFrame, Zenon
      <3>. QED  BY <3>2, Zenon DEF TypeOK
    <2>2. CASE m # n
      <3>1. /\ offset' = offset \/ \E x : offset' = [offset EXCEPT ![n] = x]
            /\ pc' = pc \/ \E point : pc' = [pc EXCEPT ![n] = point]
        BY <1>1, ServeProduceFrame, Zenon
      <3>. QED  BY <2>2, <3>1, Zenon DEF TypeOK
    <2>. QED  BY <2>1, <2>2, Zenon
  <1>2. ASSUME NEW n \in Messages, NEW b \in Brokers, handle_produce_admit(n, b)
        PROVE  /\ offset'[m] = offset[m]
               /\ pc'[m] \notin {"idle", "admitted", "appended"}
    BY <1>2, Zenon DEF handle_produce_admit, TypeOK
  <1>3. ASSUME NEW b \in Brokers, CrashBroker(b)
        PROVE  /\ offset'[m] = offset[m]
               /\ pc'[m] \notin {"idle", "admitted", "appended"}
    BY <1>3, Zenon DEF CrashBroker
  <1>4. ASSUME \/ ServePeer
               \/ \E b \in Brokers : heartbeat_loop(b)
               \/ \E b, p \in Brokers : handle_heartbeat_request(b, p)
               \/ \E b \in Brokers : RestartBroker(b)
               \/ UNCHANGED vars
        PROVE  UNCHANGED <<pc, offset>>
    BY <1>4, OtherStepsFrame, Zenon
  <1>. QED  BY <1>1, <1>2, <1>3, <1>4, Zenon DEF Next

\* A REPLICATE request in flight after a step was in flight before it, perhaps
\* with its leader check still to come, or has just been sent.
LEMMA ReplicatesStep ==
    ASSUME TypeOK, [Next]_vars, NEW r \in replicates'
    PROVE  \/ \E q \in replicates : /\ r.message = q.message
                                    /\ r.fetch_offset = q.fetch_offset
           \/ \E m \in Messages : /\ replicate_to_peer_send(m)
                                  /\ r.message = m
                                  /\ r.fetch_offset = offset[m]
  <1>. USE DEF logVars, ackVars, netVars, reqVars
  <1>1. CASE r \in replicates
    BY <1>1, Zenon
  <1>2. ASSUME NEW m \in Messages, replicate_to_peer_send(m), r \notin replicates
        PROVE  r.message = m /\ r.fetch_offset = offset[m]
    <2>. DEFINE sent == [dst |-> Target(m), message |-> m, fetch_offset |-> offset[m],
                         checked |-> FALSE]
    <2>1. r = sent
      BY <1>2, Zenon DEF replicate_to_peer_send
    <2>. QED  BY <2>1, Zenon
  <1>3. ASSUME NEW q \in replicates, handle_replication_check(q), r \notin replicates
        PROVE  r.message = q.message /\ r.fetch_offset = q.fetch_offset
    <2>1. r = [q EXCEPT !.checked = TRUE]
      BY <1>3, Zenon DEF handle_replication_check
    <2>2. q \in [dst : Brokers, message : Messages, fetch_offset : Nat,
                 checked : BOOLEAN]
      BY Zenon DEF TypeOK
    <2>. QED  BY <2>1, <2>2, Zenon
  <1>4. ASSUME NEW m \in Messages, ServeProduce(m), ~replicate_to_peer_send(m)
        PROVE  replicates' = replicates
    BY <1>4, ServeProduceFrame, Zenon
  <1>5. ASSUME ServePeer, ~\E q \in replicates : handle_replication_check(q)
        PROVE  replicates' \subseteq replicates
    BY <1>5, Zenon DEF ServePeer, handle_replication_append, handle_commit_request
  <1>6. ASSUME \/ \E m \in Messages, b \in Brokers : handle_produce_admit(m, b)
               \/ \E b \in Brokers : heartbeat_loop(b)
               \/ \E b, p \in Brokers : handle_heartbeat_request(b, p)
               \/ \E b \in Brokers : CrashBroker(b)
               \/ \E b \in Brokers : RestartBroker(b)
               \/ UNCHANGED vars
        PROVE  replicates' \subseteq replicates
    BY <1>6, Zenon DEF handle_produce_admit, heartbeat_loop, handle_heartbeat_request,
       CrashBroker, RestartBroker, vars, replVars
  <1>. QED  BY <1>1, <1>2, <1>3, <1>4, <1>5, <1>6, Zenon DEF Next

\* An ACK on its way back is about a record its sender holds.
LEMMA ReplyStep ==
    ASSUME TypeOK, RequestInv, NetInv, [Next]_vars, NEW m \in Messages,
           reply'[m] = "ack"
    PROVE  (pc[m] = "waiting" /\ Target(m) \in Brokers /\ Holds(Target(m), offset[m], m))'
  <1>. DEFINE Good == pc[m] = "waiting" /\ Target(m) \in Brokers
                        /\ Holds(Target(m), offset[m], m)
  <1>. SUFFICES Good'
    BY Zenon
  <1>. USE DEF logVars, ackVars, netVars, reqVars, Goto
  <1>1. ASSUME UNCHANGED <<pc[m], todo[m], offset[m], reply[m]>>
        PROVE  Good'
    <2>1. Good /\ offset[m] \in Nat
      BY <1>1, Zenon DEF NetInv, TypeOK
    <2>2. Target(m)' = Target(m)
      BY <1>1, Zenon DEF Target
    <2>. QED  BY <1>1, <2>1, <2>2, LogsOnlyGrow, Zenon DEF Holds
  <1>2. ASSUME NEW n \in Messages, ServeProduce(n)
        PROVE  Good'
    <2>1. CASE m = n
      <3>1. reply[m] = "ack" => pc[m] = "waiting"
        BY Zenon DEF NetInv
      <3>2. CASE reply' = [reply EXCEPT ![m] = "none"]
        BY <3>2, Zenon DEF TypeOK
      <3>3. CASE reply' = reply /\ pc[m] # "waiting"
        BY <3>1, <3>3, Zenon
      <3>. QED  BY <1>2, <2>1, <3>2, <3>3, ServeProduceFrame, Zenon
    <2>2. CASE m # n
      <3>1. /\ offset' = offset \/ \E x : offset' = [offset EXCEPT ![n] = x]
            /\ pc' = pc \/ \E x : pc' = [pc EXCEPT ![n] = x]
            /\ todo' = todo \/ \E x : todo' = [todo EXCEPT ![n] = x]
            /\ reply' = reply \/ \E x : reply' = [reply EXCEPT ![n] = x]
        BY <1>2, ServeProduceFrame, Zenon
      <3>2. UNCHANGED <<pc[m], todo[m], offset[m], reply[m]>>
        BY <2>2, <3>1, Zenon DEF TypeOK
      <3>. QED  BY <1>1, <3>2, Zenon
    <2>. QED  BY <2>1, <2>2, Zenon
  <1>3. ASSUME NEW r \in replicates, handle_replication_append(r)
        PROVE  Good'
    <2>. DEFINE a == IF Len(log[r.dst]) = r.fetch_offset THEN "ack" ELSE "refused"
    <2>1. /\ r.dst \in Brokers /\ r.message \in Messages
          /\ append(r.dst, r.message) /\ Answer(r, a)
          /\ UNCHANGED <<pc, todo, offset>>
      BY <1>3, Zenon DEF handle_replication_append, TypeOK
    <2>2. CASE Awaited(r) /\ r.message = m
      <3>1. reply'[m] = a
        BY <2>1, <2>2, Zenon DEF Answer, TypeOK
      <3>2. Len(log[r.dst]) = offset[m] /\ r.dst = Target(m) /\ pc[m] = "waiting"
        BY <2>2, <3>1, Zenon DEF NetInv, Awaited
      <3>3. /\ Len(log'[r.dst]) = Len(log[r.dst]) + 1
            /\ log'[r.dst][Len(log[r.dst]) + 1] = m
            /\ Len(log[r.dst]) \in Nat
        <4>1. Len(log[r.dst]) \in Nat
          BY <2>1 DEF TypeOK
        <4>2. append(r.dst, m)
          BY <2>1, <2>2, Zenon
        <4>. QED  BY <2>1, <4>1, <4>2, AppendedLog, Zenon
      <3>4. Target(m)' = r.dst /\ pc'[m] = "waiting" /\ offset'[m] = Len(log[r.dst])
        BY <2>1, <3>2, Zenon DEF Target
      <3>. QED  BY <2>1, <3>3, <3>4 DEF Holds
    <2>3. CASE ~Awaited(r) \/ r.message # m
      <3>1. reply'[m] = reply[m]
        BY <2>1, <2>3, Zenon DEF Answer, TypeOK
      <3>. QED  BY <1>1, <2>1, <3>1, Zenon
    <2>. QED  BY <2>2, <2>3, Zenon
  <1>4. ASSUME NEW r \in replicates, handle_replication_check(r)
        PROVE  Good'
    <2>1. UNCHANGED <<pc, todo, offset>> /\ (reply' = reply \/ Answer(r, "refused"))
      BY <1>4, Zenon DEF handle_replication_check
    <2>2. reply'[m] = reply[m]
      BY <2>1, Zenon DEF Answer, TypeOK
    <2>. QED  BY <1>1, <2>1, <2>2, Zenon
  <1>5. ASSUME NEW b \in Brokers, CrashBroker(b)
        PROVE  Good'
    <2>1. reply'[m] = reply[m] /\ at[m] # b
      BY <1>5, Zenon DEF CrashBroker
    <2>2. UNCHANGED <<pc[m], todo[m], offset[m], reply[m]>>
      BY <1>5, <2>1, Zenon DEF CrashBroker
    <2>. QED  BY <1>1, <2>2, Zenon
  <1>6. ASSUME NEW n \in Messages, NEW b \in Brokers, handle_produce_admit(n, b)
        PROVE  Good'
    <2>1. reply[m] = "ack" /\ pc[m] = "waiting"
      BY <1>6, Zenon DEF handle_produce_admit, NetInv
    <2>2. UNCHANGED <<pc[m], todo[m], offset[m], reply[m]>>
      BY <1>6, <2>1, Zenon DEF handle_produce_admit, TypeOK
    <2>. QED  BY <1>1, <2>2, Zenon
  <1>7. ASSUME \/ \E c \in commits : handle_commit_request(c)
               \/ \E b \in Brokers : heartbeat_loop(b)
               \/ \E b, p \in Brokers : handle_heartbeat_request(b, p)
               \/ \E b \in Brokers : RestartBroker(b)
               \/ UNCHANGED vars
        PROVE  UNCHANGED <<pc, todo, offset, reply>>
    BY <1>7, Zenon DEF handle_commit_request, heartbeat_loop, handle_heartbeat_request,
       RestartBroker, vars, replVars
  <1>. HIDE DEF Good
  <1>. QED  BY <1>1, <1>2, <1>3, <1>4, <1>5, <1>6, <1>7, Zenon DEF Next, ServePeer

\* The requests and answers in flight stay consistent with the threads that
\* wait for them.
LEMMA NetStep ==
    ASSUME TypeOK, RequestInv, NetInv, [Next]_vars
    PROVE  NetInv'
  <1>1. ASSUME NEW r \in replicates'
        PROVE  /\ r.fetch_offset = offset'[r.message]
               /\ pc'[r.message] \notin {"idle", "admitted", "appended"}
    <2>1. ASSUME NEW q \in replicates, r.message = q.message,
                 r.fetch_offset = q.fetch_offset
          PROVE  /\ r.fetch_offset = offset'[r.message]
                 /\ pc'[r.message] \notin {"idle", "admitted", "appended"}
      <3>1. /\ q.message \in Messages /\ q.fetch_offset = offset[q.message]
            /\ pc[q.message] \notin {"idle", "admitted", "appended"}
        BY Zenon DEF TypeOK, NetInv
      <3>. QED  BY <2>1, <3>1, PastAppend, Zenon
    <2>2. ASSUME NEW m \in Messages, replicate_to_peer_send(m), r.message = m,
                 r.fetch_offset = offset[m]
          PROVE  /\ r.fetch_offset = offset'[r.message]
                 /\ pc'[r.message] \notin {"idle", "admitted", "appended"}
      <3>1. pc[m] \notin {"idle", "admitted", "appended"}
        BY <2>2, Zenon DEF replicate_to_peer_send
      <3>. QED  BY <2>2, <3>1, PastAppend, Zenon
    <2>. QED  BY <2>1, <2>2, ReplicatesStep, Zenon
  <1>. QED  BY <1>1, ReplyStep, Zenon DEF NetInv

\* A quorum of counted acknowledgements is a majority of holders.
LEMMA QuorumMeansMajority ==
    ASSUME TypeOK, RequestInv, AckInv, NEW m \in Messages, pc[m] \in Served,
           quorum_reached(at[m], offset[m])
    PROVE  Majority(offset[m], m)
  <1>. DEFINE F == ack_followers[at[m]][offset[m]]
              n == ack_counts[at[m]][offset[m]]
              H == Holders(offset[m], m)
  <1>1. at[m] \in Brokers /\ offset[m] \in Offsets /\ Holds(at[m], offset[m], m)
    BY ServedInRange, Zenon DEF RequestInv
  <1>2. F \subseteq H /\ H \subseteq Brokers /\ F \subseteq Brokers
    BY <1>1 DEF AckInv, Holds, Holders, TypeOK
  <1>3. n <= Cardinality(F) /\ n >= Quorum /\ n \in Nat
    BY <1>1, Zenon DEF AckInv, quorum_reached, TypeOK
  <1>4. Cardinality(F) \in Nat /\ Quorum \in Int
    BY <1>2, BrokersAssumption, FS_Subset, FS_CardinalityType DEF Quorum
  <1>5. Cardinality(F) >= Quorum
    BY <1>3, <1>4
  <1>6. Cardinality(H) >= Quorum
    BY <1>2, <1>5, LargerMajority, Zenon
  <1>. QED  BY <1>6, Zenon DEF Majority

\* Only handle_produce_commit takes a request past the quorum.
LEMMA CommittedStep ==
    ASSUME TypeOK, [Next]_vars, NEW m \in Messages,
           pc'[m] \in {"committed", "broadcasting", "ok"},
           pc[m] \notin {"committed", "broadcasting", "ok"}
    PROVE  handle_produce_commit(m) /\ quorum_reached(at[m], offset[m])
  <1>. USE DEF logVars, ackVars, netVars, reqVars, Goto
  <1>1. ASSUME NEW n \in Messages, ServeProduce(n)
        PROVE  handle_produce_commit(m) /\ quorum_reached(at[m], offset[m])
    <2>1. m = n
      <3>1. pc' = pc \/ \E x : pc' = [pc EXCEPT ![n] = x]
        BY <1>1, ServeProduceFrame, Zenon
      <3>. QED  BY <3>1, Zenon DEF TypeOK
    <2>2. CASE handle_produce_commit(m)
      BY <2>2, Zenon DEF handle_produce_commit, TypeOK
    <2>3. CASE ~handle_produce_commit(m)
      BY <1>1, <2>1, <2>3, ServeProduceFrame, Zenon DEF TypeOK
    <2>. QED  BY <2>2, <2>3, Zenon
  <1>2. ASSUME NEW n \in Messages, NEW b \in Brokers, handle_produce_admit(n, b)
        PROVE  FALSE
    BY <1>2, Zenon DEF handle_produce_admit, TypeOK
  <1>3. ASSUME NEW b \in Brokers, CrashBroker(b)
        PROVE  FALSE
    BY <1>3, Zenon DEF CrashBroker
  <1>4. ASSUME \/ ServePeer
               \/ \E b \in Brokers : heartbeat_loop(b)
               \/ \E b, p \in Brokers : handle_heartbeat_request(b, p)
               \/ \E b \in Brokers : RestartBroker(b)
               \/ UNCHANGED vars
        PROVE  UNCHANGED pc
    BY <1>4, OtherStepsFrame, Zenon
  <1>. QED  BY <1>1, <1>2, <1>3, <1>4, Zenon DEF Next

\* A commit index changes only with a quorum, with a COMMIT or with a crash.
LEMMA CommitIndexStep ==
    ASSUME TypeOK, RequestInv, QuorumInv, [Next]_vars, NEW b \in Brokers,
           commit_index'[b] # commit_index[b]
    PROVE  \/ \E m \in Messages :
                 /\ handle_produce_commit(m) /\ quorum_reached(at[m], offset[m])
                 /\ at[m] = b /\ commit_index'[b] = offset[m]
                 /\ commit_index'[b] >= commit_index[b]
           \/ \E c \in commits :
                 /\ commit_index'[b] = c.fetch_offset
                 /\ commit_index'[b] >= commit_index[b]
           \/ CrashBroker(b) /\ commit_index'[b] = -1
  <1>. USE DEF logVars, ackVars, netVars, reqVars
  <1>1. ASSUME NEW m \in Messages, ServeProduce(m)
        PROVE  /\ handle_produce_commit(m) /\ quorum_reached(at[m], offset[m])
               /\ at[m] = b /\ commit_index'[b] = offset[m]
               /\ commit_index'[b] >= commit_index[b]
    <2>1. handle_produce_commit(m)
      BY <1>1, ServeProduceFrame, Zenon
    <2>2. quorum_reached(at[m], offset[m]) /\ mark_committed(at[m], offset[m])
      BY <2>1, Zenon DEF handle_produce_commit
    <2>3. at[m] \in Brokers /\ offset[m] \in Offsets
      BY <2>1, ServedInRange, Zenon DEF handle_produce_commit, Served
    <2>. QED  BY <2>1, <2>2, <2>3, CommitIndexType, Zenon
  <1>2. ASSUME NEW c \in commits, handle_commit_request(c)
        PROVE  /\ commit_index'[b] = c.fetch_offset
               /\ commit_index'[b] >= commit_index[b]
    <2>1. c.dst \in Brokers /\ c.fetch_offset \in Offsets
      BY Zenon DEF TypeOK
    <2>2. mark_committed(c.dst, c.fetch_offset)
      BY <1>2, Zenon DEF handle_commit_request
    <2>. QED  BY <2>1, <2>2, CommitIndexType, Zenon
  <1>3. ASSUME NEW c \in Brokers, CrashBroker(c)
        PROVE  CrashBroker(b) /\ commit_index'[b] = -1
    <2>1. commit_index' = [commit_index EXCEPT ![c] = -1]
      BY <1>3, Zenon DEF CrashBroker
    <2>2. c = b /\ commit_index'[b] = -1
      BY <2>1, Zenon DEF TypeOK
    <2>. QED  BY <1>3, <2>2, Zenon
  <1>4. ASSUME \/ \E m \in Messages, c \in Brokers : handle_produce_admit(m, c)
               \/ \E r \in replicates : handle_replication_check(r)
               \/ \E r \in replicates : handle_replication_append(r)
               \/ \E c \in Brokers : heartbeat_loop(c)
               \/ \E c, p \in Brokers : handle_heartbeat_request(c, p)
               \/ \E c \in Brokers : RestartBroker(c)
               \/ UNCHANGED vars
        PROVE  FALSE
    BY <1>4, Zenon DEF handle_produce_admit, handle_replication_check,
       handle_replication_append, heartbeat_loop, handle_heartbeat_request,
       RestartBroker, vars, replVars
  <1>. QED  BY <1>1, <1>2, <1>3, <1>4, Zenon DEF Next, ServePeer
\* A COMMIT in flight after a step was in flight before it or has just been
\* sent by a thread in broadcast_commit.
LEMMA CommitsStep ==
    ASSUME TypeOK, [Next]_vars, NEW c \in commits', c \notin commits
    PROVE  \E m \in Messages : pc[m] = "broadcasting" /\ c.fetch_offset = offset[m]
  <1>. USE DEF logVars, ackVars, netVars, reqVars
  <1>1. ASSUME NEW m \in Messages, ServeProduce(m)
        PROVE  pc[m] = "broadcasting" /\ c.fetch_offset = offset[m]
    <2>1. broadcast_commit_send(m)
      BY <1>1, ServeProduceFrame, Zenon
    <2>. DEFINE sent == [dst |-> Target(m), fetch_offset |-> offset[m]]
    <2>2. pc[m] = "broadcasting" /\ c = sent
      BY <2>1, Zenon DEF broadcast_commit_send
    <2>. QED  BY <2>2, Zenon
  <1>2. ASSUME \/ \E m \in Messages, b \in Brokers : handle_produce_admit(m, b)
               \/ ServePeer
               \/ \E b \in Brokers : heartbeat_loop(b)
               \/ \E b, p \in Brokers : handle_heartbeat_request(b, p)
               \/ \E b \in Brokers : CrashBroker(b)
               \/ \E b \in Brokers : RestartBroker(b)
               \/ UNCHANGED vars
        PROVE  FALSE
    BY <1>2, Zenon DEF handle_produce_admit, ServePeer, handle_replication_check,
       handle_replication_append, handle_commit_request, heartbeat_loop,
       handle_heartbeat_request, CrashBroker, RestartBroker, vars, replVars
  <1>. QED  BY <1>1, <1>2, Zenon DEF Next

\* Past the quorum a majority holds the record, and keeps holding it.
LEMMA QuorumStep ==
    ASSUME TypeOK, RequestInv, AckInv, QuorumInv, [Next]_vars, TypeOK'
    PROVE  QuorumInv'
  <1>. USE ReplicationAssumption
  <1>1. ASSUME NEW m \in Messages, pc'[m] \in {"committed", "broadcasting", "ok"}
        PROVE  Majority(offset[m], m)'
    <2>1. CASE pc[m] \in {"committed", "broadcasting", "ok"}
      <3>1. Majority(offset[m], m) /\ offset[m] \in Nat
        BY <2>1, Zenon DEF QuorumInv, TypeOK
      <3>2. offset'[m] = offset[m]
        BY <2>1, PastAppend, Zenon
      <3>3. \A o \in Nat : Majority(o, m) => Majority(o, m)'
        BY LogsOnlyGrow, Zenon
      <3>. QED  BY <3>1, <3>2, <3>3, Zenon DEF Majority, Holders, Holds
    <2>2. CASE pc[m] \notin {"committed", "broadcasting", "ok"}
      <3>1. handle_produce_commit(m) /\ quorum_reached(at[m], offset[m])
        BY <1>1, <2>2, CommittedStep, Zenon
      <3>2. Majority(offset[m], m) /\ UNCHANGED <<log, offset>>
        BY <3>1, QuorumMeansMajority, Zenon DEF handle_produce_commit, Served, logVars
      <3>. QED  BY <3>2, Zenon DEF Majority, Holders, Holds
    <2>. QED  BY <2>1, <2>2, Zenon
  <1>2. ASSUME NEW o \in Nat, NEW m \in Messages, Majority(o, m)
        PROVE  \E n \in Messages : Majority(o, n)'
    BY <1>2, LogsOnlyGrow, Zenon
  <1>3. ASSUME NEW c \in commits'
        PROVE  \E n \in Messages : Majority(c.fetch_offset, n)'
    <2>1. CASE c \in commits
      <3>1. c.fetch_offset \in Nat
        BY <2>1 DEF TypeOK, Offsets
      <3>. QED  BY <1>2, <2>1, <3>1, Zenon DEF QuorumInv
    <2>2. CASE c \notin commits
      <3>1. PICK m \in Messages : pc[m] = "broadcasting" /\ c.fetch_offset = offset[m]
        BY <2>2, CommitsStep, Zenon
      <3>2. Majority(c.fetch_offset, m) /\ c.fetch_offset \in Nat
        BY <3>1, Zenon DEF QuorumInv, TypeOK
      <3>. QED  BY <1>2, <3>2, Zenon
    <2>. QED  BY <2>1, <2>2, Zenon
  <1>4. ASSUME NEW b \in Brokers, NEW i \in Nat, commit_index'[b] = i
        PROVE  \E n \in Messages : Majority(i, n)'
    <2>1. CASE commit_index[b] = i
      <3>1. \E m \in Messages : Majority(i, m)
        BY <2>1 DEF QuorumInv, CommitIndexJustified, Majority
      <3>. QED  BY <1>2, <3>1, Zenon
    <2>2. ASSUME NEW m \in Messages, handle_produce_commit(m),
                 quorum_reached(at[m], offset[m]), offset[m] = i
          PROVE  \E n \in Messages : Majority(i, n)'
      <3>1. Majority(offset[m], m)
        BY <2>2, QuorumMeansMajority, Zenon DEF handle_produce_commit, Served
      <3>. QED  BY <1>2, <2>2, <3>1, Zenon
    <2>3. ASSUME NEW c \in commits, c.fetch_offset = i
          PROVE  \E n \in Messages : Majority(i, n)'
      <3>1. \E m \in Messages : Majority(i, m)
        BY <2>3, Zenon DEF QuorumInv
      <3>. QED  BY <1>2, <3>1, Zenon
    <2>4. \/ commit_index[b] = i
          \/ \E m \in Messages :
                /\ handle_produce_commit(m) /\ quorum_reached(at[m], offset[m])
                /\ offset[m] = i
          \/ \E c \in commits : c.fetch_offset = i
      <3>1. CASE commit_index'[b] # commit_index[b]
        <4>1. i # -1
          OBVIOUS
        <4>. QED  BY <1>4, <3>1, <4>1, CommitIndexStep, Zenon
      <3>. QED  BY <1>4, <3>1, Zenon
    <2>. QED  BY <2>1, <2>2, <2>3, <2>4, Zenon
  <1>5. CommitIndexJustified'
    <2>. SUFFICES ASSUME NEW b \in Brokers, commit_index'[b] >= 0
                  PROVE  \E n \in Messages :
                            (Cardinality(Holders(commit_index[b], n)) >= Quorum)'
      BY Zenon DEF CommitIndexJustified
    <2>1. commit_index'[b] \in Nat
      BY DEF TypeOK, Offsets
    <2>2. PICK i \in Nat : i = commit_index'[b]
      BY <2>1, Zenon
    <2>3. PICK n \in Messages : Majority(i, n)'
      BY <1>4, <2>2, Zenon
    <2>4. (Cardinality(Holders(commit_index[b], n)) >= Quorum)'
      BY <2>2, <2>3, Zenon DEF Majority, Holders, Holds, Quorum
    <2>. QED  BY <2>4, Zenon
  <1>. QED  BY <1>1, <1>3, <1>5, Zenon DEF QuorumInv

\* What a step other than a crash does to the place of a request.
LEMMA ThreadStep ==
    ASSUME TypeOK, [Next]_vars, NEW m \in Messages,
           ~\E b \in Brokers : CrashBroker(b)
    PROVE  \/ handle_produce_append(m)
           \/ pc'[m] = "admitted"
           \/ /\ at'[m] = at[m]
              /\ pc'[m] \in Served => pc[m] \in Served
  <1>. USE DEF logVars, ackVars, netVars, reqVars, Goto, Served
  <1>1. ASSUME NEW n \in Messages, NEW b \in Brokers, handle_produce_admit(n, b)
        PROVE  pc'[m] = "admitted" \/ (at'[m] = at[m] /\ pc'[m] = pc[m])
    BY <1>1, Zenon DEF handle_produce_admit, TypeOK
  <1>2. ASSUME NEW n \in Messages, ServeProduce(n), ~handle_produce_append(m)
        PROVE  at'[m] = at[m] /\ (pc'[m] \in Served => pc[m] \in Served)
    <2>1. CASE m = n
      <3>1. at' = at /\ pc[m] \in Served
        BY <1>2, <2>1, ServeProduceFrame, Zenon
      <3>. QED  BY <3>1, Zenon
    <2>2. CASE m # n
      <3>1. at' = at /\ (pc' = pc \/ \E x : pc' = [pc EXCEPT ![n] = x])
        BY <1>2, ServeProduceFrame, Zenon
      <3>. QED  BY <2>2, <3>1, Zenon DEF TypeOK
    <2>. QED  BY <2>1, <2>2, Zenon
  <1>3. ASSUME \/ ServePeer
               \/ \E b \in Brokers : heartbeat_loop(b)
               \/ \E b, p \in Brokers : handle_heartbeat_request(b, p)
               \/ \E b \in Brokers : RestartBroker(b)
               \/ UNCHANGED vars
        PROVE  UNCHANGED <<pc, at>>
    BY <1>3, OtherStepsFrame, Zenon
  <1>. QED  BY <1>1, <1>2, <1>3, Zenon DEF Next

\* An open log stays open until its broker crashes.
LEMMA OpenStaysOpen ==
    ASSUME TypeOK, RequestInv, [Next]_vars, ~\E b \in Brokers : CrashBroker(b),
           NEW b \in Brokers, log_open[b]
    PROVE  log_open'[b]
  <1>. USE DEF logVars
  <1>1. ASSUME NEW c \in Brokers, NEW m \in Messages, append(c, m)
        PROVE  log_open'[b]
    <2>1. log_open' = [log_open EXCEPT ![c] = TRUE]
      BY <1>1, Zenon DEF append
    <2>. QED  BY <2>1, Zenon DEF TypeOK
  <1>2. ASSUME NEW m \in Messages, ServeProduce(m)
        PROVE  log_open' = log_open \/ \E c \in Brokers : append(c, m)
    BY <1>2, ServeProduceFrame, Zenon DEF handle_produce_append, RequestInv
  <1>3. ASSUME NEW r \in replicates, handle_replication_append(r)
        PROVE  \E c \in Brokers, m \in Messages : append(c, m)
    BY <1>3, Zenon DEF handle_replication_append, TypeOK
  <1>4. ASSUME \/ \E m \in Messages, c \in Brokers : handle_produce_admit(m, c)
               \/ \E r \in replicates : handle_replication_check(r)
               \/ \E c \in commits : handle_commit_request(c)
               \/ \E c \in Brokers : heartbeat_loop(c)
               \/ \E c, p \in Brokers : handle_heartbeat_request(c, p)
               \/ \E c \in Brokers : RestartBroker(c)
               \/ UNCHANGED vars
        PROVE  log_open' = log_open
    BY <1>4, Zenon DEF handle_produce_admit, handle_replication_check,
       handle_commit_request, heartbeat_loop, handle_heartbeat_request,
       RestartBroker, vars, replVars
  <1>. QED  BY <1>1, <1>2, <1>3, <1>4, Zenon DEF Next, ServePeer

\* A committed record stays readable at the broker that committed it.
LEMMA ReadStep ==
    ASSUME TypeOK, RequestInv, AckInv, QuorumInv, ReadInv, [Next]_vars,
           TypeOK', RequestInv'
    PROVE  ReadInv'
  <1>. DEFINE C == {"committed", "broadcasting", "ok"}
              R1(m) == pc[m] \in Served => log_open[at[m]]
              R2(m) == at[m] # 0 /\ pc[m] \in C =>
                          /\ at[m] \in Brokers
                          /\ offset[m] <= commit_index[at[m]]
                          /\ log_open[at[m]]
                          /\ Holds(at[m], offset[m], m)
  <1>. SUFFICES ASSUME NEW m \in Messages PROVE R1(m)' /\ R2(m)'
    BY Zenon DEF ReadInv
  <1>0. R1(m) /\ R2(m)
    BY Zenon DEF ReadInv
  <1>1. ASSUME NEW b \in Brokers, CrashBroker(b)
        PROVE  R1(m)' /\ R2(m)'
    <2>1. CASE at[m] = b
      <3>1. at'[m] = 0 /\ pc'[m] \notin Served
        BY <1>1, <2>1, Zenon DEF CrashBroker, Final, Failures, Served
      <3>. QED  BY <3>1, Zenon
    <2>2. CASE at[m] # b
      <3>1. /\ UNCHANGED <<pc[m], at[m], offset[m], log>>
            /\ log_open' = [log_open EXCEPT ![b] = FALSE]
            /\ commit_index' = [commit_index EXCEPT ![b] = -1]
        BY <1>1, <2>2, Zenon DEF CrashBroker
      <3>2. at[m] \in Brokers =>
               log_open'[at[m]] = log_open[at[m]]
               /\ commit_index'[at[m]] = commit_index[at[m]]
        BY <2>2, <3>1, Zenon DEF TypeOK
      <3>3. pc[m] \in Served => at[m] \in Brokers
        BY Zenon DEF RequestInv
      <3>4. R1(m)'
        BY <1>0, <3>1, <3>2, <3>3, Zenon
      <3>5. R2(m)'
        BY <1>0, <3>1, <3>2, Zenon DEF Holds
      <3>. QED  BY <3>4, <3>5, Zenon
    <2>. QED  BY <2>1, <2>2, Zenon
  <1>2. ASSUME ~\E b \in Brokers : CrashBroker(b), handle_produce_append(m)
        PROVE  R1(m)' /\ R2(m)'
    <2>1. /\ pc'[m] = "appended" /\ at' = at
          /\ log_open' = [log_open EXCEPT ![at[m]] = TRUE]
          /\ at[m] \in Brokers
      BY <1>2, Zenon DEF handle_produce_append, append, Goto, RequestInv, TypeOK
    <2>2. log_open'[at'[m]]
      BY <2>1, Zenon DEF TypeOK
    <2>. QED  BY <2>1, <2>2, Zenon
  <1>3. ASSUME ~\E b \in Brokers : CrashBroker(b), at'[m] = at[m],
               pc'[m] \in Served => pc[m] \in Served
        PROVE  R1(m)' /\ R2(m)'
    <2>1. pc[m] \in Served => at[m] \in Brokers
      BY Zenon DEF RequestInv
    <2>2. R1(m)'
      BY <1>0, <1>3, <2>1, OpenStaysOpen, Zenon
    <2>3. ASSUME pc'[m] \in C, pc[m] \notin C
          PROVE  R2(m)'
      <3>1. handle_produce_commit(m) /\ quorum_reached(at[m], offset[m])
        BY <2>3, CommittedStep, Zenon
      <3>2. /\ mark_committed(at[m], offset[m]) /\ pc[m] \in Served
            /\ UNCHANGED <<offset, log, log_open>>
        BY <3>1, Zenon DEF handle_produce_commit, Served, logVars
      <3>3. /\ at[m] \in Brokers /\ offset[m] \in Offsets
            /\ Holds(at[m], offset[m], m) /\ log_open[at[m]]
        BY <1>0, <3>2, ServedInRange, Zenon DEF RequestInv
      <3>4. commit_index'[at[m]] >= offset[m]
        BY <3>2, <3>3, CommitIndexType, Zenon
      <3>5. offset[m] <= commit_index'[at[m]]
        <4>1. commit_index'[at[m]] \in Int /\ offset[m] \in Int
          BY <3>3 DEF TypeOK, Offsets
        <4>. QED  BY <3>4, <4>1, Zenon
      <3>. QED  BY <1>3, <3>2, <3>3, <3>5, Zenon DEF Holds
    <2>4. ASSUME pc'[m] \in C, pc[m] \in C, at[m] # 0
          PROVE  R2(m)'
      <3>1. /\ at[m] \in Brokers /\ offset[m] <= commit_index[at[m]]
            /\ log_open[at[m]] /\ Holds(at[m], offset[m], m)
        BY <1>0, <2>4, Zenon
      <3>2. offset'[m] = offset[m] /\ offset[m] \in Nat
        BY <2>4, PastAppend, Zenon DEF TypeOK
      <3>3. log_open'[at[m]]
        BY <1>3, <3>1, OpenStaysOpen, Zenon
      <3>4. commit_index'[at[m]] = commit_index[at[m]]
               \/ commit_index'[at[m]] >= commit_index[at[m]]
        BY <1>3, <3>1, CommitIndexStep, Zenon
      <3>5. offset[m] <= commit_index'[at[m]]
        <4>1. commit_index[at[m]] \in Int /\ commit_index'[at[m]] \in Int
          BY <3>1 DEF TypeOK, Offsets
        <4>. QED  BY <3>1, <3>2, <3>4, <4>1
      <3>6. Holds(at[m], offset[m], m)'
        <4>1. \A b \in Brokers, o \in Nat : Holds(b, o, m) => Holds(b, o, m)'
          BY LogsOnlyGrow, Zenon
        <4>. HIDE DEF R1, R2, C
        <4>. QED  BY <1>3, <3>1, <3>2, <4>1 DEF Holds
      <3>. QED  BY <1>3, <3>1, <3>2, <3>3, <3>5, <3>6, Zenon
    <2>. QED  BY <1>3, <2>2, <2>3, <2>4, Zenon
  <1>4. ASSUME pc'[m] = "admitted"
        PROVE  R1(m)' /\ R2(m)'
    BY <1>4, Zenon DEF Served
  <1>. HIDE DEF R1, R2
  <1>. QED  BY <1>1, <1>2, <1>3, <1>4, ThreadStep, Zenon
-----------------------------------------------------------------------------
(* The theorems.                                                           *)

\* The invariant holds before any request is made.
LEMMA IndInvInit == Init => IndInv
  <1>. SUFFICES ASSUME Init PROVE IndInv
    BY Zenon
  <1>. USE ReplicationAssumption DEF Init, Served
  <1>1. TypeOK
    BY MemTypeInit DEF TypeOK, Points, Offsets
  <1>2. RequestInv /\ NetInv /\ ReadInv
    BY Zenon DEF RequestInv, NetInv, ReadInv
  <1>3. AckInv
    <2>. SUFFICES ASSUME NEW b \in Brokers, NEW o \in Offsets
                  PROVE  ack_followers[b][o] = {} /\ ack_counts[b][o] = 0
      BY FS_EmptySet DEF AckInv
    <2>. QED  BY Zenon
  <1>4. QuorumInv
    BY DEF QuorumInv, CommitIndexJustified
  <1>. QED  BY <1>1, <1>2, <1>3, <1>4, Zenon DEF IndInv

\* Every step of the cluster keeps the invariant.
LEMMA IndInvStep == IndInv /\ [Next]_vars => IndInv'
  <1>. SUFFICES ASSUME IndInv, [Next]_vars PROVE IndInv'
    BY Zenon
  <1>. USE DEF IndInv
  <1>1. TypeOK'
    BY TypeStep, Zenon
  <1>2. RequestInv'
    BY RequestStep, Zenon DEF RequestInv
  <1>3. AckInv' /\ NetInv'
    BY AckStep, NetStep, Zenon
  <1>4. QuorumInv'
    BY <1>1, QuorumStep, Zenon
  <1>5. ReadInv'
    BY <1>1, <1>2, ReadStep, Zenon
  <1>. QED  BY <1>1, <1>2, <1>3, <1>4, <1>5, Zenon

\* What the handlers of PRODUCE, REPLICATE, ACK and COMMIT keep together: a follower
\* that is counted holds the record, and what is committed is on a majority.
THEOREM IndInvHolds == Spec => []IndInv
  BY IndInvInit, IndInvStep, PTL DEF Spec

\* A record is at one offset of a log only once: two requests cannot both have
\* a majority of holders at the same offset.
LEMMA MajorityIsUnique ==
    ASSUME NEW o, NEW m, NEW n, Majority(o, m), Majority(o, n)
    PROVE  m = n
  <1>1. Holders(o, m) \cap Holders(o, n) # {}
    BY MajoritiesMeet, Zenon DEF Majority, Holders
  <1>. QED  BY <1>1, Zenon DEF Holders, Holds

\* An offset a majority holds is in a log.
LEMMA MajorityInRange ==
    ASSUME TypeOK, NEW o \in Nat, NEW m, Majority(o, m)
    PROVE  o \in Offsets
  <1>1. Holders(o, m) \cap Holders(o, m) # {}
    BY MajoritiesMeet, Zenon DEF Majority, Holders
  <1>2. PICK b \in Brokers : o < Len(log[b])
    BY <1>1, Zenon DEF Holders, Holds
  <1>3. Len(log[b]) \in Nat /\ Len(log[b]) <= MaxRecords
    BY DEF TypeOK
  <1>. QED  BY <1>2, <1>3, ReplicationAssumption DEF Offsets

\* The variables of the replication code keep their types: in particular every
\* offset counted, committed or sent lies within the logs.
THEOREM TypeCorrect == Spec => []TypeOK
  <1>1. IndInv => TypeOK
    BY Zenon DEF IndInv
  <1>. QED  BY <1>1, IndInvHolds, PTL

\* A PRODUCE answered with success is on a majority of the replicas for ever.
THEOREM MajorityHolds == Spec => []AckedHeldByMajority
  <1>1. IndInv => AckedHeldByMajority
    BY Zenon DEF IndInv, QuorumInv, AckedHeldByMajority, Acked, Majority
  <1>. QED  BY <1>1, IndInvHolds, PTL

\* Two brokers that both act as leader cannot both answer success for the same
\* offset: majorities meet, and a log has one record at an offset.
LEMMA OffsetsUnique == IndInv => AckedOffsetsUnique
  <1>. SUFFICES ASSUME IndInv, NEW m \in Messages, NEW n \in Messages,
                       Acked(m), Acked(n), offset[m] = offset[n]
                PROVE  m = n
    BY Zenon DEF AckedOffsetsUnique
  <1>1. Majority(offset[m], m) /\ Majority(offset[m], n)
    BY Zenon DEF IndInv, QuorumInv, Acked
  <1>. QED  BY <1>1, MajorityIsUnique, Zenon

\* Answers to producers never give the same offset twice.
THEOREM OffsetsAreUnique == Spec => []AckedOffsetsUnique
  BY OffsetsUnique, IndInvHolds, PTL

\* A commit index always points at a record that a majority holds.
THEOREM CommitIndexIsJustified == Spec => []CommitIndexJustified
  <1>1. IndInv => CommitIndexJustified
    BY Zenon DEF IndInv, QuorumInv
  <1>. QED  BY <1>1, IndInvHolds, PTL

\* A producer reads back what it was answered success for.
THEOREM ReadsOwnWrite == Spec => []ReadYourWrite
  <1>1. IndInv => ReadYourWrite
    <2>. SUFFICES ASSUME IndInv, NEW m \in Messages, Acked(m), at[m] # 0
                  PROVE  handle_fetch(at[m], offset[m]) = <<m>>
      BY Zenon DEF ReadYourWrite
    <2>1. /\ offset[m] <= commit_index[at[m]] /\ log_open[at[m]]
          /\ Holds(at[m], offset[m], m)
      BY Zenon DEF IndInv, ReadInv, Acked
    <2>. QED  BY <2>1, Zenon DEF handle_fetch, Holds
  <1>. QED  BY <1>1, IndInvHolds, PTL
-----------------------------------------------------------------------------
(* The cluster implements AckedLog.                                        *)

\* An answer is final, and a step answers at most one request.
LEMMA AnswerStep ==
    ASSUME TypeOK, [Next]_vars
    PROVE  /\ \A m \in Messages : Acked(m) => pc'[m] = "ok" /\ offset'[m] = offset[m]
           /\ \A m, n \in Messages :
                 pc'[m] = "ok" /\ ~Acked(m) /\ pc'[n] = "ok" /\ ~Acked(n) => m = n
  <1>. USE DEF logVars, ackVars, netVars, reqVars, Goto, Acked
  <1>1. ASSUME NEW n \in Messages, ServeProduce(n)
        PROVE  /\ pc[n] # "ok"
               /\ pc' = pc \/ \E x : pc' = [pc EXCEPT ![n] = x]
    BY <1>1, ServeProduceFrame, Zenon DEF Served
  <1>2. ASSUME NEW n \in Messages, NEW b \in Brokers, handle_produce_admit(n, b)
        PROVE  pc[n] # "ok" /\ pc' = [pc EXCEPT ![n] = "admitted"]
    BY <1>2, Zenon DEF handle_produce_admit
  <1>3. ASSUME NEW b \in Brokers, CrashBroker(b), NEW m \in Messages
        PROVE  pc'[m] = "ok" <=> pc[m] = "ok"
    BY <1>3, Zenon DEF CrashBroker, Final
  <1>4. ASSUME \/ ServePeer
               \/ \E b \in Brokers : heartbeat_loop(b)
               \/ \E b, p \in Brokers : handle_heartbeat_request(b, p)
               \/ \E b \in Brokers : RestartBroker(b)
               \/ UNCHANGED vars
        PROVE  UNCHANGED pc
    BY <1>4, OtherStepsFrame, Zenon
  <1>5. \/ UNCHANGED pc
        \/ \E n \in Messages : pc[n] # "ok" /\ \E x : pc' = [pc EXCEPT ![n] = x]
        \/ \A m \in Messages : pc'[m] = "ok" <=> pc[m] = "ok"
    BY <1>1, <1>2, <1>3, <1>4, Zenon DEF Next
  <1>6. \A m \in Messages : Acked(m) => offset'[m] = offset[m]
    BY PastAppend, Zenon
  <1>. QED  BY <1>5, <1>6, Zenon DEF TypeOK

\* Every step of the cluster is an Ack of AckedLog or leaves the answers alone.
LEMMA AckedLogStep ==
    ASSUME IndInv, IndInv', [Next]_vars
    PROVE  [Promise!AckedNext]_ackedPairs
  <1>. USE DEF Acked
  <1>1. CASE \A m \in Messages : pc'[m] = "ok" => pc[m] = "ok"
    <2>1. ackedPairs' = ackedPairs
      BY <1>1, AnswerStep, Zenon DEF ackedPairs, IndInv
    <2>. QED  BY <2>1, Zenon
  <1>2. ASSUME NEW m \in Messages, pc'[m] = "ok", pc[m] # "ok"
        PROVE  Promise!AckedNext
    <2>1. pc[m] \in {"committed", "broadcasting"}
      <3>1. ASSUME handle_produce_commit(m) PROVE FALSE
        BY <1>2, <3>1, Zenon DEF handle_produce_commit, Goto, IndInv, TypeOK
      <3>. QED  BY <1>2, <3>1, CommittedStep, Zenon DEF IndInv
    <2>2. offset'[m] = offset[m] /\ offset[m] \in Nat
      BY <2>1, PastAppend, Zenon DEF IndInv, TypeOK
    <2>3. Majority(offset[m], m)
      BY <2>1, Zenon DEF IndInv, QuorumInv
    <2>4. offset[m] \in Offsets
      BY <2>2, <2>3, MajorityInRange, Zenon DEF IndInv
    <2>5. ackedPairs' = ackedPairs \cup {<<offset[m], m>>}
      BY <1>2, <2>2, AnswerStep, Zenon DEF ackedPairs, IndInv
    <2>6. \A a \in ackedPairs : a[1] # offset[m] /\ a[2] # m
      <3>. SUFFICES ASSUME NEW n \in Messages, pc[n] = "ok"
                    PROVE  offset[n] # offset[m] /\ n # m
        BY DEF ackedPairs
      <3>1. Majority(offset[n], n)
        BY Zenon DEF IndInv, QuorumInv
      <3>. QED  BY <1>2, <2>3, <3>1, MajorityIsUnique, Zenon
    <2>. QED  BY <2>4, <2>5, <2>6, Zenon DEF Promise!AckedNext, Promise!Ack
  <1>. QED  BY <1>1, <1>2, Zenon

\* The answers producers get form an AckedLog: no offset is given to two
\* requests and no answer is taken back.
THEOREM ClusterImplementsAckedLog == Spec => ImplementsAckedLog
  <1>1. Init => Promise!AckedInit
    BY Zenon DEF Init, ackedPairs, Acked, Promise!AckedInit
  <1>2. IndInv /\ IndInv' /\ [Next]_vars => [Promise!AckedNext]_ackedPairs
    BY AckedLogStep, Zenon
  <1>. QED  BY <1>1, <1>2, IndInvHolds, PTL DEF Spec, ImplementsAckedLog, Promise!AckedSpec
=============================================================================
