----------------------------- MODULE Replication ----------------------------
(***************************************************************************)
(* The path of a PRODUCE request through the cluster, for one partition:   *)
(* Broker::handle_produce on the leader, ReplicationManager's replication, *)
(* acknowledgement, quorum and commit code on every broker, and what       *)
(* Broker::handle_fetch answers.  Failure detection and election come from *)
(* Membership.                                                             *)
(*                                                                         *)
(* Each element of Messages is one client PRODUCE request and stands for   *)
(* its payload too.  It is served by a worker thread of the broker at[m];  *)
(* pc[m] is the point that thread has reached.  A step is what the thread  *)
(* does between two points at which another thread or broker can act: it   *)
(* takes or releases ReplicationManager::mutex_, appends to the log (under *)
(* the log's own lock), sends to a peer or reads a peer's answer.          *)
(*                                                                         *)
(* A broker's log survives its crash; its commit index, acknowledgement    *)
(* counts, suspicions and open Log objects do not.                         *)
(***************************************************************************)
EXTENDS Membership, Sequences

CONSTANTS
    Messages,    \* client PRODUCE requests
    MaxRecords   \* bound: records in one broker's log

ASSUME ReplicationAssumption ==
    /\ IsFiniteSet(Messages)
    /\ MaxRecords \in Nat

VARIABLES
    log,            \* log[b]: records of b's Log; offset o is log[b][o + 1]
    log_open,       \* StorageEngine::logs_ of b holds the partition's Log
    commit_index,   \* commit_index_by_log_; -1 while the map has no entry
    ack_counts,     \* ack_counts_[b][offset]; 0 while the map has no entry
    ack_followers,  \* ack_followers_[b][offset]
    mutex,          \* ReplicationManager::mutex_: the set of its holders
    pc,             \* where the thread serving m is
    at,             \* the broker serving m; 0 when none (any more)
    offset,         \* the offset storage_.append returned for m
    todo,           \* peers the loop of m's thread has still to visit
    reply,          \* what the peer m waits for has answered
    replicates,     \* REPLICATE requests in flight
    commits         \* COMMIT requests in flight

logVars == <<log, log_open>>
ackVars == <<ack_counts, ack_followers>>
reqVars == <<pc, at, offset, todo, reply>>
netVars == <<replicates, commits>>
replVars == <<logVars, commit_index, ackVars, mutex, reqVars, netVars>>
vars == <<memVars, replVars>>

Offsets == 0..(MaxRecords - 1)

Failures == {"replication_failed", "quorum_timeout", "lost"}
Final == Failures \cup {"ok"}
Points == Final \cup {"idle", "admitted", "appended", "replicating", "waiting",
                      "quorum", "committed", "broadcasting"}

Init ==
    /\ MemInit
    /\ log = [b \in Brokers |-> << >>]
    /\ log_open = [b \in Brokers |-> FALSE]
    /\ commit_index = [b \in Brokers |-> -1]
    /\ ack_counts = [b \in Brokers |-> [o \in Offsets |-> 0]]
    /\ ack_followers = [b \in Brokers |-> [o \in Offsets |-> {}]]
    /\ mutex = [b \in Brokers |-> {}]
    /\ pc = [m \in Messages |-> "idle"]
    /\ at = [m \in Messages |-> 0]
    /\ offset = [m \in Messages |-> 0]
    /\ todo = [m \in Messages |-> {}]
    /\ reply = [m \in Messages |-> "none"]
    /\ replicates = {}
    /\ commits = {}
-----------------------------------------------------------------------------
(* Operators of the storage engine and of the replication manager.         *)

\* StorageEngine::append: opens the log when it is not open, appends, and
\* returns the offset Len(log[b]).
append(b, m) ==
    /\ Len(log[b]) < MaxRecords
    /\ log' = [log EXCEPT ![b] = Append(@, m)]
    /\ log_open' = [log_open EXCEPT ![b] = TRUE]

\* total_replicas / 2 + 1, over this broker and its peers.
Quorum == Cardinality(Brokers) \div 2 + 1

quorum_reached_short(b, o) == ack_counts[b][o] + 1 >= Quorum

quorum_reached(b, o) == ack_counts[b][o] >= Quorum

mark_follower_failed(b, p) ==
    failed_peers' = [failed_peers EXCEPT ![b] = @ \cup {p}]

mark_follower_alive(b, p) ==
    failed_peers' = [failed_peers EXCEPT ![b] = @ \ {p}]

mark_committed_stale(b, o) ==
    commit_index' = [commit_index EXCEPT ![b] = o]

mark_committed_next(b, o) ==
    commit_index' = [commit_index EXCEPT ![b] = Max({@, o + 1})]

mark_committed(b, o) ==
    commit_index' = [commit_index EXCEPT ![b] = Max({@, o})]

\* The peer at which the loop over the configured peers stands.
Target(m) == Min(todo[m])

Goto(m, point) == pc' = [pc EXCEPT ![m] = point]

Visited(m) == todo' = [todo EXCEPT ![m] = @ \ {Target(m)}]

\* Membership variables other than the suspicions and the glitch budget.
memRest == <<up, type, leader_broker_id, late, crashes>>
-----------------------------------------------------------------------------
(* Broker::handle_produce, first half: the leader check and the append.    *)

\* A client's request, sent to b or forwarded to it, passes the check that b
\* leads.
handle_produce_admit(m, b) ==
    /\ pc[m] = "idle"
    /\ up[b]
    /\ is_leader(b)
    /\ Goto(m, "admitted")
    /\ at' = [at EXCEPT ![m] = b]
    /\ UNCHANGED <<memVars, logVars, commit_index, ackVars, mutex, offset, todo,
                   reply, netVars>>

handle_produce_append(m) ==
    /\ pc[m] = "admitted"
    /\ append(at[m], m)
    /\ offset' = [offset EXCEPT ![m] = Len(log[at[m]])]
    /\ Goto(m, "appended")
    /\ UNCHANGED <<memVars, commit_index, ackVars, mutex, at, todo, reply, netVars>>
-----------------------------------------------------------------------------
(* ReplicationManager::replicate_message.  mutex_ is held from its first   *)
(* step to its last, network waits included.                               *)

replicate_message_begin_counted(m) ==
    LET b == at[m]
        o == offset[m]
    IN  /\ pc[m] = "appended"
        /\ mutex[b] = {}
        /\ IF is_leader(b)
           THEN /\ Goto(m, "replicating")
                /\ mutex' = [mutex EXCEPT ![b] = {m}]
                /\ ack_counts' = [ack_counts EXCEPT ![b][o] = @ + 1]
                /\ ack_followers' = [ack_followers EXCEPT ![b][o] = @ \cup {b}]
                /\ todo' = [todo EXCEPT ![m] =
                              {p \in Peers(b) : is_peer_available(b, p)}]
           ELSE /\ Goto(m, "replication_failed")
                /\ UNCHANGED <<mutex, ackVars, todo>>
        /\ UNCHANGED <<memVars, logVars, commit_index, at, offset, reply, netVars>>

replicate_message_begin(m) ==
    LET b == at[m]
        o == offset[m]
    IN  /\ pc[m] = "appended"
        /\ mutex[b] = {}
        /\ IF is_leader(b)
           THEN /\ Goto(m, "replicating")
                /\ mutex' = [mutex EXCEPT ![b] = {m}]
                /\ ack_counts' = [ack_counts EXCEPT ![b][o] = 1]
                /\ ack_followers' = [ack_followers EXCEPT ![b][o] = @ \cup {b}]
                /\ todo' = [todo EXCEPT ![m] =
                              {p \in Peers(b) : is_peer_available(b, p)}]
           ELSE /\ Goto(m, "replication_failed")
                /\ UNCHANGED <<mutex, ackVars, todo>>
        /\ UNCHANGED <<memVars, logVars, commit_index, at, offset, reply, netVars>>

\* replicate_to_peer connects and writes the request.
replicate_to_peer_send(m) ==
    LET p == Target(m)
    IN  /\ pc[m] = "replicating"
        /\ todo[m] # {}
        /\ up[p]
        /\ replicates' = replicates \cup
             {[dst |-> p, message |-> m, fetch_offset |-> offset[m],
               checked |-> FALSE]}
        /\ Goto(m, "waiting")
        /\ UNCHANGED <<memVars, logVars, commit_index, ackVars, mutex, at, offset,
                       todo, reply, commits>>

\* replicate_to_peer returns false: the connection is refused or breaks, or
\* the peer's first frame is not an ACK.  The connection to a live peer can
\* break on either side of the peer's handler.
replicate_to_peer_fail(m) ==
    LET p == Target(m)
    IN  /\ todo[m] # {}
        /\ \/ pc[m] = "replicating" /\ ~up[p] /\ UNCHANGED glitches
           \/ pc[m] = "waiting" /\ reply[m] = "refused" /\ UNCHANGED glitches
           \/ /\ pc[m] \in {"replicating", "waiting"}
              /\ up[p]
              /\ glitches < MaxGlitches
              /\ glitches' = glitches + 1
        /\ mark_follower_failed(at[m], p)
        /\ Visited(m)
        /\ Goto(m, "replicating")
        /\ reply' = [reply EXCEPT ![m] = "none"]
        /\ UNCHANGED <<memRest, logVars, commit_index, ackVars, mutex, at, offset,
                       netVars>>

\* ReplicationManager::handle_ack counts a follower once.
handle_ack(b, p, o) ==
    IF is_leader(b) /\ p \notin ack_followers[b][o]
    THEN /\ ack_followers' = [ack_followers EXCEPT ![b][o] = @ \cup {p}]
         /\ ack_counts' = [ack_counts EXCEPT ![b][o] = @ + 1]
    ELSE UNCHANGED ackVars

replicate_to_peer_acked(m) ==
    LET p == Target(m)
    IN  /\ pc[m] = "waiting"
        /\ reply[m] = "ack"
        /\ handle_ack(at[m], p, offset[m])
        /\ mark_follower_alive(at[m], p)
        /\ Visited(m)
        /\ Goto(m, "replicating")
        /\ reply' = [reply EXCEPT ![m] = "none"]
        /\ UNCHANGED <<memRest, glitches, logVars, commit_index, mutex, at, offset,
                       netVars>>

replicate_message_end_locked(m) ==
    /\ pc[m] = "replicating"
    /\ todo[m] = {}
    /\ Goto(m, IF quorum_reached(at[m], offset[m])
               THEN "quorum" ELSE "replication_failed")
    /\ mutex' = IF quorum_reached(at[m], offset[m])
                THEN [mutex EXCEPT ![at[m]] = {}] ELSE mutex
    /\ UNCHANGED <<memVars, logVars, commit_index, ackVars, at, offset, todo,
                   reply, netVars>>

replicate_message_end(m) ==
    /\ pc[m] = "replicating"
    /\ todo[m] = {}
    /\ Goto(m, IF quorum_reached(at[m], offset[m])
               THEN "quorum" ELSE "replication_failed")
    /\ mutex' = [mutex EXCEPT ![at[m]] = {}]
    /\ UNCHANGED <<memVars, logVars, commit_index, ackVars, at, offset, todo,
                   reply, netVars>>
-----------------------------------------------------------------------------
(* ReplicationManager::handle_replication_request on the receiving broker. *)
(* It takes no lock between the leader check and the append.               *)

\* The sender of r still waits for the answer on r's connection.
Awaited(r) == pc[r.message] = "waiting" /\ r.dst = Target(r.message)

Answer(r, answer) ==
    reply' = IF Awaited(r) THEN [reply EXCEPT ![r.message] = answer] ELSE reply

handle_replication_check(r) ==
    /\ ~r.checked
    /\ up[r.dst]
    /\ IF is_leader(r.dst)
       THEN replicates' = replicates \ {r} /\ Answer(r, "refused")
       ELSE /\ replicates' = (replicates \ {r}) \cup {[r EXCEPT !.checked = TRUE]}
            /\ UNCHANGED reply
    /\ UNCHANGED <<memVars, logVars, commit_index, ackVars, mutex, pc, at, offset,
                   todo, commits>>

handle_replication_append_ack_any(r) ==
    /\ r.checked
    /\ up[r.dst]
    /\ append(r.dst, r.message)
    /\ replicates' = replicates \ {r}
    /\ Answer(r, "ack")
    /\ UNCHANGED <<memVars, commit_index, ackVars, mutex, pc, at, offset, todo,
                   commits>>

\* The record stays in the log whether or not it landed at the requested
\* offset; only then is an ACK sent.
handle_replication_append(r) ==
    /\ r.checked
    /\ up[r.dst]
    /\ append(r.dst, r.message)
    /\ replicates' = replicates \ {r}
    /\ Answer(r, IF Len(log[r.dst]) = r.fetch_offset THEN "ack" ELSE "refused")
    /\ UNCHANGED <<memVars, commit_index, ackVars, mutex, pc, at, offset, todo,
                   commits>>
-----------------------------------------------------------------------------
(* Broker::handle_produce, second half: commit, broadcast and answer.      *)

\* wait_for_quorum, then mark_committed.  The count of an offset is final
\* once replicate_message has returned, so nothing can come between the two.
handle_produce_commit(m) ==
    /\ pc[m] = "quorum"
    /\ mutex[at[m]] = {}
    /\ IF quorum_reached(at[m], offset[m])
       THEN mark_committed(at[m], offset[m]) /\ Goto(m, "committed")
       ELSE Goto(m, "quorum_timeout") /\ UNCHANGED commit_index
    /\ UNCHANGED <<memVars, logVars, ackVars, mutex, at, offset, todo, reply, netVars>>

\* A broker that lost the leadership in between still answers success.
broadcast_commit_begin(m) ==
    LET b == at[m]
    IN  /\ pc[m] = "committed"
        /\ mutex[b] = {}
        /\ IF is_leader(b)
           THEN /\ Goto(m, "broadcasting")
                /\ mutex' = [mutex EXCEPT ![b] = {m}]
                /\ todo' = [todo EXCEPT ![m] =
                              {p \in Peers(b) : is_peer_available(b, p)}]
           ELSE Goto(m, "ok") /\ UNCHANGED <<mutex, todo>>
        /\ UNCHANGED <<memVars, logVars, commit_index, ackVars, at, offset, reply,
                       netVars>>

\* No answer to a COMMIT is read: a send that succeeds is all the leader sees.
broadcast_commit_send(m) ==
    LET p == Target(m)
    IN  /\ pc[m] = "broadcasting"
        /\ todo[m] # {}
        /\ Visited(m)
        /\ \/ /\ up[p]
              /\ commits' = commits \cup {[dst |-> p, fetch_offset |-> offset[m]]}
              /\ mark_follower_alive(at[m], p)
              /\ UNCHANGED glitches
           \/ /\ IF up[p]
                 THEN glitches < MaxGlitches /\ glitches' = glitches + 1
                 ELSE UNCHANGED glitches
              /\ mark_follower_failed(at[m], p)
              /\ UNCHANGED commits
        /\ UNCHANGED <<memRest, logVars, commit_index, ackVars, mutex, pc, at, offset,
                       reply, replicates>>

broadcast_commit_end(m) ==
    /\ pc[m] = "broadcasting"
    /\ todo[m] = {}
    /\ Goto(m, "ok")
    /\ mutex' = [mutex EXCEPT ![at[m]] = {}]
    /\ UNCHANGED <<memVars, logVars, commit_index, ackVars, at, offset, todo, reply,
                   netVars>>

\* The committed offset is taken as it comes; the log is not looked at.
handle_commit_request(c) ==
    /\ up[c.dst]
    /\ mutex[c.dst] = {}
    /\ mark_committed(c.dst, c.fetch_offset)
    /\ commits' = commits \ {c}
    /\ UNCHANGED <<memVars, logVars, ackVars, mutex, reqVars, replicates>>
-----------------------------------------------------------------------------
(* Heartbeats, which also take mutex_, and process failures.               *)

heartbeat_loop(b) ==
    /\ mutex[b] = {}
    /\ HeartbeatRound(b)
    /\ UNCHANGED replVars

handle_heartbeat_request(b, p) ==
    /\ mutex[b] = {}
    /\ handle_heartbeat(b, p)
    /\ UNCHANGED replVars

\* Requests being served at b are lost, and so are requests sent to b and not
\* handled; what b sent to others is still handled there.
CrashBroker(b) ==
    LET served(m) == at[m] = b /\ pc[m] \notin Final
        waitsFor(m) == pc[m] = "waiting" /\ Target(m) = b
    IN  /\ Crash(b)
        /\ pc' = [m \in Messages |-> IF served(m) THEN "lost" ELSE pc[m]]
        /\ at' = [m \in Messages |-> IF at[m] = b THEN 0 ELSE at[m]]
        /\ todo' = [m \in Messages |-> IF at[m] = b THEN {} ELSE todo[m]]
        /\ reply' = [m \in Messages |->
                       CASE at[m] = b -> "none"
                         [] waitsFor(m) -> "refused"
                         [] OTHER -> reply[m]]
        /\ replicates' = {r \in replicates : r.dst # b}
        /\ commits' = {c \in commits : c.dst # b}
        /\ mutex' = [mutex EXCEPT ![b] = {}]
        /\ log_open' = [log_open EXCEPT ![b] = FALSE]
        /\ commit_index' = [commit_index EXCEPT ![b] = -1]
        /\ ack_counts' = [ack_counts EXCEPT ![b] = [o \in Offsets |-> 0]]
        /\ ack_followers' = [ack_followers EXCEPT ![b] = [o \in Offsets |-> {}]]
        /\ UNCHANGED <<log, offset>>

RestartBroker(b) == Restart(b) /\ UNCHANGED replVars

ServeProduce(m) ==
    \/ handle_produce_append(m)
    \/ replicate_message_begin(m)
    \/ replicate_to_peer_send(m)
    \/ replicate_to_peer_fail(m)
    \/ replicate_to_peer_acked(m)
    \/ replicate_message_end(m)
    \/ handle_produce_commit(m)
    \/ broadcast_commit_begin(m)
    \/ broadcast_commit_send(m)
    \/ broadcast_commit_end(m)

ServePeer ==
    \/ \E r \in replicates : handle_replication_check(r)
    \/ \E r \in replicates : handle_replication_append(r)
    \/ \E c \in commits : handle_commit_request(c)

Next ==
    \/ \E m \in Messages, b \in Brokers : handle_produce_admit(m, b)
    \/ \E m \in Messages : ServeProduce(m)
    \/ ServePeer
    \/ \E b \in Brokers : heartbeat_loop(b)
    \/ \E b, p \in Brokers : handle_heartbeat_request(b, p)
    \/ \E b \in Brokers : CrashBroker(b)
    \/ \E b \in Brokers : RestartBroker(b)

Spec == Init /\ [][Next]_vars

\* The operating system schedules every worker thread of a live process.  No
\* fairness for clients, crashes, restarts or broken connections.
FairSpec ==
    /\ Spec
    /\ \A m \in Messages : WF_vars(ServeProduce(m))
    /\ WF_vars(ServePeer)
-----------------------------------------------------------------------------
\* Every variable has its type.
TypeOK ==
    /\ MemTypeOK
    /\ log \in [Brokers -> Seq(Messages)]
    /\ \A b \in Brokers : Len(log[b]) <= MaxRecords
    /\ log_open \in [Brokers -> BOOLEAN]
    /\ commit_index \in [Brokers -> Offsets \cup {-1}]
    /\ ack_counts \in [Brokers -> [Offsets -> Nat]]
    /\ ack_followers \in [Brokers -> [Offsets -> SUBSET Brokers]]
    /\ mutex \in [Brokers -> SUBSET Messages]
    /\ pc \in [Messages -> Points]
    /\ at \in [Messages -> Brokers \cup {0}]
    /\ offset \in [Messages -> Nat]
    /\ todo \in [Messages -> SUBSET Brokers]
    /\ reply \in [Messages -> {"none", "ack", "refused"}]
    /\ replicates \in SUBSET [dst : Brokers, message : Messages,
                              fetch_offset : Nat, checked : BOOLEAN]
    /\ commits \in SUBSET [dst : Brokers, fetch_offset : Offsets]

\* Broker b's log has the record m at offset o.
Holds(b, o, m) == o < Len(log[b]) /\ log[b][o + 1] = m

Holders(o, m) == {b \in Brokers : Holds(b, o, m)}

Acked(m) == pc[m] = "ok"

\* A PRODUCE is answered with success only when a majority of the configured
\* replicas hold its record at the offset in the answer, and they hold it ever
\* after (README.md:44), whatever crashes, elections and concurrent leaders do.
AckedHeldByMajority ==
    \A m \in Messages :
        Acked(m) => Cardinality(Holders(offset[m], m)) >= Quorum

\* No two PRODUCE requests are answered with success for the same offset, not
\* even by two brokers that both believe they lead.
AckedOffsetsUnique ==
    \A m, n \in Messages :
        Acked(m) /\ Acked(n) /\ offset[m] = offset[n] => m = n

\* Whatever path a commit index took to a broker (its own quorum, or COMMIT
\* messages late, reordered or from a crashed leader), a majority of replicas
\* hold the same record at that very offset.
CommitIndexJustified ==
    \A b \in Brokers :
        commit_index[b] >= 0 =>
            \E m \in Messages :
                Cardinality(Holders(commit_index[b], m)) >= Quorum

\* What Broker::handle_fetch answers at b for offset o, as a sequence of at
\* most one record.
handle_fetch(b, o) ==
    IF o <= commit_index[b] /\ log_open[b] /\ o < Len(log[b])
    THEN <<log[b][o + 1]>>
    ELSE <<>>

\* A producer that was answered success can read its record back at the
\* answered offset from the broker that served it, until that broker restarts.
ReadYourWrite ==
    \A m \in Messages :
        Acked(m) /\ at[m] # 0 => handle_fetch(at[m], offset[m]) = <<m>>

\* FETCH reads committed records (README.md:154), so two brokers that both
\* answer a FETCH of the same offset answer with the same record.
FetchAgreement ==
    \A b, c \in Brokers : \A o \in Offsets :
        handle_fetch(b, o) # <<>> /\ handle_fetch(c, o) # <<>> =>
            handle_fetch(b, o) = handle_fetch(c, o)

\* A request that has been admitted is answered, or its broker crashes: the
\* lock held across the exchanges with the followers is always released.
ProduceAnswered ==
    \A m \in Messages : pc[m] = "admitted" ~> pc[m] \in Final
-----------------------------------------------------------------------------
(* The abstract specification this one implements.                         *)

ackedPairs == {<<offset[m], m>> : m \in {n \in Messages : Acked(n)}}

Promise == INSTANCE AckedLog WITH acked <- ackedPairs

\* The cluster implements AckedLog: an offset, once answered with success to a
\* producer, is never answered to another, and the answer is final.
ImplementsAckedLog == Promise!AckedSpec
-----------------------------------------------------------------------------
(* The inductive invariant behind the safety properties.                   *)

Served == {"appended", "replicating", "waiting", "quorum", "committed",
           "broadcasting"}

Majority(o, m) == Cardinality(Holders(o, m)) >= Quorum

\* The thread of an admitted request runs on a broker, and from the append on
\* that broker's log holds the record at the offset the thread remembers.
RequestInv ==
    \A m \in Messages :
        /\ pc[m] \in Served \cup {"admitted"} => at[m] \in Brokers
        /\ pc[m] \in Served => Holds(at[m], offset[m], m)

\* A follower counted for an offset holds what the counting broker holds there,
\* and no follower is counted twice.
AckInv ==
    \A b \in Brokers, o \in Offsets :
        /\ \A f \in ack_followers[b][o] :
              o < Len(log[b]) /\ Holds(f, o, log[b][o + 1])
        /\ ack_counts[b][o] <= Cardinality(ack_followers[b][o])

\* A request in flight carries the offset its thread remembers, and an ACK on
\* its way back comes from a broker that holds the record at that offset.
NetInv ==
    /\ \A r \in replicates :
          /\ r.fetch_offset = offset[r.message]
          /\ pc[r.message] \notin {"idle", "admitted", "appended"}
    /\ \A m \in Messages :
          reply[m] = "ack" => /\ pc[m] = "waiting"
                              /\ Target(m) \in Brokers
                              /\ Holds(Target(m), offset[m], m)

\* Past the quorum check, and for any commit index in use or on its way, a
\* majority holds the record.
QuorumInv ==
    /\ \A m \in Messages :
          pc[m] \in {"committed", "broadcasting", "ok"} => Majority(offset[m], m)
    /\ \A c \in commits : \E m \in Messages : Majority(c.fetch_offset, m)
    /\ CommitIndexJustified

\* What makes a record readable at the broker that committed it.
ReadInv ==
    \A m \in Messages :
        /\ pc[m] \in Served => log_open[at[m]]
        /\ at[m] # 0 /\ pc[m] \in {"committed", "broadcasting", "ok"} =>
              /\ at[m] \in Brokers
              /\ offset[m] <= commit_index[at[m]]
              /\ log_open[at[m]]
              /\ Holds(at[m], offset[m], m)

IndInv == TypeOK /\ RequestInv /\ AckInv /\ NetInv /\ QuorumInv /\ ReadInv
=============================================================================
