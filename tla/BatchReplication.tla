-------------------------- MODULE BatchReplication --------------------------
(***************************************************************************)
(* BATCH_PRODUCE next to PRODUCE, on the same partition:                   *)
(* Broker::handle_batch_produce and ReplicationManager::replicate_batch on *)
(* the leader, the batch half of handle_replication_request on a follower. *)
(*                                                                         *)
(* A batch is an element of Messages as well, so its worker thread has the *)
(* variables Replication gives a thread, and crashes, heartbeats, broken   *)
(* connections and COMMIT messages are Replication's.  Its records are     *)
(* <<x, 1>> .. <<x, BatchSize>>.  The leader appends them one by one, each *)
(* under the log's own lock only, so other requests' records can fall      *)
(* between them.  first_record_missing, goes_on_past, goes_on_anyway and   *)
(* NextOffset_once are mutations that test the properties.                 *)
(***************************************************************************)
EXTENDS Replication

CONSTANTS
    Batches,    \* the BATCH_PRODUCE requests; the rest of Messages are PRODUCEs
    BatchSize   \* records in one batch

ASSUME BatchAssumption ==
    /\ Batches \subseteq Messages
    /\ BatchSize \in Nat \ {0}
    /\ \A x \in Batches, i \in 1..BatchSize : <<x, i>> \notin Messages

VARIABLES
    appended_offsets,   \* Response::appended_offsets of each batch's thread
    batch_replicates    \* BATCH_REPLICATE requests in flight or being handled

batchVars == <<appended_offsets, batch_replicates>>
allVars == <<vars, batchVars>>

BatchInit ==
    /\ Init
    /\ appended_offsets = [x \in Batches |-> <<>>]
    /\ batch_replicates = {}
-----------------------------------------------------------------------------
(* Broker::handle_batch_produce, first half.                               *)

handle_batch_produce_admit(x, b) ==
    handle_produce_admit(x, b) /\ UNCHANGED batchVars

handle_batch_produce_append(x) ==
    LET done == appended_offsets[x]
    IN  /\ pc[x] = "admitted"
        /\ append(at[x], <<x, Len(done) + 1>>)
        /\ appended_offsets' = [appended_offsets EXCEPT ![x] =
                                  Append(done, Len(log[at[x]]))]
        /\ Goto(x, IF Len(done) + 1 = BatchSize THEN "appended" ELSE "admitted")
        /\ UNCHANGED <<memVars, commit_index, ackVars, mutex, at, offset, todo,
                       reply, netVars, batch_replicates>>
-----------------------------------------------------------------------------
(* ReplicationManager::replicate_batch.                                    *)

first_offset(x) == appended_offsets[x][1]

\* The offset under which the acknowledgements of x are counted: where its last
\* record is if nothing fell between its records.
ack_key(x) == first_offset(x) + BatchSize - 1

\* Unlike replicate_message, the leader check precedes the lock.
replicate_batch_check(x) ==
    /\ pc[x] = "appended"
    /\ Goto(x, IF is_leader(at[x]) THEN "checked" ELSE "quorum_timeout")
    /\ UNCHANGED <<memVars, logVars, commit_index, ackVars, mutex, at, offset, todo,
                   reply, netVars, batchVars>>

replicate_batch_begin(x) ==
    LET b == at[x]
    IN  /\ pc[x] = "checked"
        /\ mutex[b] = {}
        /\ Goto(x, "replicating")
        /\ mutex' = [mutex EXCEPT ![b] = {x}]
        /\ ack_counts' = [ack_counts EXCEPT ![b][ack_key(x)] = 1]
        /\ ack_followers' = [ack_followers EXCEPT ![b][ack_key(x)] = @ \cup {b}]
        /\ todo' = [todo EXCEPT ![x] = {p \in Peers(b) : is_peer_available(b, p)}]
        /\ UNCHANGED <<memVars, logVars, commit_index, at, offset, reply, netVars,
                       batchVars>>

\* The whole batch goes out in one request.  next is the record the receiver
\* handles next, 0 before its leader check.
replicate_batch_send(x) ==
    LET p == Target(x)
    IN  /\ pc[x] = "replicating"
        /\ todo[x] # {}
        /\ up[p]
        /\ batch_replicates' = batch_replicates \cup
             {[dst |-> p, message |-> x, fetch_offset |-> first_offset(x), next |-> 0]}
        /\ Goto(x, "waiting")
        /\ UNCHANGED <<memVars, logVars, commit_index, ackVars, mutex, at, offset,
                       todo, reply, netVars, appended_offsets>>

\* No answer, or one that is not an ACK, marks the peer failed.
replicate_batch_fail(x) == replicate_to_peer_fail(x) /\ UNCHANGED batchVars

\* Unlike replicate_message, an ACK does not clear a suspicion.
replicate_batch_acked(x) ==
    /\ pc[x] = "waiting"
    /\ reply[x] = "ack"
    /\ handle_ack(at[x], Target(x), ack_key(x))
    /\ Visited(x)
    /\ Goto(x, "replicating")
    /\ reply' = [reply EXCEPT ![x] = "none"]
    /\ UNCHANGED <<memVars, logVars, commit_index, mutex, at, offset, netVars,
                   batchVars>>

replicate_batch_end(x) ==
    /\ pc[x] = "replicating"
    /\ todo[x] = {}
    /\ Goto(x, IF quorum_reached(at[x], ack_key(x)) THEN "polling" ELSE "quorum_timeout")
    /\ mutex' = [mutex EXCEPT ![at[x]] = {}]
    /\ UNCHANGED <<memVars, logVars, commit_index, ackVars, at, offset, todo, reply,
                   netVars, batchVars>>
-----------------------------------------------------------------------------
(* handle_replication_request for a BATCH_REPLICATE.                       *)

\* The record the loop over the batch starts from.
first_record_missing(r) ==
    LET next == Len(log[r.dst]) - r.fetch_offset + 1
    IN  IF next \in 1..BatchSize THEN next ELSE 1

first_record(r) == 1

handle_batch_replication_check(r) ==
    /\ r.next = 0
    /\ up[r.dst]
    /\ IF is_leader(r.dst)
       THEN batch_replicates' = batch_replicates \ {r} /\ Answer(r, "refused")
       ELSE /\ batch_replicates' = (batch_replicates \ {r}) \cup
                                     {[r EXCEPT !.next = first_record(r)]}
            /\ UNCHANGED reply
    /\ UNCHANGED <<memVars, logVars, commit_index, ackVars, mutex, pc, at, offset,
                   todo, netVars, appended_offsets>>

\* The loop goes on after an append that landed, or did not, where expected.
goes_on_past(r, expected) == expected /\ r.next <= BatchSize

goes_on_anyway(r, expected) == r.next < BatchSize

goes_on(r, expected) == expected /\ r.next < BatchSize

\* One storage_.append per record.  The first record to land at another offset
\* than the leader's ends the handler without an ACK; what has been appended
\* stays.  The ACK follows the last record.
handle_batch_replication_append(r) ==
    LET expected == Len(log[r.dst]) = r.fetch_offset + r.next - 1
    IN  /\ r.next > 0
        /\ up[r.dst]
        /\ append(r.dst, <<r.message, r.next>>)
        /\ IF goes_on(r, expected)
           THEN /\ batch_replicates' = (batch_replicates \ {r}) \cup
                                         {[r EXCEPT !.next = @ + 1]}
                /\ UNCHANGED reply
           ELSE /\ batch_replicates' = batch_replicates \ {r}
                /\ Answer(r, IF expected THEN "ack" ELSE "refused")
        /\ UNCHANGED <<memVars, commit_index, ackVars, mutex, pc, at, offset, todo,
                       netVars, appended_offsets>>
-----------------------------------------------------------------------------
(* Broker::handle_batch_produce, second half.                              *)

\* The poll of wait_for_quorum that settles it: one that finds the count of the
\* last appended offset at a quorum, or the one at the deadline that does not.
wait_for_quorum(x) ==
    /\ pc[x] = "polling"
    /\ mutex[at[x]] = {}
    /\ IF quorum_reached(at[x], appended_offsets[x][BatchSize])
       THEN /\ Goto(x, "committing")
            /\ offset' = [offset EXCEPT ![x] = first_offset(x)]
       ELSE Goto(x, "quorum_timeout") /\ UNCHANGED offset
    /\ UNCHANGED <<memVars, logVars, commit_index, ackVars, mutex, at, todo, reply,
                   netVars, batchVars>>

\* offset[x] is the loop variable of the loop that commits and broadcasts each
\* appended offset in turn.
handle_batch_produce_commit(x) ==
    /\ pc[x] = "committing"
    /\ mutex[at[x]] = {}
    /\ mark_committed(at[x], offset[x])
    /\ Goto(x, "committed")
    /\ UNCHANGED <<memVars, logVars, ackVars, mutex, at, offset, todo, reply, netVars,
                   batchVars>>

Later(x) == {o \in Range(appended_offsets[x]) : o > offset[x]}

NextOffset_once(x) == Goto(x, "ok") /\ UNCHANGED offset

NextOffset(x) ==
    IF Later(x) = {}
    THEN Goto(x, "ok") /\ UNCHANGED offset
    ELSE Goto(x, "committing") /\ offset' = [offset EXCEPT ![x] = Min(Later(x))]

broadcast_batch_commit_begin(x) ==
    LET b == at[x]
    IN  /\ pc[x] = "committed"
        /\ mutex[b] = {}
        /\ IF is_leader(b)
           THEN /\ Goto(x, "broadcasting")
                /\ mutex' = [mutex EXCEPT ![b] = {x}]
                /\ todo' = [todo EXCEPT ![x] =
                              {p \in Peers(b) : is_peer_available(b, p)}]
                /\ UNCHANGED offset
           ELSE NextOffset(x) /\ UNCHANGED <<mutex, todo>>
        /\ UNCHANGED <<memVars, logVars, commit_index, ackVars, at, reply, netVars,
                       batchVars>>

broadcast_batch_commit_send(x) == broadcast_commit_send(x) /\ UNCHANGED batchVars

broadcast_batch_commit_end(x) ==
    /\ pc[x] = "broadcasting"
    /\ todo[x] = {}
    /\ NextOffset(x)
    /\ mutex' = [mutex EXCEPT ![at[x]] = {}]
    /\ UNCHANGED <<memVars, logVars, commit_index, ackVars, at, todo, reply, netVars,
                   batchVars>>
-----------------------------------------------------------------------------
ServeBatch(x) ==
    \/ handle_batch_produce_append(x)
    \/ replicate_batch_check(x)
    \/ replicate_batch_begin(x)
    \/ replicate_batch_send(x)
    \/ replicate_batch_fail(x)
    \/ replicate_batch_acked(x)
    \/ replicate_batch_end(x)
    \/ wait_for_quorum(x)
    \/ handle_batch_produce_commit(x)
    \/ broadcast_batch_commit_begin(x)
    \/ broadcast_batch_commit_send(x)
    \/ broadcast_batch_commit_end(x)

ServeBatchPeer ==
    \/ \E r \in batch_replicates : handle_batch_replication_check(r)
    \/ \E r \in batch_replicates : handle_batch_replication_append(r)

\* Requests a crashed broker had not finished handling are lost with it.
CrashServer(b) ==
    /\ CrashBroker(b)
    /\ batch_replicates' = {r \in batch_replicates : r.dst # b}
    /\ UNCHANGED appended_offsets

BatchNext ==
    \/ \E x \in Batches, b \in Brokers : handle_batch_produce_admit(x, b)
    \/ \E x \in Batches : ServeBatch(x)
    \/ ServeBatchPeer
    \/ /\ \/ \E m \in Messages \ Batches, b \in Brokers : handle_produce_admit(m, b)
          \/ \E m \in Messages \ Batches : ServeProduce(m)
          \/ ServePeer
          \/ \E b \in Brokers : heartbeat_loop(b)
          \/ \E b, p \in Brokers : handle_heartbeat_request(b, p)
          \/ \E b \in Brokers : RestartBroker(b)
       /\ UNCHANGED batchVars
    \/ \E b \in Brokers : CrashServer(b)

BatchSpec == BatchInit /\ [][BatchNext]_allVars
-----------------------------------------------------------------------------
Records == (Messages \ Batches) \cup (Batches \X (1..BatchSize))

\* Every variable has its type.
BatchTypeOK ==
    /\ MemTypeOK
    /\ log \in [Brokers -> Seq(Records)]
    /\ pc \in [Messages -> Points \cup {"checked", "polling", "committing"}]
    /\ mutex \in [Brokers -> SUBSET Messages]
    /\ appended_offsets \in [Batches -> Seq(Offsets)]
    /\ batch_replicates \in SUBSET [dst : Brokers, message : Batches,
                                    fetch_offset : Offsets, next : 0..BatchSize]

\* With batches and single records replicated side by side, a PRODUCE answered
\* with success still has its record on a majority at the answered offset
\* (README.md:44), although batches count acknowledgements under offsets that
\* may be other requests' records.
SinglesHeldByMajority ==
    \A m \in Messages \ Batches : Acked(m) => Majority(offset[m], m)

\* Every record of a batch answered with success that landed where
\* replicate_batch assumes it did (the first record, and the others as long as
\* no other request's record fell between them) is on a majority at the answered
\* offset.
BatchHeldByMajority ==
    \A x \in Batches : Acked(x) =>
        \A i \in 1..BatchSize :
            appended_offsets[x][i] = first_offset(x) + i - 1 =>
                Majority(appended_offsets[x][i], <<x, i>>)

\* The producer of an answered batch reads all its records back, in order, at
\* the answered offsets from the broker that served it, until that broker
\* restarts (README.md:164: order is kept and every offset is returned).
BatchReadable ==
    \A x \in Batches : Acked(x) /\ at[x] # 0 =>
        \A i \in 1..BatchSize :
            handle_fetch(at[x], appended_offsets[x][i]) = <<<<x, i>>>>

\* The n-th record of b's log, <<x, i>>, is there once and after <<x, i - 1>>.
InPlace(b, n, x, i) ==
    /\ i > 1 => \E k \in 1..(n - 1) : log[b][k] = <<x, i - 1>>
    /\ \A k \in 1..Len(log[b]) : log[b][k] = <<x, i>> => k = n

\* On every replica, followers that refused or cut a batch short included, the
\* log has the records of a batch at most once and in the batch's order, without
\* leaving one out before another.
BatchOrder ==
    \A b \in Brokers, x \in Batches, i \in 1..BatchSize :
        \A n \in 1..Len(log[b]) : log[b][n] = <<x, i>> => InPlace(b, n, x, i)

\* A producer receives success only when a majority of the replicas have
\* acknowledged the write (README.md:44, README.md:184), so every record of an
\* answered batch is on a majority at the offset the answer gives for it.
AckedBatchReplicated ==
    \A x \in Batches : Acked(x) =>
        \A i \in 1..BatchSize : Majority(appended_offsets[x][i], <<x, i>>)
-----------------------------------------------------------------------------
(* The inductive invariant behind SinglesHeldByMajority and                *)
(* BatchHeldByMajority.                                                    *)

Singles == Messages \ Batches

BatchPoints == Points \cup {"checked", "polling", "committing"}
InSession == {"replicating", "waiting"}
Running == BatchPoints \ (Final \cup {"idle"})

BatchTypes ==
    /\ log \in [Brokers -> Seq(Records)]
    /\ \A b \in Brokers : Len(log[b]) <= MaxRecords
    /\ ack_counts \in [Brokers -> [Offsets -> Nat]]
    /\ mutex \in [Brokers -> SUBSET Messages]
    /\ pc \in [Messages -> BatchPoints]
    /\ at \in [Messages -> Brokers \cup {0}]
    /\ offset \in [Messages -> Nat]
    /\ todo \in [Messages -> SUBSET Brokers]
    /\ reply \in [Messages -> {"none", "ack", "refused"}]
    /\ appended_offsets \in [Batches -> Seq(Nat)]
    /\ replicates \in SUBSET [dst : Brokers, message : Singles, fetch_offset : Nat,
                              checked : BOOLEAN]
    /\ batch_replicates \in SUBSET [dst : Brokers, message : Batches,
                                    fetch_offset : Nat, next : 0..BatchSize]

\* p's log has the records of x from its first offset on.
HoldsBatch(p, x) ==
    \A i \in 1..BatchSize : Holds(p, first_offset(x) + i - 1, <<x, i>>)

\* The offset m's acknowledgements are counted under, and who may count there.
Key(m) == IF m \in Batches THEN ack_key(m) ELSE offset[m]
Replica(p, m) == IF m \in Batches THEN HoldsBatch(p, m) ELSE Holds(p, offset[m], m)
Counted(m) == {p \in Brokers \ todo[m] : p = at[m] \/ Replica(p, m)}

\* The records of x that are where replicate_batch assumes them are on a majority.
Landed(x) ==
    \A i \in 1..BatchSize :
        appended_offsets[x][i] = first_offset(x) + i - 1 =>
            Majority(appended_offsets[x][i], <<x, i>>)

\* Where the records of a request's thread are in its broker's log.
SingleAppended(m) == pc[m] \in Running \ {"admitted"} => Holds(at[m], offset[m], m)

BatchAppended(x) ==
    LET done == appended_offsets[x]
    IN  /\ pc[x] = "idle" => done = <<>>
        /\ pc[x] = "admitted" => Len(done) < BatchSize
        /\ pc[x] \in (Running \ {"admitted"}) \cup {"ok"} => Len(done) = BatchSize
        /\ pc[x] \in Running => \A i \in 1..Len(done) :
              Holds(at[x], done[i], <<x, i>>) /\ done[i] >= done[1] + i - 1

\* A thread that replicates or broadcasts has the lock of its broker; it has
\* counted no more brokers than it has visited and found to hold the records.
SessionInv(m) ==
    /\ pc[m] \in InSession \cup {"broadcasting"} => mutex[at[m]] = {m}
    /\ pc[m] \in InSession => ack_counts[at[m]][Key(m)] <= Cardinality(Counted(m))
    /\ pc[m] = "waiting" => todo[m] # {}
    /\ reply[m] = "ack" => pc[m] = "waiting" /\ Replica(Target(m), m)

Settled(m) ==
    IF m \in Batches
    THEN pc[m] \in {"polling", "committing", "committed", "broadcasting", "ok"} => Landed(m)
    ELSE pc[m] \in {"quorum", "committed", "broadcasting", "ok"} => Majority(offset[m], m)

ThreadInv(m) ==
    /\ pc[m] \in Running => at[m] \in Brokers
    /\ IF m \in Batches THEN BatchAppended(m) ELSE SingleAppended(m)
    /\ SessionInv(m)
    /\ Settled(m)

\* A request in flight carries its thread's offset; a follower in the middle of a
\* batch has the records before the next one where they belong.
SingleInFlight(r) ==
    r.fetch_offset = offset[r.message] /\ pc[r.message] \notin {"idle", "admitted"}

BatchInFlight(r) ==
    /\ r.fetch_offset = first_offset(r.message)
    /\ pc[r.message] \notin {"idle", "admitted"}
    /\ \A i \in 1..(r.next - 1) : Holds(r.dst, r.fetch_offset + i - 1, <<r.message, i>>)

InFlight ==
    /\ \A r \in replicates : SingleInFlight(r)
    /\ \A r \in batch_replicates : BatchInFlight(r)

\* What the steps of handle_produce, handle_batch_produce and
\* handle_replication_request together keep: what a thread counts under the
\* lock since it reset the count is on as many brokers, what it appended and
\* was acknowledged is where its offsets say, and a request in flight carries
\* records of its sender's, as many of which are on the follower as it has
\* appended.
BatchInv == BatchTypes /\ (\A m \in Messages : ThreadInv(m)) /\ InFlight
-----------------------------------------------------------------------------
(* The inductive invariant behind BatchOrder, given BatchInv.              *)

Has(b, x, i) == \E n \in 1..Len(log[b]) : log[b][n] = <<x, i>>

\* No record of x can have reached b: its thread has not come to b yet, and b is
\* not the broker the thread runs on.
Unsent(b, x) ==
    \/ pc[x] = "idle"
    \/ pc[x] \in {"admitted", "appended", "checked"} /\ b # at[x]
    \/ pc[x] = "replicating" /\ b \in todo[x]
    \/ pc[x] = "waiting" /\ b \in todo[x] \ {Target(x)}

\* A broker is sent a batch at most once, and the thread that appends a batch, or
\* handles a BATCH_REPLICATE, has appended exactly the records before the next.
OrderInv ==
    /\ \A x \in Batches :
          /\ pc[x] \in InSession => at[x] \notin todo[x]
          /\ pc[x] = "admitted" => \A i \in 1..BatchSize :
                Has(at[x], x, i) => i <= Len(appended_offsets[x])
    /\ \A x \in Batches, b \in Brokers : Unsent(b, x) =>
          /\ \A i \in 1..BatchSize : ~Has(b, x, i)
          /\ \A r \in batch_replicates : r.message = x => r.dst # b
    /\ \A r \in batch_replicates :
          /\ \A i \in 1..BatchSize : Has(r.dst, r.message, i) => i < r.next
          /\ \A s \in batch_replicates :
                s.dst = r.dst /\ s.message = r.message => s = r
    /\ BatchOrder
-----------------------------------------------------------------------------
(* The inductive invariant behind BatchReadable, given BatchInv.           *)

\* The commit index of a live broker has reached every offset that x's thread
\* has marked committed, and the Log of what the thread appended is open.
CommittedByThread(x) ==
    at[x] # 0 =>
        /\ appended_offsets[x] # <<>> => log_open[at[x]]
        /\ pc[x] \in {"committed", "broadcasting"} => offset[x] <= commit_index[at[x]]
        /\ pc[x] = "ok" => \A i \in 1..BatchSize :
              /\ appended_offsets[x][i] <= commit_index[at[x]]
              /\ Holds(at[x], appended_offsets[x][i], <<x, i>>)

CommitInv ==
    /\ commit_index \in [Brokers -> Int]
    /\ log_open \in [Brokers -> BOOLEAN]
    /\ commits \in SUBSET [dst : Brokers, fetch_offset : Nat]
    /\ \A x \in Batches : CommittedByThread(x)
=============================================================================
