--------------------------- MODULE ConsumerGroups ---------------------------
(***************************************************************************)
(* Consumer groups at the leader: ConsumerGroupManager, the group requests *)
(* of Broker that call it, and the part of handle_produce that refreshes   *)
(* the assignments.  Each method of ConsumerGroupManager is atomic (its    *)
(* mutex_); a Broker handler makes several calls, and lists the topic's    *)
(* partitions before it takes that mutex, so handlers interleave.          *)
(*                                                                         *)
(* A topic name is the sequence of its parts between dashes, words or      *)
(* numbers, because StorageEngine keys a log by topic + "-" + partition    *)
(* and partitions_for_topic takes such keys apart again.                   *)
(*                                                                         *)
(* Members commit only offsets they were given by GROUP_FETCH.             *)
(***************************************************************************)
EXTENDS Integers, FiniteSets, SequencesExt

CONSTANTS
    Topics,       \* topic names, as sequences of words and numbers
    Partitions,   \* partition numbers producers use
    Groups,
    Members,      \* member ids, in the order of their names
    Workers,      \* threads of TCPServer's pool, each serving one request
    MaxRecords,   \* bound: records in one partition
    MaxRestarts   \* bound: restarts of the broker

ASSUME ConsumerGroupsAssumption ==
    /\ \A t \in Topics : t \in Seq(ToSet(t))
    /\ Partitions \subseteq Nat /\ IsFiniteSet(Partitions)
    /\ Members \subseteq Nat /\ IsFiniteSet(Members)
    /\ MaxRecords \in Nat /\ MaxRestarts \in Nat

VARIABLES
    logs_,      \* keys of StorageEngine::logs_: the open logs
    records,    \* records[k]: records in the log k, open or not
    committed,  \* committed[k]: offsets below it are committed (FETCH answers)
    groups_,    \* groups_[g]; a group without members is not in the map
    call,       \* call[w]: how far w has got in the request it serves
    received,   \* received[m]: <<g, t, p, o>> that m fetched
    processed,  \* history: those some member has committed
    restarts

logVars == <<logs_, records, committed>>
cgVars == <<logVars, groups_, call, received, processed, restarts>>

make_key(t, p) == Append(t, p)

Keys == {make_key(t, p) : t \in Topics, p \in Partitions}

NoGroup == [topic |-> << >>, members |-> {}, assignments |-> << >>, offsets |-> << >>]

Idle == [op |-> "none"]

Init ==
    /\ logs_ = {}
    /\ records = [k \in Keys |-> 0]
    /\ committed = [k \in Keys |-> 0]
    /\ groups_ = [g \in Groups |-> NoGroup]
    /\ call = [w \in Workers |-> Idle]
    /\ received = [m \in Members |-> {}]
    /\ processed = {}
    /\ restarts = 0
-----------------------------------------------------------------------------
(* StorageEngine::partitions_for_topic.                                    *)

\* The keys that start with topic + "-" and go on with a number; stoi stops
\* at the next dash.
KeysOf(t) ==
    {k \in logs_ : /\ IsStrictPrefix(t, k)
                   /\ k[Len(t) + 1] \in Nat}

\* The sorted vector, as the set of its <<index, number>>.
partitions_for_topic(t) ==
    LET number(k) == k[Len(t) + 1]
        below(q) == {k \in KeysOf(t) : number(k) < q}
        upto(q) == {k \in KeysOf(t) : number(k) <= q}
    IN  UNION {{<<i, q>> : i \in Cardinality(below(q))..(Cardinality(upto(q)) - 1)} :
                  q \in {number(k) : k \in KeysOf(t)}}
-----------------------------------------------------------------------------
(* ConsumerGroupManager.  rebalance_kept and commit_skips are mutations of *)
(* the definitions that follow them, used to test the properties.          *)

rebalance_kept(group, partitions) ==
    LET n == Cardinality(group.members)
        rank(m) == Cardinality({x \in group.members : x < m})
        old(m) == IF m \in DOMAIN group.assignments THEN group.assignments[m] ELSE {}
    IN  [group EXCEPT !.assignments =
            [m \in group.members |-> old(m) \cup
                {x[2] : x \in {y \in partitions : y[1] % n = rank(m)}}]]

\* Round robin over the members in their order.
rebalance(group, partitions) ==
    LET n == Cardinality(group.members)
        rank(m) == Cardinality({x \in group.members : x < m})
    IN  [group EXCEPT !.assignments =
            [m \in group.members |->
                {x[2] : x \in {y \in partitions : y[1] % n = rank(m)}}]]

join(g, m, t, partitions) ==
    LET group == IF groups_[g].members = {}
                 THEN [NoGroup EXCEPT !.topic = t] ELSE groups_[g]
    IN  groups_' = IF group.topic # t THEN groups_
                   ELSE [groups_ EXCEPT ![g] =
                           rebalance([group EXCEPT !.members = @ \cup {m}], partitions)]

\* The topic in the request is not compared with the group's.
leave(g, m, partitions) ==
    LET group == [groups_[g] EXCEPT !.members = @ \ {m}]
    IN  groups_' = [groups_ EXCEPT ![g] =
                      IF group.members = {} THEN NoGroup
                      ELSE rebalance(group, partitions)]

is_assigned(g, m, t, p) ==
    /\ m \in groups_[g].members
    /\ groups_[g].topic = t
    /\ p \in groups_[g].assignments[m]

next_offset(g, t, p) ==
    IF groups_[g].topic = t /\ p \in DOMAIN groups_[g].offsets
    THEN groups_[g].offsets[p] ELSE 0

commit_skips(g, m, t, p, o) ==
    IF is_assigned(g, m, t, p)
    THEN groups_' = [groups_ EXCEPT ![g].offsets =
                       [q \in DOMAIN @ \cup {p} |->
                          IF q = p THEN Max({next_offset(g, t, p), o + 2}) ELSE @[q]]]
    ELSE UNCHANGED groups_

commit(g, m, t, p, o) ==
    IF is_assigned(g, m, t, p)
    THEN groups_' = [groups_ EXCEPT ![g].offsets =
                       [q \in DOMAIN @ \cup {p} |->
                          IF q = p THEN Max({next_offset(g, t, p), o + 1}) ELSE @[q]]]
    ELSE UNCHANGED groups_

refresh_topic(t, partitions) ==
    groups_' = [g \in Groups |-> IF groups_[g].members # {} /\ groups_[g].topic = t
                                 THEN rebalance(groups_[g], partitions)
                                 ELSE groups_[g]]
-----------------------------------------------------------------------------
(* Broker's handlers, each served by a worker w.  A member may have more   *)
(* than one request under way, on several connections.                     *)

Serve(w, c) == call' = [call EXCEPT ![w] = c]

Served(w) == Serve(w, Idle)

\* handle_produce: the append, which opens the log ...
handle_produce_append(w, t, p) ==
    LET k == make_key(t, p)
    IN  /\ call[w] = Idle
        /\ records[k] < MaxRecords
        /\ logs_' = logs_ \cup {k}
        /\ records' = [records EXCEPT ![k] = @ + 1]
        /\ Serve(w, [op |-> "appended", topic |-> t, key |-> k, offset |-> records[k]])
        /\ UNCHANGED <<committed, groups_, received, processed, restarts>>

\* ... the listing of the topic's partitions ...
handle_produce_list(w) ==
    LET c == call[w]
    IN  /\ c.op = "appended"
        /\ Serve(w, [op |-> "listed", topic |-> c.topic, key |-> c.key,
                     offset |-> c.offset, partitions |-> partitions_for_topic(c.topic)])
        /\ UNCHANGED <<logVars, groups_, received, processed, restarts>>

\* ... refresh_topic ...
handle_produce_refresh(w) ==
    LET c == call[w]
    IN  /\ c.op = "listed"
        /\ refresh_topic(c.topic, c.partitions)
        /\ Serve(w, [op |-> "refreshed", key |-> c.key, offset |-> c.offset])
        /\ UNCHANGED <<logVars, received, processed, restarts>>

\* ... and the replication, of which only the outcome is seen here: the offset
\* is marked committed, or the record stays in the log uncommitted.
handle_produce_replicate(w) ==
    LET c == call[w]
    IN  /\ c.op = "refreshed"
        /\ \/ committed' = [committed EXCEPT ![c.key] = Max({@, c.offset + 1})]
           \/ UNCHANGED committed
        /\ Served(w)
        /\ UNCHANGED <<logs_, records, groups_, received, processed, restarts>>

\* A topic without open logs is answered topic_not_found.
handle_join_group(w, g, m, t) ==
    /\ call[w] = Idle
    /\ partitions_for_topic(t) # {}
    /\ Serve(w, [op |-> "join", group |-> g, member |-> m, topic |-> t,
                 partitions |-> partitions_for_topic(t)])
    /\ UNCHANGED <<logVars, groups_, received, processed, restarts>>

handle_join_group_locked(w) ==
    LET c == call[w]
    IN  /\ c.op = "join"
        /\ join(c.group, c.member, c.topic, c.partitions)
        /\ Served(w)
        /\ UNCHANGED <<logVars, received, processed, restarts>>

handle_leave_group(w, g, m, t) ==
    /\ call[w] = Idle
    /\ Serve(w, [op |-> "leave", group |-> g, member |-> m,
                 partitions |-> partitions_for_topic(t)])
    /\ UNCHANGED <<logVars, groups_, received, processed, restarts>>

handle_leave_group_locked(w) ==
    LET c == call[w]
    IN  /\ c.op = "leave"
        /\ leave(c.group, c.member, c.partitions)
        /\ Served(w)
        /\ UNCHANGED <<logVars, received, processed, restarts>>

\* handle_group_fetch: is_assigned ...
handle_group_fetch(w, g, m, t, p) ==
    /\ call[w] = Idle
    /\ is_assigned(g, m, t, p)
    /\ Serve(w, [op |-> "fetch", group |-> g, member |-> m, topic |-> t,
                 partition |-> p])
    /\ UNCHANGED <<logVars, groups_, received, processed, restarts>>

\* ... next_offset ...
handle_group_fetch_offset(w) ==
    LET c == call[w]
        o == next_offset(c.group, c.topic, c.partition)
    IN  /\ c.op = "fetch"
        /\ Serve(w, [op |-> "read", member |-> c.member,
                     record |-> <<c.group, c.topic, c.partition, o>>])
        /\ UNCHANGED <<logVars, groups_, received, processed, restarts>>

\* ... and handle_fetch, which finds the record or answers with an error.
handle_group_fetch_read(w) ==
    LET c == call[w]
        k == make_key(c.record[2], c.record[3])
    IN  /\ c.op = "read"
        /\ received' = IF k \in logs_ /\ c.record[4] < committed[k]
                       THEN [received EXCEPT ![c.member] = @ \cup {c.record}]
                       ELSE received
        /\ Served(w)
        /\ UNCHANGED <<logVars, groups_, processed, restarts>>

\* A request with a single call, which needs no state of its own.
handle_commit_offset(m, r) ==
    /\ commit(r[1], m, r[2], r[3], r[4])
    /\ processed' = IF is_assigned(r[1], m, r[2], r[3])
                    THEN processed \cup {r} ELSE processed
    /\ UNCHANGED <<logVars, call, received, restarts>>

\* The broker's memory is lost; its log files are not, but no log is open and
\* nothing is committed until the next PRODUCE.
restart ==
    /\ restarts < MaxRestarts
    /\ restarts' = restarts + 1
    /\ logs_' = {}
    /\ committed' = [k \in Keys |-> 0]
    /\ groups_' = [g \in Groups |-> NoGroup]
    /\ call' = [w \in Workers |-> Idle]
    /\ UNCHANGED <<records, received, processed>>

Produce(w) ==
    \/ \E t \in Topics, p \in Partitions : handle_produce_append(w, t, p)
    \/ handle_produce_list(w)
    \/ handle_produce_refresh(w)
    \/ handle_produce_replicate(w)

GroupRequest(w) ==
    \/ \E g \in Groups, m \in Members, t \in Topics :
          \/ handle_join_group(w, g, m, t)
          \/ handle_leave_group(w, g, m, t)
          \/ \E p \in Partitions : handle_group_fetch(w, g, m, t, p)
    \/ handle_join_group_locked(w)
    \/ handle_leave_group_locked(w)
    \/ handle_group_fetch_offset(w)
    \/ handle_group_fetch_read(w)

Next ==
    \/ \E w \in Workers : Produce(w) \/ GroupRequest(w)
    \/ \E m \in Members : \E r \in received[m] : handle_commit_offset(m, r)
    \/ restart

Spec == Init /\ [][Next]_cgVars
-----------------------------------------------------------------------------
\* A group has its members' assignments and no others, and cursors stay within
\* what the partitions hold.
TypeOK ==
    /\ logs_ \subseteq Keys
    /\ records \in [Keys -> 0..MaxRecords]
    /\ \A k \in Keys : committed[k] \in 0..records[k]
    /\ \A g \in Groups :
          LET group == groups_[g]
          IN  /\ group.members \subseteq Members
              /\ group.members # {} => group.topic \in Topics
              /\ DOMAIN group.assignments = group.members
              /\ \A m \in group.members : group.assignments[m] \subseteq Nat
              /\ \A p \in DOMAIN group.offsets :
                    group.offsets[p] \in 1..records[make_key(group.topic, p)]

\* A partition is assigned to at most one member of a group at a time, whatever
\* listings the interleaved handlers carry (consumer_group_manager.h:11-12).
AtMostOneOwner ==
    \A g \in Groups : \A m, n \in groups_[g].members :
        m # n => groups_[g].assignments[m] \cap groups_[g].assignments[n] = {}

\* At-least-once delivery: a group's cursor never passes an offset that no
\* member of the group has fetched and committed, across rebalances, groups
\* that empty and start again, and restarts (README.md:13 and :176).
AtLeastOnce ==
    \A g \in Groups : \A p \in DOMAIN groups_[g].offsets :
        \A o \in 0..(groups_[g].offsets[p] - 1) :
            <<g, groups_[g].topic, p, o>> \in processed
-----------------------------------------------------------------------------
(* The inductive invariants behind these.                                  *)

\* No topic's name followed by a dash and a number begins another topic's keys.
TopicsApart ==
    \A t, u \in Topics, p \in Partitions :
        IsStrictPrefix(t, make_key(u, p)) /\ make_key(u, p)[Len(t) + 1] \in Nat
            => t = u

\* A listing names every partition once.
NamesOnce(partitions) == \A x, y \in partitions : x[2] = y[2] => x = y

GroupFields == {"topic", "members", "assignments", "offsets"}

OwnerInv ==
    /\ logs_ \subseteq Keys
    /\ DOMAIN groups_ = Groups /\ DOMAIN call = Workers
    /\ \A g \in Groups : /\ DOMAIN groups_[g] = GroupFields
                         /\ groups_[g].members \subseteq Members
    /\ \A w \in Workers :
          /\ call[w].op = "appended" => call[w].topic \in Topics
          /\ call[w].op \in {"listed", "join", "leave"} => NamesOnce(call[w].partitions)
          /\ call[w].op \in {"join", "leave"} =>
                call[w].group \in Groups /\ call[w].member \in Members
    /\ AtMostOneOwner

\* Some member of the group has committed every offset below r's.
Reached(r) == \A o \in 0..(r[4] - 1) : <<r[1], r[2], r[3], o>> \in processed

Records == Groups \X Topics \X Partitions \X Nat

CursorInv ==
    /\ DOMAIN groups_ = Groups /\ DOMAIN call = Workers /\ DOMAIN received = Members
    /\ \A g \in Groups :
          /\ DOMAIN groups_[g] = GroupFields
          /\ \A p \in DOMAIN groups_[g].offsets : groups_[g].offsets[p] \in Nat
    /\ \A w \in Workers :
          /\ call[w].op = "join" => call[w].group \in Groups
          /\ call[w].op = "leave" => call[w].group \in Groups
          /\ call[w].op = "fetch" =>
                /\ call[w].group \in Groups /\ call[w].topic \in Topics
                /\ call[w].partition \in Partitions /\ call[w].member \in Members
          /\ call[w].op = "read" =>
                /\ call[w].record \in Records /\ call[w].member \in Members
                /\ Reached(call[w].record)
    /\ \A m \in Members : \A r \in received[m] : r \in Records /\ Reached(r)
    /\ AtLeastOnce

\* Some record of the log has r's offset.
Stored(r) == r[4] < records[make_key(r[2], r[3])]

\* Together with CursorInv, inductive behind TypeOK: the offsets a PRODUCE still
\* carries, and those members hold, lie within logs that only grow.
StoredInv ==
    /\ TypeOK
    /\ DOMAIN committed = Keys
    /\ \A g \in Groups :
          /\ groups_[g].members = {} => groups_[g].offsets = << >>
          /\ DOMAIN groups_[g].offsets \subseteq Partitions
    /\ \A w \in Workers :
          LET c == call[w]
          IN  /\ c.op \in {"appended", "listed", "refreshed"} =>
                    c.key \in Keys /\ c.offset \in Nat /\ c.offset < records[c.key]
              /\ c.op \in {"listed", "join", "leave"} => \A x \in c.partitions : x[2] \in Nat
              /\ c.op = "join" => c.member \in Members /\ c.topic \in Topics
    /\ \A m \in Members : \A r \in received[m] : Stored(r)
=============================================================================
