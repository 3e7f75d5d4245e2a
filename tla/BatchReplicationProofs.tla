----------------------- MODULE BatchReplicationProofs -----------------------
(***************************************************************************)
(* The safety of PRODUCE and BATCH_PRODUCE side by side, for every set of  *)
(* brokers and of requests, every batch size and every bound: BatchInv is  *)
(* inductive.  First come lemmas on logs that only grow, then the steps of *)
(* a thread after its appends, then the appends, the followers, crashes    *)
(* and the rest.  What follows from BatchInv comes last: the records of a  *)
(* batch are in order on every replica (OrderInv), an answered batch can   *)
(* be read back (CommitInv), and every variable keeps its type.            *)
(***************************************************************************)
EXTENDS BatchReplication, ReplicationProofs

\* Log::append only ever adds to the end of a log.
Grows ==
    \A b \in Brokers, o \in Nat :
        o < Len(log[b]) => o < Len(log'[b]) /\ log'[b][o + 1] = log[b][o + 1]

\* What a record appended to a log changes: one more record, at the end.
LEMMA RecordAppended ==
    ASSUME BatchTypes, NEW b \in Brokers, NEW e \in Records, append(b, e)
    PROVE  /\ log' \in [Brokers -> Seq(Records)]
           /\ \A c \in Brokers : Len(log'[c]) <= MaxRecords
           /\ Grows
           /\ Len(log[b]) \in Offsets
           /\ \A o \in Nat : o = Len(log[b]) => Holds(b, o, e)'
  <1>1. log[b] \in Seq(Records) /\ Len(log[b]) \in Nat
    BY DEF BatchTypes
  <1>2. log'[b] = Append(log[b], e) /\ \A c \in Brokers : c # b => log'[c] = log[c]
    BY Zenon DEF append, BatchTypes
  <1>3. /\ Append(log[b], e) \in Seq(Records)
        /\ Len(Append(log[b], e)) = Len(log[b]) + 1
        /\ \A i \in 1..Len(log[b]) : Append(log[b], e)[i] = log[b][i]
        /\ Append(log[b], e)[Len(log[b]) + 1] = e
    BY <1>1
  <1>4. /\ Len(log'[b]) = Len(log[b]) + 1
        /\ \A i \in 1..Len(log[b]) : log'[b][i] = log[b][i]
    BY <1>2, <1>3, Zenon
  <1>5. log' \in [Brokers -> Seq(Records)]
    BY <1>3, Zenon DEF append, BatchTypes
  <1>6. \A c \in Brokers : Len(log'[c]) <= MaxRecords
    BY <1>1, <1>2, <1>3, ReplicationAssumption DEF append, BatchTypes
  <1>7. Grows
    <2>. SUFFICES ASSUME NEW c \in Brokers, NEW o \in Nat, o < Len(log[c])
                  PROVE  o < Len(log'[c]) /\ log'[c][o + 1] = log[c][o + 1]
      BY Zenon DEF Grows
    <2>1. CASE c = b
      BY <1>1, <1>4, <2>1
    <2>2. CASE c # b
      BY <1>2, <2>2, Zenon
    <2>. QED  BY <2>1, <2>2, Zenon
  <1>8. Len(log[b]) \in Offsets
    BY <1>1, ReplicationAssumption DEF append, Offsets
  <1>9. \A o \in Nat : o = Len(log[b]) => Holds(b, o, e)'
    BY <1>1, <1>2, <1>3 DEF Holds
  <1>. QED  BY <1>5, <1>6, <1>7, <1>8, <1>9, Zenon

\* Records, and majorities that hold one, stay.
LEMMA HoldsStays ==
    ASSUME Grows
    PROVE  /\ \A p \in Brokers, o \in Nat : \A e : Holds(p, o, e) => Holds(p, o, e)'
           /\ \A o \in Nat : \A e : Majority(o, e) => Majority(o, e)'
  <1>1. \A p \in Brokers, o \in Nat : \A e : Holds(p, o, e) => Holds(p, o, e)'
    BY Zenon DEF Grows, Holds
  <1>2. ASSUME NEW o \in Nat, NEW e, Majority(o, e)
        PROVE  Majority(o, e)'
    <2>1. Holders(o, e) \subseteq Holders(o, e)' /\ Holders(o, e)' \subseteq Brokers
      BY <1>1, Zenon DEF Holders
    <2>. QED  BY <1>2, <2>1, LargerMajority, Zenon DEF Majority, Quorum
  <1>. QED  BY <1>1, <1>2, Zenon

\* Where a batch whose records have all been appended starts.
LEMMA FirstOffset ==
    ASSUME BatchTypes, NEW x \in Batches, Len(appended_offsets[x]) = BatchSize
    PROVE  /\ first_offset(x) \in Nat
           /\ \A i \in 1..BatchSize : appended_offsets[x][i] \in Nat
           /\ 1 \in 1..BatchSize /\ BatchSize \in 1..BatchSize
  <1>1. BatchSize \in Nat /\ BatchSize >= 1
    BY BatchAssumption
  <1>2. appended_offsets[x] \in Seq(Nat)
    BY Zenon DEF BatchTypes
  <1>3. \A i \in 1..BatchSize : appended_offsets[x][i] \in Nat
    BY <1>1, <1>2
  <1>. QED  BY <1>1, <1>3 DEF first_offset

\* Whoever holds the records of a replicated request goes on holding them.
LEMMA ReplicaStays ==
    ASSUME BatchTypes, Grows, NEW m \in Messages, ThreadInv(m),
           pc[m] \in Running \ {"admitted"}, offset'[m] = offset[m],
           m \in Batches => appended_offsets'[m] = appended_offsets[m]
    PROVE  \A p \in Brokers : Replica(p, m) => Replica(p, m)'
  <1>1. CASE m \notin Batches
    <2>1. offset[m] \in Nat
      BY Zenon DEF BatchTypes
    <2>. QED  BY <1>1, <2>1, Zenon DEF Replica, Holds, Grows
  <1>2. CASE m \in Batches
    <2>1. Len(appended_offsets[m]) = BatchSize
      BY <1>2, Zenon DEF ThreadInv, BatchAppended
    <2>2. first_offset(m) \in Nat /\ first_offset(m)' = first_offset(m)
      BY <1>2, <2>1, FirstOffset, Zenon DEF first_offset
    <2>3. ASSUME NEW p \in Brokers, HoldsBatch(p, m), NEW i \in 1..BatchSize
          PROVE  Holds(p, first_offset(m) + i - 1, <<m, i>>)'
      <3>1. i \in Nat /\ i >= 1 /\ first_offset(m) + i - 1 \in Nat
        BY <2>2, BatchAssumption
      <3>2. Holds(p, first_offset(m) + i - 1, <<m, i>>)
        BY <2>3, Zenon DEF HoldsBatch
      <3>. QED  BY <2>2, <3>1, <3>2, Zenon DEF Holds, Grows
    <2>. QED  BY <1>2, <2>3, Zenon DEF Replica, HoldsBatch
  <1>. QED  BY <1>1, <1>2, Zenon

\* A batch's records that are on a majority stay on one.
LEMMA LandedStays ==
    ASSUME BatchTypes, Grows, NEW x \in Batches, Len(appended_offsets[x]) = BatchSize,
           appended_offsets'[x] = appended_offsets[x], Landed(x)
    PROVE  Landed(x)'
  <1>. SUFFICES ASSUME NEW i \in 1..BatchSize,
                       appended_offsets'[x][i] = first_offset(x)' + i - 1
                PROVE  Majority(appended_offsets[x][i], <<x, i>>)'
    BY Zenon DEF Landed
  <1>1. appended_offsets[x][i] \in Nat /\ first_offset(x)' = first_offset(x)
    BY FirstOffset, Zenon DEF first_offset
  <1>2. Majority(appended_offsets[x][i], <<x, i>>)
    BY <1>1, Zenon DEF Landed
  <1>3. \A o \in Nat : Majority(o, <<x, i>>) => Majority(o, <<x, i>>)'
    BY HoldsStays, Zenon
  <1>4. PICK o \in Nat : o = appended_offsets[x][i]
    BY <1>1, Zenon
  <1>5. Majority(o, <<x, i>>)'
    BY <1>2, <1>3, <1>4, Zenon
  <1>6. appended_offsets[x][i]' = o
    BY <1>4, Zenon
  <1>. QED  BY <1>5, <1>6, Zenon

\* The brokers a thread may have counted can only become more.
LEMMA CountedStays ==
    ASSUME BatchTypes, Grows, NEW m \in Messages, ThreadInv(m),
           pc[m] \in Running \ {"admitted"}, offset'[m] = offset[m], at'[m] = at[m],
           m \in Batches => appended_offsets'[m] = appended_offsets[m],
           todo'[m] \subseteq todo[m]
    PROVE  /\ Counted(m) \subseteq Counted(m)'
           /\ Cardinality(Counted(m)) \in Nat /\ Cardinality(Counted(m)') \in Nat
           /\ Cardinality(Counted(m)) <= Cardinality(Counted(m)')
           /\ IsFiniteSet(Counted(m)')
  <1>1. Counted(m) \subseteq Counted(m)'
    BY ReplicaStays, Zenon DEF Counted
  <1>2. Counted(m)' \subseteq Brokers
    BY Zenon DEF Counted
  <1>. QED  BY <1>1, <1>2, BrokersAssumption, FS_Subset, FS_CardinalityType, Zenon

\* Acknowledgements are counted under an offset of the leader's log.
LEMMA KeyInRange ==
    ASSUME BatchTypes, NEW m \in Messages, ThreadInv(m), pc[m] \in Running \ {"admitted"}
    PROVE  /\ at[m] \in Brokers /\ Key(m) \in Offsets
           /\ ack_counts[at[m]][Key(m)] \in Nat
  <1>1. at[m] \in Brokers
    BY Zenon DEF ThreadInv
  <1>2. Key(m) \in Offsets
    <2>1. Len(log[at[m]]) \in Nat /\ Len(log[at[m]]) <= MaxRecords /\ MaxRecords \in Nat
      BY <1>1, ReplicationAssumption DEF BatchTypes
    <2>2. CASE m \notin Batches
      BY <2>1, <2>2 DEF Key, Offsets, ThreadInv, SingleAppended, Holds, BatchTypes
    <2>3. CASE m \in Batches
      <3>1. Len(appended_offsets[m]) = BatchSize
        BY <2>3, Zenon DEF ThreadInv, BatchAppended
      <3>2. /\ first_offset(m) \in Nat /\ appended_offsets[m][BatchSize] \in Nat
            /\ BatchSize \in 1..BatchSize
        BY <2>3, <3>1, FirstOffset, Zenon
      <3>3. /\ Holds(at[m], appended_offsets[m][BatchSize], <<m, BatchSize>>)
            /\ appended_offsets[m][BatchSize] >= first_offset(m) + BatchSize - 1
        BY <2>3, <3>1, <3>2, Zenon DEF ThreadInv, BatchAppended, first_offset
      <3>. QED  BY <2>1, <2>3, <3>2, <3>3, BatchAssumption DEF Key, ack_key, Offsets, Holds
    <2>. QED  BY <2>2, <2>3, Zenon
  <1>. QED  BY <1>1, <1>2, Zenon DEF BatchTypes

\* The peer a loop over the peers stands at is one of those it has still to visit.
LEMMA TargetInTodo ==
    ASSUME BatchTypes, NEW m \in Messages, todo[m] # {}
    PROVE  Target(m) \in todo[m] /\ Target(m) \in Brokers
  <1>1. todo[m] \in SUBSET Nat /\ todo[m] \subseteq Brokers
    BY BrokersAssumption, Zenon DEF BatchTypes
  <1>. QED  BY <1>1, MinOfNats, Zenon DEF Target

\* A step that leaves a request's thread alone, and the lock and the counts of its
\* broker if the thread has the lock, keeps what is known of the thread.
LEMMA ThreadKept ==
    ASSUME BatchTypes, Grows, NEW m \in Messages, ThreadInv(m),
           pc'[m] = pc[m], at'[m] = at[m], offset'[m] = offset[m], todo'[m] = todo[m],
           m \in Batches => appended_offsets'[m] = appended_offsets[m],
           \/ reply'[m] = reply[m] \/ reply'[m] # "ack"
           \/ pc[m] = "waiting" /\ Replica(Target(m), m)',
           pc[m] \in InSession \cup {"broadcasting"} =>
              /\ mutex'[at[m]] = mutex[at[m]]
              /\ ack_counts'[at[m]] = ack_counts[at[m]]
    PROVE  ThreadInv(m)'
  <1>1. (pc[m] \in Running => at[m] \in Brokers)'
    BY Zenon DEF ThreadInv
  <1>2. m \notin Batches => SingleAppended(m)'
    BY ZenonT(40) DEF BatchTypes, ThreadInv, SingleAppended, Holds, Grows
  <1>3. ASSUME m \in Batches PROVE BatchAppended(m)'
    <2>1. /\ BatchAppended(m)
          /\ appended_offsets'[m] = appended_offsets[m]
          /\ appended_offsets[m] \in Seq(Nat)
      BY <1>3, Zenon DEF ThreadInv, BatchTypes
    <2>2. ASSUME pc[m] \in Running, NEW i \in 1..Len(appended_offsets[m])
          PROVE  /\ Holds(at[m], appended_offsets[m][i], <<m, i>>)'
                 /\ appended_offsets[m][i] >= appended_offsets[m][1] + i - 1
      <3>1. /\ Holds(at[m], appended_offsets[m][i], <<m, i>>)
            /\ appended_offsets[m][i] >= appended_offsets[m][1] + i - 1
        BY <2>1, <2>2, Zenon DEF BatchAppended
      <3>2. appended_offsets[m][i] \in Nat /\ at[m] \in Brokers
        BY <2>1, <2>2 DEF ThreadInv
      <3>. QED  BY <2>1, <3>1, <3>2, Zenon DEF Holds, Grows
    <2>. QED  BY <2>1, <2>2, Zenon DEF BatchAppended
  <1>4. Settled(m)'
    <2>1. CASE m \notin Batches
      <3>1. PICK o \in Nat : o = offset[m]
        BY Zenon DEF BatchTypes
      <3>2. Majority(o, m) => Majority(o, m)'
        BY HoldsStays, Zenon
      <3>3. offset[m]' = o
        BY <3>1, Zenon
      <3>4. Majority(offset[m], m) => Majority(offset[m], m)'
        BY <3>1, <3>2, <3>3, Zenon
      <3>. QED  BY <2>1, <3>4, Zenon DEF ThreadInv, Settled
    <2>2. CASE m \in Batches
      <3>. SUFFICES ASSUME pc[m] \in {"polling", "committing", "committed",
                                      "broadcasting", "ok"}
                    PROVE  Landed(m)'
        BY <2>2, Zenon DEF Settled
      <3>1. Landed(m) /\ Len(appended_offsets[m]) = BatchSize
        BY <2>2, Zenon DEF ThreadInv, Settled, BatchAppended, Running, BatchPoints, Points,
                    Final, Failures
      <3>. QED  BY <2>2, <3>1, LandedStays, Zenon
    <2>. QED  BY <2>1, <2>2, Zenon
  <1>5. SessionInv(m)'
    <2>1. ASSUME pc[m] \in InSession
          PROVE  ack_counts'[at[m]][Key(m)'] <= Cardinality(Counted(m)')
      <3>1. pc[m] \in Running \ {"admitted"}
        BY <2>1, Zenon DEF InSession, Running, BatchPoints, Points, Final, Failures
      <3>2. Key(m)' = Key(m)
        BY Zenon DEF Key, ack_key, first_offset
      <3>3. /\ Cardinality(Counted(m)) \in Nat /\ Cardinality(Counted(m)') \in Nat
            /\ Cardinality(Counted(m)) <= Cardinality(Counted(m)')
        BY <3>1, CountedStays, Zenon
      <3>4. ack_counts[at[m]][Key(m)] <= Cardinality(Counted(m))
        BY <2>1, Zenon DEF ThreadInv, SessionInv
      <3>5. ack_counts[at[m]][Key(m)] \in Nat
        BY <3>1, KeyInRange, Zenon
      <3>. QED  BY <2>1, <3>2, <3>3, <3>4, <3>5
    <2>2. ASSUME reply'[m] = "ack"
          PROVE  pc[m] = "waiting" /\ Replica(Target(m), m)'
      <3>1. CASE reply'[m] = reply[m]
        <4>1. pc[m] = "waiting" /\ Replica(Target(m), m) /\ todo[m] # {}
          BY <2>2, <3>1, Zenon DEF ThreadInv, SessionInv
        <4>2. Target(m)' = Target(m) /\ Target(m) \in Brokers
          BY <4>1, TargetInTodo, Zenon DEF Target
        <4>. QED  BY <4>1, <4>2, ReplicaStays, Zenon
                  DEF Running, BatchPoints, Points, Final, Failures
      <3>. QED  BY <2>2, <3>1, Zenon
    <2>. QED  BY <2>1, <2>2, Zenon DEF ThreadInv, SessionInv
  <1>. QED  BY <1>1, <1>2, <1>3, <1>4, <1>5, Zenon DEF ThreadInv

\* What a step of the thread that serves m leaves alone: the other threads, and
\* the locks and counts of every broker but m's; these too, unless m's thread has
\* its broker's lock or finds it free.
ThreadFrame(m) ==
    /\ \A n \in Messages \ {m} :
          /\ pc'[n] = pc[n] /\ at'[n] = at[n] /\ offset'[n] = offset[n]
          /\ todo'[n] = todo[n] /\ reply'[n] = reply[n]
          /\ n \in Batches => appended_offsets'[n] = appended_offsets[n]
    /\ \/ UNCHANGED <<mutex, ack_counts>>
       \/ /\ mutex[at[m]] \in {{}, {m}}
          /\ \A b \in Brokers \ {at[m]} :
                mutex'[b] = mutex[b] /\ ack_counts'[b] = ack_counts[b]

\* The other threads' part of BatchInv survives a step of m's thread.
LEMMA OthersKept ==
    ASSUME BatchInv, Grows, NEW m \in Messages, ThreadFrame(m),
           NEW n \in Messages, n # m
    PROVE  ThreadInv(n)'
  <1>1. /\ BatchTypes /\ ThreadInv(n)
        /\ pc'[n] = pc[n] /\ at'[n] = at[n] /\ offset'[n] = offset[n]
        /\ todo'[n] = todo[n] /\ reply'[n] = reply[n]
        /\ n \in Batches => appended_offsets'[n] = appended_offsets[n]
    BY Zenon DEF BatchInv, ThreadFrame
  <1>2. ASSUME pc[n] \in InSession \cup {"broadcasting"}
        PROVE  mutex'[at[n]] = mutex[at[n]] /\ ack_counts'[at[n]] = ack_counts[at[n]]
    <2>1. mutex[at[n]] = {n} /\ at[n] \in Brokers
      BY <1>1, <1>2, Zenon DEF ThreadInv, SessionInv, InSession, Running, BatchPoints, Points,
                        Final, Failures
    <2>2. CASE UNCHANGED <<mutex, ack_counts>>
      BY <2>2, Zenon
    <2>3. CASE mutex[at[m]] \in {{}, {m}}
      <3>1. at[n] # at[m]
        BY <2>1, <2>3, Zenon
      <3>. QED  BY <2>1, <3>1, Zenon DEF ThreadFrame
    <2>. QED  BY <2>2, <2>3, Zenon DEF ThreadFrame
  <1>. QED  BY <1>1, <1>2, ThreadKept, Zenon

\* Requests in flight keep their offsets while their threads go on.
LEMMA FlightKept ==
    ASSUME BatchInv, Grows,
           \A n \in Messages : pc[n] \notin {"idle", "admitted"} =>
              /\ pc'[n] \notin {"idle", "admitted"}
              /\ n \notin Batches => offset'[n] = offset[n]
              /\ n \in Batches => appended_offsets'[n] = appended_offsets[n]
    PROVE  /\ \A r \in replicates : SingleInFlight(r)'
           /\ \A r \in batch_replicates : BatchInFlight(r)'
  <1>1. ASSUME NEW r \in replicates PROVE SingleInFlight(r)'
    <2>1. r.message \in Messages /\ r.message \notin Batches /\ SingleInFlight(r)
      BY <1>1, Zenon DEF BatchInv, BatchTypes, InFlight, Singles
    <2>. QED  BY <2>1, Zenon DEF SingleInFlight
  <1>2. ASSUME NEW r \in batch_replicates PROVE BatchInFlight(r)'
    <2>1. /\ r.message \in Messages /\ r.message \in Batches /\ BatchInFlight(r)
          /\ r.dst \in Brokers /\ r.fetch_offset \in Nat /\ r.next \in 0..BatchSize
      BY <1>2, BatchAssumption, Zenon DEF BatchInv, BatchTypes, InFlight
    <2>2. ASSUME NEW i \in 1..(r.next - 1)
          PROVE  Holds(r.dst, r.fetch_offset + i - 1, <<r.message, i>>)'
      <3>1. r.fetch_offset + i - 1 \in Nat
        BY <2>1, BatchAssumption
      <3>2. Holds(r.dst, r.fetch_offset + i - 1, <<r.message, i>>)
        BY <2>1, Zenon DEF BatchInFlight
      <3>. QED  BY <2>1, <3>1, <3>2, Zenon DEF Holds, Grows
    <2>. QED  BY <2>1, <2>2, Zenon DEF BatchInFlight, first_offset
  <1>. QED  BY <1>1, <1>2, Zenon

\* A step of m's thread keeps BatchInv if it keeps the part about m's thread and
\* what is in flight.
LEMMA OneThreadSteps ==
    ASSUME BatchInv, Grows, NEW m \in Messages, ThreadFrame(m),
           BatchTypes', ThreadInv(m)', InFlight'
    PROVE  BatchInv'
  <1>1. ASSUME NEW n \in Messages PROVE ThreadInv(n)'
    <2>1. CASE n = m
      BY <2>1, Zenon
    <2>2. CASE n # m
      BY <2>2, OthersKept, Zenon
    <2>. QED  BY <2>1, <2>2, Zenon
  <1>. QED  BY <1>1, Zenon DEF BatchInv

\* A thread past its appends goes on knowing where its records are.
LEMMA PlaceKept ==
    ASSUME BatchTypes, Grows, NEW m \in Messages, ThreadInv(m),
           pc[m] \in Running \ {"admitted"}, pc'[m] \notin {"idle", "admitted"},
           at'[m] = at[m],
           m \notin Batches => offset'[m] = offset[m],
           m \in Batches => appended_offsets'[m] = appended_offsets[m]
    PROVE  /\ (pc[m] \in Running => at[m] \in Brokers)'
           /\ m \notin Batches => SingleAppended(m)'
           /\ m \in Batches => BatchAppended(m)'
  <1>1. at[m] \in Brokers
    BY Zenon DEF ThreadInv
  <1>2. ASSUME m \notin Batches PROVE SingleAppended(m)'
    <2>1. Holds(at[m], offset[m], m) /\ offset[m] \in Nat
      BY <1>2, Zenon DEF ThreadInv, SingleAppended, BatchTypes
    <2>. QED  BY <1>1, <1>2, <2>1, Zenon DEF SingleAppended, Holds, Grows
  <1>3. ASSUME m \in Batches PROVE BatchAppended(m)'
    <2>1. /\ BatchAppended(m) /\ Len(appended_offsets[m]) = BatchSize
          /\ appended_offsets'[m] = appended_offsets[m]
          /\ appended_offsets[m] \in Seq(Nat)
      BY <1>3, Zenon DEF ThreadInv, BatchAppended, BatchTypes
    <2>2. ASSUME NEW i \in 1..Len(appended_offsets[m])
          PROVE  /\ Holds(at[m], appended_offsets[m][i], <<m, i>>)'
                 /\ appended_offsets[m][i] >= appended_offsets[m][1] + i - 1
      <3>1. /\ Holds(at[m], appended_offsets[m][i], <<m, i>>)
            /\ appended_offsets[m][i] >= appended_offsets[m][1] + i - 1
        BY <2>1, <2>2, Zenon DEF BatchAppended
      <3>2. appended_offsets[m][i] \in Nat
        BY <2>1, <2>2
      <3>. QED  BY <1>1, <2>1, <3>1, <3>2, Zenon DEF Holds, Grows
    <2>. QED  BY <2>1, <2>2, Zenon DEF BatchAppended
  <1>. QED  BY <1>1, <1>2, <1>3, Zenon

\* A count that reaches the quorum at the end of a session is a majority that
\* holds the records.
LEMMA QuorumHolds ==
    ASSUME BatchTypes, NEW m \in Messages, ThreadInv(m), pc[m] = "replicating",
           ack_counts[at[m]][Key(m)] >= Quorum
    PROVE  /\ m \notin Batches => Majority(offset[m], m)
           /\ m \in Batches => Landed(m)
  <1>1. pc[m] \in InSession /\ pc[m] \in Running \ {"admitted"}
    BY Zenon DEF InSession, Running, BatchPoints, Points, Final, Failures
  <1>2. Cardinality(Counted(m)) >= Quorum
    <2>1. Counted(m) \subseteq Brokers
      BY Zenon DEF Counted
    <2>2. Cardinality(Counted(m)) \in Nat /\ Cardinality(Brokers) \in Nat
      BY <2>1, BrokersAssumption, FS_Subset, FS_CardinalityType, Zenon
    <2>3. ack_counts[at[m]][Key(m)] \in Nat
      BY <1>1, KeyInRange, Zenon
    <2>4. ack_counts[at[m]][Key(m)] <= Cardinality(Counted(m))
      BY <1>1, Zenon DEF ThreadInv, SessionInv
    <2>. QED  BY <2>2, <2>3, <2>4 DEF Quorum
  <1>3. ASSUME m \notin Batches PROVE Majority(offset[m], m)
    <2>1. Counted(m) \subseteq Holders(offset[m], m)
      BY <1>1, <1>3, Zenon DEF Counted, Replica, Holders, ThreadInv, SingleAppended
    <2>2. Holders(offset[m], m) \subseteq Brokers
      BY Zenon DEF Holders
    <2>. QED  BY <1>2, <2>1, <2>2, LargerMajority, Zenon DEF Majority
  <1>4. ASSUME m \in Batches, NEW i \in 1..BatchSize,
               appended_offsets[m][i] = first_offset(m) + i - 1
        PROVE  Majority(appended_offsets[m][i], <<m, i>>)
    <2>1. Holds(at[m], appended_offsets[m][i], <<m, i>>)
      BY <1>1, <1>4, Zenon DEF ThreadInv, BatchAppended
    <2>2. Counted(m) \subseteq Holders(appended_offsets[m][i], <<m, i>>)
      BY <1>4, <2>1, Zenon DEF Counted, Replica, HoldsBatch, Holders
    <2>3. Holders(appended_offsets[m][i], <<m, i>>) \subseteq Brokers
      BY Zenon DEF Holders
    <2>. QED  BY <1>2, <2>2, <2>3, LargerMajority, Zenon DEF Majority
  <1>. QED  BY <1>3, <1>4, Zenon DEF Landed
-----------------------------------------------------------------------------
(* The steps of a thread after its appends, grouped by what they do to the *)
(* lock and the counts of the thread's broker.                             *)

\* Everything a step of a thread past its appends may leave alone.
quietVars == <<log, at, appended_offsets>>

\* Such a step disturbs no request in flight.
LEMMA FlightUndisturbed ==
    ASSUME BatchInv, NEW m \in Messages, ThreadFrame(m), UNCHANGED quietVars,
           pc[m] \in Running \ {"admitted"}, pc'[m] \notin {"idle", "admitted"},
           m \notin Batches => offset'[m] = offset[m]
    PROVE  /\ Grows
           /\ \A r \in replicates : SingleInFlight(r)'
           /\ \A r \in batch_replicates : BatchInFlight(r)'
  <1>1. Grows
    BY Zenon DEF Grows, quietVars
  <1>2. \A n \in Messages : pc[n] \notin {"idle", "admitted"} =>
              /\ pc'[n] \notin {"idle", "admitted"}
              /\ n \notin Batches => offset'[n] = offset[n]
              /\ n \in Batches => appended_offsets'[n] = appended_offsets[n]
    BY Zenon DEF ThreadFrame, quietVars
  <1>. QED  BY <1>1, <1>2, FlightKept, Zenon

\* The thread goes on to a point outside the sessions: it never took the lock, or
\* gives it back.
Moves(m, point) ==
    /\ pc[m] \in Running \ {"admitted", "waiting"}
    /\ point \in BatchPoints \ ({"idle", "admitted", "broadcasting"} \cup InSession)
    /\ pc' = [pc EXCEPT ![m] = point]
    /\ m \notin Batches /\ point \in {"quorum", "committed", "ok"} =>
          Majority(offset[m], m)
    /\ m \in Batches /\ point \in {"polling", "committing", "committed", "ok"} =>
          Landed(m)
    /\ \/ offset' = offset
       \/ m \in Batches /\ \E o \in Nat : offset' = [offset EXCEPT ![m] = o]
    /\ \/ mutex' = mutex
       \/ mutex[at[m]] = {m} /\ mutex' = [mutex EXCEPT ![at[m]] = {}]
    /\ UNCHANGED <<quietVars, ack_counts, todo, reply, replicates, batch_replicates>>

\* Such a step keeps BatchInv.
LEMMA ThreadMoves ==
    ASSUME BatchInv, NEW m \in Messages, NEW point, Moves(m, point)
    PROVE  BatchInv'
  <1>. USE DEF Moves
  <1>1. BatchTypes /\ ThreadInv(m) /\ m \in DOMAIN pc /\ pc'[m] = point
    BY Zenon DEF BatchInv, BatchTypes
  <1>2. BatchTypes'
    <2>1. pc' \in [Messages -> BatchPoints] /\ offset' \in [Messages -> Nat]
      BY <1>1 DEF BatchTypes
    <2>2. mutex' \in [Brokers -> SUBSET Messages]
      BY <1>1, Zenon DEF BatchTypes
    <2>. QED  BY <1>1, <2>1, <2>2, Zenon DEF BatchTypes, quietVars
  <1>3. ThreadFrame(m)
    BY <1>1, Zenon DEF BatchTypes, ThreadFrame, quietVars
  <1>4. m \notin Batches => offset'[m] = offset[m]
    BY Zenon
  <1>5. Grows /\ InFlight'
    BY <1>1, <1>3, <1>4, FlightUndisturbed, Zenon DEF InFlight, quietVars
  <1>6. ThreadInv(m)'
    <2>1. /\ (pc[m] \in Running => at[m] \in Brokers)'
          /\ m \notin Batches => SingleAppended(m)'
          /\ m \in Batches => BatchAppended(m)'
      BY <1>1, <1>4, <1>5, PlaceKept, Zenon DEF quietVars
    <2>2. SessionInv(m)'
      BY <1>1, Zenon DEF ThreadInv, SessionInv, InSession
    <2>3. Settled(m)'
      <3>1. m \notin Batches /\ Majority(offset[m], m) => Majority(offset[m], m)'
        <4>1. PICK o \in Nat : o = offset[m]
          BY <1>1, Zenon DEF BatchTypes
        <4>2. Majority(o, m) => Majority(o, m)'
          BY <1>5, HoldsStays, Zenon
        <4>. QED  BY <1>4, <4>1, <4>2, Zenon
      <3>2. m \in Batches /\ Landed(m) => Landed(m)'
        BY <1>1, <1>5, LandedStays, Zenon DEF ThreadInv, BatchAppended, quietVars
      <3>. QED  BY <1>1, <3>1, <3>2, Zenon DEF Settled, InSession
    <2>. QED  BY <2>1, <2>2, <2>3, Zenon DEF ThreadInv
  <1>. QED  BY <1>2, <1>3, <1>5, <1>6, OneThreadSteps, Zenon

\* The thread takes the free lock and starts its count at one, for its own broker.
\* Whatever an earlier session counted under the same offset is forgotten.
Begins(m, S) ==
    /\ pc[m] \in {"appended", "checked"}
    /\ mutex[at[m]] = {}
    /\ pc' = [pc EXCEPT ![m] = "replicating"]
    /\ mutex' = [mutex EXCEPT ![at[m]] = {m}]
    /\ ack_counts' = [ack_counts EXCEPT ![at[m]][Key(m)] = 1]
    /\ S \in SUBSET Peers(at[m])
    /\ todo' = [todo EXCEPT ![m] = S]
    /\ UNCHANGED <<quietVars, offset, reply, replicates, batch_replicates>>

\* Such a step keeps BatchInv.
LEMMA SessionBegins ==
    ASSUME BatchInv, NEW m \in Messages, NEW S, Begins(m, S)
    PROVE  BatchInv'
  <1>. USE DEF Begins
  <1>1. /\ BatchTypes /\ ThreadInv(m) /\ pc'[m] = "replicating"
        /\ pc[m] \in Running \ {"admitted"}
    BY Zenon DEF BatchInv, BatchTypes, Running, BatchPoints, Points, Final, Failures
  <1>2. at[m] \in Brokers /\ Key(m) \in Offsets
    BY <1>1, KeyInRange, Zenon
  <1>3. /\ mutex'[at[m]] = {m} /\ ack_counts'[at[m]][Key(m)] = 1 /\ todo'[m] = S
        /\ S \subseteq Brokers \ {at[m]}
    BY <1>1, <1>2, Zenon DEF BatchTypes, Peers
  <1>4. BatchTypes'
    <2>1. pc' \in [Messages -> BatchPoints]
      BY <1>1, Zenon DEF BatchTypes, BatchPoints, Points
    <2>2. mutex' \in [Brokers -> SUBSET Messages]
      <3>1. mutex \in [Brokers -> SUBSET Messages] /\ {m} \in SUBSET Messages
        BY <1>1, Zenon DEF BatchTypes
      <3>2. mutex' = [mutex EXCEPT ![at[m]] = {m}]
        BY Zenon
      <3>. QED  BY <3>1, <3>2, Zenon
    <2>3. ack_counts' \in [Brokers -> [Offsets -> Nat]]
      BY <1>1, <1>2, Zenon DEF BatchTypes
    <2>4. todo' \in [Messages -> SUBSET Brokers]
      BY <1>1, <1>3, Zenon DEF BatchTypes
    <2>. QED  BY <1>1, <2>1, <2>2, <2>3, <2>4, Zenon DEF BatchTypes, quietVars
  <1>5. ThreadFrame(m)
    BY <1>1, Zenon DEF BatchTypes, ThreadFrame, quietVars
  <1>6. Grows /\ InFlight'
    BY <1>1, <1>5, FlightUndisturbed, Zenon DEF InFlight, quietVars
  <1>7. ThreadInv(m)'
    <2>1. /\ (pc[m] \in Running => at[m] \in Brokers)'
          /\ m \notin Batches => SingleAppended(m)'
          /\ m \in Batches => BatchAppended(m)'
      BY <1>1, <1>6, PlaceKept, Zenon DEF quietVars
    <2>2. 1 <= Cardinality(Counted(m)')
      <3>1. Counted(m)' \subseteq Brokers /\ at[m] \in Counted(m)'
        BY <1>2, <1>3, Zenon DEF Counted, quietVars
      <3>2. IsFiniteSet(Counted(m)') /\ Counted(m)' # {}
        BY <3>1, BrokersAssumption, FS_Subset, Zenon
      <3>3. Cardinality(Counted(m)') \in Nat /\ Cardinality(Counted(m)') # 0
        BY <3>2, FS_CardinalityType, FS_EmptySet, Zenon
      <3>. QED  BY <3>3
    <2>3. Key(m)' = Key(m)
      BY Zenon DEF Key, ack_key, first_offset, quietVars
    <2>4. SessionInv(m)'
      BY <1>1, <1>3, <2>2, <2>3, Zenon DEF ThreadInv, SessionInv, InSession, quietVars
    <2>5. Settled(m)'
      BY <1>1, Zenon DEF Settled
    <2>. QED  BY <2>1, <2>4, <2>5, Zenon DEF ThreadInv
  <1>. QED  BY <1>4, <1>5, <1>6, <1>7, OneThreadSteps, Zenon

\* Within a session the thread sends its request to the next peer, or gives up on
\* that peer: it counts nothing.
GoesOn(m, point) ==
    /\ pc[m] \in InSession
    /\ todo[m] # {}
    /\ point \in InSession
    /\ pc' = [pc EXCEPT ![m] = point]
    /\ \/ todo' = todo /\ UNCHANGED reply /\ pc[m] = "replicating"
       \/ /\ point = "replicating" /\ todo' = [todo EXCEPT ![m] = @ \ {Target(m)}]
          /\ reply' = [reply EXCEPT ![m] = "none"]
    /\ \/ replicates' = replicates
       \/ m \notin Batches /\ replicates' = replicates \cup
            {[dst |-> Target(m), message |-> m, fetch_offset |-> offset[m],
              checked |-> FALSE]}
    /\ \/ batch_replicates' = batch_replicates
       \/ m \in Batches /\ batch_replicates' = batch_replicates \cup
            {[dst |-> Target(m), message |-> m, fetch_offset |-> first_offset(m),
              next |-> 0]}
    /\ UNCHANGED <<quietVars, offset, mutex, ack_counts>>

\* Such a step keeps BatchInv.
LEMMA SessionGoesOn ==
    ASSUME BatchInv, NEW m \in Messages, NEW point, GoesOn(m, point)
    PROVE  BatchInv'
  <1>. USE DEF GoesOn
  <1>1. /\ BatchTypes /\ ThreadInv(m) /\ InFlight /\ pc'[m] = point
        /\ pc[m] \in Running \ {"admitted"}
    BY Zenon DEF BatchInv, BatchTypes, InSession, Running, BatchPoints, Points, Final, Failures
  <1>2. /\ todo' \in [Messages -> SUBSET Brokers] /\ todo'[m] \subseteq todo[m]
        /\ reply' \in [Messages -> {"none", "ack", "refused"}] /\ reply'[m] # "ack"
        /\ point = "waiting" => todo'[m] # {}
    <2>1. /\ todo \in [Messages -> SUBSET Brokers]
          /\ reply \in [Messages -> {"none", "ack", "refused"}]
          /\ reply[m] = "ack" => pc[m] = "waiting"
      BY <1>1, Zenon DEF BatchTypes, ThreadInv, SessionInv
    <2>2. CASE todo' = todo /\ UNCHANGED reply /\ pc[m] = "replicating"
      BY <2>1, <2>2, Zenon
    <2>3. CASE /\ point = "replicating" /\ todo' = [todo EXCEPT ![m] = @ \ {Target(m)}]
               /\ reply' = [reply EXCEPT ![m] = "none"]
      <3>1. todo'[m] = todo[m] \ {Target(m)} /\ reply'[m] = "none"
        BY <2>1, <2>3, Zenon
      <3>. QED  BY <2>1, <2>3, <3>1, Zenon
    <2>. QED  BY <2>2, <2>3, Zenon
  <1>3. Target(m) \in Brokers
    BY <1>1, TargetInTodo, Zenon
  <1>4. m \in Batches => first_offset(m) \in Nat
    BY <1>1, FirstOffset, Zenon DEF ThreadInv, BatchAppended
  <1>5. BatchTypes'
    <2>1. pc' \in [Messages -> BatchPoints]
      BY <1>1, Zenon DEF BatchTypes, BatchPoints, Points, InSession
    <2>2. replicates' \in SUBSET [dst : Brokers, message : Singles, fetch_offset : Nat,
                                  checked : BOOLEAN]
      <3>1. m \notin Batches =>
              [dst |-> Target(m), message |-> m, fetch_offset |-> offset[m],
               checked |-> FALSE] \in [dst : Brokers, message : Singles,
                                       fetch_offset : Nat, checked : BOOLEAN]
        BY <1>1, <1>3, Zenon DEF BatchTypes, Singles
      <3>2. replicates \in SUBSET [dst : Brokers, message : Singles, fetch_offset : Nat,
                                   checked : BOOLEAN]
        BY <1>1, Zenon DEF BatchTypes
      <3>. QED  BY <3>1, <3>2, Zenon
    <2>3. batch_replicates' \in SUBSET [dst : Brokers, message : Batches,
                                        fetch_offset : Nat, next : 0..BatchSize]
      BY <1>1, <1>3, <1>4, BatchAssumption DEF BatchTypes
    <2>. QED  BY <1>1, <1>2, <2>1, <2>2, <2>3, Zenon DEF BatchTypes, quietVars
  <1>6. ThreadFrame(m)
    BY <1>1, Zenon DEF BatchTypes, ThreadFrame, quietVars
  <1>7. /\ Grows
        /\ \A r \in replicates : SingleInFlight(r)'
        /\ \A r \in batch_replicates : BatchInFlight(r)'
    BY <1>1, <1>6, FlightUndisturbed, Zenon DEF InSession
  <1>8. InFlight'
    <2>1. ASSUME NEW r \in replicates' PROVE SingleInFlight(r)'
      BY <1>1, <1>7, <2>1, SMTT(40) DEF SingleInFlight, InSession
    <2>2. ASSUME NEW r \in batch_replicates' PROVE BatchInFlight(r)'
      <3>1. CASE r \notin batch_replicates
        BY <1>1, <2>2, <3>1 DEF BatchInFlight, InSession, first_offset, quietVars
      <3>. QED  BY <1>7, <3>1, Zenon
    <2>. QED  BY <2>1, <2>2, Zenon DEF InFlight
  <1>9. ThreadInv(m)'
    <2>1. /\ (pc[m] \in Running => at[m] \in Brokers)'
          /\ m \notin Batches => SingleAppended(m)'
          /\ m \in Batches => BatchAppended(m)'
      BY <1>1, <1>7, PlaceKept, Zenon DEF quietVars, InSession
    <2>2. /\ Cardinality(Counted(m)) \in Nat /\ Cardinality(Counted(m)') \in Nat
          /\ Cardinality(Counted(m)) <= Cardinality(Counted(m)')
      BY <1>1, <1>2, <1>7, CountedStays, Zenon DEF quietVars
    <2>3. Key(m)' = Key(m) /\ ack_counts[at[m]][Key(m)] \in Nat
      BY <1>1, KeyInRange, Zenon DEF Key, ack_key, first_offset, quietVars
    <2>4. ack_counts[at[m]][Key(m)] <= Cardinality(Counted(m)) /\ mutex[at[m]] = {m}
      BY <1>1, Zenon DEF ThreadInv, SessionInv
    <2>5. SessionInv(m)'
      BY <1>1, <1>2, <2>2, <2>3, <2>4 DEF SessionInv, quietVars
    <2>6. Settled(m)'
      BY <1>1, Zenon DEF Settled, InSession
    <2>. QED  BY <2>1, <2>5, <2>6, Zenon DEF ThreadInv
  <1>. QED  BY <1>5, <1>6, <1>7, <1>8, <1>9, OneThreadSteps, Zenon

\* A set with one element more.
LEMMA OneMore ==
    ASSUME NEW S, NEW x, IsFiniteSet(S), x \notin S
    PROVE  Cardinality(S \cup {x}) = Cardinality(S) + 1
  BY FS_AddElement, Zenon

\* An ACK adds at most one to the count, and its sender, who had not been visited
\* yet, holds the records.
Counts(m) ==
    /\ pc[m] = "waiting"
    /\ reply[m] = "ack"
    /\ handle_ack(at[m], Target(m), Key(m))
    /\ Visited(m)
    /\ Goto(m, "replicating")
    /\ reply' = [reply EXCEPT ![m] = "none"]
    /\ UNCHANGED <<quietVars, offset, mutex, replicates, batch_replicates>>

\* Such a step keeps BatchInv.
LEMMA SessionCounts ==
    ASSUME BatchInv, NEW m \in Messages, Counts(m)
    PROVE  BatchInv'
  <1>. USE DEF Counts
  <1>1. /\ BatchTypes /\ ThreadInv(m) /\ pc'[m] = "replicating" /\ pc[m] \in InSession
        /\ pc[m] \in Running \ {"admitted"} /\ todo[m] # {} /\ mutex[at[m]] = {m}
        /\ Replica(Target(m), m)
    <2>1. BatchTypes /\ ThreadInv(m)
      BY Zenon DEF BatchInv
    <2>2. pc[m] \in InSession /\ pc[m] \in Running \ {"admitted"}
      BY Zenon DEF InSession, Running, BatchPoints, Points, Final, Failures
    <2>3. pc'[m] = "replicating"
      BY <2>1, Zenon DEF BatchTypes, Goto
    <2>. QED  BY <2>1, <2>2, <2>3, Zenon DEF ThreadInv, SessionInv
  <1>2. /\ at[m] \in Brokers /\ Key(m) \in Offsets
        /\ ack_counts[at[m]][Key(m)] \in Nat
    BY <1>1, KeyInRange, Zenon
  <1>3. /\ todo' \in [Messages -> SUBSET Brokers] /\ todo'[m] = todo[m] \ {Target(m)}
        /\ reply' \in [Messages -> {"none", "ack", "refused"}] /\ reply'[m] = "none"
        /\ Target(m) \in todo[m] /\ Target(m) \in Brokers
    BY <1>1, TargetInTodo, Zenon DEF BatchTypes, Visited
  <1>4. \/ ack_counts' = ack_counts
        \/ ack_counts' = [ack_counts EXCEPT ![at[m]][Key(m)] = @ + 1]
    BY Zenon DEF handle_ack, ackVars
  <1>5. /\ ack_counts' \in [Brokers -> [Offsets -> Nat]]
        /\ ack_counts'[at[m]][Key(m)] <= ack_counts[at[m]][Key(m)] + 1
        /\ \A b \in Brokers \ {at[m]} : ack_counts'[b] = ack_counts[b]
    <2>1. ack_counts \in [Brokers -> [Offsets -> Nat]]
      BY <1>1, Zenon DEF BatchTypes
    <2>2. CASE ack_counts' = ack_counts
      BY <1>2, <2>1, <2>2
    <2>3. CASE ack_counts' = [ack_counts EXCEPT ![at[m]][Key(m)] = @ + 1]
      BY <1>2, <2>1, <2>3
    <2>. QED  BY <1>4, <2>2, <2>3, Zenon
  <1>6. BatchTypes'
    <2>1. pc' \in [Messages -> BatchPoints]
      BY <1>1, Zenon DEF BatchTypes, BatchPoints, Points, Goto
    <2>2. UNCHANGED <<log, at, appended_offsets>>
      BY Zenon DEF quietVars
    <2>. QED  BY <1>1, <1>3, <1>5, <2>1, <2>2, Zenon DEF BatchTypes
  <1>7. ThreadFrame(m)
    <2>1. \A n \in Messages \ {m} :
             pc'[n] = pc[n] /\ todo'[n] = todo[n] /\ reply'[n] = reply[n]
      BY <1>1, Zenon DEF BatchTypes, Goto, Visited
    <2>. QED  BY <1>1, <1>5, <2>1, Zenon DEF ThreadFrame, quietVars
  <1>8. Grows /\ InFlight'
    BY <1>1, <1>7, FlightUndisturbed, Zenon DEF InFlight, quietVars
  <1>9. ThreadInv(m)'
    <2>1. /\ (pc[m] \in Running => at[m] \in Brokers)'
          /\ m \notin Batches => SingleAppended(m)'
          /\ m \in Batches => BatchAppended(m)'
      BY <1>1, <1>8, PlaceKept, Zenon DEF quietVars
    <2>2. Key(m)' = Key(m)
      BY Zenon DEF Key, ack_key, first_offset, quietVars
    <2>3. Cardinality(Counted(m)) + 1 <= Cardinality(Counted(m)')
      <3>1. Counted(m) \subseteq Counted(m)' /\ IsFiniteSet(Counted(m)')
        BY <1>1, <1>3, <1>8, CountedStays, Zenon DEF quietVars
      <3>2. Target(m) \notin Counted(m)
        BY <1>3, Zenon DEF Counted
      <3>3. Target(m) \in Counted(m)'
        BY <1>1, <1>3, <1>8, ReplicaStays, Zenon DEF Counted, quietVars
      <3>4. IsFiniteSet(Counted(m)) /\ Cardinality(Counted(m)) \in Nat
        BY <3>1, FS_Subset, FS_CardinalityType, Zenon
      <3>5. Cardinality(Counted(m) \cup {Target(m)}) = Cardinality(Counted(m)) + 1
        BY <3>2, <3>4, OneMore, Zenon
      <3>6. Cardinality(Counted(m) \cup {Target(m)}) <= Cardinality(Counted(m)')
        BY <3>1, <3>3, FS_Subset, Zenon
      <3>. QED  BY <3>5, <3>6, Zenon
    <2>4. ack_counts[at[m]][Key(m)] <= Cardinality(Counted(m))
      BY <1>1, Zenon DEF ThreadInv, SessionInv
    <2>5. Cardinality(Counted(m)) \in Nat /\ Cardinality(Counted(m)') \in Nat
      BY <1>1, <1>3, <1>8, CountedStays, Zenon DEF quietVars
    <2>6. ack_counts'[at[m]][Key(m)] \in Nat
      BY <1>2, <1>5, Zenon
    <2>7. ack_counts'[at[m]][Key(m)] <= Cardinality(Counted(m)')
      BY <1>2, <1>5, <2>3, <2>4, <2>5, <2>6
    <2>8. SessionInv(m)'
      BY <1>1, <1>3, <2>2, <2>7, Zenon DEF SessionInv, InSession, quietVars
    <2>9. Settled(m)'
      BY <1>1, Zenon DEF Settled
    <2>. QED  BY <2>1, <2>8, <2>9, Zenon DEF ThreadInv
  <1>. QED  BY <1>6, <1>7, <1>8, <1>9, OneThreadSteps, Zenon

\* broadcast_commit takes the free lock and goes from peer to peer with it.
Broadcasts(m, S) ==
    /\ pc[m] \in {"committed", "broadcasting"}
    /\ mutex[at[m]] \in {{}, {m}}
    /\ pc' = [pc EXCEPT ![m] = "broadcasting"]
    /\ mutex' = [mutex EXCEPT ![at[m]] = {m}]
    /\ S \in SUBSET Brokers
    /\ todo' = [todo EXCEPT ![m] = S]
    /\ UNCHANGED <<quietVars, offset, ack_counts, reply, replicates, batch_replicates>>

\* Such a step keeps BatchInv.
LEMMA BroadcastGoesOn ==
    ASSUME BatchInv, NEW m \in Messages, NEW S, Broadcasts(m, S)
    PROVE  BatchInv'
  <1>. USE DEF Broadcasts
  <1>1. /\ BatchTypes /\ ThreadInv(m) /\ pc'[m] = "broadcasting"
        /\ pc[m] \in Running \ {"admitted"} /\ at[m] \in Brokers
    BY Zenon DEF BatchInv, BatchTypes, ThreadInv, Running, BatchPoints, Points, Final, Failures
  <1>2. mutex'[at[m]] = {m}
    BY <1>1, Zenon DEF BatchTypes
  <1>3. BatchTypes'
    <2>1. pc' \in [Messages -> BatchPoints]
      BY <1>1, Zenon DEF BatchTypes, BatchPoints, Points
    <2>2. mutex' \in [Brokers -> SUBSET Messages]
      BY <1>1, Zenon DEF BatchTypes
    <2>3. todo' \in [Messages -> SUBSET Brokers]
      BY <1>1, Zenon DEF BatchTypes
    <2>. QED  BY <1>1, <2>1, <2>2, <2>3, Zenon DEF BatchTypes, quietVars
  <1>4. ThreadFrame(m)
    BY <1>1, Zenon DEF BatchTypes, ThreadFrame, quietVars
  <1>5. Grows /\ InFlight'
    BY <1>1, <1>4, FlightUndisturbed, Zenon DEF InFlight, quietVars
  <1>6. ThreadInv(m)'
    <2>1. /\ (pc[m] \in Running => at[m] \in Brokers)'
          /\ m \notin Batches => SingleAppended(m)'
          /\ m \in Batches => BatchAppended(m)'
      BY <1>1, <1>5, PlaceKept, Zenon DEF quietVars
    <2>2. SessionInv(m)'
      BY <1>1, <1>2, Zenon DEF ThreadInv, SessionInv, InSession, quietVars
    <2>3. Settled(m)'
      <3>1. /\ m \notin Batches => Majority(offset[m], m)
            /\ m \in Batches => Landed(m)
        BY <1>1, Zenon DEF ThreadInv, Settled
      <3>2. m \notin Batches => Majority(offset[m], m)'
        BY <3>1, Zenon DEF Majority, Holders, Holds, quietVars
      <3>3. m \in Batches => Landed(m)'
        BY <1>1, <1>5, <3>1, LandedStays, Zenon DEF ThreadInv, BatchAppended, quietVars
      <3>. QED  BY <3>2, <3>3, Zenon DEF Settled
    <2>. QED  BY <2>1, <2>2, <2>3, Zenon DEF ThreadInv
  <1>. QED  BY <1>3, <1>4, <1>5, <1>6, OneThreadSteps, Zenon
-----------------------------------------------------------------------------
(* The first steps of a thread, those of a follower that handles a request, *)
(* crashes and the rest.                                                    *)

\* The leader check admits a request to a broker.
LEMMA Admits ==
    ASSUME BatchInv, NEW m \in Messages, NEW b \in Brokers, handle_produce_admit(m, b),
           UNCHANGED batchVars
    PROVE  BatchInv'
  <1>1. /\ BatchTypes /\ ThreadInv(m) /\ pc[m] = "idle"
        /\ pc' = [pc EXCEPT ![m] = "admitted"] /\ at' = [at EXCEPT ![m] = b]
        /\ UNCHANGED <<log, ack_counts, mutex, offset, todo, reply, replicates,
                       appended_offsets, batch_replicates>>
    BY Zenon DEF BatchInv, handle_produce_admit, Goto, logVars, ackVars, netVars, batchVars
  <1>2. pc'[m] = "admitted" /\ at'[m] = b
    BY <1>1, Zenon DEF BatchTypes
  <1>3. BatchTypes'
    <2>1. pc' \in [Messages -> BatchPoints] /\ at' \in [Messages -> Brokers \cup {0}]
      BY <1>1, Zenon DEF BatchTypes, BatchPoints, Points
    <2>. QED  BY <1>1, <2>1, Zenon DEF BatchTypes
  <1>4. ThreadFrame(m) /\ Grows
    BY <1>1, Zenon DEF BatchTypes, ThreadFrame, Grows
  <1>5. InFlight'
    <2>1. \A n \in Messages : pc[n] \notin {"idle", "admitted"} =>
                pc'[n] \notin {"idle", "admitted"} /\ offset'[n] = offset[n]
                /\ (n \in Batches => appended_offsets'[n] = appended_offsets[n])
      BY <1>1, Zenon DEF BatchTypes
    <2>. QED  BY <1>1, <1>4, <2>1, FlightKept, Zenon DEF InFlight
  <1>6. ThreadInv(m)'
    <2>1. ASSUME m \in Batches PROVE BatchAppended(m)'
      <3>1. appended_offsets'[m] = <<>>
        BY <1>1, <2>1, Zenon DEF ThreadInv, BatchAppended
      <3>2. Len(<<>>) = 0 /\ 1..Len(<<>>) = {} /\ BatchSize > 0
        BY BatchAssumption
      <3>. QED  BY <1>2, <3>1, <3>2, Zenon DEF BatchAppended, Running
    <2>2. SingleAppended(m)'
      BY <1>2, Zenon DEF SingleAppended
    <2>3. SessionInv(m)' /\ Settled(m)'
      BY <1>1, <1>2, Zenon DEF ThreadInv, SessionInv, Settled, InSession
    <2>. QED  BY <1>2, <2>1, <2>2, <2>3, Zenon DEF ThreadInv
  <1>. QED  BY <1>3, <1>4, <1>5, <1>6, OneThreadSteps, Zenon

\* What an append by m's own thread does to the rest.
LEMMA AppendOwn ==
    ASSUME BatchInv, NEW m \in Messages, pc[m] = "admitted",
           NEW e \in Records, append(at[m], e),
           NEW point \in {"admitted", "appended"}, Goto(m, point),
           \A n \in Messages \ {m} :
              /\ offset'[n] = offset[n]
              /\ n \in Batches => appended_offsets'[n] = appended_offsets[n],
           offset' \in [Messages -> Nat], appended_offsets' \in [Batches -> Seq(Nat)],
           UNCHANGED <<ack_counts, mutex, at, todo, reply, replicates, batch_replicates>>,
           ThreadInv(m)'
    PROVE  BatchInv'
  <1>1. BatchTypes /\ ThreadInv(m) /\ at[m] \in Brokers
    BY Zenon DEF BatchInv, ThreadInv, Running, BatchPoints, Points, Final, Failures
  <1>2. /\ log' \in [Brokers -> Seq(Records)]
        /\ \A c \in Brokers : Len(log'[c]) <= MaxRecords
        /\ Grows
    BY <1>1, RecordAppended, Zenon
  <1>3. BatchTypes'
    <2>1. pc' \in [Messages -> BatchPoints]
      BY <1>1, Zenon DEF BatchTypes, BatchPoints, Points, Goto
    <2>. QED  BY <1>1, <1>2, <2>1, Zenon DEF BatchTypes
  <1>4. ThreadFrame(m)
    BY <1>1, Zenon DEF BatchTypes, ThreadFrame, Goto
  <1>5. InFlight'
    <2>1. \A n \in Messages : pc[n] \notin {"idle", "admitted"} =>
                pc'[n] \notin {"idle", "admitted"} /\ offset'[n] = offset[n]
                /\ (n \in Batches => appended_offsets'[n] = appended_offsets[n])
      BY <1>1, Zenon DEF BatchTypes, Goto
    <2>. QED  BY <1>2, <2>1, FlightKept, Zenon DEF InFlight
  <1>. QED  BY <1>2, <1>3, <1>4, <1>5, OneThreadSteps, Zenon

\* handle_produce appends its record and remembers where it is.
LEMMA SingleAppends ==
    ASSUME BatchInv, NEW m \in Singles, handle_produce_append(m), UNCHANGED batchVars
    PROVE  BatchInv'
  <1>1. /\ BatchTypes /\ ThreadInv(m) /\ pc[m] = "admitted" /\ append(at[m], m)
        /\ offset' = [offset EXCEPT ![m] = Len(log[at[m]])] /\ Goto(m, "appended")
        /\ UNCHANGED <<ack_counts, mutex, at, todo, reply, replicates,
                       appended_offsets, batch_replicates>>
        /\ m \in Messages /\ m \notin Batches /\ m \in Records
    BY Zenon DEF BatchInv, handle_produce_append, ackVars, netVars, batchVars, Singles, Records
  <1>2. at[m] \in Brokers
    BY <1>1, Zenon DEF ThreadInv, Running, BatchPoints, Points, Final, Failures
  <1>3. /\ Len(log[at[m]]) \in Nat
        /\ \A o \in Nat : o = Len(log[at[m]]) => Holds(at[m], o, m)'
    <2>1. PICK b \in Brokers : b = at[m]
      BY <1>2, Zenon
    <2>2. Len(log[b]) \in Offsets /\ \A o \in Nat : o = Len(log[b]) => Holds(b, o, m)'
      BY <1>1, <2>1, RecordAppended, Zenon
    <2>3. at[m]' = b
      BY <1>1, <2>1, Zenon
    <2>. QED  BY <2>1, <2>2, <2>3, ReplicationAssumption DEF Offsets
  <1>4. /\ pc'[m] = "appended" /\ offset'[m] = Len(log[at[m]])
        /\ offset' \in [Messages -> Nat]
        /\ \A n \in Messages \ {m} : offset'[n] = offset[n]
    BY <1>1, <1>3, Zenon DEF BatchTypes, Goto
  <1>5. ThreadInv(m)'
    <2>1. SingleAppended(m)'
      BY <1>3, <1>4, Zenon DEF SingleAppended
    <2>2. SessionInv(m)' /\ Settled(m)'
      BY <1>1, <1>4, Zenon DEF ThreadInv, SessionInv, Settled, InSession
    <2>. QED  BY <1>1, <1>2, <2>1, <2>2, Zenon DEF ThreadInv
  <1>6. appended_offsets' \in [Batches -> Seq(Nat)]
    BY <1>1, Zenon DEF BatchTypes
  <1>. QED  BY <1>1, <1>4, <1>5, <1>6, AppendOwn, Zenon

\* handle_batch_produce appends its next record; the records of other requests that
\* came between only push it further up.
LEMMA BatchAppends ==
    ASSUME BatchInv, NEW x \in Batches, handle_batch_produce_append(x)
    PROVE  BatchInv'
  <1>1. BatchTypes /\ ThreadInv(x) /\ x \in Messages /\ pc[x] = "admitted"
    BY BatchAssumption, Zenon DEF BatchInv, handle_batch_produce_append
  <1>2. PICK done \in Seq(Nat) : done = appended_offsets[x]
    BY <1>1, Zenon DEF BatchTypes
  <1>3. /\ at[x] \in Brokers /\ Len(done) < BatchSize
        /\ \A i \in 1..Len(done) : Holds(at[x], done[i], <<x, i>>) /\ done[i] >= done[1] + i - 1
    BY <1>1, <1>2, Zenon DEF ThreadInv, BatchAppended, Running, BatchPoints, Points, Final, Failures
  <1>4. PICK b \in Brokers : b = at[x]
    BY <1>3, Zenon
  <1>5. PICK next \in 1..BatchSize : next = Len(done) + 1
    BY <1>2, <1>3, BatchAssumption
  <1>6. PICK end \in Nat : end = Len(log[b])
    BY <1>1 DEF BatchTypes
  <1>7. PICK point \in {"admitted", "appended"} :
              point = IF next = BatchSize THEN "appended" ELSE "admitted"
    BY Zenon
  <1>8. /\ append(b, <<x, next>>)
        /\ appended_offsets' = [appended_offsets EXCEPT ![x] = Append(done, end)]
        /\ Goto(x, point)
        /\ UNCHANGED <<ack_counts, mutex, at, offset, todo, reply, replicates,
                       batch_replicates>>
    BY <1>2, <1>4, <1>5, <1>6, <1>7, Zenon DEF handle_batch_produce_append, ackVars, netVars
  <1>9. <<x, next>> \in Records
    BY Zenon DEF Records
  <1>10. Grows /\ Holds(b, end, <<x, next>>)'
    BY <1>1, <1>6, <1>8, <1>9, RecordAppended, Zenon
  <1>11. /\ Append(done, end) \in Seq(Nat) /\ Len(Append(done, end)) = next
         /\ \A i \in 1..Len(done) : Append(done, end)[i] = done[i]
         /\ Append(done, end)[next] = end
    BY <1>5
  <1>12. /\ pc'[x] = point /\ appended_offsets'[x] = Append(done, end)
         /\ appended_offsets' \in [Batches -> Seq(Nat)]
         /\ \A y \in Batches \ {x} : appended_offsets'[y] = appended_offsets[y]
    BY <1>1, <1>8, <1>11, Zenon DEF BatchTypes, Goto
  <1>13. ThreadInv(x)'
    <2>1. ASSUME NEW i \in 1..next
          PROVE  \E o \in Nat : /\ o = Append(done, end)[i]
                                /\ Holds(b, o, <<x, i>>)'
                                /\ o >= Append(done, end)[1] + i - 1
      <3>1. CASE i # next
        <4>1. i \in 1..Len(done) /\ 1 \in 1..Len(done)
          BY <1>2, <1>5, <3>1
        <4>2. PICK o \in Nat : o = done[i]
          BY <1>2, <4>1
        <4>3. Holds(b, o, <<x, i>>) /\ o >= done[1] + i - 1
          BY <1>3, <1>4, <4>1, <4>2, Zenon
        <4>4. Holds(b, o, <<x, i>>)'
          BY <1>10, <4>3, Zenon DEF Holds, Grows
        <4>. QED  BY <1>11, <4>1, <4>2, <4>3, <4>4, Zenon
      <3>2. CASE i = next /\ next = 1
        BY <1>10, <1>11, <3>2
      <3>3. CASE i = next /\ next # 1
        <4>1. Len(done) \in 1..Len(done) /\ 1 \in 1..Len(done) /\ Len(done) = next - 1
          BY <1>2, <1>5, <3>3
        <4>2. done[Len(done)] \in Nat /\ done[1] \in Nat
          BY <1>2, <4>1
        <4>3. done[Len(done)] < end /\ done[Len(done)] >= done[1] + Len(done) - 1
          BY <1>3, <1>4, <1>6, <4>1, Zenon DEF Holds
        <4>4. end >= done[1] + next - 1
          BY <4>1, <4>2, <4>3
        <4>. QED  BY <1>10, <1>11, <3>3, <4>1, <4>4, Zenon
      <3>. QED  BY <3>1, <3>2, <3>3, Zenon
    <2>2. BatchAppended(x)'
      <3>1. /\ pc'[x] = "admitted" => next < BatchSize
            /\ pc'[x] = "appended" => next = BatchSize
            /\ pc'[x] \in {"admitted", "appended"}
        BY <1>7, <1>12, BatchAssumption
      <3>2. ASSUME NEW i \in 1..Len(appended_offsets'[x])
            PROVE  /\ Holds(at[x], appended_offsets[x][i], <<x, i>>)'
                   /\ appended_offsets'[x][i] >= appended_offsets'[x][1] + i - 1
        <4>1. PICK o \in Nat : /\ o = Append(done, end)[i]
                               /\ Holds(b, o, <<x, i>>)'
                               /\ o >= Append(done, end)[1] + i - 1
          BY <1>11, <1>12, <2>1, <3>2, Zenon
        <4>2. appended_offsets'[x][i] = o /\ at'[x] = b
          BY <1>4, <1>8, <1>12, <4>1, Zenon
        <4>. QED  BY <1>12, <4>1, <4>2, Zenon
      <3>. QED  BY <1>11, <1>12, <3>1, <3>2, Zenon DEF BatchAppended
    <2>3. SessionInv(x)' /\ Settled(x)'
      BY <1>1, <1>8, <1>12, Zenon DEF ThreadInv, SessionInv, Settled, InSession
    <2>. QED  BY <1>3, <1>8, <2>2, <2>3, Zenon DEF ThreadInv
  <1>14. /\ offset' \in [Messages -> Nat]
         /\ \A n \in Messages \ {x} :
               /\ offset'[n] = offset[n]
               /\ n \in Batches => appended_offsets'[n] = appended_offsets[n]
    BY <1>1, <1>8, <1>12, Zenon DEF BatchTypes
  <1>15. PICK e \in Records : append(at[x], e)
    BY <1>4, <1>8, <1>9, Zenon
  <1>. QED  BY <1>1, <1>8, <1>12, <1>13, <1>14, <1>15, AppendOwn, Zenon
-----------------------------------------------------------------------------
(* The steps of a follower that handles a request.                         *)

\* What no step of a follower touches.
peerQuiet == <<pc, at, offset, todo, mutex, ack_counts, appended_offsets>>

\* The requests already in flight survive a follower's step.
LEMMA PeerFlight ==
    ASSUME BatchInv, Grows, UNCHANGED peerQuiet
    PROVE  /\ \A r \in replicates : SingleInFlight(r)'
           /\ \A r \in batch_replicates : BatchInFlight(r)'
  <1>1. \A n \in Messages : pc[n] \notin {"idle", "admitted"} =>
              pc'[n] \notin {"idle", "admitted"} /\ offset'[n] = offset[n]
              /\ (n \in Batches => appended_offsets'[n] = appended_offsets[n])
    BY Zenon DEF peerQuiet
  <1>. QED  BY <1>1, FlightKept, Zenon

\* A follower's step keeps BatchInv if an ACK comes only from a replica.
LEMMA PeerStep ==
    ASSUME BatchInv, Grows, BatchTypes', InFlight', UNCHANGED peerQuiet,
           \A n \in Messages : \/ reply'[n] = reply[n]
                               \/ reply'[n] # "ack"
                               \/ pc[n] = "waiting" /\ Replica(Target(n), n)'
    PROVE  BatchInv'
  <1>1. ASSUME NEW n \in Messages PROVE ThreadInv(n)'
    <2>1. /\ BatchTypes /\ ThreadInv(n)
          /\ pc'[n] = pc[n] /\ at'[n] = at[n] /\ offset'[n] = offset[n]
          /\ todo'[n] = todo[n] /\ appended_offsets' = appended_offsets
          /\ mutex'[at[n]] = mutex[at[n]] /\ ack_counts'[at[n]] = ack_counts[at[n]]
      BY Zenon DEF BatchInv, peerQuiet
    <2>. QED  BY <2>1, ThreadKept, Zenon
  <1>. QED  BY <1>1, Zenon DEF BatchInv

\* What Answer does to the replies.
LEMMA Answers ==
    ASSUME BatchTypes, NEW r, r.message \in Messages,
           NEW answer \in {"ack", "refused"}, Answer(r, answer)
    PROVE  /\ reply' \in [Messages -> {"none", "ack", "refused"}]
           /\ \A n \in Messages :
                 \/ reply'[n] = reply[n]
                 \/ /\ reply'[n] = answer /\ n = r.message
                    /\ pc[n] = "waiting" /\ r.dst = Target(n)
  BY Zenon DEF BatchTypes, Answer, Awaited

\* The requests in flight, as types.
SingleRequest == [dst : Brokers, message : Singles, fetch_offset : Nat, checked : BOOLEAN]
BatchRequest == [dst : Brokers, message : Batches, fetch_offset : Nat, next : 0..BatchSize]

\* A request whose handler has gone one step further is the same request.
LEMMA RequestGoesOn ==
    /\ \A r \in SingleRequest : \E q \in SingleRequest :
          /\ q = [r EXCEPT !.checked = TRUE]
          /\ q.message = r.message /\ q.fetch_offset = r.fetch_offset
    /\ \A r \in BatchRequest, k \in 0..BatchSize : \E q \in BatchRequest :
          /\ q = [r EXCEPT !.next = k]
          /\ q.dst = r.dst /\ q.message = r.message /\ q.fetch_offset = r.fetch_offset
          /\ q.next = k
  <1>1. ASSUME NEW r \in SingleRequest
        PROVE  /\ [r EXCEPT !.checked = TRUE] \in SingleRequest
               /\ [r EXCEPT !.checked = TRUE].message = r.message
               /\ [r EXCEPT !.checked = TRUE].fetch_offset = r.fetch_offset
    BY Zenon DEF SingleRequest
  <1>2. ASSUME NEW r \in BatchRequest, NEW k \in 0..BatchSize
        PROVE  /\ [r EXCEPT !.next = k] \in BatchRequest
               /\ [r EXCEPT !.next = k].dst = r.dst
               /\ [r EXCEPT !.next = k].message = r.message
               /\ [r EXCEPT !.next = k].fetch_offset = r.fetch_offset
               /\ [r EXCEPT !.next = k].next = k
    BY Zenon DEF BatchRequest
  <1>. QED  BY <1>1, <1>2, Zenon

\* The leader check of handle_replication_request, for either kind of request.
LEMMA PeerChecks ==
    ASSUME BatchInv,
           \/ /\ \E r \in replicates : handle_replication_check(r)
              /\ UNCHANGED batchVars
           \/ \E r \in batch_replicates : handle_batch_replication_check(r)
    PROVE  BatchInv'
  <1>1. /\ BatchTypes /\ InFlight
        /\ replicates \subseteq SingleRequest /\ batch_replicates \subseteq BatchRequest
    BY Zenon DEF BatchInv, BatchTypes, SingleRequest, BatchRequest
  <1>2. CASE /\ \E r \in replicates : handle_replication_check(r)
             /\ UNCHANGED batchVars
    <2>1. PICK r \in replicates : handle_replication_check(r)
      BY <1>2, Zenon
    <2>2. UNCHANGED <<peerQuiet, log, batch_replicates>> /\ Grows
      BY <1>2, <2>1, Zenon DEF handle_replication_check, peerQuiet, logVars, ackVars, batchVars,
                        Grows
    <2>3. PICK q \in SingleRequest :
                /\ q = [r EXCEPT !.checked = TRUE]
                /\ q.message = r.message /\ q.fetch_offset = r.fetch_offset
      BY <1>1, RequestGoesOn, Zenon
    <2>4. /\ replicates' \subseteq replicates \cup {q}
          /\ Answer(r, "refused") \/ reply' = reply
          /\ r.message \in Messages
      BY <1>1, <2>1, <2>3, Zenon DEF handle_replication_check, SingleRequest, Singles
    <2>5. /\ reply' \in [Messages -> {"none", "ack", "refused"}]
          /\ \A n \in Messages : reply'[n] = reply[n] \/ reply'[n] # "ack"
      BY <1>1, <2>4, Answers, Zenon DEF BatchTypes
    <2>6. BatchTypes'
      <3>1. replicates' \subseteq SingleRequest
        BY <1>1, <2>4, Zenon
      <3>. QED  BY <1>1, <2>2, <2>5, <3>1, Zenon DEF BatchTypes, peerQuiet, SingleRequest
    <2>7. InFlight'
      <3>1. SingleInFlight(r)' /\ \A s \in replicates : SingleInFlight(s)'
        BY <2>2, PeerFlight, Zenon
      <3>2. SingleInFlight(q)'
        BY <2>3, <3>1, Zenon DEF SingleInFlight
      <3>. QED  BY <2>2, <2>4, <3>1, <3>2, PeerFlight, Zenon DEF InFlight
    <2>. QED  BY <2>2, <2>5, <2>6, <2>7, PeerStep, Zenon
  <1>3. CASE \E r \in batch_replicates : handle_batch_replication_check(r)
    <2>1. PICK r \in batch_replicates : handle_batch_replication_check(r)
      BY <1>3, Zenon
    <2>2. UNCHANGED <<peerQuiet, log, replicates>> /\ Grows
      BY <2>1, Zenon DEF handle_batch_replication_check, peerQuiet, logVars, ackVars, netVars, Grows
    <2>3. 1 \in 0..BatchSize
      BY BatchAssumption
    <2>4. PICK q \in BatchRequest :
                /\ q = [r EXCEPT !.next = 1]
                /\ q.dst = r.dst /\ q.message = r.message
                /\ q.fetch_offset = r.fetch_offset /\ q.next = 1
      BY <1>1, <2>3, RequestGoesOn
    <2>5. /\ batch_replicates' \subseteq batch_replicates \cup {q}
          /\ Answer(r, "refused") \/ reply' = reply
          /\ r.message \in Messages
      BY <1>1, <2>1, <2>4, BatchAssumption, Zenon
         DEF handle_batch_replication_check, first_record, BatchRequest
    <2>6. /\ reply' \in [Messages -> {"none", "ack", "refused"}]
          /\ \A n \in Messages : reply'[n] = reply[n] \/ reply'[n] # "ack"
      BY <1>1, <2>5, Answers, Zenon DEF BatchTypes
    <2>7. BatchTypes'
      <3>1. batch_replicates' \subseteq BatchRequest
        BY <1>1, <2>5, Zenon
      <3>. QED  BY <1>1, <2>2, <2>6, <3>1, Zenon DEF BatchTypes, peerQuiet, BatchRequest
    <2>8. InFlight'
      <3>1. BatchInFlight(r)'
        BY <2>2, PeerFlight, Zenon
      <3>2. BatchInFlight(q)'
        BY <2>4, <3>1 DEF BatchInFlight
      <3>. QED  BY <2>2, <2>5, <3>2, PeerFlight, Zenon DEF InFlight
    <2>. QED  BY <2>2, <2>6, <2>7, <2>8, PeerStep, Zenon
  <1>. QED  BY <1>2, <1>3, Zenon

\* A follower appends a single record, and sends an ACK if it landed at the leader's
\* offset.
LEMMA PeerAppendsSingle ==
    ASSUME BatchInv, NEW r \in replicates, handle_replication_append(r),
           UNCHANGED batchVars
    PROVE  BatchInv'
  <1>1. /\ BatchTypes /\ InFlight /\ r \in SingleRequest /\ SingleInFlight(r)
        /\ r.dst \in Brokers /\ r.message \in Messages /\ r.message \notin Batches
        /\ r.message \in Records /\ r.fetch_offset \in Nat
    BY Zenon DEF BatchInv, BatchTypes, InFlight, SingleRequest, Singles, Records
  <1>2. PICK answer \in {"ack", "refused"} :
              /\ Answer(r, answer)
              /\ answer = "ack" => Len(log[r.dst]) = r.fetch_offset
    BY Zenon DEF handle_replication_append
  <1>3. /\ UNCHANGED <<peerQuiet, batch_replicates>> /\ replicates' \subseteq replicates
        /\ append(r.dst, r.message)
    BY Zenon DEF handle_replication_append, peerQuiet, ackVars, batchVars
  <1>4. /\ log' \in [Brokers -> Seq(Records)]
        /\ \A c \in Brokers : Len(log'[c]) <= MaxRecords
        /\ Grows
        /\ answer = "ack" => Holds(r.dst, r.fetch_offset, r.message)'
    <2>1. /\ log' \in [Brokers -> Seq(Records)]
          /\ \A c \in Brokers : Len(log'[c]) <= MaxRecords
          /\ Grows
          /\ \A o \in Nat : o = Len(log[r.dst]) => Holds(r.dst, o, r.message)'
      BY <1>1, <1>3, RecordAppended, Zenon
    <2>. QED  BY <1>1, <1>2, <2>1, Zenon
  <1>5. /\ reply' \in [Messages -> {"none", "ack", "refused"}]
        /\ \A n \in Messages :
              \/ reply'[n] = reply[n]
              \/ /\ reply'[n] = answer /\ n = r.message
                 /\ pc[n] = "waiting" /\ r.dst = Target(n)
    BY <1>1, <1>2, Answers, Zenon
  <1>6. \A n \in Messages : \/ reply'[n] = reply[n]
                            \/ reply'[n] # "ack"
                            \/ pc[n] = "waiting" /\ Replica(Target(n), n)'
    <2>1. answer = "ack" /\ r.dst = Target(r.message) =>
             Replica(Target(r.message), r.message)'
      BY <1>1, <1>3, <1>4, Zenon DEF Replica, SingleInFlight, Target, peerQuiet
    <2>. QED  BY <1>5, <2>1, Zenon
  <1>7. BatchTypes'
    <2>1. replicates' \subseteq SingleRequest
      BY <1>1, <1>3, Zenon DEF BatchTypes, SingleRequest
    <2>. QED  BY <1>1, <1>3, <1>4, <1>5, <2>1, Zenon DEF BatchTypes, peerQuiet, SingleRequest
  <1>8. InFlight'
    BY <1>3, <1>4, PeerFlight, Zenon DEF InFlight
  <1>. QED  BY <1>3, <1>4, <1>6, <1>7, <1>8, PeerStep, Zenon

\* A follower appends a record of a batch.  It goes on while the records land where
\* the leader assumes them, and sends the ACK after the last one.
LEMMA PeerAppendsBatch ==
    ASSUME BatchInv, NEW r \in batch_replicates, handle_batch_replication_append(r)
    PROVE  BatchInv'
  <1>. DEFINE expected == Len(log[r.dst]) = r.fetch_offset + r.next - 1
  <1>1. /\ BatchTypes /\ r \in BatchRequest /\ BatchInFlight(r)
        /\ batch_replicates \subseteq BatchRequest
    BY Zenon DEF BatchInv, BatchTypes, InFlight, BatchRequest
  <1>2. /\ r.dst \in Brokers /\ r.message \in Messages /\ r.message \in Batches
        /\ r.fetch_offset \in Nat /\ r.next \in 1..BatchSize
        /\ <<r.message, r.next>> \in Records
        /\ r.fetch_offset + r.next - 1 \in Nat
    BY <1>1, BatchAssumption DEF BatchRequest, handle_batch_replication_append, Records
  <1>3. UNCHANGED <<peerQuiet, replicates>> /\ append(r.dst, <<r.message, r.next>>)
    BY Zenon DEF handle_batch_replication_append, peerQuiet, ackVars, netVars
  <1>4. /\ log' \in [Brokers -> Seq(Records)]
        /\ \A c \in Brokers : Len(log'[c]) <= MaxRecords
        /\ Grows
        /\ expected => Holds(r.dst, r.fetch_offset + r.next - 1, <<r.message, r.next>>)'
    <2>1. /\ log' \in [Brokers -> Seq(Records)]
          /\ \A c \in Brokers : Len(log'[c]) <= MaxRecords
          /\ Grows
          /\ \A o \in Nat : o = Len(log[r.dst]) =>
                Holds(r.dst, o, <<r.message, r.next>>)'
      BY <1>1, <1>2, <1>3, RecordAppended, Zenon
    <2>2. PICK o \in Nat : o = r.fetch_offset + r.next - 1
      BY <1>2, Zenon
    <2>. QED  BY <2>1, <2>2, Zenon
  <1>. HIDE DEF expected
  <1>5. BatchInFlight(r)'
    BY <1>3, <1>4, PeerFlight, Zenon
  <1>6. ASSUME expected, NEW i \in 1..r.next
        PROVE  Holds(r.dst, r.fetch_offset + i - 1, <<r.message, i>>)'
    <2>1. CASE i = r.next
      BY <1>4, <1>6, <2>1, Zenon
    <2>2. CASE i # r.next
      <3>1. i \in 1..(r.next - 1)
        BY <1>2, <2>2
      <3>. QED  BY <1>5, <3>1, Zenon DEF BatchInFlight
    <2>. QED  BY <2>1, <2>2, Zenon
  <1>7. CASE goes_on(r, expected)
    <2>1. r.next + 1 \in 0..BatchSize
      BY <1>2, <1>7, BatchAssumption DEF goes_on
    <2>2. PICK q \in BatchRequest :
                /\ q = [r EXCEPT !.next = r.next + 1]
                /\ q.dst = r.dst /\ q.message = r.message
                /\ q.fetch_offset = r.fetch_offset /\ q.next = r.next + 1
      BY <1>1, <2>1, RequestGoesOn, ZenonT(40)
    <2>3. batch_replicates' \subseteq batch_replicates \cup {q} /\ UNCHANGED reply
      BY <1>7, <2>2, Zenon DEF handle_batch_replication_append, expected
    <2>4. BatchTypes'
      <3>1. batch_replicates' \subseteq BatchRequest
        BY <1>1, <2>3, Zenon
      <3>2. UNCHANGED <<pc, at, offset, todo, mutex, ack_counts, appended_offsets>>
        BY <1>3, Zenon DEF peerQuiet
      <3>. QED  BY <1>1, <1>3, <1>4, <2>3, <3>1, <3>2, Zenon DEF BatchTypes, BatchRequest
    <2>5. BatchInFlight(q)'
      BY <1>2, <1>5, <1>6, <1>7, <2>2 DEF BatchInFlight, goes_on
    <2>6. InFlight'
      BY <1>3, <1>4, <2>3, <2>5, PeerFlight, Zenon DEF InFlight
    <2>. QED  BY <1>3, <1>4, <2>3, <2>4, <2>6, PeerStep, Zenon
  <1>8. CASE ~goes_on(r, expected)
    <2>1. PICK answer \in {"ack", "refused"} :
                /\ Answer(r, answer)
                /\ answer = "ack" => expected /\ r.next = BatchSize
                /\ batch_replicates' \subseteq batch_replicates
      BY <1>2, <1>8, BatchAssumption
         DEF handle_batch_replication_append, expected, goes_on
    <2>2. /\ reply' \in [Messages -> {"none", "ack", "refused"}]
          /\ \A n \in Messages :
                \/ reply'[n] = reply[n]
                \/ /\ reply'[n] = answer /\ n = r.message
                   /\ pc[n] = "waiting" /\ r.dst = Target(n)
      BY <1>1, <1>2, <2>1, Answers, Zenon
    <2>3. answer = "ack" /\ r.dst = Target(r.message) =>
             Replica(Target(r.message), r.message)'
      <3>1. Target(r.message)' = Target(r.message) /\ first_offset(r.message)' = r.fetch_offset
        BY <1>3, <1>5, Zenon DEF Target, peerQuiet, BatchInFlight
      <3>. QED  BY <1>2, <1>6, <2>1, <3>1, Zenon DEF Replica, HoldsBatch
    <2>4. \A n \in Messages : \/ reply'[n] = reply[n]
                              \/ reply'[n] # "ack"
                              \/ pc[n] = "waiting" /\ Replica(Target(n), n)'
      BY <2>2, <2>3, Zenon
    <2>5. BatchTypes'
      <3>1. batch_replicates' \subseteq BatchRequest
        BY <1>1, <2>1, Zenon
      <3>. QED  BY <1>1, <1>3, <1>4, <2>2, <3>1, Zenon DEF BatchTypes, peerQuiet, BatchRequest
    <2>6. InFlight'
      BY <1>3, <1>4, <2>1, PeerFlight, Zenon DEF InFlight
    <2>. QED  BY <1>3, <1>4, <2>4, <2>5, <2>6, PeerStep, Zenon
  <1>. QED  BY <1>7, <1>8, Zenon
-----------------------------------------------------------------------------
(* The steps that remain: COMMIT requests, heartbeats, restarts, crashes.  *)

\* Steps that change none of the state BatchInv is about.
LEMMA QuietSteps ==
    ASSUME BatchInv,
           UNCHANGED <<log, ack_counts, mutex, pc, at, offset, todo, reply, replicates,
                       batchVars>>
    PROVE  BatchInv'
  <1>1. UNCHANGED <<peerQuiet, log, reply, replicates, batch_replicates>> /\ Grows
    BY Zenon DEF peerQuiet, batchVars, Grows
  <1>2. BatchTypes /\ InFlight
    BY Zenon DEF BatchInv
  <1>3. BatchTypes'
    BY <1>1, <1>2, Zenon DEF BatchTypes, peerQuiet
  <1>4. InFlight'
    BY <1>1, PeerFlight, Zenon DEF InFlight
  <1>. QED  BY <1>1, <1>3, <1>4, PeerStep, Zenon

\* A crash ends the threads of the broker and loses what it was handling; it leaves
\* every log, and so every majority, alone.
LEMMA Crashes ==
    ASSUME BatchInv, NEW b \in Brokers, CrashServer(b)
    PROVE  BatchInv'
  <1>1. BatchTypes /\ InFlight /\ Grows /\ UNCHANGED <<log, offset, appended_offsets>>
    BY Zenon DEF BatchInv, CrashServer, CrashBroker, Grows
  <1>2. /\ replicates' \subseteq replicates /\ batch_replicates' \subseteq batch_replicates
        /\ mutex' = [mutex EXCEPT ![b] = {}]
        /\ ack_counts' = [ack_counts EXCEPT ![b] = [o \in Offsets |-> 0]]
    BY Zenon DEF CrashServer, CrashBroker
  <1>3. ASSUME NEW n \in Messages
        PROVE  /\ at[n] # b => /\ pc'[n] = pc[n] /\ at'[n] = at[n] /\ todo'[n] = todo[n]
                               /\ reply'[n] = reply[n] \/ reply'[n] = "refused"
               /\ at[n] = b => /\ pc'[n] = IF pc[n] \in Final THEN pc[n] ELSE "lost"
                               /\ at'[n] = 0 /\ todo'[n] = {} /\ reply'[n] # "ack"
    <2>1. /\ at'[n] = IF at[n] = b THEN 0 ELSE at[n]
          /\ todo'[n] = IF at[n] = b THEN {} ELSE todo[n]
          /\ pc'[n] = IF at[n] = b /\ pc[n] \notin Final THEN "lost" ELSE pc[n]
      BY Zenon DEF CrashServer, CrashBroker
    <2>2. reply'[n] = CASE at[n] = b -> "none"
                        [] pc[n] = "waiting" /\ Target(n) = b -> "refused"
                        [] OTHER -> reply[n]
      BY Zenon DEF CrashServer, CrashBroker
    <2>3. /\ at[n] # b => reply'[n] = reply[n] \/ reply'[n] = "refused"
          /\ at[n] = b => reply'[n] # "ack"
      <3>1. CASE pc[n] = "waiting" /\ Target(n) = b
        BY <2>2, <3>1, Zenon
      <3>2. CASE ~(pc[n] = "waiting" /\ Target(n) = b)
        BY <2>2, <3>2, Zenon
      <3>. QED  BY <3>1, <3>2, Zenon
    <2>. QED  BY <2>1, <2>3, Zenon
  <1>4. BatchTypes'
    <2>1. pc' \in [Messages -> BatchPoints]
      BY <1>1, Zenon DEF BatchTypes, CrashServer, CrashBroker, BatchPoints, Points, Final, Failures
    <2>2. /\ at' \in [Messages -> Brokers \cup {0}]
          /\ todo' \in [Messages -> SUBSET Brokers]
      BY <1>1, Zenon DEF BatchTypes, CrashServer, CrashBroker
    <2>3. reply' \in [Messages -> {"none", "ack", "refused"}]
      BY <1>1, Zenon DEF BatchTypes, CrashServer, CrashBroker
    <2>4. mutex' \in [Brokers -> SUBSET Messages]
      BY <1>1, <1>2, Zenon DEF BatchTypes
    <2>5. ack_counts' \in [Brokers -> [Offsets -> Nat]]
      BY <1>1, <1>2, Zenon DEF BatchTypes
    <2>. QED  BY <1>1, <1>2, <2>1, <2>2, <2>3, <2>4, <2>5, Zenon DEF BatchTypes
  <1>5. InFlight'
    <2>1. \A n \in Messages : pc[n] \notin {"idle", "admitted"} =>
                pc'[n] \notin {"idle", "admitted"} /\ offset'[n] = offset[n]
                /\ (n \in Batches => appended_offsets'[n] = appended_offsets[n])
      BY <1>1, <1>3, Zenon
    <2>. QED  BY <1>1, <1>2, <2>1, FlightKept, Zenon DEF InFlight
  <1>6. ASSUME NEW n \in Messages PROVE ThreadInv(n)'
    <2>1. ThreadInv(n)
      BY Zenon DEF BatchInv
    <2>2. CASE at[n] # b
      <3>1. /\ pc'[n] = pc[n] /\ at'[n] = at[n] /\ todo'[n] = todo[n]
            /\ reply'[n] = reply[n] \/ reply'[n] # "ack"
        BY <1>3, <2>2, Zenon
      <3>2. pc[n] \in InSession \cup {"broadcasting"} =>
              mutex'[at[n]] = mutex[at[n]] /\ ack_counts'[at[n]] = ack_counts[at[n]]
        <4>1. pc[n] \in InSession \cup {"broadcasting"} => at[n] \in Brokers
          BY <2>1, Zenon DEF ThreadInv, InSession, Running, BatchPoints, Points, Final, Failures
        <4>. QED  BY <1>1, <1>2, <2>2, <4>1, Zenon DEF BatchTypes
      <3>. QED  BY <1>1, <2>1, <3>1, <3>2, ThreadKept, Zenon
    <2>3. CASE at[n] = b
      <3>1. /\ pc'[n] \in Final /\ reply'[n] # "ack"
            /\ pc'[n] = "ok" => pc[n] = "ok"
        BY <1>3, <2>3, Zenon DEF Final, Failures
      <3>2. pc'[n] \notin Running /\ pc'[n] \notin InSession \cup {"broadcasting", "idle"}
        BY <3>1, Zenon DEF Running, InSession, Final, Failures
      <3>3. n \in Batches => BatchAppended(n)'
        BY <1>1, <2>1, <3>1, <3>2, Zenon DEF ThreadInv, BatchAppended, Running, BatchPoints,
           Points, Final, Failures
      <3>4. SingleAppended(n)'
        BY <3>2, Zenon DEF SingleAppended
      <3>5. SessionInv(n)'
        BY <3>1, <3>2, Zenon DEF SessionInv, InSession
      <3>6. Settled(n)'
        <4>1. pc'[n] = "ok" => /\ n \notin Batches => Majority(offset[n], n)
                               /\ n \in Batches => Landed(n)
          BY <2>1, <3>1, Zenon DEF ThreadInv, Settled
        <4>2. Majority(offset[n], n) => Majority(offset[n], n)'
          BY <1>1, Zenon DEF Majority, Holders, Holds
        <4>3. pc'[n] = "ok" /\ n \in Batches => Landed(n)'
          BY <1>1, <2>1, <3>1, <4>1, LandedStays, Zenon DEF ThreadInv, BatchAppended
        <4>. QED  BY <3>1, <4>1, <4>2, <4>3, Zenon DEF Settled, Final, Failures
      <3>. QED  BY <3>2, <3>3, <3>4, <3>5, <3>6, Zenon DEF ThreadInv
    <2>. QED  BY <2>2, <2>3, Zenon
  <1>. QED  BY <1>4, <1>5, <1>6, Zenon DEF BatchInv
-----------------------------------------------------------------------------
(* Every step, and the theorems.                                          *)

\* Every step of a PRODUCE's thread.
LEMMA SingleSteps ==
    ASSUME BatchInv, NEW m \in Singles, ServeProduce(m), UNCHANGED batchVars
    PROVE  BatchInv'
  <1>1. /\ m \in Messages /\ m \notin Batches /\ BatchTypes /\ ThreadInv(m)
        /\ Key(m) = offset[m] /\ UNCHANGED <<appended_offsets, batch_replicates>>
    BY Zenon DEF BatchInv, Singles, Key, batchVars
  <1>. DEFINE peers == {p \in Peers(at[m]) : is_peer_available(at[m], p)}
  <1>. peers \in SUBSET Peers(at[m]) /\ peers \in SUBSET Brokers
    BY Zenon DEF Peers
  <1>. HIDE DEF peers
  <1>. USE DEF quietVars, logVars, ackVars, netVars, Goto
  <1>2. CASE handle_produce_append(m)
    BY <1>2, SingleAppends, Zenon
  <1>3. CASE replicate_message_begin(m)
    <2>1. CASE is_leader(at[m])
      <3>1. Begins(m, peers)
        BY <1>1, <1>3, <2>1, Zenon DEF replicate_message_begin, Begins, peers
      <3>. QED  BY <1>1, <3>1, SessionBegins, Zenon
    <2>2. CASE ~is_leader(at[m])
      <3>1. Moves(m, "replication_failed")
        BY <1>1, <1>3, <2>2, Zenon DEF replicate_message_begin, Moves, Running, InSession,
                                BatchPoints, Points, Final, Failures
      <3>. QED  BY <1>1, <3>1, ThreadMoves, Zenon
    <2>. QED  BY <2>1, <2>2, Zenon
  <1>4. CASE replicate_to_peer_send(m)
    <2>1. GoesOn(m, "waiting")
      BY <1>1, <1>4, Zenon DEF replicate_to_peer_send, GoesOn, InSession
    <2>. QED  BY <1>1, <2>1, SessionGoesOn, Zenon
  <1>5. CASE replicate_to_peer_fail(m)
    <2>1. GoesOn(m, "replicating")
      BY <1>1, <1>5, Zenon DEF replicate_to_peer_fail, GoesOn, InSession, Visited
    <2>. QED  BY <1>1, <2>1, SessionGoesOn, Zenon
  <1>6. CASE replicate_to_peer_acked(m)
    <2>1. Counts(m)
      BY <1>1, <1>6, Zenon DEF replicate_to_peer_acked, Counts
    <2>. QED  BY <1>1, <2>1, SessionCounts, Zenon
  <1>7. CASE replicate_message_end(m)
    <2>1. pc[m] = "replicating" /\ mutex[at[m]] = {m}
      BY <1>1, <1>7, Zenon DEF replicate_message_end, ThreadInv, SessionInv, InSession
    <2>2. CASE quorum_reached(at[m], offset[m])
      <3>1. Majority(offset[m], m)
        BY <1>1, <2>1, <2>2, QuorumHolds, Zenon DEF quorum_reached
      <3>2. mutex' = [mutex EXCEPT ![at[m]] = {}] /\ pc' = [pc EXCEPT ![m] = "quorum"]
        BY <1>7, <2>2, Zenon DEF replicate_message_end
      <3>3. UNCHANGED <<offset, quietVars, ack_counts, todo, reply, replicates,
                        batch_replicates>>
        BY <1>1, <1>7, Zenon DEF replicate_message_end
      <3>4. Moves(m, "quorum")
        BY <1>1, <2>1, <3>1, <3>2, <3>3, Zenon DEF Moves, Running, InSession, BatchPoints, Points,
                                            Final, Failures
      <3>. QED  BY <1>1, <3>4, ThreadMoves, Zenon
    <2>3. CASE ~quorum_reached(at[m], offset[m])
      <3>1. Moves(m, "replication_failed")
        BY <1>1, <1>7, <2>1, <2>3, Zenon DEF replicate_message_end, Moves, Running,
           InSession, BatchPoints, Points, Final, Failures
      <3>. QED  BY <1>1, <3>1, ThreadMoves, Zenon
    <2>. QED  BY <2>2, <2>3, Zenon
  <1>8. CASE handle_produce_commit(m)
    <2>1. pc[m] = "quorum" /\ Majority(offset[m], m)
      BY <1>1, <1>8, Zenon DEF handle_produce_commit, ThreadInv, Settled
    <2>2. Moves(m, "committed") \/ Moves(m, "quorum_timeout")
      BY <1>1, <1>8, <2>1, Zenon DEF handle_produce_commit, Moves, Running, InSession,
                              BatchPoints, Points, Final, Failures
    <2>. QED  BY <1>1, <2>2, ThreadMoves, Zenon
  <1>9. CASE broadcast_commit_begin(m)
    <2>1. pc[m] = "committed" /\ Majority(offset[m], m)
      BY <1>1, <1>9, Zenon DEF broadcast_commit_begin, ThreadInv, Settled
    <2>2. CASE is_leader(at[m])
      <3>1. Broadcasts(m, peers)
        BY <1>1, <1>9, <2>2, Zenon DEF broadcast_commit_begin, Broadcasts, peers
      <3>. QED  BY <1>1, <3>1, BroadcastGoesOn, Zenon
    <2>3. CASE ~is_leader(at[m])
      <3>1. Moves(m, "ok")
        BY <1>1, <1>9, <2>1, <2>3, Zenon DEF broadcast_commit_begin, Moves, Running, InSession,
                                      BatchPoints, Points, Final, Failures
      <3>. QED  BY <1>1, <3>1, ThreadMoves, Zenon
    <2>. QED  BY <2>2, <2>3, Zenon
  <1>10. CASE broadcast_commit_send(m)
    <2>1. /\ mutex[at[m]] = {m} /\ mutex' = [mutex EXCEPT ![at[m]] = {m}]
          /\ pc' = [pc EXCEPT ![m] = "broadcasting"]
      BY <1>1, <1>10, Zenon DEF broadcast_commit_send, ThreadInv, SessionInv, BatchTypes
    <2>2. todo[m] \ {Target(m)} \in SUBSET Brokers
      BY <1>1, Zenon DEF BatchTypes
    <2>3. /\ pc[m] = "broadcasting" /\ todo' = [todo EXCEPT ![m] = todo[m] \ {Target(m)}]
          /\ UNCHANGED <<quietVars, offset, ack_counts, reply, replicates, batch_replicates>>
      BY <1>1, <1>10, Zenon DEF broadcast_commit_send, Visited
    <2>4. Broadcasts(m, todo[m] \ {Target(m)})
      BY <2>1, <2>2, <2>3, Zenon DEF Broadcasts
    <2>. QED  BY <1>1, <2>4, BroadcastGoesOn, Zenon
  <1>11. CASE broadcast_commit_end(m)
    <2>1. pc[m] = "broadcasting"
      BY <1>11, Zenon DEF broadcast_commit_end
    <2>2. mutex[at[m]] = {m} /\ Majority(offset[m], m)
      BY <1>1, <2>1, Zenon DEF ThreadInv, SessionInv, Settled
    <2>3. Moves(m, "ok")
      BY <1>1, <1>11, <2>1, <2>2, Zenon DEF broadcast_commit_end, Moves, Running, InSession,
                                     BatchPoints, Points, Final, Failures
    <2>. QED  BY <1>1, <2>3, ThreadMoves, Zenon
  <1>. QED  BY <1>2, <1>3, <1>4, <1>5, <1>6, <1>7, <1>8, <1>9, <1>10, <1>11, Zenon DEF ServeProduce

\* The loop that commits and broadcasts each offset of a batch goes on to the next
\* one or ends.
LEMMA NextOffsetMoves ==
    ASSUME BatchInv, NEW x \in Batches, NextOffset(x)
    PROVE  /\ \E point \in {"ok", "committing"} : pc' = [pc EXCEPT ![x] = point]
           /\ offset' = offset \/ \E o \in Nat : offset' = [offset EXCEPT ![x] = o]
  <1>1. CASE Later(x) = {}
    BY <1>1, Zenon DEF NextOffset, Goto
  <1>2. CASE Later(x) # {}
    <2>1. appended_offsets[x] \in Seq(Nat)
      BY Zenon DEF BatchInv, BatchTypes
    <2>2. Later(x) \in SUBSET Nat
      BY <2>1 DEF Later, Range
    <2>3. Min(Later(x)) \in Nat
      BY <1>2, <2>2, MinOfNats, Zenon
    <2>. QED  BY <1>2, <2>3, Zenon DEF NextOffset, Goto
  <1>. QED  BY <1>1, <1>2, Zenon

\* Every step of a BATCH_PRODUCE's thread.
LEMMA BatchSteps ==
    ASSUME BatchInv, NEW x \in Batches, ServeBatch(x)
    PROVE  BatchInv'
  <1>1. x \in Messages /\ BatchTypes /\ ThreadInv(x) /\ Key(x) = ack_key(x)
    BY BatchAssumption, Zenon DEF BatchInv, Key
  <1>. DEFINE peers == {p \in Peers(at[x]) : is_peer_available(at[x], p)}
  <1>. peers \in SUBSET Peers(at[x]) /\ peers \in SUBSET Brokers
    BY Zenon DEF Peers
  <1>. HIDE DEF peers
  <1>. USE DEF quietVars, logVars, ackVars, netVars, batchVars, Goto
  <1>2. CASE handle_batch_produce_append(x)
    BY <1>2, BatchAppends, Zenon
  <1>3. CASE replicate_batch_check(x)
    <2>1. /\ pc[x] = "appended"
          /\ UNCHANGED <<quietVars, offset, mutex, ack_counts, todo, reply, replicates,
                         batch_replicates>>
      BY <1>3, Zenon DEF replicate_batch_check
    <2>2. \/ pc' = [pc EXCEPT ![x] = "checked"]
          \/ pc' = [pc EXCEPT ![x] = "quorum_timeout"]
      <3>1. CASE is_leader(at[x])
        BY <1>3, <3>1, Zenon DEF replicate_batch_check
      <3>2. CASE ~is_leader(at[x])
        BY <1>3, <3>2, Zenon DEF replicate_batch_check
      <3>. QED  BY <3>1, <3>2, Zenon
    <2>3. Moves(x, "checked") \/ Moves(x, "quorum_timeout")
      BY <1>1, <2>1, <2>2, Zenon DEF Moves, Running, InSession, BatchPoints, Points, Final,
                              Failures
    <2>. QED  BY <1>1, <2>3, ThreadMoves, Zenon
  <1>4. CASE replicate_batch_begin(x)
    <2>1. Begins(x, peers)
      BY <1>1, <1>4, Zenon DEF replicate_batch_begin, Begins, peers
    <2>. QED  BY <1>1, <2>1, SessionBegins, Zenon
  <1>5. CASE replicate_batch_send(x)
    <2>1. GoesOn(x, "waiting")
      BY <1>1, <1>5, Zenon DEF replicate_batch_send, GoesOn, InSession
    <2>. QED  BY <1>1, <2>1, SessionGoesOn, Zenon
  <1>6. CASE replicate_batch_fail(x)
    <2>1. GoesOn(x, "replicating")
      BY <1>1, <1>6, Zenon DEF replicate_batch_fail, replicate_to_peer_fail, GoesOn, InSession,
                        Visited
    <2>. QED  BY <1>1, <2>1, SessionGoesOn, Zenon
  <1>7. CASE replicate_batch_acked(x)
    <2>1. Counts(x)
      BY <1>1, <1>7, Zenon DEF replicate_batch_acked, Counts
    <2>. QED  BY <1>1, <2>1, SessionCounts, Zenon
  <1>8. CASE replicate_batch_end(x)
    <2>1. /\ pc[x] = "replicating" /\ mutex' = [mutex EXCEPT ![at[x]] = {}]
          /\ UNCHANGED <<offset, quietVars, ack_counts, todo, reply, replicates,
                         batch_replicates>>
      BY <1>8, Zenon DEF replicate_batch_end
    <2>2. mutex[at[x]] = {x}
      BY <1>1, <2>1, Zenon DEF ThreadInv, SessionInv, InSession
    <2>3. CASE quorum_reached(at[x], ack_key(x))
      <3>1. Landed(x)
        BY <1>1, <2>1, <2>3, QuorumHolds, Zenon DEF quorum_reached
      <3>2. pc' = [pc EXCEPT ![x] = "polling"]
        BY <1>8, <2>3, Zenon DEF replicate_batch_end
      <3>3. Moves(x, "polling")
        BY <1>1, <2>1, <2>2, <3>1, <3>2, Zenon DEF Moves, Running, InSession, BatchPoints, Points,
                                            Final, Failures
      <3>. QED  BY <1>1, <3>3, ThreadMoves, Zenon
    <2>4. CASE ~quorum_reached(at[x], ack_key(x))
      <3>1. pc' = [pc EXCEPT ![x] = "quorum_timeout"]
        BY <1>8, <2>4, Zenon DEF replicate_batch_end
      <3>2. Moves(x, "quorum_timeout")
        BY <1>1, <2>1, <2>2, <3>1, Zenon DEF Moves, Running, InSession, BatchPoints, Points,
                                      Final, Failures
      <3>. QED  BY <1>1, <3>2, ThreadMoves, Zenon
    <2>. QED  BY <2>3, <2>4, Zenon
  <1>9. CASE wait_for_quorum(x)
    <2>1. /\ pc[x] = "polling"
          /\ UNCHANGED <<quietVars, mutex, ack_counts, todo, reply, replicates,
                         batch_replicates>>
      BY <1>9, Zenon DEF wait_for_quorum
    <2>2. Landed(x) /\ first_offset(x) \in Nat
      BY <1>1, <2>1, FirstOffset, Zenon DEF ThreadInv, Settled, BatchAppended, Running,
                                     BatchPoints, Points, Final, Failures
    <2>3. \/ /\ pc' = [pc EXCEPT ![x] = "committing"]
             /\ offset' = [offset EXCEPT ![x] = first_offset(x)]
          \/ pc' = [pc EXCEPT ![x] = "quorum_timeout"] /\ offset' = offset
      BY <1>9, Zenon DEF wait_for_quorum
    <2>4. Moves(x, "committing") \/ Moves(x, "quorum_timeout")
      BY <1>1, <2>1, <2>2, <2>3, Zenon DEF Moves, Running, InSession, BatchPoints, Points, Final,
                                    Failures
    <2>. QED  BY <1>1, <2>4, ThreadMoves, Zenon
  <1>10. CASE handle_batch_produce_commit(x)
    <2>1. Landed(x)
      BY <1>1, <1>10, Zenon DEF handle_batch_produce_commit, ThreadInv, Settled
    <2>2. Moves(x, "committed")
      BY <1>1, <1>10, <2>1, Zenon DEF handle_batch_produce_commit, Moves, Running, InSession,
                               BatchPoints, Points, Final, Failures
    <2>. QED  BY <1>1, <2>2, ThreadMoves, Zenon
  <1>11. CASE broadcast_batch_commit_begin(x)
    <2>1. /\ pc[x] = "committed" /\ mutex[at[x]] = {}
          /\ UNCHANGED <<quietVars, ack_counts, reply, replicates, batch_replicates>>
      BY <1>11, Zenon DEF broadcast_batch_commit_begin
    <2>2. CASE is_leader(at[x])
      <3>1. Broadcasts(x, peers)
        BY <1>11, <2>1, <2>2, Zenon DEF broadcast_batch_commit_begin, Broadcasts, peers
      <3>. QED  BY <1>1, <3>1, BroadcastGoesOn, Zenon
    <2>3. CASE ~is_leader(at[x])
      <3>1. NextOffset(x) /\ UNCHANGED <<mutex, todo>>
        BY <1>11, <2>3, Zenon DEF broadcast_batch_commit_begin
      <3>2. PICK point \in {"ok", "committing"} : pc' = [pc EXCEPT ![x] = point]
        BY <3>1, NextOffsetMoves, Zenon
      <3>3. /\ offset' = offset \/ \E o \in Nat : offset' = [offset EXCEPT ![x] = o]
            /\ Landed(x)
        BY <1>1, <2>1, <3>1, NextOffsetMoves, Zenon DEF ThreadInv, Settled
      <3>4. Moves(x, point)
        BY <1>1, <2>1, <3>1, <3>2, <3>3, Zenon DEF Moves, Running, InSession, BatchPoints, Points,
                                            Final, Failures
      <3>. QED  BY <1>1, <3>4, ThreadMoves, Zenon
    <2>. QED  BY <2>2, <2>3, Zenon
  <1>12. CASE broadcast_batch_commit_send(x)
    <2>1. /\ mutex[at[x]] = {x} /\ mutex' = [mutex EXCEPT ![at[x]] = {x}]
          /\ pc' = [pc EXCEPT ![x] = "broadcasting"]
      BY <1>1, <1>12, Zenon DEF broadcast_batch_commit_send, broadcast_commit_send, ThreadInv,
                         SessionInv, BatchTypes
    <2>2. todo[x] \ {Target(x)} \in SUBSET Brokers
      BY <1>1, Zenon DEF BatchTypes
    <2>3. /\ pc[x] = "broadcasting" /\ todo' = [todo EXCEPT ![x] = todo[x] \ {Target(x)}]
          /\ UNCHANGED <<quietVars, offset, ack_counts, reply, replicates, batch_replicates>>
      BY <1>12, Zenon DEF broadcast_batch_commit_send, broadcast_commit_send, Visited
    <2>4. Broadcasts(x, todo[x] \ {Target(x)})
      BY <2>1, <2>2, <2>3, Zenon DEF Broadcasts
    <2>. QED  BY <1>1, <2>4, BroadcastGoesOn, Zenon
  <1>13. CASE broadcast_batch_commit_end(x)
    <2>1. /\ pc[x] = "broadcasting" /\ NextOffset(x)
          /\ mutex' = [mutex EXCEPT ![at[x]] = {}]
          /\ UNCHANGED <<quietVars, ack_counts, todo, reply, replicates, batch_replicates>>
      BY <1>13, Zenon DEF broadcast_batch_commit_end
    <2>2. mutex[at[x]] = {x} /\ Landed(x)
      BY <1>1, <2>1, Zenon DEF ThreadInv, SessionInv, Settled
    <2>3. PICK point \in {"ok", "committing"} : pc' = [pc EXCEPT ![x] = point]
      BY <2>1, NextOffsetMoves, Zenon
    <2>4. offset' = offset \/ \E o \in Nat : offset' = [offset EXCEPT ![x] = o]
      BY <2>1, NextOffsetMoves, Zenon
    <2>5. Moves(x, point)
      BY <1>1, <2>1, <2>2, <2>3, <2>4, Zenon DEF Moves, Running, InSession, BatchPoints, Points,
                                          Final, Failures
    <2>. QED  BY <1>1, <2>5, ThreadMoves, Zenon
  <1>. QED  BY <1>2, <1>3, <1>4, <1>5, <1>6, <1>7, <1>8, <1>9, <1>10, <1>11, <1>12, <1>13, Zenon
            DEF ServeBatch

\* BatchInv holds in the initial state and is kept by every step.
THEOREM BatchInvariance == BatchSpec => []BatchInv
  <1>1. BatchInit => BatchInv
    <2>. SUFFICES ASSUME BatchInit PROVE BatchInv
      BY Zenon
    <2>1. /\ \A b \in Brokers : log[b] = <<>>
          /\ \A m \in Messages : pc[m] = "idle" /\ reply[m] = "none"
          /\ \A x \in Batches : appended_offsets[x] = <<>>
          /\ replicates = {} /\ batch_replicates = {}
      BY Zenon DEF BatchInit, Init
    <2>2. BatchTypes
      <3>1. <<>> \in Seq(Records) /\ <<>> \in Seq(Nat) /\ Len(<<>>) = 0
        OBVIOUS
      <3>2. pc \in [Messages -> BatchPoints] /\ at \in [Messages -> Brokers \cup {0}]
        BY Zenon DEF BatchInit, Init, BatchPoints, Points
      <3>3. /\ mutex \in [Brokers -> SUBSET Messages]
            /\ todo \in [Messages -> SUBSET Brokers]
            /\ ack_counts \in [Brokers -> [Offsets -> Nat]]
        BY Zenon DEF BatchInit, Init
      <3>. QED  BY <2>1, <3>1, <3>2, <3>3, ReplicationAssumption DEF BatchTypes, BatchInit, Init
    <2>3. ASSUME NEW m \in Messages PROVE ThreadInv(m)
      BY <2>1, <2>3, Zenon DEF ThreadInv, BatchAppended, SingleAppended, SessionInv, Settled,
                        Running, InSession
    <2>. QED  BY <2>1, <2>2, <2>3, Zenon DEF BatchInv, InFlight
  <1>2. BatchInv /\ [BatchNext]_allVars => BatchInv'
    <2>. SUFFICES ASSUME BatchInv, [BatchNext]_allVars PROVE BatchInv'
      BY Zenon
    <2>. USE DEF logVars, ackVars, netVars, reqVars, replVars, batchVars
    <2>1. ASSUME NEW x \in Batches, NEW b \in Brokers, handle_batch_produce_admit(x, b)
          PROVE  BatchInv'
      BY <2>1, Admits, BatchAssumption, Zenon DEF handle_batch_produce_admit
    <2>2. ASSUME NEW x \in Batches, ServeBatch(x) PROVE BatchInv'
      BY <2>2, BatchSteps, Zenon
    <2>3. CASE ServeBatchPeer
      BY <2>3, PeerChecks, PeerAppendsBatch, Zenon DEF ServeBatchPeer
    <2>4. ASSUME NEW m \in Messages \ Batches, NEW b \in Brokers,
                 handle_produce_admit(m, b), UNCHANGED batchVars
          PROVE  BatchInv'
      BY <2>4, Admits, Zenon
    <2>5. ASSUME NEW m \in Messages \ Batches, ServeProduce(m), UNCHANGED batchVars
          PROVE  BatchInv'
      BY <2>5, SingleSteps, Zenon DEF Singles
    <2>6. CASE ServePeer /\ UNCHANGED batchVars
      <3>1. CASE \E r \in replicates : handle_replication_check(r)
        BY <2>6, <3>1, PeerChecks, Zenon
      <3>2. CASE \E r \in replicates : handle_replication_append(r)
        BY <2>6, <3>2, PeerAppendsSingle, Zenon
      <3>3. CASE \E c \in commits : handle_commit_request(c)
        BY <2>6, <3>3, QuietSteps, Zenon DEF handle_commit_request
      <3>. QED  BY <2>6, <3>1, <3>2, <3>3, Zenon DEF ServePeer
    <2>7. CASE /\ \/ \E b \in Brokers : heartbeat_loop(b)
                  \/ \E b, p \in Brokers : handle_heartbeat_request(b, p)
                  \/ \E b \in Brokers : RestartBroker(b)
               /\ UNCHANGED batchVars
      BY <2>7, QuietSteps, Zenon DEF heartbeat_loop, handle_heartbeat_request, RestartBroker
    <2>8. ASSUME NEW b \in Brokers, CrashServer(b) PROVE BatchInv'
      BY <2>8, Crashes, Zenon
    <2>9. CASE UNCHANGED allVars
      BY <2>9, QuietSteps, Zenon DEF allVars, vars
    <2>. QED  BY <2>1, <2>2, <2>3, <2>4, <2>5, <2>6, <2>7, <2>8, <2>9, Zenon DEF BatchNext
  <1>. QED  BY <1>1, <1>2, PTL DEF BatchSpec

\* A PRODUCE answered with success has its record on a majority of the brokers at
\* the answered offset, however batches are replicated beside it.
THEOREM SinglesOnMajority == BatchSpec => []SinglesHeldByMajority
  <1>1. BatchInv => SinglesHeldByMajority
    BY Zenon DEF BatchInv, ThreadInv, Settled, SinglesHeldByMajority, Acked
  <1>. QED  BY <1>1, BatchInvariance, PTL

\* Every record of an answered batch that landed where replicate_batch assumes it
\* did is on a majority of the brokers.
THEOREM BatchesOnMajority == BatchSpec => []BatchHeldByMajority
  <1>1. BatchInv => BatchHeldByMajority
    BY BatchAssumption, Zenon DEF BatchInv, ThreadInv, Settled, Landed, BatchHeldByMajority, Acked
  <1>. QED  BY <1>1, BatchInvariance, PTL
-----------------------------------------------------------------------------
(* The order of a batch's records on every replica.                        *)

\* What a record appended to a log changes among the batch records there.
LEMMA HasAfterAppend ==
    ASSUME BatchTypes, NEW b \in Brokers, NEW e \in Records, append(b, e),
           NEW c \in Brokers, NEW x \in Batches, NEW i \in Nat
    PROVE  Has(c, x, i)' <=> Has(c, x, i) \/ (c = b /\ e = <<x, i>>)
  <1>1. log[b] \in Seq(Records) /\ Len(log[b]) \in Nat
    BY DEF BatchTypes
  <1>2. log'[b] = Append(log[b], e) /\ (c # b => log'[c] = log[c])
    BY Zenon DEF append, BatchTypes
  <1>3. /\ Len(log'[b]) = Len(log[b]) + 1
        /\ \A n \in 1..Len(log[b]) : log'[b][n] = log[b][n]
        /\ log'[b][Len(log[b]) + 1] = e
    BY <1>1, <1>2
  <1>4. 1..(Len(log[b]) + 1) = (1..Len(log[b])) \cup {Len(log[b]) + 1}
    BY <1>1
  <1>5. CASE c = b
    BY <1>3, <1>4, <1>5, Zenon DEF Has
  <1>6. CASE c # b
    BY <1>2, <1>6, Zenon DEF Has
  <1>. QED  BY <1>5, <1>6, Zenon

\* A log stays in order when the record appended to it is no batch's, or the next
\* of its batch.
LEMMA OrderAfterAppend ==
    ASSUME BatchTypes, BatchOrder, NEW b \in Brokers, NEW e \in Records, append(b, e),
           \A x \in Batches, i \in 1..BatchSize :
              e = <<x, i>> => ~Has(b, x, i) /\ (i > 1 => Has(b, x, i - 1))
    PROVE  BatchOrder'
  <1>1. log[b] \in Seq(Records) /\ Len(log[b]) \in Nat
    BY DEF BatchTypes
  <1>2. log'[b] = Append(log[b], e) /\ \A c \in Brokers : c # b => log'[c] = log[c]
    BY Zenon DEF append, BatchTypes
  <1>3. /\ Len(log'[b]) = Len(log[b]) + 1
        /\ \A n \in 1..Len(log[b]) : log'[b][n] = log[b][n]
        /\ log'[b][Len(log[b]) + 1] = e
    BY <1>1, <1>2
  <1>7. \A k \in 1..Len(log'[b]) : log'[b][k] # e => k \in 1..Len(log[b])
    BY <1>1, <1>3
  <1>. SUFFICES ASSUME NEW c \in Brokers, NEW x \in Batches, NEW i \in 1..BatchSize,
                       NEW n \in 1..Len(log'[c]), log'[c][n] = <<x, i>>
                PROVE  InPlace(c, n, x, i)'
    BY Zenon DEF BatchOrder
  <1>4. CASE c # b
    <2>1. log'[c] = log[c]
      BY <1>2, <1>4, Zenon
    <2>2. n \in 1..Len(log[c]) /\ log[c][n] = <<x, i>>
      BY <2>1, Zenon
    <2>3. InPlace(c, n, x, i)
      BY <2>2, Zenon DEF BatchOrder
    <2>. QED  BY <2>1, <2>3, Zenon DEF InPlace
  <1>5. CASE c = b /\ e = <<x, i>>
    <2>1. \A k \in 1..Len(log[b]) : log[b][k] # <<x, i>>
      BY <1>5, Zenon DEF Has
    <2>2. n = Len(log[b]) + 1
      BY <1>1, <1>3, <1>5, <2>1
    <2>3. i > 1 => \E k \in 1..Len(log[b]) : log[b][k] = <<x, i - 1>>
      BY <1>5, Zenon DEF Has
    <2>4. n - 1 = Len(log[b])
      BY <1>1, <2>2
    <2>5. i > 1 => \E k \in 1..(n - 1) : log'[c][k] = <<x, i - 1>>
      BY <1>3, <1>5, <2>3, <2>4, Zenon
    <2>6. \A k \in 1..Len(log'[c]) : log'[c][k] = <<x, i>> => k = n
      BY <1>1, <1>3, <1>5, <2>1, <2>2
    <2>. QED  BY <2>5, <2>6, Zenon DEF InPlace
  <1>6. CASE c = b /\ e # <<x, i>>
    <2>1. n \in 1..Len(log[b]) /\ log[b][n] = <<x, i>>
      BY <1>3, <1>6, <1>7, Zenon
    <2>6. InPlace(b, n, x, i)
      BY <2>1, Zenon DEF BatchOrder
    <2>2. /\ i > 1 => \E k \in 1..(n - 1) : log[b][k] = <<x, i - 1>>
          /\ \A k \in 1..Len(log[b]) : log[b][k] = <<x, i>> => k = n
      BY <2>6, Zenon DEF InPlace
    <2>3. \A k \in 1..(n - 1) : k \in 1..Len(log[b])
      BY <1>1, <2>1
    <2>4. i > 1 => \E k \in 1..(n - 1) : log'[c][k] = <<x, i - 1>>
      BY <1>3, <1>6, <2>2, <2>3, Zenon
    <2>5. \A k \in 1..Len(log'[b]) : log'[b][k] = <<x, i>> => k \in 1..Len(log[b])
      BY <1>3, <1>6, <1>7, Zenon
    <2>. QED  BY <1>3, <1>6, <2>2, <2>4, <2>5, Zenon DEF InPlace
  <1>. QED  BY <1>4, <1>5, <1>6, Zenon

\* What a step needs to keep OrderInv when it brings no record of a batch into a
\* log and no BATCH_REPLICATE into flight.
LEMMA OrderKept ==
    ASSUME OrderInv, BatchTypes, BatchOrder',
           \A c \in Brokers, x \in Batches, i \in 1..BatchSize :
              Has(c, x, i)' => Has(c, x, i),
           UNCHANGED appended_offsets, batch_replicates' \subseteq batch_replicates,
           \A x \in Batches :
              /\ pc'[x] \in InSession => at'[x] \notin todo'[x]
              /\ pc'[x] = "admitted" => at'[x] \in Brokers
              /\ pc'[x] = "admitted" /\ pc[x] # "idle" =>
                    pc[x] = "admitted" /\ at'[x] = at[x],
           \A x \in Batches, b \in Brokers : Unsent(b, x)' => Unsent(b, x)
    PROVE  OrderInv'
  <1>1. \A r \in batch_replicates : r.dst \in Brokers /\ r.message \in Batches
    BY DEF BatchTypes
  <1>2. ASSUME NEW x \in Batches, pc'[x] = "admitted", NEW i \in 1..BatchSize,
               Has(at[x], x, i)'
        PROVE  i <= Len(appended_offsets'[x])
    <2>1. \A c \in Brokers : c = at'[x] => Has(c, x, i)'
      BY <1>2, Zenon DEF Has
    <2>2. \A c \in Brokers : c = at'[x] => Has(c, x, i)
      BY <1>2, <2>1, Zenon
    <2>3. pc[x] # "idle"
      BY <1>2, <2>2, Zenon DEF OrderInv, Unsent
    <2>. QED  BY <1>2, <2>2, <2>3, Zenon DEF OrderInv
  <1>3. ASSUME NEW x \in Batches, NEW b \in Brokers, Unsent(b, x)'
        PROVE  /\ \A i \in 1..BatchSize : ~Has(b, x, i)'
               /\ \A r \in batch_replicates' : r.message = x => r.dst # b
    BY <1>3, Zenon DEF OrderInv
  <1>4. ASSUME NEW r \in batch_replicates'
        PROVE  /\ \A i \in 1..BatchSize : Has(r.dst, r.message, i)' => i < r.next
               /\ \A s \in batch_replicates' :
                     s.dst = r.dst /\ s.message = r.message => s = r
    BY <1>1, <1>4, Zenon DEF OrderInv
  <1>. QED  BY <1>2, <1>3, <1>4, Zenon DEF OrderInv

\* The same for a step of one thread that leaves the logs alone.
LEMMA ThreadKeepsOrder ==
    ASSUME OrderInv, BatchInv, NEW m \in Messages,
           UNCHANGED <<log, appended_offsets>>,
           batch_replicates' \subseteq batch_replicates,
           \A n \in Messages \ {m} :
              pc'[n] = pc[n] /\ at'[n] = at[n] /\ todo'[n] = todo[n],
           m \in Batches =>
              /\ pc'[m] \in InSession => at'[m] \notin todo'[m]
              /\ pc'[m] = "admitted" => pc[m] = "idle" /\ at'[m] \in Brokers
              /\ \A b \in Brokers : Unsent(b, m)' => Unsent(b, m)
    PROVE  OrderInv'
  <1>1. \A c \in Brokers, x \in Batches, i \in 1..BatchSize :
           Has(c, x, i)' => Has(c, x, i)
    BY Zenon DEF Has
  <1>2. BatchOrder'
    <2>1. \A b \in Brokers, x \in Batches, i \in 1..BatchSize :
             \A n \in 1..Len(log[b]) : InPlace(b, n, x, i) => InPlace(b, n, x, i)'
      BY Zenon DEF InPlace
    <2>. QED  BY <2>1, Zenon DEF OrderInv, BatchOrder
  <1>3. ASSUME NEW x \in Batches
        PROVE  /\ pc'[x] \in InSession => at'[x] \notin todo'[x]
               /\ pc'[x] = "admitted" => at'[x] \in Brokers
               /\ pc'[x] = "admitted" /\ pc[x] # "idle" =>
                     pc[x] = "admitted" /\ at'[x] = at[x]
               /\ \A b \in Brokers : Unsent(b, x)' => Unsent(b, x)
    <2>1. CASE x = m
      BY <1>3, <2>1, Zenon
    <2>2. CASE x # m
      <3>1. x \in Messages /\ pc'[x] = pc[x] /\ at'[x] = at[x] /\ todo'[x] = todo[x]
        BY <1>3, <2>2, BatchAssumption, Zenon
      <3>2. pc[x] = "admitted" => at[x] \in Brokers
        BY <3>1, Zenon DEF BatchInv, ThreadInv, Running, BatchPoints, Points, Final, Failures
      <3>. QED  BY <1>3, <3>1, <3>2, Zenon DEF OrderInv, Unsent, Target
    <2>. QED  BY <2>1, <2>2, Zenon
  <1>. QED  BY <1>1, <1>2, <1>3, OrderKept, Zenon DEF BatchInv

\* A PRODUCE's record in a log leaves the batches' records in order.
LEMMA SingleKeepsOrder ==
    ASSUME OrderInv, BatchInv, NEW b \in Brokers, NEW m \in Singles, append(b, m),
           UNCHANGED <<appended_offsets, batch_replicates>>,
           \A n \in Batches : pc'[n] = pc[n] /\ at'[n] = at[n] /\ todo'[n] = todo[n]
    PROVE  OrderInv'
  <1>1. m \in Records /\ BatchTypes
    BY Zenon DEF Singles, Records, BatchInv
  <1>2. \A x \in Batches, i \in 1..BatchSize : m # <<x, i>>
    BY BatchAssumption, Zenon DEF Singles
  <1>3. ASSUME NEW c \in Brokers, NEW x \in Batches, NEW i \in 1..BatchSize
        PROVE  Has(c, x, i)' => Has(c, x, i)
    <2>1. i \in Nat /\ m # <<x, i>>
      BY <1>2, BatchAssumption
    <2>2. Has(c, x, i)' <=> Has(c, x, i) \/ (c = b /\ m = <<x, i>>)
      BY <1>1, <2>1, HasAfterAppend, Zenon
    <2>. QED  BY <2>1, <2>2, Zenon
  <1>4. BatchOrder'
    BY <1>1, <1>2, OrderAfterAppend, Zenon DEF OrderInv
  <1>5. ASSUME NEW x \in Batches
        PROVE  /\ pc'[x] \in InSession => at'[x] \notin todo'[x]
               /\ pc'[x] = "admitted" => at'[x] \in Brokers
               /\ pc'[x] = "admitted" /\ pc[x] # "idle" =>
                     pc[x] = "admitted" /\ at'[x] = at[x]
               /\ \A c \in Brokers : Unsent(c, x)' => Unsent(c, x)
    <2>1. pc[x] = "admitted" => at[x] \in Brokers
      BY <1>5, BatchAssumption, Zenon
         DEF BatchInv, ThreadInv, Running, BatchPoints, Points, Final, Failures
    <2>. QED  BY <1>5, <2>1, Zenon DEF OrderInv, Unsent, Target
  <1>. QED  BY <1>1, <1>3, <1>4, <1>5, OrderKept, Zenon

\* How a step of a BATCH_PRODUCE's thread that appends and sends nothing moves it.
LEMMA BatchMoves ==
    ASSUME BatchInv, NEW x \in Batches, ServeBatch(x),
           ~handle_batch_produce_append(x), ~replicate_batch_send(x)
    PROVE  /\ UNCHANGED <<log, log_open, at, appended_offsets, batch_replicates>>
           /\ \A n \in Messages \ {x} : pc'[n] = pc[n] /\ todo'[n] = todo[n]
           /\ \/ pc[x] = "appended" /\ pc'[x] = "checked"
              \/ pc[x] = "checked" /\ pc'[x] = "replicating" /\ at[x] \notin todo'[x]
              \/ /\ pc[x] \in InSession /\ pc'[x] = "replicating"
                 /\ todo'[x] = todo[x] \ {Target(x)}
              \/ pc'[x] \in {"quorum_timeout", "polling", "committing", "committed",
                             "broadcasting", "ok"}
  <1>. USE DEF logVars, ackVars, netVars, batchVars, Goto
  <1>1. /\ x \in Messages
        /\ pc \in [Messages -> BatchPoints]
        /\ todo \in [Messages -> SUBSET Brokers]
    BY BatchAssumption, Zenon DEF BatchInv, BatchTypes
  <1>2. ASSUME NEW point, pc' = [pc EXCEPT ![x] = point]
        PROVE  pc'[x] = point /\ \A n \in Messages \ {x} : pc'[n] = pc[n]
    BY <1>1, <1>2, Zenon
  <1>3. ASSUME NEW peers, todo' = [todo EXCEPT ![x] = peers] \/ todo' = todo
        PROVE  \A n \in Messages \ {x} : todo'[n] = todo[n]
    BY <1>1, <1>3, Zenon
  <1>4. CASE replicate_batch_check(x)
    BY <1>1, <1>2, <1>4, Zenon DEF replicate_batch_check
  <1>5. CASE replicate_batch_begin(x)
    <2>1. /\ pc[x] = "checked" /\ pc' = [pc EXCEPT ![x] = "replicating"]
          /\ todo' = [todo EXCEPT ![x] = {p \in Peers(at[x]) : is_peer_available(at[x], p)}]
          /\ UNCHANGED <<log, log_open, at, appended_offsets, batch_replicates>>
      BY <1>5, Zenon DEF replicate_batch_begin
    <2>2. at[x] \notin todo'[x]
      BY <1>1, <2>1, Zenon DEF Peers
    <2>. QED  BY <1>2, <1>3, <2>1, <2>2, Zenon
  <1>6. CASE replicate_batch_fail(x) \/ replicate_batch_acked(x)
    <2>1. /\ pc[x] \in InSession /\ pc' = [pc EXCEPT ![x] = "replicating"]
          /\ todo' = [todo EXCEPT ![x] = @ \ {Target(x)}]
          /\ UNCHANGED <<log, log_open, at, appended_offsets, batch_replicates>>
      BY <1>6, Zenon DEF replicate_batch_fail, replicate_to_peer_fail, replicate_batch_acked,
                         Visited, InSession
    <2>2. todo'[x] = todo[x] \ {Target(x)}
      BY <1>1, <2>1, Zenon
    <2>. QED  BY <1>2, <1>3, <2>1, <2>2, Zenon
  <1>7. CASE replicate_batch_end(x) \/ wait_for_quorum(x) \/ handle_batch_produce_commit(x)
    <2>1. /\ \E point \in {"quorum_timeout", "polling", "committing", "committed"} :
                pc' = [pc EXCEPT ![x] = point]
          /\ UNCHANGED <<log, log_open, at, todo, appended_offsets, batch_replicates>>
      BY <1>7, Zenon DEF replicate_batch_end, wait_for_quorum, handle_batch_produce_commit
    <2>. QED  BY <1>2, <1>3, <2>1, Zenon
  <1>8. CASE broadcast_batch_commit_begin(x)
    <2>1. UNCHANGED <<log, log_open, at, appended_offsets, batch_replicates>>
      BY <1>8, Zenon DEF broadcast_batch_commit_begin
    <2>2. CASE is_leader(at[x])
      BY <1>2, <1>3, <1>8, <2>1, <2>2, Zenon DEF broadcast_batch_commit_begin
    <2>3. CASE ~is_leader(at[x])
      <3>1. NextOffset(x) /\ todo' = todo
        BY <1>8, <2>3, Zenon DEF broadcast_batch_commit_begin
      <3>. QED  BY <1>2, <1>3, <2>1, <3>1, NextOffsetMoves, Zenon
    <2>. QED  BY <2>2, <2>3, Zenon
  <1>9. CASE broadcast_batch_commit_send(x)
    <2>1. /\ pc[x] = "broadcasting" /\ pc' = pc
          /\ todo' = [todo EXCEPT ![x] = todo[x] \ {Target(x)}]
          /\ UNCHANGED <<log, log_open, at, appended_offsets, batch_replicates>>
      BY <1>9, Zenon DEF broadcast_batch_commit_send, broadcast_commit_send, Visited
    <2>. QED  BY <1>1, <1>3, <2>1, Zenon
  <1>10. CASE broadcast_batch_commit_end(x)
    <2>1. NextOffset(x) /\ UNCHANGED <<log, log_open, at, todo, appended_offsets, batch_replicates>>
      BY <1>10, Zenon DEF broadcast_batch_commit_end
    <2>. QED  BY <1>2, <1>3, <2>1, NextOffsetMoves, Zenon
  <1>. QED  BY <1>4, <1>5, <1>6, <1>7, <1>8, <1>9, <1>10, Zenon DEF ServeBatch

\* Admitting a request, and the moves of a batch's thread, keep the order.
LEMMA MovesKeepOrder ==
    ASSUME OrderInv, BatchInv, NEW x \in Batches, ServeBatch(x),
           ~handle_batch_produce_append(x), ~replicate_batch_send(x)
    PROVE  OrderInv'
  <1>1. x \in Messages
    BY BatchAssumption, Zenon
  <1>2. /\ UNCHANGED <<log, at, appended_offsets, batch_replicates>>
        /\ \A n \in Messages \ {x} : pc'[n] = pc[n] /\ todo'[n] = todo[n]
    BY BatchMoves, Zenon
  <1>3. pc'[x] # "admitted" /\ (pc'[x] \in InSession => at'[x] \notin todo'[x])
    BY BatchMoves, Zenon DEF InSession, OrderInv
  <1>4. ASSUME NEW b \in Brokers, Unsent(b, x)'
        PROVE  Unsent(b, x)
    <2>1. CASE pc[x] = "appended" /\ pc'[x] = "checked"
      BY <1>2, <1>4, <2>1, Zenon DEF Unsent
    <2>2. CASE pc[x] = "checked" /\ pc'[x] = "replicating" /\ at[x] \notin todo'[x]
      BY <1>4, <2>2, Zenon DEF Unsent
    <2>3. CASE /\ pc[x] \in InSession /\ pc'[x] = "replicating"
               /\ todo'[x] = todo[x] \ {Target(x)}
      BY <1>4, <2>3, Zenon DEF Unsent, InSession
    <2>4. CASE pc'[x] \in {"quorum_timeout", "polling", "committing", "committed",
                           "broadcasting", "ok"}
      BY <1>4, <2>4, Zenon DEF Unsent
    <2>. QED  BY <2>1, <2>2, <2>3, <2>4, BatchMoves, Zenon
  <1>. QED  BY <1>1, <1>2, <1>3, <1>4, ThreadKeepsOrder, Zenon

\* A PRODUCE's thread touches no batch's variables.
LEMMA SingleThreadsKeepOrder ==
    ASSUME OrderInv, BatchInv, NEW m \in Singles, ServeProduce(m), UNCHANGED batchVars
    PROVE  OrderInv'
  <1>. USE DEF logVars, ackVars, netVars, reqVars, Goto
  <1>1. /\ m \in Messages /\ m \notin Batches /\ BatchTypes
        /\ UNCHANGED <<appended_offsets, batch_replicates>>
    BY Zenon DEF Singles, BatchInv, batchVars
  <1>2. /\ \E point : pc' = [pc EXCEPT ![m] = point] \/ pc' = pc
        /\ \E peers : todo' = [todo EXCEPT ![m] = peers] \/ todo' = todo
        /\ at' = at
    BY Zenon DEF ServeProduce, handle_produce_append, replicate_message_begin,
                 replicate_to_peer_send, replicate_to_peer_fail, replicate_to_peer_acked,
                 replicate_message_end, handle_produce_commit, broadcast_commit_begin,
                 broadcast_commit_send, broadcast_commit_end, Visited
  <1>3. \A n \in Messages \ {m} : pc'[n] = pc[n] /\ at'[n] = at[n] /\ todo'[n] = todo[n]
    BY <1>1, <1>2, Zenon DEF BatchTypes
  <1>4. CASE handle_produce_append(m)
    <2>1. append(at[m], m) /\ pc[m] = "admitted"
      BY <1>4, Zenon DEF handle_produce_append
    <2>2. at[m] \in Brokers
      BY <1>1, <2>1, Zenon DEF BatchInv, ThreadInv, Running, BatchPoints, Points, Final, Failures
    <2>3. \A n \in Batches : pc'[n] = pc[n] /\ at'[n] = at[n] /\ todo'[n] = todo[n]
      BY <1>1, <1>3, BatchAssumption, Zenon
    <2>. QED  BY <1>1, <2>1, <2>2, <2>3, SingleKeepsOrder, Zenon
  <1>5. CASE ~handle_produce_append(m)
    <2>1. log' = log
      BY <1>5, Zenon DEF ServeProduce, replicate_message_begin,
                 replicate_to_peer_send, replicate_to_peer_fail, replicate_to_peer_acked,
                 replicate_message_end, handle_produce_commit, broadcast_commit_begin,
                 broadcast_commit_send, broadcast_commit_end
    <2>. QED  BY <1>1, <1>3, <2>1, ThreadKeepsOrder, Zenon
  <1>. QED  BY <1>4, <1>5, Zenon

\* A batch is sent to a broker that nothing of it has reached.
LEMMA SendKeepsOrder ==
    ASSUME OrderInv, BatchInv, NEW x \in Batches, replicate_batch_send(x)
    PROVE  OrderInv'
  <1>. DEFINE new == [dst |-> Target(x), message |-> x, fetch_offset |-> first_offset(x),
                      next |-> 0]
  <1>1. /\ x \in Messages /\ BatchTypes
        /\ pc[x] = "replicating" /\ todo[x] # {} /\ pc' = [pc EXCEPT ![x] = "waiting"]
        /\ batch_replicates' = batch_replicates \cup {new}
        /\ UNCHANGED <<log, at, todo, appended_offsets>>
    BY BatchAssumption, Zenon DEF replicate_batch_send, BatchInv, logVars, Goto
  <1>2. new.dst = Target(x) /\ new.message = x /\ new.next = 0
    BY Zenon
  <1>. HIDE DEF new
  <1>3. Target(x) \in todo[x] /\ Target(x) \in Brokers
    BY <1>1, TargetInTodo, Zenon
  <1>4. /\ \A i \in 1..BatchSize : ~Has(Target(x), x, i)
        /\ \A r \in batch_replicates : r.message = x => r.dst # Target(x)
    BY <1>1, <1>3, Zenon DEF OrderInv, Unsent
  <1>5. pc'[x] = "waiting" /\ \A y \in Batches : y # x => pc'[y] = pc[y]
    BY <1>1, BatchAssumption, Zenon DEF BatchTypes
  <1>6. ASSUME NEW y \in Batches
        PROVE  /\ pc'[y] \in InSession => at'[y] \notin todo'[y]
               /\ pc'[y] = "admitted" => pc[y] = "admitted"
               /\ \A b \in Brokers : Unsent(b, y)' =>
                     Unsent(b, y) /\ (y = x => b # Target(x))
    BY <1>1, <1>5, <1>6, Zenon DEF OrderInv, Unsent, InSession, Target
  <1>7. \A b \in Brokers, y \in Batches, i \in 1..BatchSize : Has(b, y, i)' <=> Has(b, y, i)
    BY <1>1, Zenon DEF Has
  <1>8. ASSUME NEW y \in Batches, pc'[y] = "admitted", NEW i \in 1..BatchSize,
               Has(at[y], y, i)'
        PROVE  i <= Len(appended_offsets'[y])
    <2>1. Has(at[y], y, i)
      BY <1>1, <1>8, Zenon DEF Has
    <2>. QED  BY <1>1, <1>6, <1>8, <2>1, Zenon DEF OrderInv
  <1>9. ASSUME NEW y \in Batches, NEW b \in Brokers, Unsent(b, y)'
        PROVE  /\ \A i \in 1..BatchSize : ~Has(b, y, i)'
               /\ \A r \in batch_replicates' : r.message = y => r.dst # b
    BY <1>1, <1>2, <1>6, <1>7, <1>9, ZenonT(40) DEF OrderInv
  <1>10. ASSUME NEW r \in batch_replicates'
         PROVE  /\ \A i \in 1..BatchSize : Has(r.dst, r.message, i)' => i < r.next
                /\ \A s \in batch_replicates' :
                      s.dst = r.dst /\ s.message = r.message => s = r
    <2>1. CASE r = new
      BY <1>1, <1>2, <1>3, <1>4, <1>7, <2>1, Zenon
    <2>2. CASE r # new
      <3>1. r \in batch_replicates /\ r.dst \in Brokers /\ r.message \in Batches
        BY <1>1, <1>10, <2>2 DEF BatchTypes
      <3>2. \A i \in 1..BatchSize : Has(r.dst, r.message, i)' => i < r.next
        BY <1>7, <3>1, Zenon DEF OrderInv
      <3>. QED  BY <1>1, <1>2, <1>4, <3>1, <3>2, Zenon DEF OrderInv
    <2>. QED  BY <2>1, <2>2, Zenon
  <1>11. BatchOrder'
    <2>1. \A b \in Brokers, y \in Batches, i \in 1..BatchSize :
             \A n \in 1..Len(log[b]) : InPlace(b, n, y, i) => InPlace(b, n, y, i)'
      BY <1>1, Zenon DEF InPlace
    <2>. QED  BY <1>1, <2>1, Zenon DEF OrderInv, BatchOrder
  <1>. QED  BY <1>6, <1>8, <1>9, <1>10, <1>11, Zenon DEF OrderInv

\* The leader appends the next record of a batch to its own log.
LEMMA AppendKeepsOrder ==
    ASSUME OrderInv, BatchInv, NEW x \in Batches, handle_batch_produce_append(x)
    PROVE  OrderInv'
  <1>. DEFINE k == Len(appended_offsets[x])
              e == <<x, k + 1>>
  <1>1. /\ x \in Messages /\ BatchTypes /\ ThreadInv(x) /\ InFlight
        /\ pc[x] = "admitted" /\ append(at[x], e)
        /\ appended_offsets' = [appended_offsets EXCEPT ![x] =
                                  Append(appended_offsets[x], Len(log[at[x]]))]
        /\ \E point \in {"appended", "admitted"} : pc' = [pc EXCEPT ![x] = point]
        /\ UNCHANGED <<at, todo, batch_replicates>>
    BY BatchAssumption, Zenon DEF BatchInv, handle_batch_produce_append, Goto
  <1>2. at[x] \in Brokers /\ BatchAppended(x)
    BY <1>1, Zenon DEF ThreadInv, Running, BatchPoints, Points, Final, Failures
  <1>3. k \in Nat /\ k + 1 \in 1..BatchSize /\ appended_offsets[x] \in Seq(Nat)
    BY <1>1, <1>2, BatchAssumption DEF BatchAppended, BatchTypes
  <1>4. e \in Records
    BY <1>3, Zenon DEF Records
  <1>5. ~Has(at[x], x, k + 1)
    BY <1>1, <1>3 DEF OrderInv
  <1>6. k + 1 > 1 => Has(at[x], x, k)
    <2>. SUFFICES ASSUME k >= 1 PROVE Has(at[x], x, k)
      BY <1>3
    <2>1. Holds(at[x], appended_offsets[x][k], <<x, k>>) /\ appended_offsets[x][k] \in Nat
      BY <1>1, <1>2, <1>3 DEF BatchAppended, Running, BatchPoints, Points, Final, Failures
    <2>2. Len(log[at[x]]) \in Nat
      BY <1>1, <1>2 DEF BatchTypes
    <2>3. appended_offsets[x][k] + 1 \in 1..Len(log[at[x]])
      BY <2>1, <2>2 DEF Holds
    <2>. QED  BY <2>1, <2>3, Zenon DEF Has, Holds
  <1>7. BatchOrder'
    <2>1. ASSUME NEW y \in Batches, NEW i \in 1..BatchSize, e = <<y, i>>
          PROVE  ~Has(at[x], y, i) /\ (i > 1 => Has(at[x], y, i - 1))
      <3>1. y = x /\ i = k + 1 /\ i - 1 = k
        BY <1>3, <2>1
      <3>. QED  BY <1>5, <1>6, <3>1, Zenon
    <2>. QED  BY <1>1, <1>2, <1>4, <2>1, OrderAfterAppend, Zenon DEF OrderInv
  <1>8. ASSUME NEW c \in Brokers, NEW y \in Batches, NEW i \in 1..BatchSize
        PROVE  Has(c, y, i)' <=> Has(c, y, i) \/ (c = at[x] /\ y = x /\ i = k + 1)
    <2>1. i \in Nat /\ (e = <<y, i>> <=> y = x /\ i = k + 1)
      BY <1>3, BatchAssumption
    <2>. QED  BY <1>1, <1>2, <1>4, <2>1, HasAfterAppend, Zenon
  <1>9. /\ pc'[x] \in {"admitted", "appended"}
        /\ \A y \in Batches : y # x =>
              pc'[y] = pc[y] /\ appended_offsets'[y] = appended_offsets[y]
        /\ appended_offsets'[x] = Append(appended_offsets[x], Len(log[at[x]]))
    BY <1>1, BatchAssumption, Zenon DEF BatchTypes
  <1>10. Len(appended_offsets'[x]) = k + 1
    BY <1>3, <1>9
  <1>. HIDE DEF k, e
  <1>11. \A y \in Batches, b \in Brokers : Unsent(b, y)' => Unsent(b, y) /\ (y = x => b # at[x])
    BY <1>1, <1>9, Zenon DEF Unsent, Target
  <1>12. ASSUME NEW y \in Batches
         PROVE  /\ pc'[y] \in InSession => at'[y] \notin todo'[y]
                /\ pc'[y] = "admitted" => \A i \in 1..BatchSize :
                      Has(at[y], y, i)' => i <= Len(appended_offsets'[y])
    <2>1. pc'[y] \in InSession => at'[y] \notin todo'[y]
      BY <1>1, <1>9, Zenon DEF OrderInv, InSession
    <2>2. ASSUME pc'[y] = "admitted", NEW i \in 1..BatchSize, Has(at[y], y, i)'
          PROVE  i <= Len(appended_offsets'[y])
      <3>1. pc[y] = "admitted"
        BY <1>1, <1>9, <2>2, Zenon
      <3>2. at[y] \in Brokers
        BY <3>1, BatchAssumption, Zenon
           DEF BatchInv, ThreadInv, Running, BatchPoints, Points, Final, Failures
      <3>3. \A c \in Brokers : c = at[y] => Has(c, y, i)'
        BY <1>1, <2>2, Zenon DEF Has
      <3>4. Has(at[y], y, i) \/ (y = x /\ i = k + 1)
        BY <1>8, <3>2, <3>3, Zenon
      <3>5. CASE y = x
        <4>1. i <= k \/ i = k + 1
          BY <3>1, <3>4, <3>5, Zenon DEF OrderInv, k
        <4>. QED  BY <1>3, <1>10, <3>5, <4>1
      <3>6. CASE y # x
        BY <1>9, <3>1, <3>4, <3>6, Zenon DEF OrderInv
      <3>. QED  BY <3>5, <3>6, Zenon
    <2>. QED  BY <2>1, <2>2, Zenon
  <1>13. ASSUME NEW y \in Batches, NEW b \in Brokers, Unsent(b, y)'
         PROVE  /\ \A i \in 1..BatchSize : ~Has(b, y, i)'
                /\ \A r \in batch_replicates' : r.message = y => r.dst # b
    BY <1>1, <1>8, <1>11, <1>13, Zenon DEF OrderInv
  <1>14. ASSUME NEW r \in batch_replicates'
         PROVE  /\ \A i \in 1..BatchSize : Has(r.dst, r.message, i)' => i < r.next
                /\ \A s \in batch_replicates' :
                      s.dst = r.dst /\ s.message = r.message => s = r
    <2>1. r \in batch_replicates /\ r.dst \in Brokers /\ r.message \in Batches
      BY <1>1, <1>14 DEF BatchTypes
    <2>2. r.message # x
      BY <1>1, <2>1, Zenon DEF InFlight, BatchInFlight
    <2>. QED  BY <1>1, <1>8, <2>1, <2>2, Zenon DEF OrderInv
  <1>. QED  BY <1>7, <1>12, <1>13, <1>14, Zenon DEF OrderInv

\* A follower goes on with a BATCH_REPLICATE, or is done with it.
LEMMA FollowerKeepsOrder ==
    ASSUME OrderInv, BatchInv, BatchOrder',
           NEW r \in batch_replicates, NEW q, q.dst = r.dst, q.message = r.message,
           batch_replicates' \subseteq (batch_replicates \ {r}) \cup {q},
           \A c \in Brokers, y \in Batches, i \in 1..BatchSize :
              Has(c, y, i)' => Has(c, y, i) \/ (c = r.dst /\ y = r.message),
           q \in batch_replicates' =>
              \A i \in 1..BatchSize : Has(r.dst, r.message, i)' => i < q.next,
           UNCHANGED <<pc, at, todo, appended_offsets>>
    PROVE  OrderInv'
  <1>1. \A s \in batch_replicates : s.dst \in Brokers /\ s.message \in Batches
    BY DEF BatchInv, BatchTypes
  <1>2. pc[r.message] # "admitted" /\ ~Unsent(r.dst, r.message)
    BY <1>1, Zenon DEF BatchInv, InFlight, BatchInFlight, OrderInv
  <1>3. \A y \in Batches, b \in Brokers : Unsent(b, y)' => Unsent(b, y)
    BY Zenon DEF Unsent, Target
  <1>4. ASSUME NEW y \in Batches
        PROVE  /\ pc'[y] \in InSession => at'[y] \notin todo'[y]
               /\ pc'[y] = "admitted" => \A i \in 1..BatchSize :
                     Has(at[y], y, i)' => i <= Len(appended_offsets'[y])
    <2>1. pc'[y] \in InSession => at'[y] \notin todo'[y]
      BY Zenon DEF OrderInv
    <2>2. ASSUME pc'[y] = "admitted", NEW i \in 1..BatchSize, Has(at[y], y, i)'
          PROVE  i <= Len(appended_offsets'[y])
      <3>1. at[y] \in Brokers /\ y # r.message /\ pc[y] = "admitted"
        BY <1>2, <2>2, BatchAssumption, Zenon
           DEF BatchInv, ThreadInv, Running, BatchPoints, Points, Final, Failures
      <3>2. \A c \in Brokers : c = at[y] => Has(c, y, i)'
        BY <2>2, Zenon DEF Has
      <3>. QED  BY <3>1, <3>2, Zenon DEF OrderInv
    <2>. QED  BY <2>1, <2>2, Zenon
  <1>5. ASSUME NEW y \in Batches, NEW b \in Brokers, Unsent(b, y)'
        PROVE  /\ \A i \in 1..BatchSize : ~Has(b, y, i)'
               /\ \A s \in batch_replicates' : s.message = y => s.dst # b
    BY <1>2, <1>3, <1>5, Zenon DEF OrderInv
  <1>6. ASSUME NEW s \in batch_replicates'
        PROVE  /\ \A i \in 1..BatchSize : Has(s.dst, s.message, i)' => i < s.next
               /\ \A t \in batch_replicates' :
                     t.dst = s.dst /\ t.message = s.message => t = s
    <2>1. CASE s = q
      BY <1>6, <2>1, Zenon DEF OrderInv
    <2>2. CASE s # q
      <3>1. s \in batch_replicates /\ ~(s.dst = r.dst /\ s.message = r.message)
        BY <1>6, <2>2, Zenon DEF OrderInv
      <3>2. \A i \in 1..BatchSize : Has(s.dst, s.message, i)' => Has(s.dst, s.message, i)
        BY <1>1, <3>1, Zenon
      <3>. QED  BY <1>6, <3>1, <3>2, Zenon DEF OrderInv
    <2>. QED  BY <2>1, <2>2, Zenon
  <1>. QED  BY <1>4, <1>5, <1>6, Zenon DEF OrderInv

\* The leader check of a BATCH_REPLICATE, and one record of it in the follower's log.
LEMMA FollowersKeepOrder ==
    ASSUME OrderInv, BatchInv, ServeBatchPeer
    PROVE  OrderInv'
  <1>1. PICK r \in batch_replicates :
           handle_batch_replication_check(r) \/ handle_batch_replication_append(r)
    BY Zenon DEF ServeBatchPeer
  <1>2. /\ r \in [dst : Brokers, message : Batches, fetch_offset : Nat, next : 0..BatchSize]
        /\ BatchTypes /\ BatchInFlight(r)
        /\ UNCHANGED <<pc, at, todo, appended_offsets>>
    BY <1>1, Zenon DEF BatchInv, BatchTypes, InFlight, handle_batch_replication_check,
                       handle_batch_replication_append
  <1>3. r.dst \in Brokers /\ r.message \in Batches /\ r.next \in 0..BatchSize
    BY <1>2
  <1>4. CASE handle_batch_replication_check(r)
    <2>. DEFINE q == [r EXCEPT !.next = first_record(r)]
    <2>1. q.dst = r.dst /\ q.message = r.message /\ q.next = 1
      BY <1>2 DEF first_record
    <2>2. /\ batch_replicates' \subseteq (batch_replicates \ {r}) \cup {q}
          /\ r.next = 0 /\ log' = log
      BY <1>4, Zenon DEF handle_batch_replication_check, logVars
    <2>. HIDE DEF q
    <2>3. \A c \in Brokers, y \in Batches, i \in 1..BatchSize : Has(c, y, i)' <=> Has(c, y, i)
      BY <2>2, Zenon DEF Has
    <2>4. \A i \in 1..BatchSize : ~Has(r.dst, r.message, i)
      <3>1. \A i \in 1..BatchSize : ~(i < 0)
        BY BatchAssumption
      <3>. QED  BY <2>2, <3>1, Zenon DEF OrderInv
    <2>5. BatchOrder'
      <3>1. \A b \in Brokers, y \in Batches, i \in 1..BatchSize :
               \A n \in 1..Len(log[b]) : InPlace(b, n, y, i) => InPlace(b, n, y, i)'
        BY <2>2, Zenon DEF InPlace
      <3>. QED  BY <2>2, <3>1, Zenon DEF OrderInv, BatchOrder
    <2>. QED  BY <1>2, <1>3, <2>1, <2>2, <2>3, <2>4, <2>5, FollowerKeepsOrder, Zenon
  <1>5. CASE handle_batch_replication_append(r)
    <2>. DEFINE q == [r EXCEPT !.next = @ + 1]
                e == <<r.message, r.next>>
                expected == Len(log[r.dst]) = r.fetch_offset + r.next - 1
    <2>1. q.dst = r.dst /\ q.message = r.message /\ q.next = r.next + 1
      BY <1>2
    <2>2. /\ batch_replicates' \subseteq (batch_replicates \ {r}) \cup {q}
          /\ r.next > 0 /\ append(r.dst, e)
      <3>1. CASE goes_on(r, expected)
        BY <1>5, <3>1, Zenon DEF handle_batch_replication_append
      <3>2. CASE ~goes_on(r, expected)
        BY <1>5, <3>2, Zenon DEF handle_batch_replication_append
      <3>. QED  BY <3>1, <3>2, Zenon
    <2>. HIDE DEF q, e
    <2>3. r.next \in 1..BatchSize /\ r.next \in Nat
      BY <1>3, <2>2, BatchAssumption
    <2>4. e \in Records
      BY <1>3, <2>3, Zenon DEF Records, e
    <2>5. ~Has(r.dst, r.message, r.next)
      <3>1. ~(r.next < r.next)
        BY <2>3
      <3>. QED  BY <2>3, <3>1, Zenon DEF OrderInv
    <2>6. r.next > 1 => Has(r.dst, r.message, r.next - 1)
      <3>. SUFFICES ASSUME r.next > 1 PROVE Has(r.dst, r.message, r.next - 1)
        OBVIOUS
      <3>1. r.next - 1 \in 1..(r.next - 1) /\ r.fetch_offset + (r.next - 1) - 1 \in Nat
        BY <1>2, <2>3
      <3>2. Holds(r.dst, r.fetch_offset + (r.next - 1) - 1, <<r.message, r.next - 1>>)
        BY <1>2, <3>1, Zenon DEF BatchInFlight
      <3>3. Len(log[r.dst]) \in Nat
        BY <1>2, <1>3 DEF BatchTypes
      <3>4. r.fetch_offset + (r.next - 1) - 1 + 1 \in 1..Len(log[r.dst])
        BY <3>1, <3>2, <3>3 DEF Holds
      <3>. QED  BY <3>2, <3>4, Zenon DEF Has, Holds
    <2>7. ASSUME NEW y \in Batches, NEW i \in 1..BatchSize, e = <<y, i>>
          PROVE  y = r.message /\ i = r.next
      BY <2>7 DEF e
    <2>8. BatchOrder'
      <3>1. ASSUME NEW y \in Batches, NEW i \in 1..BatchSize, e = <<y, i>>
            PROVE  ~Has(r.dst, y, i) /\ (i > 1 => Has(r.dst, y, i - 1))
        BY <2>5, <2>6, <2>7, <3>1, Zenon
      <3>. QED  BY <1>2, <1>3, <2>2, <2>4, <3>1, OrderAfterAppend, Zenon DEF OrderInv
    <2>9. ASSUME NEW c \in Brokers, NEW y \in Batches, NEW i \in 1..BatchSize
          PROVE  Has(c, y, i)' =>
                    Has(c, y, i) \/ (c = r.dst /\ y = r.message /\ i = r.next)
      <3>1. i \in Nat
        BY BatchAssumption
      <3>2. Has(c, y, i)' <=> Has(c, y, i) \/ (c = r.dst /\ e = <<y, i>>)
        BY <1>2, <1>3, <2>2, <2>4, <3>1, HasAfterAppend, Zenon
      <3>. QED  BY <2>7, <3>2, Zenon
    <2>10. ASSUME NEW i \in 1..BatchSize, Has(r.dst, r.message, i)'
           PROVE  i < q.next
      <3>1. i < r.next \/ i = r.next
        BY <1>3, <2>9, <2>10, Zenon DEF OrderInv
      <3>. QED  BY <2>1, <2>3, <3>1
    <2>. QED  BY <1>2, <1>3, <2>1, <2>2, <2>8, <2>9, <2>10, FollowerKeepsOrder, Zenon
  <1>. QED  BY <1>1, <1>4, <1>5, Zenon

\* Steps that concern no batch's log, request or thread.
LEMMA QuietKeepsOrder ==
    ASSUME OrderInv, BatchInv, UNCHANGED <<log, pc, at, todo, batchVars>>
    PROVE  OrderInv'
  <1>2. \A x \in Batches, b \in Brokers : Unsent(b, x)' => Unsent(b, x)
    BY Zenon DEF Unsent, Target
  <1>3. \A x \in Batches : pc[x] = "admitted" => at[x] \in Brokers
    BY BatchAssumption, Zenon
       DEF BatchInv, ThreadInv, Running, BatchPoints, Points, Final, Failures
  <1>4. \A c \in Brokers, x \in Batches, i \in 1..BatchSize :
           Has(c, x, i)' => Has(c, x, i)
    BY Zenon DEF Has
  <1>5. BatchOrder'
    <2>1. \A b \in Brokers, x \in Batches, i \in 1..BatchSize :
             \A n \in 1..Len(log[b]) : InPlace(b, n, x, i) => InPlace(b, n, x, i)'
      BY Zenon DEF InPlace
    <2>. QED  BY <2>1, Zenon DEF OrderInv, BatchOrder
  <1>6. \A x \in Batches : pc[x] \in InSession => at[x] \notin todo[x]
    BY Zenon DEF OrderInv
  <1>. QED  BY <1>2, <1>3, <1>4, <1>5, <1>6, OrderKept, Zenon DEF BatchInv, batchVars

\* A crash ends threads and loses requests in flight, and leaves the logs.
LEMMA CrashKeepsOrder ==
    ASSUME OrderInv, BatchInv, NEW b \in Brokers, CrashServer(b)
    PROVE  OrderInv'
  <1>1. UNCHANGED <<log, appended_offsets>> /\ batch_replicates' \subseteq batch_replicates
    BY Zenon DEF CrashServer, CrashBroker
  <1>2. ASSUME NEW x \in Batches
        PROVE  /\ at[x] # b => pc'[x] = pc[x] /\ at'[x] = at[x] /\ todo'[x] = todo[x]
               /\ at[x] = b => pc'[x] \in Final
    BY <1>2, BatchAssumption, Zenon DEF CrashServer, CrashBroker, Final, Failures
  <1>3. ASSUME NEW x \in Batches
        PROVE  /\ pc'[x] \in InSession => at'[x] \notin todo'[x]
               /\ pc'[x] = "admitted" => at'[x] \in Brokers
               /\ pc'[x] = "admitted" /\ pc[x] # "idle" =>
                     pc[x] = "admitted" /\ at'[x] = at[x]
               /\ \A c \in Brokers : Unsent(c, x)' => Unsent(c, x)
    <2>1. CASE at[x] = b
      BY <1>2, <2>1, Zenon DEF Unsent, InSession, Final, Failures
    <2>2. CASE at[x] # b
      <3>1. pc[x] = "admitted" => at[x] \in Brokers
        BY BatchAssumption, Zenon
           DEF BatchInv, ThreadInv, Running, BatchPoints, Points, Final, Failures
      <3>. QED  BY <1>2, <2>2, <3>1, Zenon DEF OrderInv, Unsent, Target
    <2>. QED  BY <2>1, <2>2, Zenon
  <1>4. \A c \in Brokers, x \in Batches, i \in 1..BatchSize :
           Has(c, x, i)' => Has(c, x, i)
    BY <1>1, Zenon DEF Has
  <1>5. BatchOrder'
    <2>1. \A c \in Brokers, x \in Batches, i \in 1..BatchSize :
             \A n \in 1..Len(log[c]) : InPlace(c, n, x, i) => InPlace(c, n, x, i)'
      BY <1>1, Zenon DEF InPlace
    <2>. QED  BY <1>1, <2>1, Zenon DEF OrderInv, BatchOrder
  <1>. QED  BY <1>1, <1>3, <1>4, <1>5, OrderKept, Zenon DEF BatchInv

\* The leader check admits a request.
LEMMA AdmitKeepsOrder ==
    ASSUME OrderInv, BatchInv, NEW m \in Messages, NEW b \in Brokers,
           handle_produce_admit(m, b), UNCHANGED batchVars
    PROVE  OrderInv'
  <1>1. /\ pc[m] = "idle" /\ pc' = [pc EXCEPT ![m] = "admitted"]
        /\ at' = [at EXCEPT ![m] = b]
        /\ UNCHANGED <<log, todo, appended_offsets, batch_replicates>>
    BY Zenon DEF handle_produce_admit, logVars, batchVars, Goto
  <1>2. /\ pc'[m] = "admitted" /\ at'[m] = b
        /\ \A n \in Messages \ {m} : pc'[n] = pc[n] /\ at'[n] = at[n] /\ todo'[n] = todo[n]
    BY <1>1, Zenon DEF BatchInv, BatchTypes
  <1>3. \A c : Unsent(c, m)
    BY <1>1, Zenon DEF Unsent
  <1>. QED  BY <1>1, <1>2, <1>3, ThreadKeepsOrder, Zenon DEF InSession

\* OrderInv holds in the initial state.
LEMMA OrderInit == BatchInit => OrderInv
  <1>. SUFFICES ASSUME BatchInit PROVE OrderInv
    BY Zenon
  <1>1. /\ log = [b \in Brokers |-> <<>>] /\ batch_replicates = {}
        /\ \A x \in Batches : pc[x] = "idle"
    BY BatchAssumption, Zenon DEF BatchInit, Init
  <1>2. 1..Len(<<>>) = {}
    OBVIOUS
  <1>3. \A b \in Brokers : 1..Len(log[b]) = {}
    BY <1>1, <1>2, Zenon
  <1>4. \A b \in Brokers, x \in Batches, i \in 1..BatchSize : ~Has(b, x, i)
    BY <1>3, Zenon DEF Has
  <1>. QED  BY <1>1, <1>3, <1>4, Zenon DEF OrderInv, BatchOrder, InSession

\* OrderInv is kept by every step, given BatchInv.
LEMMA OrderStep == OrderInv /\ BatchInv /\ [BatchNext]_allVars => OrderInv'
  <1>. SUFFICES ASSUME OrderInv, BatchInv, [BatchNext]_allVars PROVE OrderInv'
    BY Zenon
  <1>. USE DEF logVars, ackVars, netVars, reqVars, replVars
  <1>1. ASSUME NEW x \in Batches, NEW b \in Brokers, handle_batch_produce_admit(x, b)
        PROVE  OrderInv'
    BY <1>1, AdmitKeepsOrder, BatchAssumption, Zenon DEF handle_batch_produce_admit
  <1>2. ASSUME NEW x \in Batches, ServeBatch(x) PROVE OrderInv'
    BY <1>2, AppendKeepsOrder, SendKeepsOrder, MovesKeepOrder, Zenon
  <1>3. CASE ServeBatchPeer
    BY <1>3, FollowersKeepOrder, Zenon
  <1>4. ASSUME NEW m \in Messages \ Batches, NEW b \in Brokers,
               handle_produce_admit(m, b), UNCHANGED batchVars
        PROVE  OrderInv'
    BY <1>4, AdmitKeepsOrder, Zenon
  <1>5. ASSUME NEW m \in Messages \ Batches, ServeProduce(m), UNCHANGED batchVars
        PROVE  OrderInv'
    BY <1>5, SingleThreadsKeepOrder, Zenon DEF Singles
  <1>6. CASE ServePeer /\ UNCHANGED batchVars
    <2>1. CASE \E r \in replicates : handle_replication_append(r)
      <3>1. PICK r \in replicates : handle_replication_append(r)
        BY <2>1, Zenon
      <3>2. r.dst \in Brokers /\ r.message \in Singles
        BY <3>1 DEF BatchInv, BatchTypes
      <3>. QED  BY <1>6, <3>1, <3>2, SingleKeepsOrder, Zenon
                DEF handle_replication_append, batchVars
    <2>2. CASE \/ \E r \in replicates : handle_replication_check(r)
               \/ \E c \in commits : handle_commit_request(c)
      BY <1>6, <2>2, QuietKeepsOrder, Zenon DEF handle_replication_check, handle_commit_request
    <2>. QED  BY <1>6, <2>1, <2>2, Zenon DEF ServePeer
  <1>7. CASE /\ \/ \E b \in Brokers : heartbeat_loop(b)
                \/ \E b, p \in Brokers : handle_heartbeat_request(b, p)
                \/ \E b \in Brokers : RestartBroker(b)
             /\ UNCHANGED batchVars
    BY <1>7, QuietKeepsOrder, Zenon DEF heartbeat_loop, handle_heartbeat_request, RestartBroker
  <1>8. ASSUME NEW b \in Brokers, CrashServer(b) PROVE OrderInv'
    BY <1>8, CrashKeepsOrder, Zenon
  <1>9. CASE UNCHANGED allVars
    BY <1>9, QuietKeepsOrder, Zenon DEF allVars, vars
  <1>. QED  BY <1>1, <1>2, <1>3, <1>4, <1>5, <1>6, <1>7, <1>8, <1>9, Zenon DEF BatchNext

\* On every replica, and whatever a follower refused or cut short, the records of
\* a batch are in the log at most once, in order and without a gap.
THEOREM BatchesInOrder == BatchSpec => []BatchOrder
  <1>1. OrderInv => BatchOrder
    BY Zenon DEF OrderInv
  <1>. QED  BY <1>1, OrderInit, OrderStep, BatchInvariance, PTL DEF BatchSpec
-----------------------------------------------------------------------------
(* Reading an answered batch back.                                         *)

\* What a step other than a crash does to logs, commit indexes and COMMITs.
Advances ==
    /\ \/ UNCHANGED <<log, log_open>>
       \/ \E b \in Brokers, e \in Records : append(b, e)
    /\ \/ UNCHANGED commit_index
       \/ \E b \in Brokers, o \in Nat : mark_committed(b, o)
    /\ commits' \subseteq commits \cup [dst : Brokers, fetch_offset : Nat]

\* Where the thread of a request that is being served runs.
LEMMA ServedAtBroker ==
    ASSUME BatchInv, NEW m \in Messages,
           pc[m] \in {"admitted", "appended", "checked", "replicating", "waiting", "quorum",
                      "polling", "committing", "committed", "broadcasting"}
    PROVE  at[m] \in Brokers
  BY Zenon DEF BatchInv, ThreadInv, Running, BatchPoints, Points, Final, Failures

\* A COMMIT a thread sends is for one of its offsets.
LEMMA BroadcastAdvances ==
    ASSUME BatchInv, NEW m \in Messages, broadcast_commit_send(m)
    PROVE  Advances
  <1>1. /\ pc[m] = "broadcasting" /\ todo[m] # {}
        /\ UNCHANGED <<log, log_open, commit_index>>
        /\ \/ commits' = commits
           \/ commits' = commits \cup {[dst |-> Target(m), fetch_offset |-> offset[m]]}
    BY Zenon DEF broadcast_commit_send, logVars
  <1>2. Target(m) \in Brokers
    BY <1>1, TargetInTodo, Zenon DEF BatchInv
  <1>3. offset[m] \in Nat
    BY Zenon DEF BatchInv, BatchTypes
  <1>4. [dst |-> Target(m), fetch_offset |-> offset[m]] \in [dst : Brokers, fetch_offset : Nat]
    BY <1>2, <1>3, Zenon
  <1>. QED  BY <1>1, <1>4, Zenon DEF Advances

\* Every step other than a crash only adds to logs and raises commit indexes.
LEMMA StepsAdvance ==
    ASSUME BatchInv, CommitInv, [BatchNext]_allVars, \A b \in Brokers : ~CrashServer(b)
    PROVE  Advances
  <1>. USE DEF logVars, ackVars, netVars, reqVars, replVars, batchVars
  <1>1. ASSUME NEW m \in Messages, NEW b \in Brokers, handle_produce_admit(m, b)
        PROVE  Advances
    BY <1>1, Zenon DEF handle_produce_admit, Advances
  <1>2. ASSUME NEW m \in Singles, ServeProduce(m) PROVE Advances
    <2>1. m \in Messages /\ m \in Records /\ offset[m] \in Nat
      BY <1>2, Zenon DEF Singles, Records, BatchInv, BatchTypes
    <2>2. CASE handle_produce_append(m)
      BY <2>1, <2>2, ServedAtBroker, Zenon DEF handle_produce_append, Advances
    <2>3. CASE handle_produce_commit(m)
      BY <2>1, <2>3, ServedAtBroker, Zenon DEF handle_produce_commit, Advances
    <2>4. CASE broadcast_commit_send(m)
      BY <2>1, <2>4, BroadcastAdvances, Zenon
    <2>5. CASE \/ replicate_message_begin(m) \/ replicate_to_peer_send(m)
               \/ replicate_to_peer_fail(m) \/ replicate_to_peer_acked(m)
               \/ replicate_message_end(m) \/ broadcast_commit_begin(m)
               \/ broadcast_commit_end(m)
      BY <2>5, Zenon DEF replicate_message_begin, replicate_to_peer_send, replicate_to_peer_fail,
                  replicate_to_peer_acked, replicate_message_end, broadcast_commit_begin,
                  broadcast_commit_end, Advances
    <2>. QED  BY <1>2, <2>2, <2>3, <2>4, <2>5, Zenon DEF ServeProduce
  <1>3. ASSUME NEW x \in Batches, ServeBatch(x) PROVE Advances
    <2>1. x \in Messages /\ offset[x] \in Nat
      BY <1>3, BatchAssumption, Zenon DEF BatchInv, BatchTypes
    <2>2. CASE handle_batch_produce_append(x)
      <3>1. at[x] \in Brokers /\ append(at[x], <<x, Len(appended_offsets[x]) + 1>>)
        BY <2>1, <2>2, ServedAtBroker, Zenon DEF handle_batch_produce_append
      <3>2. Len(appended_offsets[x]) < BatchSize /\ Len(appended_offsets[x]) \in Nat
        BY <2>1, <2>2 DEF handle_batch_produce_append, BatchInv, ThreadInv, BatchAppended,
                          BatchTypes
      <3>3. Len(appended_offsets[x]) + 1 \in 1..BatchSize
        BY <3>2, BatchAssumption
      <3>4. <<x, Len(appended_offsets[x]) + 1>> \in Records
        BY <3>3, Zenon DEF Records
      <3>. QED  BY <2>2, <3>1, <3>4, Zenon DEF handle_batch_produce_append, Advances
    <2>3. CASE handle_batch_produce_commit(x)
      BY <2>1, <2>3, ServedAtBroker, Zenon DEF handle_batch_produce_commit, Advances
    <2>4. CASE broadcast_batch_commit_send(x)
      BY <2>1, <2>4, BroadcastAdvances, Zenon DEF broadcast_batch_commit_send
    <2>5. CASE \/ replicate_batch_check(x) \/ replicate_batch_begin(x)
               \/ replicate_batch_send(x) \/ replicate_batch_fail(x)
               \/ replicate_batch_acked(x) \/ replicate_batch_end(x) \/ wait_for_quorum(x)
               \/ broadcast_batch_commit_begin(x) \/ broadcast_batch_commit_end(x)
      BY <2>5, Zenon DEF replicate_batch_check, replicate_batch_begin, replicate_batch_send,
                  replicate_batch_fail, replicate_to_peer_fail, replicate_batch_acked,
                  replicate_batch_end, wait_for_quorum, broadcast_batch_commit_begin,
                  broadcast_batch_commit_end, Advances
    <2>. QED  BY <1>3, <2>2, <2>3, <2>4, <2>5, Zenon DEF ServeBatch
  <1>4. CASE ServePeer
    <2>1. ASSUME NEW r \in replicates, handle_replication_append(r) PROVE Advances
      <3>1. r.dst \in Brokers /\ r.message \in Singles
        BY <2>1 DEF BatchInv, BatchTypes
      <3>. QED  BY <2>1, <3>1, Zenon DEF handle_replication_append, Advances, Singles, Records
    <2>2. ASSUME NEW c \in commits, handle_commit_request(c) PROVE Advances
      <3>1. c.dst \in Brokers /\ c.fetch_offset \in Nat
        BY <2>2 DEF CommitInv
      <3>. QED  BY <2>2, <3>1, Zenon DEF handle_commit_request, Advances
    <2>3. ASSUME NEW r \in replicates, handle_replication_check(r) PROVE Advances
      BY <2>3, Zenon DEF handle_replication_check, Advances
    <2>. QED  BY <1>4, <2>1, <2>2, <2>3, Zenon DEF ServePeer
  <1>5. CASE ServeBatchPeer
    <2>1. ASSUME NEW r \in batch_replicates, handle_batch_replication_append(r) PROVE Advances
      <3>1. r.dst \in Brokers /\ r.message \in Batches /\ r.next \in 1..BatchSize
        BY <2>1, BatchAssumption DEF BatchInv, BatchTypes, handle_batch_replication_append
      <3>2. <<r.message, r.next>> \in Records
        BY <3>1, Zenon DEF Records
      <3>. QED  BY <2>1, <3>1, <3>2, Zenon DEF handle_batch_replication_append, Advances
    <2>2. ASSUME NEW r \in batch_replicates, handle_batch_replication_check(r) PROVE Advances
      BY <2>2, Zenon DEF handle_batch_replication_check, Advances
    <2>. QED  BY <1>5, <2>1, <2>2, Zenon DEF ServeBatchPeer
  <1>6. ASSUME UNCHANGED replVars \/ UNCHANGED allVars PROVE Advances
    BY <1>6, Zenon DEF Advances, allVars, vars
  <1>7. ASSUME NEW b \in Brokers, NEW p \in Brokers,
               heartbeat_loop(b) \/ handle_heartbeat_request(b, p) \/ RestartBroker(b)
        PROVE  Advances
    BY <1>6, <1>7, Zenon DEF heartbeat_loop, handle_heartbeat_request, RestartBroker
  <1>. QED  BY <1>1, <1>2, <1>3, <1>4, <1>5, <1>6, <1>7, BatchAssumption, Zenon
            DEF BatchNext, Singles, handle_batch_produce_admit

\* What follows from that for the commit indexes, the open logs and the records.
LEMMA AdvanceKeeps ==
    ASSUME BatchInv, CommitInv, Advances
    PROVE  /\ commit_index' \in [Brokers -> Int]
           /\ log_open' \in [Brokers -> BOOLEAN]
           /\ commits' \in SUBSET [dst : Brokers, fetch_offset : Nat]
           /\ \A b \in Brokers : /\ commit_index[b] <= commit_index'[b]
                                 /\ log_open[b] => log_open'[b]
           /\ Grows
  <1>1. commits' \in SUBSET [dst : Brokers, fetch_offset : Nat]
    BY Zenon DEF Advances, CommitInv
  <1>2. Grows /\ log_open' \in [Brokers -> BOOLEAN] /\ \A b \in Brokers : log_open[b] => log_open'[b]
    <2>1. CASE UNCHANGED <<log, log_open>>
      BY <2>1, Zenon DEF Grows, CommitInv
    <2>2. ASSUME NEW b \in Brokers, NEW e \in Records, append(b, e)
          PROVE  /\ Grows /\ log_open' \in [Brokers -> BOOLEAN]
                 /\ \A c \in Brokers : log_open[c] => log_open'[c]
      <3>1. Grows
        BY <2>2, RecordAppended, Zenon DEF BatchInv
      <3>. QED  BY <2>2, <3>1, Zenon DEF append, CommitInv
    <2>. QED  BY <2>1, <2>2, Zenon DEF Advances
  <1>3. /\ commit_index' \in [Brokers -> Int]
        /\ \A b \in Brokers : commit_index[b] <= commit_index'[b]
    <2>1. CASE UNCHANGED commit_index
      BY <2>1 DEF CommitInv
    <2>2. ASSUME NEW b \in Brokers, NEW o \in Nat, mark_committed(b, o)
          PROVE  /\ commit_index' \in [Brokers -> Int]
                 /\ \A c \in Brokers : commit_index[c] <= commit_index'[c]
      <3>1. commit_index[b] \in Int /\ o \in Int
        BY <2>2 DEF CommitInv
      <3>2. Max({commit_index[b], o}) \in Int /\ commit_index[b] <= Max({commit_index[b], o})
        BY <3>1, MaxOfTwo
      <3>. QED  BY <2>2, <3>2 DEF CommitInv, mark_committed
    <2>. QED  BY <2>1, <2>2, Zenon DEF Advances
  <1>. QED  BY <1>1, <1>2, <1>3, Zenon

\* A thread that a step leaves alone has committed what it had.
LEMMA CommittedStays ==
    ASSUME BatchInv, CommitInv, NEW x \in Batches, CommittedByThread(x), Grows,
           commit_index' \in [Brokers -> Int],
           at[x] # 0 => /\ commit_index[at[x]] <= commit_index'[at[x]]
                        /\ log_open[at[x]] => log_open'[at[x]],
           pc'[x] = pc[x], at'[x] = at[x], offset'[x] = offset[x],
           appended_offsets'[x] = appended_offsets[x]
    PROVE  CommittedByThread(x)'
  <1>. SUFFICES ASSUME at[x] # 0 PROVE CommittedByThread(x)'
    BY Zenon DEF CommittedByThread
  <1>1. /\ at[x] \in Brokers /\ offset[x] \in Nat
        /\ commit_index[at[x]] \in Int /\ commit_index'[at[x]] \in Int
    BY BatchAssumption, Zenon DEF BatchInv, BatchTypes, CommitInv
  <1>2. appended_offsets'[x] # <<>> => log_open'[at'[x]]
    BY Zenon DEF CommittedByThread
  <1>3. pc'[x] \in {"committed", "broadcasting"} => offset'[x] <= commit_index'[at'[x]]
    BY <1>1 DEF CommittedByThread
  <1>4. ASSUME pc'[x] = "ok", NEW i \in 1..BatchSize
        PROVE  /\ appended_offsets'[x][i] <= commit_index'[at'[x]]
               /\ Holds(at[x], appended_offsets[x][i], <<x, i>>)'
    <2>1. /\ appended_offsets[x][i] <= commit_index[at[x]]
          /\ Holds(at[x], appended_offsets[x][i], <<x, i>>)
      BY <1>4, Zenon DEF CommittedByThread
    <2>2. appended_offsets[x][i] \in Nat
      <3>1. Len(appended_offsets[x]) = BatchSize
        BY <1>4, BatchAssumption, Zenon DEF BatchInv, ThreadInv, BatchAppended
      <3>. QED  BY <3>1, FirstOffset, Zenon DEF BatchInv
    <2>3. appended_offsets'[x][i] <= commit_index'[at'[x]]
      BY <1>1, <2>1, <2>2
    <2>. QED  BY <1>1, <2>1, <2>2, <2>3, Zenon DEF Grows, Holds
  <1>. QED  BY <1>2, <1>3, <1>4, Zenon DEF CommittedByThread

\* A batch's thread says a batch is done only when the commit index has passed
\* its last offset.
LEMMA ThreadCommits ==
    ASSUME BatchInv, CommitInv, NEW x \in Batches, ServeBatch(x), Advances
    PROVE  CommittedByThread(x)'
  <1>. USE DEF logVars, ackVars, netVars, reqVars, batchVars, Goto
  <1>1. /\ x \in Messages /\ BatchTypes /\ ThreadInv(x) /\ BatchAppended(x)
        /\ CommittedByThread(x) /\ offset[x] \in Nat
    BY BatchAssumption, Zenon DEF BatchInv, BatchTypes, ThreadInv, CommitInv
  <1>2. /\ \A b \in Brokers : /\ commit_index[b] <= commit_index'[b]
                              /\ log_open[b] => log_open'[b]
                              /\ commit_index[b] \in Int /\ commit_index'[b] \in Int
        /\ Grows
    BY AdvanceKeeps, Zenon DEF CommitInv
  <1>3. CASE handle_batch_produce_append(x)
    <2>1. /\ pc[x] = "admitted" /\ append(at[x], <<x, Len(appended_offsets[x]) + 1>>)
          /\ \E point \in {"appended", "admitted"} : pc' = [pc EXCEPT ![x] = point]
          /\ at' = at
      BY <1>3, Zenon DEF handle_batch_produce_append
    <2>2. log_open'[at[x]]
      BY <1>1, <2>1, ServedAtBroker, Zenon DEF append, CommitInv
    <2>3. pc'[x] \in {"appended", "admitted"}
      BY <1>1, <2>1, Zenon DEF BatchTypes
    <2>. QED  BY <2>1, <2>2, <2>3, Zenon DEF CommittedByThread
  <1>4. CASE replicate_batch_send(x)
    <2>1. /\ pc' = [pc EXCEPT ![x] = "waiting"]
          /\ UNCHANGED <<log_open, at, appended_offsets>>
      BY <1>4, Zenon DEF replicate_batch_send
    <2>2. pc'[x] = "waiting"
      BY <1>1, <2>1, Zenon DEF BatchTypes
    <2>. QED  BY <1>1, <2>1, <2>2, Zenon DEF CommittedByThread
  <1>5. CASE ~handle_batch_produce_append(x) /\ ~replicate_batch_send(x)
    <2>. SUFFICES ASSUME at'[x] # 0 PROVE CommittedByThread(x)'
      BY Zenon DEF CommittedByThread
    <2>5. UNCHANGED <<log, log_open, at, appended_offsets>>
      BY <1>5, BatchMoves, Zenon
    <2>6. at[x] # 0 /\ at[x] \in Brokers \cup {0}
      BY <1>1, <2>5, Zenon DEF BatchTypes
    <2>1. UNCHANGED <<log, log_open, at, appended_offsets>> /\ at[x] \in Brokers
      BY <2>5, <2>6, Zenon
    <2>2. appended_offsets'[x] # <<>> => log_open'[at'[x]]
      BY <1>1, <2>1, Zenon DEF CommittedByThread
    <2>3. ASSUME pc'[x] \in {"committed", "broadcasting"}
          PROVE  offset'[x] <= commit_index'[at'[x]]
      <3>1. CASE handle_batch_produce_commit(x)
        <4>1. commit_index' = [commit_index EXCEPT ![at[x]] = Max({@, offset[x]})]
              /\ offset' = offset
          BY <3>1, Zenon DEF handle_batch_produce_commit, mark_committed
        <4>2. commit_index'[at[x]] = Max({commit_index[at[x]], offset[x]})
          BY <2>1, <4>1, Zenon DEF CommitInv
        <4>3. offset[x] \in Int
          BY <1>1
        <4>4. Max({commit_index[at[x]], offset[x]}) >= offset[x]
          BY <1>2, <2>1, <4>3, MaxOfTwo, Zenon
        <4>. QED  BY <1>1, <1>2, <2>1, <4>1, <4>2, <4>4
      <3>2. CASE ~handle_batch_produce_commit(x)
        <4>1. pc[x] \in {"committed", "broadcasting"} /\ offset'[x] = offset[x]
          <5>1. CASE \/ replicate_batch_check(x) \/ replicate_batch_begin(x)
                     \/ replicate_batch_fail(x) \/ replicate_batch_acked(x)
                     \/ replicate_batch_end(x) \/ wait_for_quorum(x)
            <6>1. \E point \in {"checked", "quorum_timeout", "replicating", "polling",
                                "committing"} : pc' = [pc EXCEPT ![x] = point]
              BY <5>1, Zenon DEF replicate_batch_check, replicate_batch_begin,
                   replicate_batch_fail, replicate_to_peer_fail, replicate_batch_acked,
                   replicate_batch_end, wait_for_quorum
            <6>. QED  BY <1>1, <2>3, <6>1, Zenon DEF BatchTypes
          <5>2. CASE broadcast_batch_commit_send(x)
            BY <5>2, Zenon DEF broadcast_batch_commit_send, broadcast_commit_send
          <5>3. CASE broadcast_batch_commit_begin(x)
            <6>1. CASE is_leader(at[x])
              BY <5>3, <6>1, Zenon DEF broadcast_batch_commit_begin
            <6>2. CASE ~is_leader(at[x])
              <7>1. NextOffset(x)
                BY <5>3, <6>2, Zenon DEF broadcast_batch_commit_begin
              <7>2. pc'[x] \in {"ok", "committing"}
                BY <1>1, <7>1, NextOffsetMoves, Zenon DEF BatchTypes
              <7>. QED  BY <2>3, <7>2, Zenon
            <6>. QED  BY <6>1, <6>2, Zenon
          <5>4. CASE broadcast_batch_commit_end(x)
            <6>1. pc'[x] \in {"ok", "committing"}
              BY <1>1, <5>4, NextOffsetMoves, ZenonT(40) DEF BatchTypes, broadcast_batch_commit_end
            <6>. QED  BY <2>3, <6>1, Zenon
          <5>. QED  BY <1>5, <3>2, <5>1, <5>2, <5>3, <5>4, Zenon DEF ServeBatch
        <4>2. offset[x] <= commit_index[at[x]]
          BY <1>1, <2>1, <4>1, Zenon DEF CommittedByThread
        <4>. QED  BY <1>1, <1>2, <2>1, <4>1, <4>2
      <3>. QED  BY <3>1, <3>2, Zenon
    <2>4. ASSUME pc'[x] = "ok", NEW i \in 1..BatchSize
          PROVE  /\ appended_offsets'[x][i] <= commit_index'[at'[x]]
                 /\ Holds(at[x], appended_offsets[x][i], <<x, i>>)'
      <3>1. pc[x] \in {"committed", "broadcasting"} /\ Later(x) = {}
        <4>1. CASE \/ replicate_batch_check(x) \/ replicate_batch_begin(x)
                   \/ replicate_batch_fail(x) \/ replicate_batch_acked(x)
                   \/ replicate_batch_end(x) \/ wait_for_quorum(x)
                   \/ handle_batch_produce_commit(x)
          <5>1. \E point \in {"checked", "quorum_timeout", "replicating", "polling",
                              "committing", "committed"} : pc' = [pc EXCEPT ![x] = point]
            BY <4>1, Zenon DEF replicate_batch_check, replicate_batch_begin,
                 replicate_batch_fail, replicate_to_peer_fail, replicate_batch_acked,
                 replicate_batch_end, wait_for_quorum, handle_batch_produce_commit
          <5>. QED  BY <1>1, <2>4, <5>1, Zenon DEF BatchTypes
        <4>2. CASE broadcast_batch_commit_send(x)
          BY <2>4, <4>2, Zenon DEF broadcast_batch_commit_send, broadcast_commit_send
        <4>3. ASSUME NextOffset(x) PROVE Later(x) = {}
          <5>1. Later(x) # {} => pc'[x] = "committing"
            BY <1>1, <4>3, Zenon DEF NextOffset, BatchTypes
          <5>. QED  BY <2>4, <5>1, Zenon
        <4>4. CASE broadcast_batch_commit_begin(x)
          <5>1. CASE is_leader(at[x])
            <6>1. pc'[x] = "broadcasting"
              BY <1>1, <4>4, <5>1, Zenon DEF broadcast_batch_commit_begin, BatchTypes
            <6>. QED  BY <2>4, <6>1, Zenon
          <5>2. CASE ~is_leader(at[x])
            BY <4>3, <4>4, <5>2, Zenon DEF broadcast_batch_commit_begin
          <5>. QED  BY <5>1, <5>2, Zenon
        <4>5. CASE broadcast_batch_commit_end(x)
          BY <4>3, <4>5, Zenon DEF broadcast_batch_commit_end
        <4>. QED  BY <1>5, <4>1, <4>2, <4>4, <4>5, Zenon DEF ServeBatch
      <3>2. Len(appended_offsets[x]) = BatchSize
        BY <1>1, <3>1, Zenon DEF BatchAppended, Running, BatchPoints, Points, Final, Failures
      <3>3. Holds(at[x], appended_offsets[x][i], <<x, i>>) /\ appended_offsets[x][i] \in Nat
        BY <1>1, <3>1, <3>2, FirstOffset, Zenon DEF BatchAppended, Running, BatchPoints, Points,
                                                    Final, Failures
      <3>4. appended_offsets[x][i] \in Range(appended_offsets[x])
        BY <1>1, <3>2 DEF Range, BatchTypes
      <3>5. ~(appended_offsets[x][i] > offset[x])
        BY <3>1, <3>4, Zenon DEF Later
      <3>6. offset[x] <= commit_index[at[x]]
        BY <1>1, <2>1, <3>1, Zenon DEF CommittedByThread
      <3>7. appended_offsets'[x][i] <= commit_index'[at'[x]]
        BY <1>1, <1>2, <2>1, <3>3, <3>5, <3>6
      <3>. QED  BY <1>2, <2>1, <3>3, <3>7, Zenon DEF Grows, Holds
    <2>. QED  BY <2>2, <2>3, <2>4, Zenon DEF CommittedByThread
  <1>. QED  BY <1>3, <1>4, <1>5, Zenon

\* The step of one thread, or of none, leaves the other threads alone.
LEMMA OtherThreads ==
    ASSUME BatchInv, BatchNext, \A b \in Brokers : ~CrashServer(b),
           NEW x \in Batches, ~ServeBatch(x),
           \A b \in Brokers : ~handle_batch_produce_admit(x, b)
    PROVE  /\ pc'[x] = pc[x] /\ at'[x] = at[x] /\ offset'[x] = offset[x]
           /\ appended_offsets'[x] = appended_offsets[x]
  <1>. USE DEF netVars, reqVars, replVars, batchVars, Goto
  <1>1. x \in Messages /\ BatchTypes
    BY BatchAssumption, Zenon DEF BatchInv
  <1>2. ASSUME NEW m \in Messages, m # x,
               \E point : pc' = [pc EXCEPT ![m] = point] \/ pc' = pc,
               \E b : at' = [at EXCEPT ![m] = b] \/ at' = at,
               \E o : offset' = [offset EXCEPT ![m] = o] \/ offset' = offset,
               \/ appended_offsets' = appended_offsets
               \/ \E s : appended_offsets' = [appended_offsets EXCEPT ![m] = s]
        PROVE  /\ pc'[x] = pc[x] /\ at'[x] = at[x] /\ offset'[x] = offset[x]
               /\ appended_offsets'[x] = appended_offsets[x]
    BY <1>1, <1>2, Zenon DEF BatchTypes
  <1>3. ASSUME NEW m \in Messages, NEW b \in Brokers, m # x,
               handle_produce_admit(m, b), UNCHANGED batchVars
        PROVE  /\ pc'[x] = pc[x] /\ at'[x] = at[x] /\ offset'[x] = offset[x]
               /\ appended_offsets'[x] = appended_offsets[x]
    BY <1>2, <1>3, Zenon DEF handle_produce_admit
  <1>4. ASSUME NEW m \in Messages, m # x, ServeProduce(m), UNCHANGED batchVars
        PROVE  /\ pc'[x] = pc[x] /\ at'[x] = at[x] /\ offset'[x] = offset[x]
               /\ appended_offsets'[x] = appended_offsets[x]
    <2>1. /\ \E point : pc' = [pc EXCEPT ![m] = point] \/ pc' = pc
          /\ at' = at
          /\ \E o : offset' = [offset EXCEPT ![m] = o] \/ offset' = offset
      BY <1>4, Zenon DEF ServeProduce, handle_produce_append, replicate_message_begin,
                 replicate_to_peer_send, replicate_to_peer_fail, replicate_to_peer_acked,
                 replicate_message_end, handle_produce_commit, broadcast_commit_begin,
                 broadcast_commit_send, broadcast_commit_end
    <2>. QED  BY <1>2, <1>4, <2>1, Zenon
  <1>5. ASSUME NEW y \in Batches, y # x, ServeBatch(y)
        PROVE  /\ pc'[x] = pc[x] /\ at'[x] = at[x] /\ offset'[x] = offset[x]
               /\ appended_offsets'[x] = appended_offsets[x]
    <2>1. /\ \E point : pc' = [pc EXCEPT ![y] = point] \/ pc' = pc
          /\ at' = at
          /\ \E o : offset' = [offset EXCEPT ![y] = o] \/ offset' = offset
          /\ \/ appended_offsets' = appended_offsets
             \/ \E s : appended_offsets' = [appended_offsets EXCEPT ![y] = s]
      <3>1. CASE \/ handle_batch_produce_append(y) \/ replicate_batch_check(y)
                 \/ replicate_batch_begin(y) \/ replicate_batch_send(y)
                 \/ replicate_batch_fail(y) \/ replicate_batch_acked(y)
                 \/ replicate_batch_end(y) \/ wait_for_quorum(y)
                 \/ handle_batch_produce_commit(y) \/ broadcast_batch_commit_send(y)
        BY <3>1, Zenon DEF handle_batch_produce_append, replicate_batch_check,
             replicate_batch_begin, replicate_batch_send, replicate_batch_fail,
             replicate_to_peer_fail, replicate_batch_acked, replicate_batch_end,
             wait_for_quorum, handle_batch_produce_commit, broadcast_batch_commit_send,
             broadcast_commit_send
      <3>2. CASE broadcast_batch_commit_begin(y) \/ broadcast_batch_commit_end(y)
        BY <3>2, Zenon DEF broadcast_batch_commit_begin, broadcast_batch_commit_end, NextOffset
      <3>. QED  BY <1>5, <3>1, <3>2, Zenon DEF ServeBatch
    <2>. QED  BY <1>5, <1>2, <2>1, BatchAssumption, Zenon
  <1>6. ASSUME UNCHANGED <<pc, at, offset, appended_offsets>>
        PROVE  /\ pc'[x] = pc[x] /\ at'[x] = at[x] /\ offset'[x] = offset[x]
               /\ appended_offsets'[x] = appended_offsets[x]
    BY <1>6, Zenon
  <1>7. CASE ServeBatchPeer
    BY <1>6, <1>7, Zenon DEF ServeBatchPeer, handle_batch_replication_check,
                             handle_batch_replication_append
  <1>8. CASE /\ \/ ServePeer
                \/ \E b \in Brokers : heartbeat_loop(b)
                \/ \E b, p \in Brokers : handle_heartbeat_request(b, p)
                \/ \E b \in Brokers : RestartBroker(b)
             /\ UNCHANGED batchVars
    BY <1>6, <1>8, Zenon DEF ServePeer, handle_replication_check, handle_replication_append,
                  handle_commit_request, heartbeat_loop, handle_heartbeat_request, RestartBroker
  <1>9. ASSUME NEW y \in Batches, NEW b \in Brokers, handle_batch_produce_admit(y, b)
        PROVE  /\ pc'[x] = pc[x] /\ at'[x] = at[x] /\ offset'[x] = offset[x]
               /\ appended_offsets'[x] = appended_offsets[x]
    BY <1>3, <1>9, BatchAssumption, Zenon DEF handle_batch_produce_admit
  <1>. QED  BY <1>3, <1>4, <1>5, <1>7, <1>8, <1>9, Zenon DEF BatchNext

\* CommitInv is kept by every step, given BatchInv.
LEMMA CommitStep == CommitInv /\ BatchInv /\ [BatchNext]_allVars => CommitInv'
  <1>. SUFFICES ASSUME CommitInv, BatchInv, [BatchNext]_allVars PROVE CommitInv'
    BY Zenon
  <1>1. ASSUME NEW b \in Brokers, CrashServer(b) PROVE CommitInv'
    <2>1. /\ commit_index' = [commit_index EXCEPT ![b] = -1]
          /\ log_open' = [log_open EXCEPT ![b] = FALSE]
          /\ commits' \subseteq commits /\ UNCHANGED <<log, offset, appended_offsets>>
      BY <1>1, Zenon DEF CrashServer, CrashBroker
    <2>2. -1 \in Int
      OBVIOUS
    <2>3. /\ commit_index' \in [Brokers -> Int] /\ log_open' \in [Brokers -> BOOLEAN]
          /\ commits' \in SUBSET [dst : Brokers, fetch_offset : Nat]
      BY <2>1, <2>2, Zenon DEF CommitInv
    <2>4. ASSUME NEW x \in Batches PROVE CommittedByThread(x)'
      <3>1. x \in Messages /\ at[x] \in Brokers \cup {0}
        BY BatchAssumption, Zenon DEF BatchInv, BatchTypes
      <3>2. CASE at[x] = b
        BY <1>1, <3>1, <3>2, Zenon DEF CrashServer, CrashBroker, CommittedByThread
      <3>3. CASE at[x] # b
        <4>1. at'[x] = at[x] /\ pc'[x] = pc[x]
          BY <1>1, <3>1, <3>3, Zenon DEF CrashServer, CrashBroker
        <4>2. at[x] # 0 => /\ commit_index'[at[x]] = commit_index[at[x]]
                           /\ log_open'[at[x]] = log_open[at[x]]
                           /\ commit_index[at[x]] \in Int
          BY <2>1, <3>1, <3>3, Zenon DEF CommitInv
        <4>3. at[x] # 0 => commit_index[at[x]] <= commit_index'[at[x]]
          BY <4>2
        <4>. QED  BY <2>1, <2>3, <4>1, <4>2, <4>3, CommittedStays, Zenon DEF CommitInv, Grows
      <3>. QED  BY <3>2, <3>3, Zenon
    <2>. QED  BY <2>3, <2>4, Zenon DEF CommitInv
  <1>2. ASSUME \A b \in Brokers : ~CrashServer(b) PROVE CommitInv'
    <2>1. Advances
      BY <1>2, StepsAdvance, Zenon
    <2>2. /\ commit_index' \in [Brokers -> Int]
          /\ log_open' \in [Brokers -> BOOLEAN]
          /\ commits' \in SUBSET [dst : Brokers, fetch_offset : Nat]
          /\ \A b \in Brokers : /\ commit_index[b] <= commit_index'[b]
                                /\ log_open[b] => log_open'[b]
          /\ Grows
      BY <2>1, AdvanceKeeps, Zenon
    <2>3. ASSUME NEW x \in Batches PROVE CommittedByThread(x)'
      <3>1. x \in Messages /\ at[x] \in Brokers \cup {0} /\ CommittedByThread(x)
        BY BatchAssumption, Zenon DEF BatchInv, BatchTypes, CommitInv
      <3>2. CASE ServeBatch(x)
        BY <2>1, <3>2, ThreadCommits, Zenon
      <3>3. CASE \E b \in Brokers : handle_batch_produce_admit(x, b)
        <4>1. /\ pc[x] = "idle" /\ pc' = [pc EXCEPT ![x] = "admitted"]
              /\ appended_offsets' = appended_offsets
          BY <3>3, Zenon DEF handle_batch_produce_admit, handle_produce_admit, Goto, batchVars
        <4>2. pc'[x] = "admitted" /\ appended_offsets'[x] = <<>>
          BY <3>1, <4>1, Zenon DEF BatchInv, BatchTypes, ThreadInv, BatchAppended
        <4>. QED  BY <4>2, Zenon DEF CommittedByThread
      <3>4. CASE ~ServeBatch(x) /\ \A b \in Brokers : ~handle_batch_produce_admit(x, b)
        <4>1. /\ pc'[x] = pc[x] /\ at'[x] = at[x] /\ offset'[x] = offset[x]
              /\ appended_offsets'[x] = appended_offsets[x]
          <5>1. CASE BatchNext
            BY <1>2, <3>4, <5>1, OtherThreads, Zenon
          <5>2. CASE UNCHANGED allVars
            BY <5>2, Zenon DEF allVars, vars, replVars, reqVars, batchVars
          <5>. QED  BY <5>1, <5>2, Zenon
        <4>. QED  BY <2>2, <3>1, <4>1, CommittedStays, Zenon
      <3>. QED  BY <3>2, <3>3, <3>4, Zenon
    <2>. QED  BY <2>2, <2>3, Zenon DEF CommitInv
  <1>. QED  BY <1>1, <1>2, Zenon

\* A producer reads every record of an answered batch back from the broker that
\* served it until that broker restarts.
THEOREM BatchesReadable == BatchSpec => []BatchReadable
  <1>1. BatchInit => CommitInv
    <2>. SUFFICES ASSUME BatchInit PROVE CommitInv
      BY Zenon
    <2>1. \A x \in Batches : at[x] = 0
      BY BatchAssumption, Zenon DEF BatchInit, Init
    <2>2. -1 \in Int
      OBVIOUS
    <2>3. /\ commit_index \in [Brokers -> Int] /\ log_open \in [Brokers -> BOOLEAN]
          /\ commits = {}
      BY <2>2, Zenon DEF BatchInit, Init
    <2>. QED  BY <2>1, <2>3, Zenon DEF CommitInv, CommittedByThread
  <1>2. BatchInv /\ CommitInv => BatchReadable
    <2>. SUFFICES ASSUME BatchInv, CommitInv, NEW x \in Batches, Acked(x), at[x] # 0,
                         NEW i \in 1..BatchSize
                  PROVE  handle_fetch(at[x], appended_offsets[x][i]) = <<<<x, i>>>>
      BY Zenon DEF BatchReadable
    <2>1. CommittedByThread(x) /\ Len(appended_offsets[x]) = BatchSize /\ pc[x] = "ok"
      BY BatchAssumption, Zenon DEF CommitInv, Acked, BatchInv, ThreadInv, BatchAppended
    <2>2. appended_offsets[x] # <<>>
      BY <2>1, BatchAssumption
    <2>. QED  BY <2>1, <2>2, Zenon DEF CommittedByThread, handle_fetch, Holds
  <1>. QED  BY <1>1, <1>2, CommitStep, BatchInvariance, PTL DEF BatchSpec
-----------------------------------------------------------------------------
(* Type correctness.                                                       *)

\* What a thread that failed to reach a peer, or reached it, notes.
LEMMA ThreadSuspicions ==
    ASSUME MemTypeOK, BatchInv, NEW m \in Messages,
           \/ replicate_to_peer_fail(m) \/ replicate_to_peer_acked(m)
           \/ broadcast_commit_send(m)
    PROVE  MemTypeOK'
  <1>1. todo[m] # {} /\ at[m] \in Brokers
    <2>1. pc[m] \in {"replicating", "waiting", "broadcasting"}
      BY Zenon DEF replicate_to_peer_fail, replicate_to_peer_acked, broadcast_commit_send
    <2>2. pc[m] = "waiting" => todo[m] # {}
      BY Zenon DEF BatchInv, ThreadInv, SessionInv
    <2>. QED  BY <2>1, <2>2, ServedAtBroker, Zenon
              DEF replicate_to_peer_fail, replicate_to_peer_acked, broadcast_commit_send
  <1>2. Target(m) \in Brokers
    BY <1>1, TargetInTodo, Zenon DEF BatchInv
  <1>3. /\ UNCHANGED memRest
        /\ mark_follower_failed(at[m], Target(m)) \/ mark_follower_alive(at[m], Target(m))
        /\ glitches' = glitches \/ (glitches < MaxGlitches /\ glitches' = glitches + 1)
    BY Zenon DEF replicate_to_peer_fail, replicate_to_peer_acked, broadcast_commit_send
  <1>. QED  BY <1>1, <1>2, <1>3, SuspicionTypes, Zenon

\* Every step keeps the types of Membership's variables.
LEMMA MembershipTypes ==
    ASSUME MemTypeOK, BatchInv, [BatchNext]_allVars
    PROVE  MemTypeOK'
  <1>1. ASSUME [MemNext]_memVars PROVE MemTypeOK'
    BY <1>1, MemTypeStep, Zenon
  <1>2. ASSUME NEW m \in Messages, NEW b \in Brokers, handle_produce_admit(m, b)
        PROVE  MemTypeOK'
    BY <1>1, <1>2, Zenon DEF handle_produce_admit
  <1>3. ASSUME NEW m \in Messages, ServeProduce(m) PROVE MemTypeOK'
    <2>1. CASE \/ handle_produce_append(m) \/ replicate_message_begin(m)
               \/ replicate_to_peer_send(m) \/ replicate_message_end(m)
               \/ handle_produce_commit(m) \/ broadcast_commit_begin(m)
               \/ broadcast_commit_end(m)
      BY <1>1, <2>1, Zenon DEF handle_produce_append, replicate_message_begin,
                  replicate_to_peer_send, replicate_message_end, handle_produce_commit,
                  broadcast_commit_begin, broadcast_commit_end
    <2>. QED  BY <1>3, <2>1, ThreadSuspicions, Zenon DEF ServeProduce
  <1>4. ASSUME NEW x \in Batches, ServeBatch(x) PROVE MemTypeOK'
    <2>1. CASE \/ handle_batch_produce_append(x) \/ replicate_batch_check(x)
               \/ replicate_batch_begin(x) \/ replicate_batch_send(x)
               \/ replicate_batch_acked(x) \/ replicate_batch_end(x)
               \/ wait_for_quorum(x) \/ handle_batch_produce_commit(x)
               \/ broadcast_batch_commit_begin(x) \/ broadcast_batch_commit_end(x)
      BY <1>1, <2>1, Zenon DEF handle_batch_produce_append, replicate_batch_check,
                  replicate_batch_begin, replicate_batch_send, replicate_batch_acked,
                  replicate_batch_end, wait_for_quorum, handle_batch_produce_commit,
                  broadcast_batch_commit_begin, broadcast_batch_commit_end
    <2>2. CASE replicate_batch_fail(x) \/ broadcast_batch_commit_send(x)
      BY <2>2, ThreadSuspicions, BatchAssumption, Zenon
         DEF replicate_batch_fail, broadcast_batch_commit_send
    <2>. QED  BY <1>4, <2>1, <2>2, Zenon DEF ServeBatch
  <1>5. CASE ServeBatchPeer \/ ServePeer
    BY <1>1, <1>5, Zenon DEF ServeBatchPeer, handle_batch_replication_check,
                  handle_batch_replication_append, ServePeer, handle_replication_check,
                  handle_replication_append, handle_commit_request
  <1>6. ASSUME NEW b \in Brokers, NEW p \in Brokers,
               \/ heartbeat_loop(b) \/ handle_heartbeat_request(b, p) \/ RestartBroker(b)
               \/ CrashServer(b)
        PROVE  MemTypeOK'
    BY <1>1, <1>6, Zenon DEF heartbeat_loop, handle_heartbeat_request, RestartBroker,
                             CrashServer, CrashBroker, MemNext
  <1>7. CASE UNCHANGED allVars
    BY <1>1, <1>7, Zenon DEF allVars, vars
  <1>. QED  BY <1>2, <1>3, <1>4, <1>5, <1>6, <1>7, BatchAssumption, Zenon
            DEF BatchNext, handle_batch_produce_admit

\* The offsets a batch was appended at, and those its BATCH_REPLICATEs carry, are
\* offsets of the logs.
LEMMA OffsetTypes ==
    ASSUME BatchTypeOK, BatchInv, [BatchNext]_allVars
    PROVE  /\ appended_offsets' \in [Batches -> Seq(Offsets)]
           /\ batch_replicates' \in SUBSET [dst : Brokers, message : Batches,
                                            fetch_offset : Offsets, next : 0..BatchSize]
  <1>. DEFINE Requests == [dst : Brokers, message : Batches, fetch_offset : Offsets,
                           next : 0..BatchSize]
  <1>. USE DEF batchVars, netVars
  <1>1. /\ appended_offsets \in [Batches -> Seq(Offsets)]
        /\ batch_replicates \in SUBSET Requests
    BY Zenon DEF BatchTypeOK
  <1>2. ASSUME appended_offsets' = appended_offsets, batch_replicates' \subseteq batch_replicates
        PROVE  /\ appended_offsets' \in [Batches -> Seq(Offsets)]
               /\ batch_replicates' \in SUBSET Requests
    BY <1>1, <1>2, Zenon
  <1>3. ASSUME NEW x \in Batches, handle_batch_produce_append(x)
        PROVE  /\ appended_offsets' \in [Batches -> Seq(Offsets)]
               /\ batch_replicates' \in SUBSET Requests
    <2>1. at[x] \in Brokers /\ append(at[x], <<x, Len(appended_offsets[x]) + 1>>)
      BY <1>3, ServedAtBroker, BatchAssumption, Zenon DEF handle_batch_produce_append
    <2>2. Len(log[at[x]]) \in Offsets
      BY <2>1, ReplicationAssumption DEF append, Offsets, BatchInv, BatchTypes
    <2>3. Append(appended_offsets[x], Len(log[at[x]])) \in Seq(Offsets)
      BY <1>1, <2>2
    <2>. QED  BY <1>1, <1>3, <2>3, Zenon DEF handle_batch_produce_append
  <1>4. ASSUME NEW x \in Batches, replicate_batch_send(x)
        PROVE  /\ appended_offsets' \in [Batches -> Seq(Offsets)]
               /\ batch_replicates' \in SUBSET Requests
    <2>. DEFINE new == [dst |-> Target(x), message |-> x, fetch_offset |-> first_offset(x),
                        next |-> 0]
    <2>1. /\ x \in Messages /\ pc[x] = "replicating" /\ todo[x] # {}
          /\ batch_replicates' = batch_replicates \cup {new}
          /\ appended_offsets' = appended_offsets
      BY <1>4, BatchAssumption, Zenon DEF replicate_batch_send
    <2>2. Target(x) \in Brokers
      BY <2>1, TargetInTodo, Zenon DEF BatchInv
    <2>3. Len(appended_offsets[x]) = BatchSize
      BY <2>1, Zenon DEF BatchInv, ThreadInv, BatchAppended, Running, BatchPoints, Points, Final,
                         Failures
    <2>4. first_offset(x) \in Offsets /\ 0 \in 0..BatchSize
      BY <1>1, <2>3, BatchAssumption DEF first_offset
    <2>5. new \in Requests
      BY <2>2, <2>4, Zenon
    <2>. QED  BY <1>1, <2>1, <2>5, Zenon
  <1>5. ASSUME NEW x \in Batches, ServeBatch(x)
        PROVE  /\ appended_offsets' \in [Batches -> Seq(Offsets)]
               /\ batch_replicates' \in SUBSET Requests
    <2>1. CASE ~handle_batch_produce_append(x) /\ ~replicate_batch_send(x)
      BY <1>2, <1>5, <2>1, BatchMoves, Zenon
    <2>. QED  BY <1>3, <1>4, <1>5, <2>1, Zenon
  <1>6. CASE ServeBatchPeer
    <2>1. ASSUME NEW r \in batch_replicates, handle_batch_replication_check(r)
          PROVE  batch_replicates' \in SUBSET Requests
      <3>1. 1 \in 0..BatchSize /\ r \in Requests
        BY <1>1, BatchAssumption
      <3>2. [r EXCEPT !.next = first_record(r)] \in Requests
        BY <3>1 DEF first_record
      <3>. QED  BY <1>1, <2>1, <3>2, Zenon DEF handle_batch_replication_check
    <2>2. ASSUME NEW r \in batch_replicates, handle_batch_replication_append(r)
          PROVE  batch_replicates' \in SUBSET Requests
      <3>. DEFINE expected == Len(log[r.dst]) = r.fetch_offset + r.next - 1
      <3>1. r \in Requests
        BY <1>1, Zenon
      <3>2. CASE goes_on(r, expected)
        <4>1. [r EXCEPT !.next = @ + 1] \in Requests
          BY <3>1, <3>2, BatchAssumption DEF goes_on
        <4>2. batch_replicates' = (batch_replicates \ {r}) \cup {[r EXCEPT !.next = @ + 1]}
          BY <2>2, <3>2, Zenon DEF handle_batch_replication_append
        <4>. QED  BY <1>1, <4>1, <4>2, Zenon
      <3>3. CASE ~goes_on(r, expected)
        BY <1>1, <2>2, <3>3, Zenon DEF handle_batch_replication_append
      <3>. QED  BY <3>2, <3>3, Zenon
    <2>3. appended_offsets' = appended_offsets
      BY <1>6, Zenon DEF ServeBatchPeer, handle_batch_replication_check,
                         handle_batch_replication_append
    <2>. QED  BY <1>1, <1>6, <2>1, <2>2, <2>3, Zenon DEF ServeBatchPeer
  <1>7. ASSUME NEW b \in Brokers, CrashServer(b)
        PROVE  /\ appended_offsets' \in [Batches -> Seq(Offsets)]
               /\ batch_replicates' \in SUBSET Requests
    BY <1>2, <1>7, Zenon DEF CrashServer
  <1>8. CASE UNCHANGED batchVars \/ UNCHANGED allVars
    BY <1>2, <1>8, Zenon DEF allVars
  <1>9. ASSUME NEW x \in Batches, NEW b \in Brokers, handle_batch_produce_admit(x, b)
        PROVE  UNCHANGED batchVars
    BY <1>9, Zenon DEF handle_batch_produce_admit
  <1>. QED  BY <1>5, <1>6, <1>7, <1>8, <1>9, Zenon DEF BatchNext

\* Every variable keeps its type: what is appended are records of requests, and
\* every offset a batch counts or sends is one of a log's.
THEOREM BatchTypesCorrect == BatchSpec => []BatchTypeOK
  <1>1. BatchInv /\ BatchInit => BatchTypeOK
    <2>. SUFFICES ASSUME BatchInv, BatchInit PROVE BatchTypeOK
      BY Zenon
    <2>1. MemTypeOK
      BY MemTypeInit, Zenon DEF BatchInit, Init
    <2>2. <<>> \in Seq(Offsets)
      OBVIOUS
    <2>3. appended_offsets \in [Batches -> Seq(Offsets)] /\ batch_replicates = {}
      BY <2>2, Zenon DEF BatchInit
    <2>. QED  BY <2>1, <2>3, Zenon DEF BatchTypeOK, BatchInv, BatchTypes, BatchPoints
  <1>2. BatchTypeOK /\ BatchInv /\ BatchInv' /\ [BatchNext]_allVars => BatchTypeOK'
    <2>. SUFFICES ASSUME BatchTypeOK, BatchInv, BatchInv', [BatchNext]_allVars
                  PROVE  BatchTypeOK'
      BY Zenon
    <2>1. MemTypeOK'
      BY MembershipTypes, Zenon DEF BatchTypeOK
    <2>. QED  BY <2>1, OffsetTypes, Zenon DEF BatchTypeOK, BatchInv, BatchTypes, BatchPoints
  <1>. QED  BY <1>1, <1>2, BatchInvariance, PTL DEF BatchSpec
=============================================================================
