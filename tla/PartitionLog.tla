---------------------------- MODULE PartitionLog ----------------------------
(***************************************************************************)
(* The storage of one partition: Log over its LogSegments and its          *)
(* write-ahead log, with the crashes it is meant to survive.  One call at  *)
(* a time runs (Log::mutex_); pc is how far it has got, because a crash    *)
(* can come between any two of its writes.                                 *)
(*                                                                         *)
(* All records have the same size, which is the unit of every position and *)
(* of max_segment_size_.  A record is the number of the append that        *)
(* brought it.  file[n] is segment-(n-1).log.                              *)
(*                                                                         *)
(* What the process wrote reaches stable storage in three stages.  A small *)
(* record stays in the fstream's buffer until the next seek on that        *)
(* fstream or its flush; a large one is written through.  A written record *)
(* is in the page cache and survives the end of the process.  fsync puts a *)
(* file on stable storage; without it a power loss keeps any prefix of     *)
(* what was written.  Truncating the WAL is not followed by an fsync.      *)
(* A record torn by a crash is cut off by rebuild_index_from_segment, or   *)
(* ends recover_wal's loop, before anything reads it: it is left out here. *)
(***************************************************************************)
EXTENDS Flatten, FiniteSetsExt

CONSTANTS
    SegmentCapacity,  \* records that fill a segment (max_segment_size_)
    SyncBatch,        \* sync_batch_size_
    IndexStride,      \* kIndexStride
    MaxAppends,       \* bound: calls of append
    MaxKills,         \* bound: ends of the process without its destructors
    MaxPowerLosses    \* bound: losses of what is not on stable storage

ASSUME PartitionLogAssumption ==
    /\ {SegmentCapacity, SyncBatch, IndexStride} \subseteq Nat \ {0}
    /\ {MaxAppends, MaxKills, MaxPowerLosses} \subseteq Nat
    /\ MaxAppends < 100   \* so that a segment's number has two digits at most

VARIABLES
    pc,                \* how far the running call, or recovery, has got
    cursor,            \* its place in a loop over the WAL or the segments
    file,              \* the records of each segment file, buffered ones too
    unflushed,         \* files whose last record is still in a buffer
    stable,            \* how many records of each file are on stable storage
    wal,               \* the entries of append.wal
    wal_stable,        \* what an fsync last put on stable storage of it
    segments,          \* Log::segments: the files in the order of loading
    index_,
    next_offset_,
    pending_appends_,
    current,           \* the append under way: {} or {<<offset, record>>}
    appends, kills, losses,
    returned,          \* history: <<offset, record>> of appends that returned
    synced             \* history: the records the last completed sync covered

procVars == <<segments, index_, next_offset_, pending_appends_>>
diskVars == <<file, unflushed, stable>>
walVars == <<wal, wal_stable>>
faultVars == <<kills, losses>>
plVars == <<pc, cursor, diskVars, walVars, procVars, current, appends, faultVars,
            returned, synced>>

Records == 1..MaxAppends

\* b begins with a.
Begins(a, b) ==
    /\ Len(a) <= Len(b)
    /\ \A n \in 1..Len(a) : a[n] = b[n]

Init ==
    /\ pc = "down" /\ cursor = 1
    /\ file = << >> /\ unflushed = {} /\ stable = << >>
    /\ wal = << >> /\ wal_stable = << >>
    /\ segments = << >> /\ index_ = << >> /\ next_offset_ = 0
    /\ pending_appends_ = 0
    /\ current = {} /\ appends = 0 /\ kills = 0 /\ losses = 0
    /\ returned = {} /\ synced = << >>
-----------------------------------------------------------------------------
(* Starting up: Log's constructor.                                         *)

Digits(n) == IF n < 10 THEN <<n>> ELSE <<n \div 10, n % 10>>

\* The order of the paths segment-i.log and segment-j.log as strings; '.' sorts
\* before every digit.
PathBefore(i, j) ==
    LET x == Digits(i)
        y == Digits(j)
    IN  \/ x[1] < y[1]
        \/ x[1] = y[1] /\ Len(x) < Len(y)
        \/ x[1] = y[1] /\ Len(x) = 2 /\ Len(y) = 2 /\ x[2] < y[2]

\* The n files in the order of their sorted paths.
LoadOrder(n) ==
    [r \in 1..n |-> CHOOSE f \in 1..n :
        Cardinality({g \in 1..n : PathBefore(g - 1, f - 1)}) = r - 1]

InOrder(order) == FlattenSeq([i \in 1..Len(order) |-> file[order[i]]])

\* The records by offset, as the running Log holds them.
Content == InOrder(segments)

checkpoint_late(index, o, segment, position) ==
    IF o % IndexStride = 0 \/ position = 0
    THEN Append(index, [offset |-> o + 1, segment_index |-> segment,
                        byte_position |-> position])
    ELSE index

\* Every IndexStride-th record and the first of each segment are indexed.
checkpoint(index, o, segment, position) ==
    IF o % IndexStride = 0 \/ position = 0
    THEN Append(index, [offset |-> o, segment_index |-> segment,
                        byte_position |-> position])
    ELSE index

\* rebuild_index_from_segment for every segment of the order.
RebuiltIndex(order) ==
    LET places == FlattenSeq([i \in 1..Len(order) |->
                     [p \in 1..Len(file[order[i]]) |-> <<i, p - 1>>]])
        index[n \in 0..Len(places)] ==
          IF n = 0 THEN << >>
          ELSE checkpoint(index[n - 1], n - 1, places[n][1], places[n][2])
    IN  index[Len(places)]

\* An empty directory gets segment-0.log.  The WAL is read when it is there
\* and not empty.
load_existing_segments ==
    LET n == IF file = << >> THEN 1 ELSE Len(file)
    IN  /\ pc = "down"
        /\ file' = IF file = << >> THEN << << >> >> ELSE file
        /\ stable' = IF file = << >> THEN <<0>> ELSE stable
        /\ segments' = LoadOrder(n)
        /\ index_' = IF file = << >> THEN << >> ELSE RebuiltIndex(LoadOrder(n))
        /\ next_offset_' = IF file = << >> THEN 0 ELSE Len(InOrder(LoadOrder(n)))
        /\ pc' = IF wal = << >> THEN "ready" ELSE "replay"
        /\ cursor' = 1
        /\ UNCHANGED <<unflushed, walVars, pending_appends_, current, appends,
                       faultVars, returned, synced>>

active_segment == segments[Len(segments)]

\* LogSegment::append on the active segment, and the index entry.  The seek
\* before the write flushes the segment's previous record.
store(r) ==
    LET f == active_segment
    IN  /\ file' = [file EXCEPT ![f] = Append(@, r)]
        /\ \/ unflushed' = unflushed \cup {f}
           \/ unflushed' = unflushed \ {f}
        /\ index_' = checkpoint(index_, next_offset_, Len(segments), Len(file[f]))
        /\ next_offset_' = next_offset_ + 1

recover_wal_entry_all ==
    /\ pc = "replay"
    /\ cursor <= Len(wal)
    /\ store(wal[cursor].record)
    /\ cursor' = cursor + 1
    /\ UNCHANGED <<pc, stable, walVars, segments, pending_appends_, current, appends,
                   faultVars, returned, synced>>

recover_wal_entry_ahead ==
    /\ pc = "replay"
    /\ cursor <= Len(wal)
    /\ IF wal[cursor].offset > next_offset_
       THEN store(wal[cursor].record)
       ELSE UNCHANGED <<file, unflushed, index_, next_offset_>>
    /\ cursor' = cursor + 1
    /\ UNCHANGED <<pc, stable, walVars, segments, pending_appends_, current, appends,
                   faultVars, returned, synced>>

\* recover_wal replays the entries that continue the log and skips the others.
\* It never starts a new segment.
recover_wal_entry ==
    /\ pc = "replay"
    /\ cursor <= Len(wal)
    /\ IF wal[cursor].offset = next_offset_
       THEN store(wal[cursor].record)
       ELSE UNCHANGED <<file, unflushed, index_, next_offset_>>
    /\ cursor' = cursor + 1
    /\ UNCHANGED <<pc, stable, walVars, segments, pending_appends_, current, appends,
                   faultVars, returned, synced>>

recover_wal_end ==
    /\ pc = "replay"
    /\ cursor > Len(wal)
    /\ pc' = IF next_offset_ > 0 THEN "sync_segments" ELSE "clear_wal"
    /\ cursor' = 1
    /\ UNCHANGED <<diskVars, walVars, procVars, current, appends, faultVars, returned,
                   synced>>
-----------------------------------------------------------------------------
(* Log::append and Log::flush.                                             *)

write_wal ==
    /\ pc = "ready"
    /\ appends < MaxAppends
    /\ appends' = appends + 1
    /\ current' = {<<next_offset_, appends + 1>>}
    /\ wal' = Append(wal, [offset |-> next_offset_, record |-> appends + 1])
    /\ pc' = "logged"
    /\ UNCHANGED <<cursor, diskVars, wal_stable, procVars, faultVars, returned, synced>>

append_record ==
    /\ pc = "logged"
    /\ \E c \in current : store(c[2])
    /\ pc' = "stored"
    /\ UNCHANGED <<cursor, stable, walVars, segments, pending_appends_, current,
                   appends, faultVars, returned, synced>>

\* A full segment is followed by a new one, named after their number.
roll_segment ==
    /\ pc = "stored"
    /\ IF Len(file[active_segment]) >= SegmentCapacity
       THEN /\ file' = Append(file, << >>)
            /\ stable' = Append(stable, 0)
            /\ segments' = Append(segments, Len(segments) + 1)
       ELSE UNCHANGED <<file, stable, segments>>
    /\ pending_appends_' = pending_appends_ + 1
    /\ IF pending_appends_ + 1 >= SyncBatch
       THEN pc' = "sync_wal" /\ UNCHANGED <<current, returned>>
       ELSE /\ pc' = "ready"
            /\ returned' = returned \cup current
            /\ current' = {}
    /\ UNCHANGED <<cursor, unflushed, walVars, index_, next_offset_, appends, faultVars,
                   synced>>

flush ==
    /\ pc = "ready"
    /\ pending_appends_ > 0
    /\ pc' = "sync_wal"
    /\ UNCHANGED <<cursor, diskVars, walVars, procVars, current, appends, faultVars,
                   returned, synced>>

sync_wal ==
    /\ pc = "sync_wal"
    /\ wal_stable' = wal
    /\ pc' = "sync_segments"
    /\ cursor' = 1
    /\ UNCHANGED <<diskVars, wal, procVars, current, appends, faultVars, returned, synced>>

sync_segment_unsynced ==
    LET f == segments[cursor]
    IN  /\ pc = "sync_segments"
        /\ unflushed' = unflushed \ {f}
        /\ cursor' = cursor + 1
        /\ pc' = IF cursor = Len(segments) THEN "clear_wal" ELSE pc
        /\ UNCHANGED <<file, stable, walVars, procVars, current, appends, faultVars,
                       returned, synced>>

\* LogSegment::sync of one segment, in sync_pending and at the end of recovery.
sync_segment ==
    LET f == segments[cursor]
    IN  /\ pc = "sync_segments"
        /\ unflushed' = unflushed \ {f}
        /\ stable' = [stable EXCEPT ![f] = Len(file[f])]
        /\ cursor' = cursor + 1
        /\ pc' = IF cursor = Len(segments) THEN "clear_wal" ELSE pc
        /\ UNCHANGED <<file, walVars, procVars, current, appends, faultVars, returned,
                       synced>>

clear_wal_pending ==
    /\ pc = "clear_wal"
    /\ wal' = << >>
    /\ pc' = "ready"
    /\ cursor' = 1
    /\ synced' = Content
    /\ returned' = returned \cup current
    /\ current' = {}
    /\ UNCHANGED <<diskVars, wal_stable, procVars, appends, faultVars>>

\* The last step of sync_pending and of recovery; the call returns.
clear_wal ==
    /\ pc = "clear_wal"
    /\ wal' = << >>
    /\ pending_appends_' = 0
    /\ pc' = "ready"
    /\ cursor' = 1
    /\ synced' = Content
    /\ returned' = returned \cup current
    /\ current' = {}
    /\ UNCHANGED <<diskVars, wal_stable, segments, index_, next_offset_, appends,
                   faultVars>>
-----------------------------------------------------------------------------
(* Log::fetch.                                                             *)

\* The last checkpoint at or below o.
CheckpointOf(o) == Max({0} \cup {n \in 1..Len(index_) : index_[n].offset <= o})

\* The place, as a segment and a position, n records after place, moving to
\* the next segment at the end of one.
Walk(place, count) ==
    LET step[n \in 0..count] ==
          IF n = 0 THEN place
          ELSE LET i == step[n - 1][1]
                   p == step[n - 1][2] + 1
               IN  IF p = Len(file[segments[i]]) /\ i < Len(segments)
                   THEN <<i + 1, 0>> ELSE <<i, p>>
    IN  step[count]

\* The place fetch reads offset o from; <<0, 0>> when it throws.
PlaceOf(o) ==
    IF o >= next_offset_ \/ CheckpointOf(o) = 0
    THEN <<0, 0>>
    ELSE LET e == index_[CheckpointOf(o)]
             place == Walk(<<e.segment_index, e.byte_position>>, o - e.offset)
         IN  IF place[2] < Len(file[segments[place[1]]]) THEN place ELSE <<0, 0>>

\* Reading a segment flushes its buffered record.
fetch(o) ==
    LET place == PlaceOf(o)
        first == index_[CheckpointOf(o)].segment_index
    IN  /\ pc = "ready"
        /\ place # <<0, 0>>
        /\ unflushed' = unflushed \ {segments[i] : i \in first..place[1]}
        /\ UNCHANGED <<pc, cursor, file, stable, walVars, procVars, current, appends,
                       faultVars, returned, synced>>
-----------------------------------------------------------------------------
(* The end of the process.                                                 *)

Forget ==
    /\ pc' = "down" /\ cursor' = 1
    /\ unflushed' = {}
    /\ segments' = << >> /\ index_' = << >> /\ next_offset_' = 0
    /\ pending_appends_' = 0
    /\ current' = {}

\* StorageEngine's destructor, whose flush_all is a flush when one is due, and
\* the destructors of the segments, which flush their buffers.
close ==
    /\ pc = "ready"
    /\ pending_appends_ = 0
    /\ Forget
    /\ UNCHANGED <<file, stable, walVars, appends, faultVars, returned, synced>>

Written(f) == IF f \in unflushed THEN Len(file[f]) - 1 ELSE Len(file[f])

Cut(keep) == [f \in DOMAIN file |-> SubSeq(file[f], 1, keep[f])]

kill ==
    /\ pc # "down"
    /\ kills < MaxKills
    /\ kills' = kills + 1
    /\ file' = Cut([f \in DOMAIN file |-> Written(f)])
    /\ Forget
    /\ UNCHANGED <<stable, walVars, appends, losses, returned, synced>>

\* Each file keeps a prefix of what was written to it.  A truncation of the WAL
\* that followed its last fsync may be undone.
power_loss ==
    /\ losses < MaxPowerLosses
    /\ losses' = losses + 1
    /\ \E keep \in [DOMAIN file -> 0..MaxAppends] :
          /\ \A f \in DOMAIN file : keep[f] \in stable[f]..Written(f)
          /\ file' = Cut(keep)
          /\ stable' = keep
    /\ LET fewest == IF Begins(wal_stable, wal) THEN Len(wal_stable) ELSE 0
       IN  wal' \in {wal_stable} \cup {SubSeq(wal, 1, k) : k \in fewest..Len(wal)}
    /\ wal_stable' = wal'
    /\ Forget
    /\ UNCHANGED <<appends, kills, returned, synced>>

Next ==
    \/ load_existing_segments \/ recover_wal_entry \/ recover_wal_end
    \/ write_wal \/ append_record \/ roll_segment
    \/ flush \/ sync_wal \/ sync_segment \/ clear_wal
    \/ \E o \in 0..(MaxAppends - 1) : fetch(o)
    \/ close \/ kill \/ power_loss

Spec == Init /\ [][Next]_plVars
-----------------------------------------------------------------------------
\* Every variable has its type; a sync comes when SyncBatch appends are pending.
TypeOK ==
    /\ pc \in {"down", "replay", "ready", "logged", "stored", "sync_wal",
               "sync_segments", "clear_wal"}
    /\ cursor \in 1..(MaxAppends + 2)
    /\ file \in Seq(Seq(Records))
    /\ unflushed \subseteq DOMAIN file
    /\ stable \in [DOMAIN file -> 0..MaxAppends]
    /\ wal \in Seq([offset : 0..(MaxAppends - 1), record : Records])
    /\ wal_stable \in Seq([offset : 0..(MaxAppends - 1), record : Records])
    /\ segments \in Seq(DOMAIN file)
    /\ index_ \in Seq([offset : 0..(MaxAppends - 1), segment_index : Nat,
                       byte_position : Nat])
    /\ next_offset_ \in 0..MaxAppends
    /\ pending_appends_ \in 0..SyncBatch
    /\ current \subseteq (0..(MaxAppends - 1)) \X Records
    /\ returned \subseteq (0..(MaxAppends - 1)) \X Records
    /\ synced \in Seq(Records)

\* What recover_wal does with one entry of the WAL, and with all of them.
Replay(content, e) ==
    IF e.offset = Len(content) THEN Append(content, e.record) ELSE content

Replayed(content, entries) ==
    LET after[n \in 0..Len(entries)] ==
          IF n = 0 THEN content ELSE Replay(after[n - 1], entries[n])
    IN  after[Len(entries)]

\* The records a restart would serve, by offset: what recovery has still to
\* load or to replay included.
Recoverable ==
    CASE pc = "down" -> Replayed(InOrder(LoadOrder(Len(file))), wal)
      [] pc = "replay" -> Replayed(Content, SubSeq(wal, cursor, Len(wal)))
      [] OTHER -> Content

\* Log::fetch, through the sparse index and its scan over segments, returns at
\* each offset below next_offset_ the record of that offset: across segment
\* boundaries, after recoveries that left short or empty segments, and after
\* replays that overfilled one.
FetchFindsRecord ==
    pc = "ready" =>
        /\ next_offset_ = Len(Content)
        /\ \A o \in 0..(next_offset_ - 1) :
              LET place == PlaceOf(o)
              IN  /\ place # <<0, 0>>
                  /\ file[segments[place[1]]][place[2] + 1] = Content[o + 1]

\* What a completed sync_pending covered is served at the same offsets ever
\* after, whatever crashes, of the process or of the machine, come before,
\* during and after a recovery (README.md:200).
SyncedSurvives == Begins(synced, Recoverable)

\* Without a power loss, a record whose append has returned is served at the
\* offset that was returned, whenever the process ends.
ReturnedSurvives ==
    losses = 0 =>
        \A a \in returned :
            a[1] < Len(Recoverable) /\ Recoverable[a[1] + 1] = a[2]

Durable == INSTANCE DurableLog WITH log <- Recoverable, durable <- Len(synced)

\* The log of one segment implements DurableLog: a crash keeps a prefix, at
\* least the synced records, and never leaves a gap or a duplicate.
ImplementsDurableLog == Durable!DLSpec
=============================================================================
