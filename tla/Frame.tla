------------------------------- MODULE Frame --------------------------------
(***************************************************************************)
(* One direction of a connection: write_frame and read_frame over a stream *)
(* of bytes that TCP cuts where it likes.  A writev or a recv may move any *)
(* number of bytes; either side may close, or its process end, between any *)
(* two calls.                                                              *)
(*                                                                         *)
(* FrameHeader_inclusive, Remaining_restart and RecvAsks_whole are         *)
(* mutations.                                                              *)
(***************************************************************************)
EXTENDS Flatten, FiniteSetsExt

CONSTANTS
    Capacity,   \* bytes the connection holds between writev and recv
    MaxFrames   \* bound: frames written

ASSUME FrameAssumption == Capacity \in Nat \ {0} /\ MaxFrames \in Nat

VARIABLES
    sent,       \* payloads write_frame was called with
    buffers,    \* write_frame: the iovecs from current on, as sequences of bytes
    wire,       \* bytes written and not yet received
    writer,     \* "idle", "writing" or "closed"
    reader,     \* what read_exact fills: "length", "payload"; or "closed"
    buffer,     \* the bytes read_exact has
    length,     \* the length read_frame has decoded
    delivered   \* payloads read_frame returned with true

frameVars == <<sent, buffers, wire, writer, reader, buffer, length, delivered>>

Bytes == 0..255

htonl(n) == <<(n \div 16777216) % 256, (n \div 65536) % 256, (n \div 256) % 256, n % 256>>
ntohl(b) == ((b[1] * 256 + b[2]) * 256 + b[3]) * 256 + b[4]

\* payload.size() as a uint32_t is payload.size().
FitsHeader(payload) == Len(payload) \div 16777216 < 256

FrameHeader_inclusive(payload) == htonl(Len(payload) + 4)
FrameHeader(payload) == htonl(Len(payload))

FrameInit ==
    /\ sent = <<>> /\ buffers = <<>> /\ wire = <<>> /\ delivered = <<>>
    /\ writer = "idle" /\ reader = "length" /\ buffer = <<>> /\ length = 0
-----------------------------------------------------------------------------
(* write_frame.                                                            *)

write_frame(payload) ==
    /\ writer = "idle" /\ Len(sent) < MaxFrames
    /\ sent' = Append(sent, payload)
    /\ buffers' = IF payload = <<>> THEN <<FrameHeader(payload)>>
                  ELSE <<FrameHeader(payload), payload>>
    /\ writer' = "writing"
    /\ UNCHANGED <<wire, reader, buffer, length, delivered>>

Remaining_restart(bufs, k) ==
    LET whole == {i \in 0..Len(bufs) : Len(FlattenSeq(SubSeq(bufs, 1, i))) <= k}
    IN  SubSeq(bufs, Max(whole) + 1, Len(bufs))

\* The iovecs left after k bytes: the ones consumed whole are skipped, the next
\* one starts past the bytes taken from it.
Remaining(bufs, k) ==
    LET whole == {i \in 0..Len(bufs) : Len(FlattenSeq(SubSeq(bufs, 1, i))) <= k}
        skip  == Max(whole)
        consumed == k - Len(FlattenSeq(SubSeq(bufs, 1, skip)))
    IN  [i \in 1..(Len(bufs) - skip) |->
            IF i = 1 THEN SubSeq(bufs[skip + 1], consumed + 1, Len(bufs[skip + 1]))
            ELSE bufs[skip + i]]

\* One turn of the loop: writev accepts k bytes.
writev(k) ==
    LET bytes == FlattenSeq(buffers)
    IN  /\ writer = "writing"
        /\ k <= Len(bytes) /\ Len(wire) + k <= Capacity
        /\ wire' = wire \o SubSeq(bytes, 1, k)
        /\ buffers' = Remaining(buffers, k)
        /\ writer' = IF k = Len(bytes) THEN "idle" ELSE "writing"
        /\ UNCHANGED <<sent, reader, buffer, length, delivered>>

\* The reader is gone: write_frame returns false and its caller closes, or the
\* process ends, since nothing ignores SIGPIPE.
writev_fail ==
    /\ writer = "writing" /\ reader = "closed"
    /\ writer' = "closed"
    /\ UNCHANGED <<sent, buffers, wire, reader, buffer, length, delivered>>

writer_close ==
    /\ writer # "closed"
    /\ writer' = "closed"
    /\ UNCHANGED <<sent, buffers, wire, reader, buffer, length, delivered>>
-----------------------------------------------------------------------------
(* read_frame.                                                             *)

\* What read_exact was asked for.
Wanted == IF reader = "length" THEN 4 ELSE length

\* read_frame with all the bytes read_exact was asked for.
read_exact_done(bytes) ==
    IF reader = "length" /\ ntohl(bytes) > 0
    THEN /\ reader' = "payload" /\ length' = ntohl(bytes)
         /\ UNCHANGED delivered
    ELSE /\ reader' = "length" /\ length' = 0
         /\ delivered' = Append(delivered, IF reader = "length" THEN <<>> ELSE bytes)

RecvAsks_whole(k) == k <= Wanted

\* recv is asked for the bytes that are missing, and returns k of them.
RecvAsks(k) == Len(buffer) + k <= Wanted

\* One turn of read_exact's loop.
read_exact(k) ==
    LET bytes == buffer \o SubSeq(wire, 1, k)
    IN  /\ reader # "closed"
        /\ k <= Len(wire) /\ RecvAsks(k)
        /\ wire' = SubSeq(wire, k + 1, Len(wire))
        /\ IF Len(bytes) = Wanted
           THEN read_exact_done(bytes) /\ buffer' = <<>>
           ELSE buffer' = bytes /\ UNCHANGED <<reader, length, delivered>>
        /\ UNCHANGED <<sent, buffers, writer>>

\* End of the stream, or a connection reset with bytes in flight: read_frame
\* returns false, and the caller closes.
read_exact_fail ==
    /\ reader # "closed" /\ writer = "closed"
    /\ reader' = "closed"
    /\ UNCHANGED <<sent, buffers, wire, writer, buffer, length, delivered>>

reader_close ==
    /\ reader # "closed"
    /\ reader' = "closed"
    /\ UNCHANGED <<sent, buffers, wire, writer, buffer, length, delivered>>
-----------------------------------------------------------------------------
Write == writev_fail \/ \E k \in 1..Capacity : writev(k)
Read == read_exact_fail \/ \E k \in 1..Capacity : read_exact(k)
-----------------------------------------------------------------------------
\* Every variable has its type; read_exact never has more bytes than its buffer
\* was allocated for.
FrameTypeOK ==
    /\ sent \in Seq(Seq(Bytes)) /\ buffers \in Seq(Seq(Bytes))
    /\ wire \in Seq(Bytes) /\ Len(wire) <= Capacity
    /\ writer \in {"idle", "writing", "closed"}
    /\ reader \in {"length", "payload", "closed"}
    /\ reader # "closed" => Len(buffer) < Wanted
    /\ buffer \in Seq(Bytes) /\ length \in Nat /\ delivered \in Seq(Seq(Bytes))

Channel == INSTANCE FrameChannel

\* However TCP cuts the stream and whoever closes when, payloads are delivered
\* whole, in order and once.
DeliversFrames == Channel!Spec

\* A payload that write_frame was called with is delivered, unless one of the
\* sides closes.
EventuallyDelivered ==
    \A n \in 1..MaxFrames :
        Len(sent) >= n ~> Len(delivered) >= n \/ "closed" \in {writer, reader}
=============================================================================
