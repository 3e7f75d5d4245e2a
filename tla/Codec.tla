------------------------------- MODULE Codec --------------------------------
(***************************************************************************)
(* protocol.cpp: requests and responses as sequences of bytes.  Strings    *)
(* are sequences of bytes.  Words are signed, so uint64_t(-1) is -1; the   *)
(* 64-bit values that do not fit 32 bits are all read as Wide, the least   *)
(* one that does.                                                          *)
(*                                                                         *)
(* put_u64_low, get_string_below and ListItem_short are mutations.         *)
(***************************************************************************)
EXTENDS Flatten

CONSTANTS kMaxStringBytes, kMaxBatchMessages

ASSUME CodecAssumption ==
    /\ kMaxStringBytes \in Nat /\ kMaxStringBytes <= 2147483647
    /\ kMaxBatchMessages \in Nat /\ kMaxBatchMessages <= 2147483647

kProtocolVersion == 1

RequestTypes ==
    <<"PRODUCE", "FETCH", "REPLICATE", "ACK", "HEARTBEAT", "COMMIT", "METADATA",
      "JOIN_GROUP", "LEAVE_GROUP", "GROUP_FETCH", "COMMIT_OFFSET", "GROUP_ASSIGNMENT",
      "BATCH_PRODUCE", "BATCH_REPLICATE", "ERROR">>

NoRequest ==
    [type |-> "ERROR", topic |-> <<>>, partition |-> 0, message |-> <<>>,
     fetch_offset |-> 0, broker_id |-> 0, group_id |-> <<>>, member_id |-> <<>>,
     messages |-> <<>>]

Malformed ==
    [success |-> FALSE, message |-> "malformed_response", appended_offset |-> -1,
     appended_offsets |-> <<>>]
-----------------------------------------------------------------------------
(* Words, most significant byte first.                                     *)

put_u8(v) == <<v % 256>>
put_u32(v) ==
    <<(v \div 16777216) % 256, (v \div 65536) % 256, (v \div 256) % 256, v % 256>>
HighWord(v) == (v \div 16777216) \div 256
put_u64_low(v) == put_u32(0) \o put_u32(v)
put_u64(v) == put_u32(HighWord(v)) \o put_u32(v)
put_string(s) == put_u32(Len(s)) \o s

Wide == -2147483647 - 1

Value32(b) ==
    LET top == IF b[1] < 128 THEN b[1] ELSE b[1] - 256
    IN  ((top * 256 + b[2]) * 256 + b[3]) * 256 + b[4]

Value64(b) ==
    LET low == Value32(SubSeq(b, 5, 8))
    IN  IF Value32(b) = HighWord(low) THEN low ELSE Wide

\* A cursor: whether all reads have succeeded, the position, the last value.
Got(p, v) == [ok |-> TRUE, pos |-> p, value |-> v]
Start == Got(0, 0)
Failed == [ok |-> FALSE, pos |-> 0, value |-> 0]

\* n bytes at the cursor.
Take(in, c, n) ==
    IF c.ok /\ c.pos + n <= Len(in)
    THEN Got(c.pos + n, SubSeq(in, c.pos + 1, c.pos + n))
    ELSE Failed

get_u8(in, c) ==
    LET t == Take(in, c, 1) IN IF t.ok THEN Got(t.pos, t.value[1]) ELSE Failed
get_u32(in, c) ==
    LET t == Take(in, c, 4) IN IF t.ok THEN Got(t.pos, Value32(t.value)) ELSE Failed
get_u64(in, c) ==
    LET t == Take(in, c, 8) IN IF t.ok THEN Got(t.pos, Value64(t.value)) ELSE Failed

get_string_below(in, c) ==
    LET size == get_u32(in, c)
    IN  IF size.ok /\ size.value \in 0..(kMaxStringBytes - 1)
        THEN Take(in, size, size.value) ELSE Failed

get_string(in, c) ==
    LET size == get_u32(in, c)
    IN  IF size.ok /\ size.value \in 0..kMaxStringBytes
        THEN Take(in, size, size.value) ELSE Failed

ListItem_short(item, before) ==
    IF item.ok THEN Got(item.pos, Append(before.value, item.value)) ELSE before

ListItem(item, before) ==
    IF item.ok THEN Got(item.pos, Append(before.value, item.value)) ELSE Failed

\* A count and as many items as it says: strings, or words of 64 bits.
put_item(v, items) == IF items = "strings" THEN put_string(v) ELSE put_u64(v)
get_item(in, c, items) == IF items = "strings" THEN get_string(in, c) ELSE get_u64(in, c)

put_list(s, items) ==
    put_u32(Len(s)) \o FlattenSeq([i \in 1..Len(s) |-> put_item(s[i], items)])

get_list(in, c, items) ==
    LET count == get_u32(in, c)
        after[i \in 0..kMaxBatchMessages] ==
            IF i = 0 THEN Got(count.pos, <<>>)
            ELSE ListItem(get_item(in, after[i - 1], items), after[i - 1])
    IN  IF count.ok /\ count.value \in 0..kMaxBatchMessages
        THEN after[count.value] ELSE Failed
-----------------------------------------------------------------------------
(* Requests.                                                               *)

\* What encode_request writes after the version and the type.
EncodedFields(t) ==
    CASE t = "PRODUCE" -> <<"topic", "partition", "message", "fetch_offset">>
      [] t = "BATCH_PRODUCE" -> <<"topic", "partition", "messages">>
      [] t = "BATCH_REPLICATE" -> <<"topic", "partition", "fetch_offset", "messages">>
      [] t \in {"FETCH", "COMMIT"} -> <<"topic", "partition", "fetch_offset">>
      [] t = "REPLICATE" -> <<"topic", "partition", "fetch_offset", "message">>
      [] t = "ACK" -> <<"fetch_offset", "broker_id", "topic", "partition">>
      [] t = "HEARTBEAT" -> <<"broker_id">>
      [] t = "METADATA" -> <<>>
      [] t \in {"JOIN_GROUP", "LEAVE_GROUP", "GROUP_ASSIGNMENT"} ->
            <<"group_id", "member_id", "topic">>
      [] t \in {"GROUP_FETCH", "COMMIT_OFFSET"} ->
            <<"group_id", "member_id", "topic", "partition", "fetch_offset">>

put_field(f, v) ==
    CASE f = "fetch_offset" -> put_u64(v)
      [] f \in {"partition", "broker_id"} -> put_u32(v)
      [] f = "messages" -> put_list(v, "strings")
      [] OTHER -> put_string(v)

encode_request(request) ==
    LET fields == EncodedFields(request.type)
    IN  IF request.type = "ERROR" THEN <<>>
        ELSE put_u8(kProtocolVersion)
             \o put_u8(CHOOSE i \in 0..13 : RequestTypes[i + 1] = request.type)
             \o FlattenSeq([i \in 1..Len(fields) |-> put_field(fields[i], request[fields[i]])])

\* What parse_request reads after the version and the type.
ParsedFields(t) ==
    CASE t = "PRODUCE" -> <<"topic", "partition", "message", "fetch_offset">>
      [] t = "BATCH_PRODUCE" -> <<"topic", "partition", "messages">>
      [] t = "BATCH_REPLICATE" -> <<"topic", "partition", "fetch_offset", "messages">>
      [] t \in {"FETCH", "COMMIT"} -> <<"topic", "partition", "fetch_offset">>
      [] t = "REPLICATE" -> <<"topic", "partition", "fetch_offset", "message">>
      [] t = "ACK" -> <<"fetch_offset", "broker_id", "topic", "partition">>
      [] t = "HEARTBEAT" -> <<"broker_id">>
      [] t = "METADATA" -> <<>>
      [] t \in {"JOIN_GROUP", "LEAVE_GROUP", "GROUP_ASSIGNMENT"} ->
            <<"group_id", "member_id", "topic">>
      [] t \in {"GROUP_FETCH", "COMMIT_OFFSET"} ->
            <<"group_id", "member_id", "topic", "partition", "fetch_offset">>

get_field(in, c, f) ==
    CASE f = "fetch_offset" -> get_u64(in, c)
      [] f \in {"partition", "broker_id"} -> get_u32(in, c)
      [] f = "messages" -> get_list(in, c, "strings")
      [] OTHER -> get_string(in, c)

parsed_whole(in, c) == c.ok /\ c.pos = Len(in)

\* The other fields of an ERROR are read by nobody.
parse_request(payload) ==
    LET version == get_u8(payload, Start)
        type == get_u8(payload, version)
        known == version.ok /\ version.value = kProtocolVersion
                 /\ type.ok /\ type.value <= 13
        t == RequestTypes[type.value + 1]
        fields == ParsedFields(t)
        c[i \in 0..Len(fields)] ==
            IF i = 0 THEN type ELSE get_field(payload, c[i - 1], fields[i])
    IN  IF known /\ parsed_whole(payload, c[Len(fields)])
        THEN [f \in DOMAIN NoRequest |->
                IF f = "type" THEN t
                ELSE IF \E i \in DOMAIN fields : fields[i] = f
                THEN c[CHOOSE i \in DOMAIN fields : fields[i] = f].value
                ELSE NoRequest[f]]
        ELSE NoRequest
-----------------------------------------------------------------------------
(* Responses.                                                              *)

serialize_response(response) ==
    put_u8(kProtocolVersion)
    \o put_u8(IF response.success THEN 1 ELSE 0)
    \o put_u8(IF response.message = <<>> THEN 0 ELSE 1)
    \o put_u64(response.appended_offset) \o put_string(response.message)
    \o put_list(response.appended_offsets, "words")

parse_response(payload) ==
    LET version == get_u8(payload, Start)
        success == get_u8(payload, version)
        kind == get_u8(payload, success)
        offset == get_u64(payload, kind)
        message == get_string(payload, offset)
        offsets == get_list(payload, message, "words")
    IN  IF version.ok /\ version.value = kProtocolVersion
           /\ parsed_whole(payload, offsets)
        THEN [success |-> success.value # 0, message |-> message.value,
              appended_offset |-> offset.value, appended_offsets |-> offsets.value]
        ELSE Malformed
=============================================================================
