-------------------------------- MODULE Wire --------------------------------
(***************************************************************************)
(* Requests and responses on a connection: encoded, framed, cut into       *)
(* segments, reassembled and parsed.                                       *)
(***************************************************************************)
EXTENDS Frame, Codec

CONSTANTS
    Requests,   \* the requests that are sent
    Responses   \* the responses that are sent

\* The values the fields of Request and Response have.
Words == {v \in Int : Wide <= v /\ v <= 2147483647}
Strings == Seq(Bytes)

RequestRecords ==
    [type : {RequestTypes[i] : i \in 1..15}, topic : Strings, partition : Words,
     message : Strings, fetch_offset : Words, broker_id : Words, group_id : Strings,
     member_id : Strings, messages : Seq(Strings)]

ResponseRecords ==
    [success : BOOLEAN, message : Strings, appended_offset : Words,
     appended_offsets : Seq(Words)]

ASSUME WireAssumption ==
    /\ Requests \subseteq RequestRecords /\ Responses \subseteq ResponseRecords
    /\ \A r \in Requests : FitsHeader(encode_request(r))
    /\ \A r \in Responses : FitsHeader(serialize_response(r))

VARIABLE posted   \* what was sent: <<"request", request>> or <<"response", response>>

vars == <<frameVars, posted>>

Init == FrameInit /\ posted = <<>>

send_request(request) ==
    /\ write_frame(encode_request(request))
    /\ posted' = Append(posted, <<"request", request>>)

send_response(response) ==
    /\ write_frame(serialize_response(response))
    /\ posted' = Append(posted, <<"response", response>>)

Next ==
    \/ \E r \in Requests : send_request(r)
    \/ \E r \in Responses : send_response(r)
    \/ (Write \/ Read \/ writer_close \/ reader_close) /\ UNCHANGED posted

Spec == Init /\ [][Next]_vars

\* Both ends go on with a frame they have begun (README.md:16).
FairSpec ==
    Spec /\ WF_vars(Write /\ UNCHANGED posted) /\ WF_vars(Read /\ UNCHANGED posted)
-----------------------------------------------------------------------------
\* The fields of a request that the handler of its type reads.
Carried(t) ==
    CASE t \in {"FETCH", "COMMIT"} -> {"topic", "partition", "fetch_offset"}
      [] t = "PRODUCE" -> {"topic", "partition", "message"}
      [] t = "REPLICATE" -> {"topic", "partition", "fetch_offset", "message"}
      [] t = "BATCH_PRODUCE" -> {"topic", "partition", "messages"}
      [] t = "BATCH_REPLICATE" -> {"topic", "partition", "fetch_offset", "messages"}
      [] t = "ACK" -> {"topic", "partition", "fetch_offset", "broker_id"}
      [] t = "HEARTBEAT" -> {"broker_id"}
      [] t \in {"JOIN_GROUP", "LEAVE_GROUP", "GROUP_ASSIGNMENT"} ->
            {"group_id", "member_id", "topic"}
      [] t = "GROUP_FETCH" -> {"group_id", "member_id", "topic", "partition"}
      [] t = "COMMIT_OFFSET" ->
            {"group_id", "member_id", "topic", "partition", "fetch_offset"}
      [] OTHER -> {}

\* The limits get_string and the batches of parse_request set to a field.
WithinLimits(f, v) ==
    CASE f \in {"partition", "fetch_offset", "broker_id"} -> TRUE
      [] f = "messages" -> /\ Len(v) <= kMaxBatchMessages
                           /\ \A i \in 1..Len(v) : Len(v[i]) <= kMaxStringBytes
      [] OTHER -> Len(v) <= kMaxStringBytes

Acceptable(r) ==
    r.type # "ERROR" /\ \A f \in Carried(r.type) : WithinLimits(f, r[f])

\* payload is read as a request r within the limits, with its type and every
\* field its handler reads; as an ERROR when r is beyond them.  Only the ERROR
\* request is the empty payload that handle_client takes for the end of the
\* connection.
ReadAsRequest(payload, r) ==
    LET parsed == parse_request(payload)
    IN  /\ payload = <<>> <=> r.type = "ERROR"
        /\ IF Acceptable(r)
           THEN \A f \in Carried(r.type) \cup {"type"} : parsed[f] = r[f]
           ELSE parsed.type = "ERROR"

\* payload is read as a response r within the limits, the offset uint64_t(-1)
\* included; and read as a request, which replicate_to_peer does with whatever
\* frame comes back, it is never an ACK.
ReadAsResponse(payload, r) ==
    /\ IF Len(r.message) <= kMaxStringBytes /\ Len(r.appended_offsets) <= kMaxBatchMessages
       THEN parse_response(payload) = r
       ELSE parse_response(payload) = Malformed
    /\ parse_request(payload).type # "ACK"

\* Requests arrive as they were sent, or are refused when beyond the limits.
RequestsArrive ==
    \A i \in DOMAIN delivered :
        posted[i][1] = "request" => ReadAsRequest(delivered[i], posted[i][2])

\* Responses arrive as they were sent, or as malformed when beyond the limits.
ResponsesArrive ==
    \A i \in DOMAIN delivered :
        posted[i][1] = "response" => ReadAsResponse(delivered[i], posted[i][2])

\* What read_frame has of a request when the connection breaks off would not
\* parse: no request's encoding begins with another request's.
NoPartialRequest ==
    reader = "payload" /\ posted[Len(delivered) + 1][1] = "request" =>
        parse_request(buffer).type = "ERROR"
=============================================================================
