------------------------------- MODULE MCWire -------------------------------
(* Instance of Wire for TLC: one request of every type with distinct       *)
(* fields, requests at and beyond the limits, and the shapes of response.  *)
EXTENDS Wire

Sample(t) ==
    [type |-> t, topic |-> <<116>>, partition |-> 2, message |-> <<109, 0>>,
     fetch_offset |-> 300, broker_id |-> 3, group_id |-> <<103>>, member_id |-> <<>>,
     messages |-> <<<<97>>, <<>>>>]

MCRequests ==
    {Sample(RequestTypes[i]) : i \in DOMAIN RequestTypes}
    \cup {[Sample("PRODUCE") EXCEPT !.message = <<1, 1, 1>>],
          [Sample("PRODUCE") EXCEPT !.message = <<1, 1, 1, 1>>],
          [Sample("BATCH_PRODUCE") EXCEPT !.messages = <<<<>>, <<>>, <<>>>>],
          [Sample("ACK") EXCEPT !.topic = <<>>, !.partition = -1],
          [Sample("HEARTBEAT") EXCEPT !.topic = <<1, 1, 1, 1>>]}

MCResponses ==
    {[success |-> TRUE, message |-> <<>>, appended_offset |-> 1,
      appended_offsets |-> <<>>],
     [success |-> TRUE, message |-> <<>>, appended_offset |-> 3,
      appended_offsets |-> <<2, 3>>],
     [success |-> FALSE, message |-> <<101, 114>>, appended_offset |-> -1,
      appended_offsets |-> <<>>],
     [success |-> TRUE, message |-> <<1, 1, 1, 1>>, appended_offset |-> 1,
      appended_offsets |-> <<>>]}
=============================================================================
