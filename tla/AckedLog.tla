------------------------------ MODULE AckedLog ------------------------------
(***************************************************************************)
(* What a producer is promised about one partition, whatever the cluster   *)
(* does: each offset is given, with success, to at most one request, each  *)
(* request is given at most one offset, and neither is ever taken back.    *)
(***************************************************************************)
EXTENDS Naturals

CONSTANTS Messages, Offsets

VARIABLE acked   \* the set of <<offset, message>> answered with success

AckedInit == acked = {}

Ack(o, m) ==
    /\ \A a \in acked : a[1] # o /\ a[2] # m
    /\ acked' = acked \cup {<<o, m>>}

AckedNext == \E o \in Offsets, m \in Messages : Ack(o, m)

AckedSpec == AckedInit /\ [][AckedNext]_acked
=============================================================================
