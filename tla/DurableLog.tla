----------------------------- MODULE DurableLog -----------------------------
(***************************************************************************)
(* What the storage of one partition promises across crashes: a sequence   *)
(* of records that grows at its end; a crash keeps a prefix of it that     *)
(* has at least the records a completed sync covered, and may complete an  *)
(* append that was under way.                                              *)
(***************************************************************************)
EXTENDS Integers, Sequences

CONSTANT Records

VARIABLES
    log,      \* the records, in the order of their offsets
    durable   \* how many of them a completed sync covers

dlVars == <<log, durable>>

DLInit == log = << >> /\ durable = 0

DLAppend(r) ==
    /\ log' = Append(log, r)
    /\ UNCHANGED durable

DLSync ==
    /\ durable' = Len(log)
    /\ UNCHANGED log

DLCrash(r) ==
    /\ \E k \in durable..(Len(log) + 1) : log' = SubSeq(Append(log, r), 1, k)
    /\ UNCHANGED durable

DLNext == DLSync \/ \E r \in Records : DLAppend(r) \/ DLCrash(r)

DLSpec == DLInit /\ [][DLNext]_dlVars
=============================================================================
