---------------------------- MODULE FrameChannel ----------------------------
(* What a connection promises its two ends: whole payloads, in the order   *)
(* they were sent, each at most once.                                      *)
EXTENDS Sequences, Naturals

VARIABLES sent, delivered

Init == sent = <<>> /\ delivered = <<>>

Send ==
    /\ Len(sent') = Len(sent) + 1 /\ SubSeq(sent', 1, Len(sent)) = sent
    /\ UNCHANGED delivered

Deliver ==
    /\ Len(delivered) < Len(sent)
    /\ delivered' = Append(delivered, sent[Len(delivered) + 1])
    /\ UNCHANGED sent

Next == Send \/ Deliver

Spec == Init /\ [][Next]_<<sent, delivered>>
=============================================================================
