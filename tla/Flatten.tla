------------------------------ MODULE Flatten -------------------------------
(* Sequences of sequences as one sequence: the buffers of a writev, the    *)
(* fields of a message, the records of the segment files.  This is the     *)
(* operator of SequencesExt, in the form the proofs use.                   *)
EXTENDS Integers, Sequences

\* The sequences of seqs one behind the other.
FlattenSeq(seqs) ==
    LET upto[n \in 0..Len(seqs)] == IF n = 0 THEN << >> ELSE upto[n - 1] \o seqs[n]
    IN  upto[Len(seqs)]
=============================================================================
