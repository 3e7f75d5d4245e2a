--------------------------- MODULE MCPartitionLog ---------------------------
(* Instances of PartitionLog for TLC; every constant is given in the .cfg. *)
EXTENDS PartitionLog
=============================================================================
