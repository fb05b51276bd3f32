-------------------------- MODULE MCRecordMarking --------------------------
(* Record marking on two-valued bytes (header words 0..15, LAST = 8).      *)
EXTENDS RecordMarking
============================================================================
