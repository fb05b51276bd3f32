------------------------------ MODULE MCLocks -------------------------------
(* Locks on small instances. *)
EXTENDS Locks

\* Ranges of two bytes that overlap, one of them to the end.
MCRanges == {[offset |-> 0, length |-> 2], [offset |-> 1, length |-> 1],
             [offset |-> 0, length |-> 0]}

MCSettings ==
  [version : {3, 4}, lossy : {TRUE}, late : {FALSE}, restarts : {0}] \union
  [version : {3, 4}, lossy : {FALSE}, late : {FALSE}, restarts : {1}] \union
  [version : {3}, lossy : {FALSE}, late : {TRUE}, restarts : {0}]
=============================================================================
