----------------------------- MODULE MCReaddir -----------------------------
(* Five cookies, pages of two entries, three changes by other clients.      *)
EXTENDS Readdir

MCEntries == 1 .. 5
MCSettings == [strict : BOOLEAN]
=============================================================================
