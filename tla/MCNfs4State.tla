---------------------------- MODULE MCNfs4State -----------------------------
(* Nfs4State on small instances. *)
EXTENDS Nfs4State

CONSTANTS f1, f2

MCNames == {f1, f2}
\* RFC 7530, 9.1.7: the seqid advances but for a list of statuses, of which
\* this model has Resource, Stale and BadStateid.
MCMutating == {"Ok", "Err", "Delay", "Denied"}

\* 4.0 with every failure; a longer caller with none but a status that keeps
\* the seqid; 4.1 with every failure, and with COMPOUNDs sent twice.
MCSettings ==
  {[minor |-> 0, failures |-> {"Delay", "Denied"}, delegations |-> TRUE,
    losses |-> {"request", "reply"}, resends |-> TRUE, ops |-> 3, boots |-> 1],
   [minor |-> 0, failures |-> {"Resource"}, delegations |-> FALSE,
    losses |-> {}, resends |-> TRUE, ops |-> 5, boots |-> 1],
   [minor |-> 1, failures |-> {"Err", "Delay", "Denied"}, delegations |-> TRUE,
    losses |-> {"request", "reply"}, resends |-> FALSE, ops |-> 3, boots |-> 2],
   [minor |-> 1, failures |-> {"Delay"}, delegations |-> FALSE,
    losses |-> {"reply"}, resends |-> TRUE, ops |-> 2, boots |-> 1]}
============================================================================
