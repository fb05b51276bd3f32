----------------------------- MODULE Nfs4Server -----------------------------
(***************************************************************************)
(* The NFSv4 server as nfs-proto/src/nfs4.rs depends on it; no code of the *)
(* repository.  Its state is a record, so that the RPC layer may carry out *)
(* one COMPOUND several times (RpcClient resends after a reconnection).    *)
(*                                                                         *)
(* NFSv4.0 (RFC 7530, 9.1.7): an open-owner's OPEN, OPEN_CONFIRM, CLOSE    *)
(* and LOCK carry a seqid.  The expected one is executed; the one before   *)
(* gets the saved answer if it repeats the operation; all else BAD_SEQID.  *)
(* The seqid advances with every status in Mutating.  NFSv4.1: SEQUENCE    *)
(* does this per slot, and this client never asks for the answer to be     *)
(* saved (cachethis = false).                                              *)
(***************************************************************************)
EXTENDS Naturals, FiniteSets

CONSTANTS Names,        \* the files
          Mutating,     \* statuses with which an open-owner's seqid advances
          EirSequence,  \* eir_sequenceid, echoed as csr_sequence
          Settings      \* the circumstances under which behaviours are explored

(***************************************************************************)
(* The circumstances of one behaviour: the minor version, the statuses     *)
(* other than Ok the server may answer afresh, whether OPEN may come with  *)
(* a delegation, how an RPC call may fail (its request or its reply is     *)
(* lost), whether the RPC layer may send a COMPOUND twice; and two bounds, *)
(* the calls of the caller and the times the server starts.                *)
(***************************************************************************)
Setting == [minor : {0, 1}, failures : SUBSET {"Err", "Delay", "Resource", "Denied"},
            delegations : BOOLEAN, losses : SUBSET {"request", "reply"},
            resends : BOOLEAN, ops : Nat, boots : Nat]

ASSUME SettingsAssumption == \A s \in Settings : s \in Setting
ASSUME ServerAssumption == "Ok" \in Mutating /\ EirSequence \in Nat

VARIABLE setting          \* the member of Settings that holds; it never changes

Minor == setting.minor
Failures == setting.failures
Delegations == setting.delegations

\* Answers of a server that did not look at the operation.
Refusals == {"BadSeqid", "RetryUncached", "Misordered"}
Sequenced == {"open", "open_confirm", "close", "lock"}
NoFile == "none"

Answer(req, status) ==
  [status |-> status, kind |-> req.kind, serial |-> req.serial, try |-> req.try,
   fh |-> NoFile, id |-> 0, confirm |-> FALSE, deleg |-> FALSE]

Nobody == [kind |-> "none", serial |-> 0, try |-> 0]
FreshServer(boot) ==
  [boot |-> boot, client |-> FALSE, session |-> FALSE, slot |-> 0,
   known |-> FALSE, confirmed |-> FALSE, expected |-> 0,
   cached |-> Answer(Nobody, "Ok"), opens |-> {}, nextid |-> 1]

Did(s, rep) == [srv |-> s, rep |-> rep]

\* Whether the server still knows the client of request req.
Knows(s, req) == s.client /\ (Minor = 1 => s.session) /\ req.clientid = s.boot

\* The ways to carry out the operation of a request, seqids aside.
Effects(s, req) ==
  {Did(s, Answer(req, f)) : f \in Failures \ (IF req.kind = "lock" THEN {} ELSE {"Denied"})}
  \union
  CASE req.kind = "open" ->
         {Did([s EXCEPT !.opens = (IF Minor = 0 /\ ~s.confirmed THEN {} ELSE @)
                                  \union {[id |-> s.nextid, fh |-> req.name]},
                        !.nextid = @ + 1],
              [Answer(req, "Ok") EXCEPT !.fh = req.name, !.id = s.nextid,
                                        !.confirm = (Minor = 0 /\ ~s.confirmed),
                                        !.deleg = d])
          : d \in {FALSE, Delegations}}
    [] req.kind = "open_confirm" ->
         {Did([s EXCEPT !.confirmed = TRUE], [Answer(req, "Ok") EXCEPT !.id = req.id])}
    [] req.kind = "close" ->
         {Did([s EXCEPT !.opens = {o \in @ : o.id # req.id}],
              Answer(req, IF \E o \in s.opens : o.id = req.id THEN "Ok" ELSE "BadStateid"))}
    [] req.kind \in {"exchange_id", "setclientid"} ->
         {Did(s, [Answer(req, "Ok") EXCEPT !.id = s.boot])}
    [] req.kind \in {"create_session", "setclientid_confirm"} ->
         {IF req.clientid = s.boot
          THEN Did([s EXCEPT !.client = TRUE, !.session = (Minor = 1)], Answer(req, "Ok"))
          ELSE Did(s, Answer(req, "Stale"))}
    [] req.kind = "destroy_session" ->
         {Did([s EXCEPT !.session = FALSE], Answer(req, "Ok"))}
    [] OTHER -> {Did(s, Answer(req, "Ok"))}

\* An operation of the open-owner, in order, again, or out of order.
OwnerStep(s, req) ==
  IF ~s.known \/ (req.kind = "open" /\ ~s.confirmed) \/ req.seqid = s.expected
  THEN {IF d.rep.status \in Mutating
        THEN Did([d.srv EXCEPT !.known = TRUE, !.expected = req.seqid + 1,
                               !.cached = d.rep], d.rep)
        ELSE d : d \in Effects(s, req)}
  ELSE IF req.seqid + 1 = s.expected /\ req.kind = s.cached.kind THEN {Did(s, s.cached)}
  ELSE {Did(s, Answer(req, "BadSeqid"))}

\* A COMPOUND that begins with SEQUENCE.
SlotStep(s, req) ==
  IF req.seq = s.slot + 1
  THEN {Did([d.srv EXCEPT !.slot = req.seq], d.rep) : d \in Effects(s, req)}
  ELSE {Did(s, Answer(req, IF req.seq = s.slot THEN "RetryUncached" ELSE "Misordered"))}

Handshake == {"exchange_id", "create_session", "setclientid", "setclientid_confirm"}

Process(s, req) ==
  IF req.kind \in Handshake THEN Effects(s, req)
  ELSE IF ~Knows(s, req) THEN {Did(s, Answer(req, "Stale"))}
  ELSE IF req.kind = "destroy_session" THEN Effects(s, req)
  ELSE IF Minor = 1 THEN SlotStep(s, req)
  ELSE IF req.kind \in Sequenced THEN OwnerStep(s, req)
  ELSE Effects(s, req)
============================================================================
