----------------------------- MODULE Nfs4State ------------------------------
(***************************************************************************)
(* struct Nfs4 of nfs-proto/src/nfs4.rs: the client's share of NFSv4       *)
(* state.  clientid, open_seqid, sessionid and seq_id are its fields; op is *)
(* the COMPOUND that run() or run_raw() is sending, attempts the variable  *)
(* of run().  Operations that touch none of these fields (READ, WRITE,     *)
(* LOOKUP, RENEW, LOCKU, LOCKT, ...) are all "plain".  handles are the     *)
(* OpenResults the caller holds; closing one drops it whatever CLOSE says, *)
(* as NfsContext::close, which consumes the file, does.                    *)
(*                                                                         *)
(* One step is one RPC call.  The RPC layer below may fail it before or    *)
(* after the server executed it, and may make the server execute it twice: *)
(* RpcClient!BoundedExecution.                                             *)
(***************************************************************************)
EXTENDS Nfs4Server

CONSTANT MAX_TRIES        \* passes of run()'s loop: 6 in the code

ASSUME TriesAssumption == MAX_TRIES \in Nat \ {0}

VARIABLES clientid, open_seqid, sessionid, seq_id, \* struct Nfs4
          pc, op, attempts,                        \* the call under way
          handles,                                 \* OpenResults of the caller
          serial, result,                          \* calls made, the last answer
          srv,                                     \* the server
          upset                                    \* history: see Disturbs

fields == <<clientid, open_seqid, sessionid, seq_id>>
vars == <<setting, fields, pc, op, attempts, handles, serial, result, srv, upset>>

Handshakes == {"setclientid", "setclientid_confirm",
               "exchange_id", "create_session", "reclaim_complete"}
\* run_raw: neither SEQUENCE nor a retry.
Raw == {"exchange_id", "create_session", "destroy_session"}

Compound(kind, n, name, id) ==
  [kind |-> kind, serial |-> n, name |-> name, fh |-> NoFile, id |-> id,
   seqid |-> open_seqid, seq |-> 0, try |-> 0, clientid |-> clientid]
First == [kind |-> IF Minor = 1 THEN "exchange_id" ELSE "setclientid", serial |-> 0,
          name |-> NoFile, fh |-> NoFile, id |-> 0, seqid |-> 0, seq |-> 0, try |-> 0,
          clientid |-> 0]

\* from_client: the fields' first values, and the handshake begun.
Init ==
  /\ setting \in Settings /\ upset = FALSE
  /\ clientid = 0 /\ open_seqid = 0 /\ sessionid = FALSE /\ seq_id = 0
  /\ pc = "run" /\ op = First /\ attempts = 0
  /\ handles = {} /\ serial = 0
  /\ result = [kind |-> "none", serial |-> 0, status |-> "Ok", from |-> 0, tries |-> 0,
               own |-> TRUE]
  /\ srv = FreshServer(1)

-----------------------------------------------------------------------------
(* The RPC call. *)

RpcError == Answer(Nobody, "RpcError")
Executions(s, req) ==
  Process(s, req) \union
  IF setting.resends THEN UNION {Process(d.srv, req) : d \in Process(s, req)} ELSE {}
RpcCall(req) ==
  Executions(srv, req) \union
  (IF "request" \in setting.losses THEN {Did(srv, RpcError)} ELSE {}) \union
  (IF "reply" \in setting.losses THEN {Did(d.srv, RpcError) : d \in Process(srv, req)} ELSE {})

InSession == Minor = 1 /\ op.kind \notin Raw
assemble_OncePerCall == seq_id' = IF InSession /\ attempts = 0 THEN seq_id + 1 ELSE seq_id
\* assemble: the slot's sequenceid is spent before the call, whatever comes of it.
assemble == seq_id' = IF InSession THEN seq_id + 1 ELSE seq_id
Sent_BeforeLoop == [op EXCEPT !.seq = IF InSession THEN seq_id - attempts ELSE 0, !.try = attempts]
Sent == [op EXCEPT !.seq = IF InSession THEN seq_id ELSE 0, !.try = attempts]

-----------------------------------------------------------------------------
(* What follows the answer. *)

Return(status, rep) ==
  /\ pc' = IF op.kind \in Handshakes /\ status # "Ok" THEN "failed" ELSE "idle"
  /\ result' = [kind |-> op.kind, serial |-> op.serial, status |-> status,
                from |-> rep.serial, tries |-> attempts + 1,
                own |-> rep.try = attempts /\ rep.status \notin Refusals]
  /\ UNCHANGED op

\* The next COMPOUND of the same call.
Continue(next) ==
  /\ op' = next /\ attempts' = 0
  /\ UNCHANGED <<pc, result>>

MayRetry(rep) ==
  rep.status = "Delay" /\ op.kind \notin Raw /\ attempts + 1 < MAX_TRIES

RetryLater_Uncounted(rep) ==
  /\ MayRetry(rep) /\ pc' = "sleep" /\ assemble
  /\ UNCHANGED <<clientid, open_seqid, sessionid, op, attempts, result, handles>>
RetryLater(rep) ==
  /\ MayRetry(rep)
  /\ pc' = "sleep" /\ attempts' = attempts + 1 /\ assemble
  /\ UNCHANGED <<clientid, open_seqid, sessionid, op, result, handles>>

Fails(rep) ==
  /\ rep.status # "Ok"
  /\ ~MayRetry(rep)
  /\ Return(rep.status, rep) /\ assemble
  /\ UNCHANGED <<clientid, open_seqid, sessionid, attempts, handles>>

setclientid(rep) ==
  /\ op.kind \in {"setclientid", "setclientid_confirm"} /\ assemble
  /\ \/ /\ op.kind = "setclientid"
        /\ Continue([op EXCEPT !.kind = "setclientid_confirm", !.clientid = rep.id])
        /\ UNCHANGED clientid
     \/ /\ op.kind = "setclientid_confirm" /\ clientid' = op.clientid
        /\ Return("Ok", rep) /\ UNCHANGED attempts
  /\ UNCHANGED <<open_seqid, sessionid, handles>>

establish_session(rep) ==
  /\ \/ /\ op.kind = "exchange_id" /\ clientid' = rep.id
        /\ Continue([op EXCEPT !.kind = "create_session", !.clientid = rep.id])
        /\ assemble /\ UNCHANGED sessionid
     \/ /\ op.kind = "create_session" /\ sessionid' = TRUE /\ seq_id' = EirSequence
        /\ Continue([op EXCEPT !.kind = "reclaim_complete"])
        /\ UNCHANGED clientid
     \/ /\ op.kind = "reclaim_complete" /\ Return("Ok", rep) /\ assemble
        /\ UNCHANGED <<clientid, sessionid, attempts>>
  /\ UNCHANGED <<open_seqid, handles>>

Opened(fh, id) ==
  handles' = handles \union {[name |-> op.name, fh |-> fh, id |-> id, serial |-> op.serial]}

open_SeqidKept(rep) ==
  /\ op.kind = "open" /\ assemble
  /\ IF rep.confirm
     THEN /\ Continue([op EXCEPT !.kind = "open_confirm", !.fh = rep.fh, !.id = rep.id,
                                 !.seqid = open_seqid + 1])
          /\ open_seqid' = open_seqid + 1 /\ UNCHANGED handles
     ELSE /\ Opened(rep.fh, rep.id) /\ Return("Ok", rep)
          /\ UNCHANGED <<attempts, open_seqid>>
  /\ UNCHANGED <<clientid, sessionid>>
\* OPEN: a delegation is an error; the seqid moves on only past that check.
open(rep) ==
  /\ op.kind = "open" /\ assemble
  /\ \/ /\ rep.deleg /\ Return("Protocol", rep)
        /\ UNCHANGED <<open_seqid, attempts, handles>>
     \/ /\ ~rep.deleg /\ rep.confirm /\ open_seqid' = open_seqid + 1
        /\ Continue([op EXCEPT !.kind = "open_confirm", !.fh = rep.fh, !.id = rep.id,
                               !.seqid = open_seqid'])
        /\ UNCHANGED handles
     \/ /\ ~rep.deleg /\ ~rep.confirm /\ open_seqid' = open_seqid + 1
        /\ Opened(rep.fh, rep.id)
        /\ Return("Ok", rep) /\ UNCHANGED attempts
  /\ UNCHANGED <<clientid, sessionid>>

OpenConfirmed(rep) ==
  /\ op.kind = "open_confirm" /\ assemble
  /\ open_seqid' = open_seqid + 1 /\ Opened(op.fh, rep.id)
  /\ Return("Ok", rep)
  /\ UNCHANGED <<clientid, sessionid, attempts>>

CloseOrLock_SeqidKept(rep) ==
  /\ op.kind \in {"close", "lock"} /\ assemble
  /\ Return("Ok", rep)
  /\ UNCHANGED <<clientid, open_seqid, sessionid, attempts, handles>>
\* close and lock: the seqid moves on after an Ok answer only.
CloseOrLock(rep) ==
  /\ op.kind \in {"close", "lock"} /\ assemble
  /\ open_seqid' = open_seqid + 1
  /\ Return("Ok", rep)
  /\ UNCHANGED <<clientid, sessionid, attempts, handles>>

Plain(rep) ==
  /\ op.kind = "plain" /\ assemble
  /\ Return("Ok", rep)
  /\ UNCHANGED <<clientid, open_seqid, sessionid, attempts, handles>>

destroy_session(rep) ==
  /\ op.kind = "destroy_session" /\ sessionid' = FALSE /\ assemble
  /\ Return("Ok", rep)
  /\ UNCHANGED <<clientid, open_seqid, attempts, handles>>

(***************************************************************************)
(* The answers after which client and server may disagree on what comes    *)
(* next.  In 4.0: an operation of the open-owner whose reply is lost, or   *)
(* whose error uses its seqid up, or an OPEN refused for its delegation.   *)
(* In 4.1: a COMPOUND that never reached the server.                       *)
(***************************************************************************)
Disturbs(d) ==
  \/ /\ Minor = 0 /\ op.kind \in Sequenced
     /\ d.rep.status \in {"RpcError"} \union (Mutating \ {"Ok"}) \/ d.rep.deleg
  \/ Minor = 1 /\ InSession /\ d.rep.status = "RpcError" /\ d.srv = srv

-----------------------------------------------------------------------------
(* The steps. *)

\* run, run_raw: one RPC call and what the client does with its answer.
run ==
  /\ pc = "run" /\ (InSession => sessionid)
  /\ UNCHANGED <<setting, serial>>
  /\ \E d \in RpcCall(Sent) :
       /\ srv' = d.srv /\ upset' = (upset \/ Disturbs(d))
       /\ \/ RetryLater(d.rep)
          \/ Fails(d.rep)
          \/ /\ d.rep.status = "Ok"
             /\ \/ setclientid(d.rep) \/ establish_session(d.rep)
                \/ open(d.rep) \/ OpenConfirmed(d.rep) \/ CloseOrLock(d.rep)
                \/ Plain(d.rep) \/ destroy_session(d.rep)

\* thread::sleep between two passes is over.
Wake ==
  /\ pc = "sleep" /\ pc' = "run"
  /\ UNCHANGED <<setting, fields, op, attempts, handles, serial, result, srv, upset>>

\* assemble without a session: an error, and nothing is sent.
NoSession ==
  /\ pc = "run" /\ InSession /\ ~sessionid
  /\ Return("Protocol", RpcError)
  /\ UNCHANGED <<setting, fields, attempts, handles, serial, srv, upset>>

\* The caller's next call.  close consumes the file; destroy_session is
\* Ok at once when there is no session.
Call(kind, name, h) ==
  /\ pc = "idle" /\ serial < setting.ops
  /\ kind = "destroy_session" => sessionid
  /\ pc' = "run" /\ attempts' = 0 /\ serial' = serial + 1
  /\ op' = Compound(kind, serial + 1, name, h.id)
  /\ handles' = IF kind = "close" THEN handles \ {h} ELSE handles
  /\ UNCHANGED <<setting, fields, result, srv, upset>>

NoHandle == [name |-> NoFile, fh |-> NoFile, id |-> 0, serial |-> 0]
Caller ==
  \/ \E n \in Names : Call("open", n, NoHandle)
  \/ \E h \in handles : Call("close", NoFile, h) \/ Call("lock", NoFile, h)
  \/ Call("plain", NoFile, NoHandle)
  \/ Minor = 1 /\ Call("destroy_session", NoFile, NoHandle)

\* The server restarts and forgets its clients (external).
Restart ==
  /\ srv.boot < setting.boots
  /\ srv' = [FreshServer(srv.boot + 1) EXCEPT !.nextid = srv.nextid]
  /\ UNCHANGED <<setting, fields, pc, op, attempts, handles, serial, result, upset>>

Next == run \/ Wake \/ NoSession \/ Caller \/ Restart
Spec == Init /\ [][Next]_vars
\* A call under way goes on: run() sleeps between passes, no longer than 2 s.
FairSpec == Spec /\ WF_vars(run) /\ WF_vars(Wake) /\ WF_vars(NoSession)

-----------------------------------------------------------------------------
(* Properties. *)

\* As long as nothing disturbed the seqids, an OpenResult is for the file that
\* open() was asked for, and no two share a stateid: closing one never closes
\* another (Nfs4::open; OpenResult: "File handle del fichero abierto.").
OpensKeptApart ==
  ~upset => /\ \A h \in handles : h.fh = h.name
            /\ \A h, k \in handles : h.id = k.id => h = k

\* Between calls, as long as nothing disturbed it, the client's next open-owner
\* seqid is the one the server expects (open, open_confirm, close and lock).
SeqidInSync ==
  pc = "idle" /\ clientid = srv.boot /\ srv.confirmed /\ ~upset =>
    open_seqid = srv.expected

\* Between calls seq_id is the sequenceid that slot 0 expects, unless a request
\* was lost on its way (nfs4.rs: "Sequenceid del slot 0 (NFSv4.1).").
SlotInSync ==
  pc = "idle" /\ sessionid /\ clientid = srv.boot /\ srv.session /\ ~upset =>
    seq_id = srv.slot + 1

\* In NFSv4.1, where every pass of the loop takes a new sequenceid: after GRACE
\* or DELAY nothing was applied, and sending the COMPOUND again tries it again.
\* What run() returns was answered to the last pass of its loop, by a server that
\* looked at the operation, unless a request was lost or the RPC layer sent one
\* twice, whose second answer is RETRY_UNCACHED_REP (run() and its comment,
\* assemble()).  In NFSv4.0 the seqid of an OPEN, CLOSE or LOCK is used up.
RetriesInSession ==
  Minor = 1 /\ ~setting.resends /\ ~upset /\ result.tries > 1 /\ result.status # "RpcError" =>
    result.own

\* run() gives up after MAX_TRIES passes: a server that answers DELAY for
\* ever does not hold a call for ever.
CallReturns == pc = "run" ~> pc \in {"idle", "failed"}
============================================================================
