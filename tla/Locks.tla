------------------------------- MODULE Locks --------------------------------
(***************************************************************************)
(* Byte-range locks of NfsContext (nfs-client/src/context.rs): lock,       *)
(* unlock and test_lock on one open file, over NLM (NFSv3) and over LOCK,  *)
(* LOCKU and LOCKT in an NFSv4.1 session.  What a denied LOCK does to the  *)
(* seqids of NFSv4.0 is in Nfs4State.                                      *)
(*                                                                         *)
(* A V3Backend has one lock owner, and finds lockd through the portmapper  *)
(* when it first needs it; Nfs4 makes a new owner for every lock.  A step  *)
(* of the client is one RPC.  The server (external) keeps for every byte   *)
(* who holds it; Them is another client.                                   *)
(***************************************************************************)
EXTENDS Naturals, FiniteSets

CONSTANTS End,       \* bytes of the file: 0 .. End - 1
          Ranges,    \* the ranges [offset, length] that callers use
          Ports,     \* the ports lockd may have
          MaxOps,    \* bound: calls of the program
          Settings   \* the circumstances under which behaviours are explored

(***************************************************************************)
(* The circumstances of one behaviour: the version (3, or 4 for 4.1),      *)
(* whether RPC calls may fail, with or without being executed, whether the *)
(* network may deliver a copy of a request late, and how often the server  *)
(* restarts.                                                               *)
(***************************************************************************)
Setting == [version : {3, 4}, lossy : BOOLEAN, late : BOOLEAN, restarts : Nat]

ASSUME LocksAssumption ==
  /\ End \in Nat /\ MaxOps \in Nat /\ \A r \in Ranges : r \in [offset : Nat, length : Nat]
  /\ Ports \subseteq Nat \ {0} /\ \A s \in Settings : s \in Setting

VARIABLES setting,
          held, lockd, restarts, copies,   \* the server and the network
          nlm, lock_counter,               \* V3Backend::nlm, Nfs4::lock_counter
          pc, op, ops, handles, result,    \* the program: its call, its LockHandles
          yielded, lost, moved, quiet      \* history

server == <<held, lockd, restarts, copies>>
history == <<yielded, lost, moved, quiet>>
vars == <<setting, server, nlm, lock_counter, pc, op, ops, handles, result, history>>

Version == setting.version
Them == MaxOps + 2     \* an owner of another client
None == 0

Idle == [call |-> "none", offset |-> 0, length |-> 0, excl |-> FALSE, owner |-> 0, port |-> None]
NoResult == [status |-> "none", op |-> Idle]

Init ==
  /\ setting \in Settings
  /\ held = {} /\ lockd \in Ports /\ restarts = 0 /\ copies = {}
  /\ nlm = None /\ lock_counter = 0
  /\ pc = "idle" /\ op = Idle /\ ops = 0 /\ handles = {} /\ result = NoResult
  /\ yielded = {} /\ lost = FALSE /\ moved = FALSE /\ quiet = TRUE
-----------------------------------------------------------------------------
(* The lock manager (external). *)

\* The bytes of a range: a length of 0 reaches to the end.
Span(r) ==
  {b \in 0 .. End - 1 : b >= r.offset /\ (r.length = 0 \/ b < r.offset + r.length)}
Entries(r) == [owner : {r.owner}, byte : Span(r), excl : {r.excl}]
On(locks, r) == {h \in locks : h.owner = r.owner /\ h.byte \in Span(r)}
Conflicts(r) ==
  {h \in held : h.owner # r.owner /\ h.byte \in Span(r) /\ (h.excl \/ r.excl)}

\* The status of a request, and the locks after it.
Status(r) ==
  IF Version = 4 /\ r.length = 0 THEN "Inval"
  ELSE IF r.call = "unlock" \/ Conflicts(r) = {} THEN "Granted" ELSE "Denied"
After(r) ==
  IF Status(r) # "Granted" \/ r.call = "test" THEN held
  ELSE IF r.call = "unlock" THEN held \ On(held, r)
  ELSE (held \ On(held, r)) \union Entries(r)
-----------------------------------------------------------------------------
(* Histories: yielded, the locks of LockHandles that the program holds and *)
(* that another request of its own has changed or released, or may have;   *)
(* lost, that a lock or an unlock failed; moved, that the server restarted *)
(* or executed a copy of a request late; quiet, that nobody else acted     *)
(* since the last answer.                                                  *)

\* What the LockHandles of the program stand for.
Promised == UNION {Entries(h) : h \in handles}
\* What of it the unlock of h gives up, and what a lock in the other mode does.
Shared(h) == On(UNION {Entries(g) : g \in handles \ {h}}, h)
Converted(r) == IF r.call = "lock" THEN {e \in On(Promised, r) : e.excl # r.excl} ELSE {}
-----------------------------------------------------------------------------
(* The calls. *)

\* v3: unique_owner(), one per backend; v4: fresh_lock_owner().
Owner == IF Version = 3 THEN 0 ELSE lock_counter + 1

Begin(request) ==
  /\ pc = "idle" /\ ops < MaxOps /\ ops' = ops + 1
  /\ op' = request
  /\ pc' = IF Version = 3 /\ nlm = None THEN "getport" ELSE "rpc"
  /\ result' = NoResult
  /\ UNCHANGED <<setting, server, nlm, lost, moved, quiet>>

Ask(call, r, excl, owner) ==
  [call |-> call, offset |-> r.offset, length |-> r.length, excl |-> excl, owner |-> owner,
   port |-> None]

lock(r, excl) ==
  /\ Begin(Ask("lock", r, excl, Owner))
  /\ lock_counter' = IF Version = 4 THEN lock_counter + 1 ELSE lock_counter
  /\ UNCHANGED <<handles, yielded>>

unlock_WholeFile(h) ==
  /\ Begin(Ask("unlock", [offset |-> 0, length |-> End], h.excl, h.owner))
  /\ handles' = handles \ {h} /\ yielded' = yielded \union Shared(h)
  /\ UNCHANGED lock_counter
unlock_LatestOwner(h) ==
  /\ Begin(Ask("unlock", h, h.excl, lock_counter))
  /\ handles' = handles \ {h} /\ yielded' = yielded \union Shared(h)
  /\ UNCHANGED lock_counter
\* unlock consumes the LockHandle, whatever comes of the call.
unlock(h) ==
  /\ Begin(Ask("unlock", h, h.excl, h.owner))
  /\ handles' = handles \ {h} /\ yielded' = yielded \union Shared(h)
  /\ UNCHANGED lock_counter

test_lock(r, excl) ==
  /\ Begin(Ask("test", r, excl, Owner))
  /\ lock_counter' = IF Version = 4 THEN lock_counter + 1 ELSE lock_counter
  /\ UNCHANGED <<handles, yielded>>

Return(status) ==
  /\ pc' = "idle" /\ op' = Idle
  /\ result' = [status |-> status, op |-> op]
  /\ UNCHANGED <<setting, lock_counter, ops>>
-----------------------------------------------------------------------------
(* ensure_nlm: GETPORT, then a connection that is kept only if it is made. *)

Getport ==
  /\ pc = "getport"
  /\ op' = [op EXCEPT !.port = lockd] /\ pc' = "connect"
  /\ UNCHANGED <<setting, server, nlm, lock_counter, ops, handles, result, history>>
ConnectNlm ==
  /\ pc = "connect" /\ op.port = lockd
  /\ nlm' = op.port /\ pc' = "rpc"
  /\ UNCHANGED <<setting, server, lock_counter, op, ops, handles, result, history>>
\* No portmapper, lockd not registered, or nobody at its port (any more).
EnsureFails ==
  /\ pc \in {"getport", "connect"}
  /\ setting.lossy \/ (pc = "connect" /\ op.port # lockd)
  /\ Return("Err")
  /\ UNCHANGED <<server, nlm, handles, history>>
-----------------------------------------------------------------------------
(* The RPC itself. *)

\* The server at the other end still knows this client.
Reachable == IF Version = 3 THEN nlm = lockd ELSE restarts = 0

Result_TestUnread(r) ==
  CASE Status(r) = "Denied" /\ r.call # "test" -> "Locked"
    [] Status(r) = "Inval" -> "Err"
    [] OTHER -> "Ok"
\* stat_to_result, test_lock and the translation of errors: NLM4_DENIED and
\* NFS4ERR_DENIED become Locked, or "not available" for test_lock.
Result(r) ==
  CASE Status(r) = "Granted" -> "Ok"
    [] Status(r) = "Denied" -> IF r.call = "test" THEN "Unavailable" ELSE "Locked"
    [] Status(r) = "Inval" -> "Err"

\* The request is executed and its answer comes back.  The RPC layer may have
\* sent it before, and a copy be on its way still.
Answered ==
  /\ pc = "rpc" /\ Reachable
  /\ held' = After(op)
  /\ handles' = IF op.call = "lock" /\ Result(op) = "Ok"
                THEN handles \union {[id |-> ops, owner |-> op.owner, offset |-> op.offset,
                                      length |-> op.length, excl |-> op.excl]}
                ELSE handles
  /\ yielded' = IF Result(op) # "Ok" THEN yielded
                ELSE (IF op.call = "lock" THEN yielded \ Entries(op) ELSE yielded)
                       \union Converted(op)
  /\ copies' \in {copies, copies \union IF setting.late THEN {op} ELSE {}}
  /\ Return(Result(op)) /\ quiet' = TRUE
  /\ UNCHANGED <<lockd, restarts, nlm, lost, moved>>

\* The call fails, before the server executed it or after.
RpcFails ==
  /\ pc = "rpc" /\ (setting.lossy \/ ~Reachable)
  /\ held' \in {held} \union IF Reachable THEN {After(op)} ELSE {}
  /\ yielded' = yielded \union Converted(op)
  /\ lost' = (lost \/ op.call # "test")
  /\ Return("Err")
  /\ UNCHANGED <<lockd, restarts, copies, nlm, handles, moved, quiet>>
-----------------------------------------------------------------------------
(* The rest of the world (external). *)

OthersVars == <<setting, lockd, restarts, nlm, lock_counter, pc, op, ops, handles, result, yielded>>

\* The network delivers a copy of an earlier request.
Late(r) ==
  /\ r \in copies /\ copies' = copies \ {r} /\ Reachable
  /\ held' = After(r) /\ moved' = TRUE /\ quiet' = FALSE
  /\ UNCHANGED <<OthersVars, lost>>

TheyAsk(call, r, excl) ==
  /\ held' = After(Ask(call, r, excl, Them)) /\ held' # held
  /\ quiet' = FALSE
  /\ UNCHANGED <<OthersVars, copies, lost, moved>>

Restart ==
  /\ restarts < setting.restarts /\ restarts' = restarts + 1
  /\ held' = {} /\ lockd' \in Ports /\ moved' = TRUE /\ quiet' = FALSE
  /\ UNCHANGED <<setting, copies, nlm, lock_counter, pc, op, ops, handles, result, yielded, lost>>

Caller ==
  \/ \E r \in Ranges, excl \in BOOLEAN : lock(r, excl) \/ test_lock(r, excl)
  \/ \E h \in handles : unlock(h)
Client == Getport \/ ConnectNlm \/ EnsureFails \/ Answered \/ RpcFails
World ==
  \/ \E r \in copies : Late(r)
  \/ \E call \in {"lock", "unlock"}, r \in Ranges, excl \in BOOLEAN : TheyAsk(call, r, excl)
  \/ Restart

Next == Caller \/ Client \/ World
Spec == Init /\ [][Next]_vars
-----------------------------------------------------------------------------
(* Properties. *)

\* A LockHandle stands for an active lock (context.rs: "Testigo de un bloqueo
\* activo"): the server holds every byte of it, in its mode, however other calls
\* fail, until a restart or a copy of a request that is executed late.  Over
\* NFSv4 that is all; over NLM, where all handles are of one owner, the program
\* itself may have unlocked a byte of it, or locked it in the other mode, with
\* another handle that overlaps it.
HandlesActive ==
  ~moved => /\ Version = 4 => Promised \subseteq held
            /\ Promised \subseteq held \union yielded

\* And the server holds nothing for it but what LockHandles stand for, as long
\* as no lock or unlock failed: a lock that was refused leaves nothing behind,
\* and every byte held can still be unlocked.
NothingStray ==
  pc = "idle" /\ ~moved /\ ~lost => {h \in held : h.owner # Them} \subseteq Promised

\* test_lock says whether lock would be granted, as long as nobody else acts
\* in between: for the same owner over NLM, for a new one over NFSv4.
TestPredicts ==
  result.op.call = "test" /\ quiet /\ pc = "idle" =>
    /\ result.status = "Ok" => Conflicts([result.op EXCEPT !.owner = Owner]) = {}
    /\ result.status = "Unavailable" => Conflicts([result.op EXCEPT !.owner = Owner]) # {}
=============================================================================
