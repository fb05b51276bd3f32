------------------------------- MODULE FileIo -------------------------------
(***************************************************************************)
(* The file operations of NfsContext (nfs-client/src/context.rs) over the  *)
(* v3 and v4 backends: open, close, fsync, pread, pwrite, read_whole and   *)
(* write_whole, on one file of a server.  A step of the client is one RPC. *)
(*                                                                         *)
(* The server (external) holds the file in memory (mem) and on disk.  The  *)
(* backends write UNSTABLE, so a WRITE reaches mem only; COMMIT, or the    *)
(* server when it likes, copies mem to disk; a restart copies disk to mem. *)
(* It may take or give fewer bytes than asked for.                         *)
(***************************************************************************)
EXTENDS Naturals, Sequences, FiniteSets

CONSTANTS PrefRead,      \* pref_read() of the backend
          PrefWrite,     \* pref_write() of the backend
          Data,          \* the data that callers write
          Offsets,       \* the offsets they use
          Counts,        \* the counts they read
          Others,        \* contents that other clients may store
          Settings       \* the circumstances under which behaviours are explored

(***************************************************************************)
(* The circumstances of one behaviour: whether the backend is NFSv4, with  *)
(* open state at the server, or NFSv3; the RPCs that may fail; whether the *)
(* server may take less than it was sent; whether other clients store      *)
(* anything; and two bounds, the calls and the restarts of the server.     *)
(***************************************************************************)
Setting == [stateful : BOOLEAN, short : BOOLEAN, shared : BOOLEAN,
            faults : SUBSET {"getattr", "open", "lost open", "setattr", "read", "write",
                             "lost write", "commit", "close"},
            ops : Nat, restarts : Nat]

ASSUME FileAssumption ==
  /\ PrefRead \in Nat \ {0} /\ PrefWrite \in Nat \ {0}
  /\ Data \subseteq Seq(Nat) /\ Others \subseteq Seq(Nat)
  /\ Offsets \subseteq Nat /\ Counts \subseteq Nat
  /\ \A s \in Settings : s \in Setting

VARIABLES setting,                            \* the member of Settings that holds
          mem, disk, exists, opens, restarts, \* the server
          file,                               \* the NfsFile the caller holds
          pc, op, pos, out, ops,              \* the call under way
          result,                             \* the last call
          acked, durable, crashed, quiet,     \* history
          stranded

Stateful == setting.stateful
Faults == setting.faults

server == <<setting, mem, disk, exists, opens, restarts>>
ledger == <<acked, durable, crashed, quiet>>
history == <<ledger, stranded>>
vars == <<server, file, pc, op, pos, out, ops, result, history>>

Smaller(a, b) == IF a <= b THEN a ELSE b
Zero == 0
\* content with data stored at offset off, zeros in a gap.
Put(content, off, data) ==
  LET end == off + Len(data)
      size == IF end > Len(content) /\ data # <<>> THEN end ELSE Len(content)
  IN [i \in 1 .. size |-> IF i > off /\ i <= end THEN data[i - off]
                          ELSE IF i <= Len(content) THEN content[i] ELSE Zero]
Slice(content, off, n) == SubSeq(content, off + 1, Smaller(off + n, Len(content)))

-----------------------------------------------------------------------------
(* Histories: acked maps the positions of the bytes that pwrite reported   *)
(* as written, undisturbed, to those bytes; durable the ones a later fsync *)
(* covered with no restart since the file was opened (crashed); quiet says *)
(* that nobody else touched the file during the call; stranded, that an    *)
(* OPEN, a SETATTR after it or a CLOSE failed and left the file open at    *)
(* the server with no NfsFile for it.                                      *)

NoBytes == <<>>
Forget(m, positions) == [i \in DOMAIN m \ positions |-> m[i]]
Add(m, off, data) ==
  [i \in DOMAIN m \union (off + 1 .. off + Len(data)) |->
     IF i > off /\ i <= off + Len(data) THEN data[i - off] ELSE m[i]]
Holds(content, m) == \A i \in DOMAIN m : i <= Len(content) /\ content[i] = m[i]

-----------------------------------------------------------------------------
NoFile == [open |-> FALSE, writable |-> FALSE, stale |-> FALSE]
Idle == [call |-> "none", write |-> FALSE, create |-> FALSE,
         exclusive |-> FALSE, truncate |-> FALSE, off |-> 0, count |-> 0, data |-> <<>>,
         sent |-> 0, failed |-> FALSE]
NoResult == [call |-> "none", ok |-> TRUE, op |-> Idle, n |-> 0, data |-> <<>>]

Init ==
  /\ setting \in Settings
  /\ mem \in Others \union {<<>>} /\ disk = mem /\ exists \in BOOLEAN /\ (~exists => mem = <<>>)
  /\ opens = {} /\ restarts = 0
  /\ file = NoFile /\ pc = "idle" /\ op = Idle /\ pos = 0 /\ out = <<>> /\ ops = 0
  /\ result = NoResult
  /\ acked = NoBytes /\ durable = NoBytes /\ crashed = FALSE /\ quiet = TRUE
  /\ stranded = FALSE

\* The end of a call.
Return(ok, n, data) ==
  /\ pc' = "idle" /\ op' = Idle /\ pos' = 0 /\ out' = <<>>
  /\ result' = [call |-> op.call, ok |-> ok, op |-> op, n |-> n, data |-> data]

Begin(call, start) ==
  /\ pc = "idle" /\ ops < setting.ops
  /\ op' = call /\ pc' = start /\ pos' = call.off /\ out' = <<>> /\ ops' = ops + 1
  /\ quiet' = TRUE /\ result' = NoResult
  /\ UNCHANGED <<server, file, stranded>>

\* The next step of the same call.
Goto(step, newop) ==
  /\ pc' = step /\ op' = newop
  /\ UNCHANGED <<result, ops>>

-----------------------------------------------------------------------------
(* open: OPEN, CREATE or LOOKUP, then SETATTR(size 0) if it truncates. *)

OpenFlags(write, create, exclusive, truncate) ==
  [Idle EXCEPT !.call = "open", !.write = write, !.create = create,
               !.exclusive = exclusive, !.truncate = truncate]
read_only == OpenFlags(FALSE, FALSE, FALSE, FALSE)
read_write == OpenFlags(TRUE, FALSE, FALSE, FALSE)
create_write == OpenFlags(TRUE, TRUE, FALSE, TRUE)

open(flags) ==
  /\ ~file.open /\ Begin(flags, "open")
  /\ acked' = NoBytes /\ durable' = NoBytes /\ crashed' = FALSE

\* What a call does once its file is open.
AfterOpen ==
  CASE op.call = "open" -> Return(TRUE, 0, <<>>) /\ UNCHANGED ops
    [] op.call = "read_whole" -> Goto("pread", op) /\ UNCHANGED <<pos, out>>
    [] op.call = "write_whole" -> Goto("pwrite", op) /\ UNCHANGED <<pos, out>>

\* exclusive is for the v3 backend only: Backend::open of v4 drops it.
BackendOpens(exclusive) ==
  IF exists THEN ~(op.create /\ exclusive /\ ~Stateful) ELSE op.create
ShareAccess ==
  (IF op.write THEN {"write"} ELSE {}) \union (IF op.write /\ ~op.create THEN {} ELSE {"read"})
\* The server has one open of a file for the one open owner of the client
\* (opens, what it lets them do): an OPEN adds to it, a CLOSE ends it.
ServerOpens ==
  exists' = TRUE /\ opens' = IF Stateful THEN opens \union ShareAccess ELSE opens
BackendOpen ==
  /\ pc = "open" /\ BackendOpens(op.exclusive) /\ ServerOpens
  /\ file' = [open |-> TRUE, writable |-> op.write, stale |-> FALSE] /\ stranded' = FALSE
  /\ IF op.truncate /\ op.write
     THEN Goto("setattr", op) /\ UNCHANGED <<pos, out>>
     ELSE AfterOpen
  /\ UNCHANGED <<setting, mem, disk, restarts, ledger>>
\* OPEN fails; or the server executed it, and its reply is lost, carries a
\* delegation (nfs4.rs open), or asks for an OPEN_CONFIRM that fails.
OpenFails ==
  /\ pc = "open"
  /\ \/ /\ "open" \in Faults \/ ~BackendOpens(op.exclusive)
        /\ UNCHANGED <<exists, opens, stranded>>
     \/ /\ "lost open" \in Faults /\ BackendOpens(op.exclusive) /\ ServerOpens
        /\ stranded' = Stateful
  /\ Return(FALSE, 0, <<>>)
  /\ UNCHANGED <<setting, mem, disk, restarts, file, ops, ledger>>

Truncate ==
  /\ pc = "setattr"
  /\ mem' = <<>> /\ disk' = <<>>
  /\ AfterOpen
  /\ UNCHANGED <<setting, exists, opens, restarts, file, history>>
\* The NfsFile is dropped without a CLOSE, whether or not the server executed
\* the SETATTR.
TruncateFails ==
  /\ pc = "setattr" /\ "setattr" \in Faults
  /\ UNCHANGED <<mem, disk>> \/ (mem' = <<>> /\ disk' = <<>>)
  /\ file' = NoFile /\ stranded' = (opens # {}) /\ Return(FALSE, 0, <<>>)
  /\ UNCHANGED <<setting, exists, opens, restarts, ops, ledger>>
-----------------------------------------------------------------------------
(* pread: READs of at most PrefRead bytes until count, an eof or nothing. *)

pread(off, count) ==
  /\ file.open /\ Begin([Idle EXCEPT !.call = "pread", !.off = off, !.count = count], "pread")
  /\ UNCHANGED <<acked, durable, crashed>>

PreadEnds(ok, data) ==
  IF op.call = "pread" THEN Return(ok, Len(data), data) /\ UNCHANGED ops
  ELSE Goto("commit", [op EXCEPT !.failed = ~ok]) /\ out' = data /\ UNCHANGED pos

\* What the server of a v4 file refuses; READ under an open for writing is
\* its choice.  NFSv3 has no open state.
MayRead == Stateful => ~file.stale
MayRefuseRead == Stateful /\ (file.stale \/ "read" \notin opens)
MayWrite == Stateful => ~file.stale /\ "write" \in opens

Left == op.off + op.count - pos
StopsReading_OnShort(got, eof) == eof \/ got < PrefRead \/ Left <= got
StopsReading(got, eof) == eof \/ got = 0 \/ Left <= got
Read(got) ==
  /\ pc = "pread" /\ Left > 0 /\ MayRead
  /\ got \in (IF pos >= Len(mem) THEN {0} ELSE 1 .. Len(Slice(mem, pos, Smaller(Left, PrefRead))))
  /\ LET data == out \o Slice(mem, pos, got) IN
       IF StopsReading(got, pos + got >= Len(mem)) THEN PreadEnds(TRUE, data)
       ELSE Goto("pread", op) /\ out' = data /\ pos' = pos + got
  /\ UNCHANGED <<server, file, history>>
\* A count of 0: no READ at all.
ReadNothing ==
  /\ pc = "pread" /\ Left = 0
  /\ PreadEnds(TRUE, out)
  /\ UNCHANGED <<server, file, history>>
ReadFails ==
  /\ pc = "pread" /\ Left > 0 /\ ("read" \in Faults \/ MayRefuseRead)
  /\ PreadEnds(FALSE, <<>>)
  /\ UNCHANGED <<server, file, history>>

-----------------------------------------------------------------------------
(* pwrite: UNSTABLE WRITEs of at most PrefWrite bytes; a short one ends it. *)

pwrite(off, data) ==
  /\ file.open /\ Begin([Idle EXCEPT !.call = "pwrite", !.off = off, !.data = data], "pwrite")
  /\ acked' = Forget(acked, off + 1 .. off + Len(data))
  /\ durable' = Forget(durable, off + 1 .. off + Len(data))
  /\ UNCHANGED crashed

Piece == Slice(op.data, op.sent, PrefWrite)
PwriteEnds(ok, n) ==
  /\ acked' = IF ok /\ quiet THEN Add(acked, op.off, SubSeq(op.data, 1, n)) ELSE acked
  /\ IF op.call = "pwrite" THEN Return(ok, n, <<>>) /\ UNCHANGED ops
     ELSE Goto("commit", [op EXCEPT !.failed = ~ok]) /\ UNCHANGED <<pos, out>>

StopsWriting_NotOnShort(n) == op.sent + Len(Piece) = Len(op.data)
StopsWriting(n) == n < Len(Piece) \/ op.sent + Len(Piece) = Len(op.data)
Write(n) ==
  /\ pc = "pwrite" /\ Piece # <<>>
  /\ n \in (IF setting.short THEN 0 ELSE Len(Piece)) .. Len(Piece)
  /\ MayWrite
  /\ mem' = Put(mem, pos, SubSeq(Piece, 1, n))
  /\ IF StopsWriting(n) THEN PwriteEnds(TRUE, pos + n - op.off)
     ELSE /\ Goto("pwrite", [op EXCEPT !.sent = @ + Len(Piece)])
          /\ pos' = pos + n /\ UNCHANGED <<out, acked>>
  /\ UNCHANGED <<setting, disk, exists, opens, restarts, file, durable, crashed, quiet,
                 stranded>>
\* No data: no WRITE at all.
WriteNothing ==
  /\ pc = "pwrite" /\ Piece = <<>>
  /\ PwriteEnds(TRUE, 0)
  /\ UNCHANGED <<server, file, durable, crashed, quiet, stranded>>
\* The WRITE fails, or its reply is lost after the server executed it.
WriteFails ==
  /\ pc = "pwrite" /\ Piece # <<>>
  /\ \/ ("write" \in Faults \/ ~MayWrite) /\ UNCHANGED mem
     \/ "lost write" \in Faults /\ MayWrite /\ mem' = Put(mem, pos, Piece)
  /\ PwriteEnds(FALSE, 0)
  /\ UNCHANGED <<setting, disk, exists, opens, restarts, file, durable, crashed, quiet,
                 stranded>>

-----------------------------------------------------------------------------
(* fsync and close.  COMMIT(0, 0) is the whole file; its verifier and that *)
(* of the WRITEs are decoded and dropped.  close ignores COMMIT's errors.  *)

fsync ==
  /\ file.open /\ Begin([Idle EXCEPT !.call = "fsync"], "commit")
  /\ UNCHANGED <<acked, durable, crashed>>
close ==
  /\ file.open /\ Begin([Idle EXCEPT !.call = "close", !.write = file.writable], "commit")
  /\ UNCHANGED <<acked, durable, crashed>>

commit_OnePiece ==
  /\ pc = "commit" /\ (op.call = "fsync" \/ file.writable)
  /\ disk' = Put(disk, 0, Slice(mem, 0, PrefWrite))
  /\ durable' = IF op.call = "fsync" /\ ~crashed THEN acked ELSE durable
  /\ IF op.call = "fsync" THEN Return(TRUE, 0, <<>>) /\ UNCHANGED ops
     ELSE Goto("close", op) /\ UNCHANGED <<pos, out>>
  /\ UNCHANGED <<setting, mem, exists, opens, restarts, file, acked, crashed, quiet, stranded>>
commit ==
  /\ pc = "commit" /\ (op.call = "fsync" \/ file.writable)
  /\ disk' = mem
  /\ durable' = IF op.call = "fsync" /\ ~crashed THEN acked ELSE durable
  /\ IF op.call = "fsync" THEN Return(TRUE, 0, <<>>) /\ UNCHANGED ops
     ELSE Goto("close", op) /\ UNCHANGED <<pos, out>>
  /\ UNCHANGED <<setting, mem, exists, opens, restarts, file, acked, crashed, quiet, stranded>>
CommitFails_Returns ==
  /\ pc = "commit" /\ (op.call = "fsync" \/ file.writable) /\ "commit" \in Faults
  /\ file' = IF op.call = "fsync" THEN file ELSE NoFile
  /\ Return(FALSE, 0, <<>>)
  /\ UNCHANGED <<server, ops, history>>
CommitFails ==
  /\ pc = "commit" /\ (op.call = "fsync" \/ file.writable) /\ "commit" \in Faults
  /\ IF op.call = "fsync" THEN Return(FALSE, 0, <<>>) /\ UNCHANGED ops
     ELSE Goto("close", op) /\ UNCHANGED <<pos, out>>
  /\ UNCHANGED <<server, file, history>>
CommitSkipped ==
  /\ pc = "commit" /\ op.call # "fsync" /\ ~file.writable
  /\ Goto("close", op)
  /\ UNCHANGED <<server, file, pos, out, history>>

\* The end of close, read_whole and write_whole: read_whole ignores what
\* close says, write_whole reports it before what pwrite said.
\* The NfsFile is gone even if the CLOSE fails, executed or not.
BackendClose(ok) ==
  /\ pc = "close"
  /\ IF ok THEN Stateful => ~file.stale ELSE Stateful /\ (file.stale \/ "close" \in Faults)
  /\ opens' \in (IF ok THEN {{}} ELSE {{}, opens}) /\ stranded' = (opens' # {})
  /\ file' = NoFile
  /\ Return(~op.failed /\ (ok \/ op.call = "read_whole"), Len(out), out)
  /\ UNCHANGED <<setting, mem, disk, exists, restarts, ops, ledger>>

-----------------------------------------------------------------------------
(* The calls that do it all: read_whole asks for the size that stat gave.  *)

read_whole ==
  /\ ~file.open /\ Begin([read_only EXCEPT !.call = "read_whole"], "getattr")
  /\ acked' = NoBytes /\ durable' = NoBytes /\ crashed' = FALSE
Stat ==
  /\ pc = "getattr" /\ exists
  /\ Goto("open", [op EXCEPT !.count = Len(mem)])
  /\ UNCHANGED <<server, file, pos, out, history>>
StatFails ==
  /\ pc = "getattr" /\ ("getattr" \in Faults \/ ~exists)
  /\ Return(FALSE, 0, <<>>)
  /\ UNCHANGED <<server, file, ops, history>>
write_whole(data) ==
  /\ ~file.open /\ Begin([create_write EXCEPT !.call = "write_whole", !.data = data], "open")
  /\ acked' = NoBytes /\ durable' = NoBytes /\ crashed' = FALSE
-----------------------------------------------------------------------------
(* The server and the other clients (external). *)

Flush ==
  /\ disk # mem /\ disk' = mem
  /\ UNCHANGED <<setting, mem, exists, opens, restarts, file, pc, op, pos, out, ops, result,
                 history>>
Restart ==
  /\ restarts < setting.restarts /\ restarts' = restarts + 1
  /\ mem' = disk /\ opens' = {} /\ file' = [file EXCEPT !.stale = @ \/ file.open]
  /\ crashed' = TRUE /\ quiet' = FALSE /\ stranded' = FALSE
  /\ UNCHANGED <<setting, disk, exists, pc, op, pos, out, ops, result, acked, durable>>
Other(content) ==
  /\ setting.shared /\ exists /\ mem # content
  /\ mem' = content /\ disk' = content
  /\ acked' = NoBytes /\ durable' = NoBytes /\ quiet' = FALSE
  /\ UNCHANGED <<setting, exists, opens, restarts, file, pc, op, pos, out, ops, result, crashed,
                 stranded>>

Caller ==
  \/ \E w, c, e, t \in BOOLEAN : (e => c) /\ (t => w) /\ open(OpenFlags(w, c, e, t))
  \/ \E o \in Offsets : (\E n \in Counts : pread(o, n)) \/ (\E d \in Data : pwrite(o, d))
  \/ fsync \/ close
  \/ read_whole \/ \E d \in Data : write_whole(d)
Rpc ==
  \/ BackendOpen \/ OpenFails \/ Truncate \/ TruncateFails
  \/ (\E got \in 0 .. PrefRead : Read(got)) \/ ReadNothing \/ ReadFails
  \/ (\E n \in 0 .. PrefWrite : Write(n)) \/ WriteNothing \/ WriteFails
  \/ commit \/ CommitFails \/ CommitSkipped \/ \E ok \in BOOLEAN : BackendClose(ok)
  \/ Stat \/ StatFails
Environment == Flush \/ Restart \/ \E c \in Others : Other(c)

Next == Caller \/ Rpc \/ Environment
Spec == Init /\ [][Next]_vars
\* Every RPC is answered or fails: the timeouts of RpcClient.

-----------------------------------------------------------------------------
(* Properties. *)

Steps == {"idle", "getattr", "open", "setattr", "pread", "pwrite", "commit", "close"}

\* pwrite reports n bytes only if the first n bytes of data are in the file
\* at offset, however the server cut the WRITEs.
PwriteStored ==
  result.call = "pwrite" /\ result.ok /\ quiet =>
    Slice(mem, result.op.off, result.n) = SubSeq(result.op.data, 1, result.n)

\* However the server cut the READs, pread returns the bytes of the range, all
\* of them up to the end of the file; and read_whole, which asks for the size
\* that an earlier GETATTR gave, the whole file, if nobody changes it meanwhile.
ReadsExact ==
  result.ok /\ quiet =>
    /\ result.call = "pread" =>
         result.data = Slice(mem, result.op.off, result.op.count)
    /\ result.call = "read_whole" => result.data = mem

\* Bytes that pwrite reported and a later fsync covered, with no restart of
\* the server since the open, survive every later restart.
SyncedSurvives == Holds(mem, durable) /\ Holds(disk, durable)

\* Over NFSv4 the server holds the file open exactly while a call or the caller
\* has an NfsFile for it that the server knows, or after a failed OPEN, SETATTR
\* or CLOSE left it open with none (context.rs open, close): no other failure,
\* of GETATTR, READ, WRITE or COMMIT, leaves it open.
OpensReleased ==
  Stateful => (opens # {} <=> (file.open /\ ~file.stale) \/ stranded)

\* fsync that succeeds has made persistent what pwrite reported (context.rs:
\* "Fuerza la persistencia de los datos escritos.").
FsyncPersists == result.call = "fsync" /\ result.ok => Holds(disk, acked)
============================================================================
