----------------------------- MODULE FrontEnds ------------------------------
(***************************************************************************)
(* The two ways of using an NfsContext other than as a Rust value:         *)
(* AsyncNfs (nfs-client/src/async_context.rs), which tasks share, and the  *)
(* C interface (nfs-capi/src/lib.rs).                                      *)
(*                                                                         *)
(* A call of the context is a job of several steps, one RPC or more each,  *)
(* on a file of the server: write_whole creates or empties the file,       *)
(* writes it piece by piece and closes it; read_whole asks for its size,   *)
(* opens it, reads piece by piece and closes it; stat stands for the calls *)
(* that look once and unlink for those that change a name.  The server     *)
(* takes a piece as a whole (FileIo has short writes).  An AsyncNfs job is *)
(* queued for tokio's blocking pool, takes the mutex on one of its threads *)
(* and gives it back at the end; its task needs one of the threads of the  *)
(* runtime whenever it does not await.  A C program runs its job in the    *)
(* calling thread, and has a handle, an error message and the memory that  *)
(* it was given.                                                           *)
(***************************************************************************)
EXTENDS Naturals, Sequences, FiniteSets

CONSTANTS Callers,   \* tasks that share a context; a C program is the first
          Data,      \* what write_whole may be given, sequences of pieces
          Settings

Setting == [api : {"async", "c"}, pool : Nat \ {0}, workers : Nat \ {0}, calls : Nat,
            ops : SUBSET {"write", "read", "stat", "unlink"}, faults : BOOLEAN, drops : BOOLEAN]

(* A piece is not 0: see Absent. *)
ASSUME FrontEndsAssumption ==
  /\ Settings \subseteq Setting
  /\ Callers # {} /\ Data \subseteq Seq(Nat \ {0})

VARIABLES
  setting,
  file,     \* the server's file (external)
  jobs,     \* every call so far: what it does, where it is, what it has read
  queue,    \* the jobs that wait for a thread of the pool
  holder,   \* the job that has the mutex, or 0
  before,   \* history: the file when holder took it
  waits,    \* the job whose outcome a caller waits for, or 0
  asking,   \* the tasks within version(), which take the mutex themselves
  handle,   \* C: "none", "null", "live", "gone"
  message,  \* C: the call that last_error tells about, or 0
  memory,   \* C: the calls whose strings and buffers are not yet freed
  answer    \* C: what the last call returned: code 1 is -1 or NULL

shared == <<queue, holder, before, asking>>
cVars == <<handle, message, memory, answer>>
vars == <<setting, file, jobs, waits, shared, cVars>>

Ops == {"write", "read", "stat", "unlink"}
Absent == <<0>>
Pending == [is |-> "pending", value |-> <<>>]
Ok(v) == [is |-> "ok", value |-> v]
Error == [is |-> "error", value |-> <<>>]

Async == setting.api = "async"
NoAnswer == [call |-> 0, code |-> 0]

Init ==
  /\ setting \in Settings
  /\ file = Absent /\ jobs = <<>> /\ queue = <<>> /\ holder = 0 /\ before = Absent
  /\ waits = [c \in Callers |-> 0] /\ asking = {}
  /\ handle = "none" /\ message = 0 /\ memory = {} /\ answer = NoAnswer

Job(op, d, stage) ==
  [op |-> op, data |-> d, stage |-> stage, size |-> 0, buf |-> <<>>, res |-> Ok(<<>>),
   out |-> Pending]

-----------------------------------------------------------------------------
(* A job with the context, step by step. *)

To(i, stage) == [jobs EXCEPT ![i].stage = stage]
Finish(j, out) == [j EXCEPT !.out = out, !.stage = "ending"]
Fails(j) == IF j.stage = "more" THEN [j EXCEPT !.res = Error, !.stage = "close"]
            ELSE Finish(j, Error)

(* write_whole: create, the pieces of pwrite, close. *)
Written(j) == IF j.stage = "first" THEN <<>>
              ELSE IF j.stage = "more" THEN Append(file, j.data[j.size + 1]) ELSE file
WriteStep(i) ==
  LET j == jobs[i]
      n == IF j.stage = "first" THEN 0 ELSE j.size + 1
  IN
  /\ j.op = "write"
  /\ file' = Written(j)
  /\ jobs' = [jobs EXCEPT ![i] =
       IF j.stage = "close" THEN Finish(j, j.res)
       ELSE [j EXCEPT !.stage = IF n = Len(j.data) THEN "close" ELSE "more", !.size = n]]

(* read_whole: stat, open, the pieces of pread as far as they are there,     *)
(* close.                                                                    *)
ReadStep(i) ==
  LET j == jobs[i]
      n == Len(j.buf) + 1
      got == IF n <= Len(file) THEN Append(j.buf, file[n]) ELSE j.buf
      ends(size) == [j EXCEPT !.stage = IF size = 0 THEN "close" ELSE "more"]
  IN
  /\ j.op = "read"
  /\ jobs' = [jobs EXCEPT ![i] =
       CASE j.stage = "close" -> Finish(j, IF j.res.is = "error" THEN Error ELSE Ok(j.buf))
         [] j.stage # "close" /\ file = Absent -> Fails(j)
         [] j.stage = "first" /\ file # Absent ->
              [j EXCEPT !.stage = "open", !.size = Len(file)]
         [] j.stage = "open" /\ file # Absent -> ends(j.size)
         [] j.stage = "more" /\ file # Absent ->
              [j EXCEPT !.buf = got,
                        !.stage = IF Len(got) = j.size \/ got = j.buf THEN "close" ELSE "more"]]
  /\ UNCHANGED file

NameStep(i) ==
  LET j == jobs[i] IN
  /\ j.op \in {"stat", "unlink"}
  /\ jobs' = [jobs EXCEPT ![i] =
                Finish(j, IF file = Absent THEN Error
                          ELSE IF j.op = "stat" THEN Ok(<<Len(file)>>) ELSE Ok(<<>>))]
  /\ file' = IF j.op = "unlink" THEN Absent ELSE file

(* An RPC fails, before or after the server did what it asks for.  What      *)
(* follows an open is still closed; read_whole ignores whether close fails.  *)
StepFails(i) ==
  LET j == jobs[i] IN
  /\ setting.faults /\ ~(j.op = "read" /\ j.stage = "close")
  /\ jobs' = [jobs EXCEPT ![i] = Fails(j)]
  /\ file' \in {file} \cup (IF j.op = "unlink" THEN {Absent}
                           ELSE IF j.op = "write" THEN {Written(j)} ELSE {})

Has(i) == holder = i

RunJob(i) ==
  /\ Has(i) /\ jobs[i].stage \in {"first", "open", "more", "close"}
  /\ WriteStep(i) \/ ReadStep(i) \/ NameStep(i) \/ StepFails(i)
  /\ UNCHANGED <<setting, waits, shared, cVars>>

-----------------------------------------------------------------------------
(* AsyncNfs. *)

(* A task runs on a thread of the runtime that no version() occupies. *)
Runs == Async /\ Cardinality(asking) < setting.workers
MayAsk == Len(jobs) < setting.calls

(* stat, read_whole, write_whole, unlink ...: blocking() spawns and awaits.  *)
Submit(c, op, d) ==
  /\ Runs /\ waits[c] = 0 /\ c \notin asking /\ MayAsk /\ op \in setting.ops
  /\ jobs' = Append(jobs, Job(op, d, "queued"))
  /\ queue' = Append(queue, Len(jobs'))
  /\ waits' = [waits EXCEPT ![c] = Len(jobs')]
  /\ UNCHANGED <<setting, file, holder, before, asking, cVars>>

InPool ==
  {i \in DOMAIN jobs : jobs[i].stage \in {"locking", "first", "open", "more", "close", "ending"}}

(* A thread of the pool takes the job that waits longest ... *)
Start ==
  /\ Async /\ queue # <<>> /\ Cardinality(InPool) < setting.pool
  /\ jobs' = To(Head(queue), "locking")
  /\ queue' = Tail(queue)
  /\ UNCHANGED <<setting, file, waits, holder, before, asking, cVars>>

(* ... and inner.lock() gives it the context, in no certain order.           *)
Lock_NotWaiting(i) ==
  /\ Async /\ i \in DOMAIN jobs /\ jobs[i].stage = "locking"
  /\ holder' = i /\ before' = file
  /\ jobs' = To(i, "first")
  /\ UNCHANGED <<setting, file, waits, queue, asking, cVars>>
Lock(i) ==
  /\ Async /\ i \in DOMAIN jobs /\ jobs[i].stage = "locking" /\ holder = 0
  /\ holder' = i /\ before' = file
  /\ jobs' = To(i, "first")
  /\ UNCHANGED <<setting, file, waits, queue, asking, cVars>>

(* The guard is dropped when the closure returns. *)
Unlock_Kept(i) ==
  /\ Async /\ Has(i) /\ jobs[i].stage = "ending"
  /\ UNCHANGED holder
  /\ jobs' = To(i, "done")
  /\ UNCHANGED <<setting, file, waits, queue, before, asking, cVars>>
Unlock(i) ==
  /\ Async /\ Has(i) /\ jobs[i].stage = "ending"
  /\ holder' = 0
  /\ jobs' = To(i, "done")
  /\ UNCHANGED <<setting, file, waits, queue, before, asking, cVars>>

(* The await ends with the outcome of the closure. *)
Deliver(c) ==
  /\ Runs /\ waits[c] # 0 /\ jobs[waits[c]].stage = "done"
  /\ waits' = [waits EXCEPT ![c] = 0]
  /\ UNCHANGED <<setting, file, jobs, shared, cVars>>

(* The task drops the future; the closure runs all the same.                 *)
Abandon(c) ==
  /\ Runs /\ setting.drops /\ waits[c] # 0
  /\ waits' = [waits EXCEPT ![c] = 0]
  /\ UNCHANGED <<setting, file, jobs, shared, cVars>>

(* version() is no async function: it locks in the thread of the runtime.    *)
Ask(c) ==
  /\ Runs /\ waits[c] = 0 /\ c \notin asking /\ MayAsk
  /\ asking' = asking \cup {c}
  /\ UNCHANGED <<setting, file, jobs, waits, queue, holder, before, cVars>>
version(c) ==
  /\ c \in asking /\ holder = 0
  /\ asking' = asking \ {c}
  /\ UNCHANGED <<setting, file, jobs, waits, queue, holder, before, cVars>>

-----------------------------------------------------------------------------
(* The C interface: one thread. *)

C == CHOOSE c \in Callers : TRUE
Free == ~Async /\ waits[C] = 0      \* not within a call

nfs_rs_mount(ok) ==
  /\ Free /\ handle = "none"
  /\ handle' = IF ok THEN "live" ELSE "null"
  /\ UNCHANGED <<setting, file, jobs, waits, shared, message, memory, answer>>

(* as_handle of NULL: no call, no message. *)
NullHandle ==
  /\ Free /\ handle = "null"
  /\ answer' = [call |-> 0, code |-> 1]
  /\ UNCHANGED <<setting, file, jobs, waits, shared, handle, message, memory>>

(* A path that is NULL or not UTF-8, or NULL for where to put the result,    *)
(* refuses the call (good = FALSE) before the context is asked.              *)
CCall(op, d, good) ==
  /\ Free /\ handle = "live" /\ MayAsk /\ op \in setting.ops
  /\ jobs' = Append(jobs, Job(op, d, IF good THEN "first" ELSE "refused"))
  /\ holder' = Len(jobs') /\ before' = file
  /\ waits' = [waits EXCEPT ![C] = Len(jobs')]
  /\ UNCHANGED <<setting, file, queue, asking, cVars>>

CRefuse ==
  LET i == waits[C] IN
  /\ ~Async /\ i # 0 /\ jobs[i].stage = "refused"
  /\ jobs' = [jobs EXCEPT ![i] = Finish(@, Error)]
  /\ UNCHANGED <<setting, file, waits, shared, cVars>>

(* guard_int: set_error, or the result in memory that the caller will free;  *)
(* an empty buffer takes none.                                               *)
Allocates(j) ==
  j.out.is = "ok" /\ (j.op = "stat" \/ (j.op = "read" /\ j.out.value # <<>>))
CEnds(i) ==
  /\ ~Async /\ i # 0 /\ jobs[i].stage = "ending"
  /\ jobs' = To(i, "done")
  /\ waits' = [waits EXCEPT ![C] = 0] /\ holder' = 0
  /\ memory' = IF Allocates(jobs[i]) THEN memory \cup {i} ELSE memory
  /\ answer' = [call |-> i, code |-> IF jobs[i].out.is = "ok" THEN 0 ELSE 1]
  /\ UNCHANGED <<setting, file, queue, before, asking, handle>>
CReturn_StatSilent ==
  LET i == waits[C] IN
  /\ CEnds(i)
  /\ message' = IF jobs[i].out.is = "ok" \/ jobs[i].op = "stat" THEN message ELSE i
CReturn ==
  LET i == waits[C] IN
  /\ CEnds(i)
  /\ message' = IF jobs[i].out.is = "ok" THEN message ELSE i

(* nfs_rs_free_string, nfs_rs_free_bytes *)
FreeResult(i) ==
  /\ Free /\ i \in memory
  /\ memory' = memory \ {i}
  /\ UNCHANGED <<setting, file, jobs, waits, shared, handle, message, answer>>

nfs_rs_unmount ==
  /\ Free /\ handle = "live"
  /\ handle' = "gone" /\ message' = 0
  /\ UNCHANGED <<setting, file, jobs, waits, shared, memory, answer>>

-----------------------------------------------------------------------------
Pool == Start \/ \E i \in DOMAIN jobs : Lock(i) \/ RunJob(i) \/ Unlock(i)
Task(c) == Deliver(c) \/ version(c)

Next ==
  \/ Pool
  \/ \E c \in Callers :
        \/ Task(c) \/ Abandon(c) \/ Ask(c)
        \/ \E op \in Ops, d \in Data : (op # "write" => d = <<>>) /\ Submit(c, op, d)
  \/ \E ok \in BOOLEAN : nfs_rs_mount(ok)
  \/ NullHandle \/ CRefuse \/ CReturn \/ nfs_rs_unmount
  \/ \E op \in Ops, d \in Data, good \in BOOLEAN :
        (op # "write" => d = <<>>) /\ CCall(op, d, good)
  \/ \E i \in DOMAIN jobs : FreeResult(i)

Spec == Init /\ [][Next]_vars

(***************************************************************************)
(* The threads of the pool run, each RPC returns (RpcClient!CallReturns),  *)
(* and a free mutex is taken by somebody.  The runtime polls its ready     *)
(* tasks in turn: one whose result is there is not passed over for ever by *)
(* others that call version() again and again.  The mutex is not fair:     *)
(* since the calls are finite, no one waits behind an endless succession   *)
(* of others.                                                              *)
(***************************************************************************)
FairSpec ==
  /\ Spec
  /\ WF_vars(Start) /\ WF_vars(CRefuse) /\ WF_vars(CReturn)
  /\ WF_vars(\E i \in DOMAIN jobs : Lock(i))
  /\ WF_vars(\E i \in DOMAIN jobs : RunJob(i)) /\ WF_vars(\E i \in DOMAIN jobs : Unlock(i))
  /\ \A c \in Callers : SF_vars(Deliver(c)) /\ WF_vars(version(c))

-----------------------------------------------------------------------------
(* Properties. *)

Middle == holder # 0 /\ jobs[holder].out = Pending

Atomic == INSTANCE AtomicContext WITH
            content <- IF Middle THEN before ELSE file,
            calls <- [i \in DOMAIN jobs |->
                        [op |-> jobs[i].op, data |-> jobs[i].data, out |-> jobs[i].out]],
            waits <- waits

(* TakesTurns: however the steps of the calls of several tasks alternate,    *)
(* each takes effect at one instant between its beginning and its end: no    *)
(* read sees half a write, and a call that follows the end of another sees   *)
(* its effect (`un contexto serializado tras un mutex`, async_context.rs).   *)
TakesTurns == Atomic!Spec

(* EachEnds: a task that awaits a call or is within version() goes on,       *)
(* although the pool may have fewer threads than there are calls, all but    *)
(* one of them wait for the mutex, and version() occupies the threads that   *)
(* would deliver results; and a call whose future was dropped is made to its *)
(* end, nothing of it is left half done (async_context.rs blocking,          *)
(* version).  A C call returns.                                              *)
EachEnds ==
  /\ \A c \in Callers : (waits[c] # 0 \/ c \in asking) ~> (waits[c] = 0 /\ c \notin asking)
  /\ []<>(\A i \in DOMAIN jobs : jobs[i].stage = "done")

(* CAnswers: `0` = OK, `-1` = error (consultar `nfs_rs_last_error`).  When   *)
(* a C function has returned an error, last_error tells of that call and it  *)
(* left nothing to free; else it did what it was asked to, and a message     *)
(* that is still there is of the last call that failed (lib.rs guard_int).   *)
CAnswers ==
  LET i == answer.call
      failed == {k \in DOMAIN jobs : jobs[k].out.is = "error"}
  IN ~Async /\ handle = "live" /\ waits[C] = 0 /\ i # 0 =>
       /\ (answer.code = 0) = (jobs[i].out.is = "ok")
       /\ answer.code # 0 => message = i /\ i \notin memory
       /\ message # 0 => message \in failed /\ \A k \in failed : k <= message
=============================================================================
