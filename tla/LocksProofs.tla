---------------------------- MODULE LocksProofs -----------------------------
(***************************************************************************)
(* The three properties of Locks for every file, every set of ranges and   *)
(* ports, any number of calls and every setting, losses, late copies and   *)
(* restarts together.                                                      *)
(*                                                                         *)
(* None of them is inductive.  What they rest on: while no LOCK was        *)
(* answered over NLM there is nothing to unlock, so that a failure to find *)
(* lockd leaves nothing behind (Connected); a lock or a test over NFSv4 is *)
(* for an owner that nothing at the server, in the program or on its way   *)
(* belongs to (Fresh); and no two LockHandles over NFSv4 are of one owner, *)
(* so that no request touches what another handle stands for (Apart).      *)
(***************************************************************************)
EXTENDS Locks, TLAPS

Owners == 0 .. MaxOps
Lock == [owner : Owners \union {Them}, byte : Nat, excl : BOOLEAN]
Handle == [id : Nat, owner : Owners, offset : Nat, length : Nat, excl : BOOLEAN]
Request == [call : {"none", "lock", "unlock", "test"}, offset : Nat, length : Nat,
            excl : BOOLEAN, owner : Owners, port : Nat]

TypeOK ==
  /\ setting \in Setting /\ held \subseteq Lock /\ copies \subseteq Request
  /\ lockd \in Nat \ {0} /\ nlm \in Nat /\ restarts \in Nat
  /\ lock_counter \in Nat /\ ops \in 0 .. MaxOps /\ lock_counter <= ops
  /\ pc \in {"idle", "getport", "connect", "rpc"}
  /\ op \in Request /\ handles \subseteq Handle
  /\ result \in [status : {"none", "Ok", "Locked", "Unavailable", "Err"}, op : Request]
  /\ lost \in BOOLEAN /\ moved \in BOOLEAN /\ quiet \in BOOLEAN

\* unlock has given up what it releases; over NFSv4 no lock has length 0.
Released ==
  /\ op.call = "unlock" => On(Promised, op) \subseteq yielded /\ (Version = 4 => op.length # 0)
  /\ Version = 4 => \A h \in handles : h.length # 0
  /\ pc = "idle" => op = Idle
  /\ pc # "idle" => op.call # "none"

\* Without a connection to lockd nothing was ever locked.
Connected ==
  /\ pc \in {"getport", "connect"} => Version = 3 /\ nlm = None /\ op.call # "unlock"
  /\ pc = "connect" => op.port # None
  /\ Version = 3 /\ nlm = None => handles = {} /\ pc # "rpc"

\* Who an owner can be, and who may hold anything by now.
Older(owner) ==
  owner = Them \/ owner < lock_counter \/ (owner = lock_counter /\ op.call \notin {"lock", "test"})
Fresh ==
  /\ Version = 3 => /\ op.owner = 0 /\ result.op.owner = 0
                    /\ \A h \in held : h.owner \in {0, Them}
                    /\ \A h \in handles : h.owner = 0
                    /\ \A r \in copies : r.owner = 0
  /\ Version = 4 => /\ op.call \in {"lock", "test"} => op.owner = lock_counter
                    /\ op.owner <= lock_counter
                    /\ \A h \in held : Older(h.owner)
                    /\ \A h \in handles : Older(h.owner)
                    /\ \A r \in copies : Older(r.owner)

\* While nothing failed, what the server holds has a handle or is being released.
Stray ==
  ~moved /\ ~lost =>
    \A h \in held : \/ h.owner = Them \/ h \in Promised
                    \/ op.call = "unlock" /\ h \in On(held, op)

\* The handles that the program has not interfered with itself; over NFSv4 it
\* has with none, since no two are of one owner.
Backed == ~moved => Promised \subseteq held \union yielded
Apart ==
  Version = 4 => /\ yielded = {}
                 /\ \A g, h \in handles : g.owner = h.owner => g = h
                 /\ op.call = "unlock" => \A h \in handles : h.owner # op.owner

IInv ==
  /\ TypeOK /\ Released /\ Connected /\ Fresh /\ Stray /\ Backed /\ Apart
  /\ TestPredicts
-----------------------------------------------------------------------------
(* The lock manager. *)

\* A request changes what its owner holds in its range, and nothing else.
LEMMA AfterBounds ==
  ASSUME NEW r
  PROVE  /\ held \ On(held, r) \subseteq After(r)
         /\ After(r) \subseteq held \union Entries(r)
  BY DEF After, On

\* The same for one that is granted.
LEMMA AfterGranted ==
  ASSUME NEW r, Status(r) = "Granted"
  PROVE  /\ r.call = "unlock" => After(r) = held \ On(held, r)
         /\ r.call = "test" => After(r) = held
         /\ r.call \notin {"unlock", "test"} =>
              After(r) = (held \ On(held, r)) \union Entries(r)
  BY DEF After

\* One that is not changes nothing.
LEMMA AfterRefused ==
  ASSUME NEW r, Status(r) # "Granted" \/ r.call = "test"
  PROVE  After(r) = held
  BY DEF After

\* What a request may add are locks of its owner.
LEMMA EntriesType ==
  ASSUME NEW r, r.excl \in BOOLEAN, r.owner \in Owners \union {Them}
  PROVE  Entries(r) \subseteq Lock /\ \A h \in Entries(r) : h.owner = r.owner
  <1>1. Span(r) \subseteq Nat
    BY DEF Span
  <1>2. QED
    BY <1>1 DEF Entries, Lock

\* So that the locks stay well-formed.
LEMMA AfterType ==
  ASSUME held \subseteq Lock, NEW r, r.excl \in BOOLEAN, r.owner \in Owners \union {Them}
  PROVE  After(r) \subseteq Lock /\ \A h \in After(r) : h \in held \/ h.owner = r.owner
  BY AfterBounds, EntriesType

\* Owners are not the other client.
LEMMA NotThem == Them \notin Owners /\ Them \in Nat
  BY LocksAssumption DEF Them, Owners

\* A byte that some handle stands for.
LEMMA PromisedBy ==
  ASSUME NEW e
  PROVE  e \in Promised <=> \E h \in handles : e \in Entries(h)
  BY Zenon DEF Promised

\* It is of the program.
LEMMA PromisedType ==
  ASSUME handles \subseteq Handle
  PROVE  \A e \in Promised : e \in Lock /\ e.owner # Them /\ \E h \in handles : e.owner = h.owner
  <1> SUFFICES ASSUME NEW e \in Promised
               PROVE  e \in Lock /\ e.owner # Them /\ \E h \in handles : e.owner = h.owner
    OBVIOUS
  <1>1. PICK h \in handles : e \in Entries(h)
    BY Zenon, PromisedBy
  <1>2. h.owner \in Owners /\ h.excl \in BOOLEAN
    BY <1>1 DEF Handle
  <1>3. e \in Lock /\ e.owner = h.owner
    BY <1>1, <1>2, EntriesType
  <1>4. QED
    BY <1>1, <1>2, <1>3, NotThem

\* What the server no longer has of it was unlocked or is in the other mode.
LEMMA KeptUnlessTaken ==
  ASSUME NEW r, handles \subseteq Handle, r.call \in {"lock", "unlock", "test"},
         NEW e \in Promised, e \in held, e \notin After(r)
  PROVE  /\ Status(r) = "Granted"
         /\ e \in Converted(r) \/ (r.call = "unlock" /\ e \in On(Promised, r))
  <1>1. e \in Lock
    BY Zenon, PromisedType
  <1>2. e \in On(held, r)
    BY Zenon, AfterBounds
  <1>3. e \in On(Promised, r)
    BY <1>2 DEF On
  <1>4. Status(r) = "Granted" /\ r.call # "test"
    BY AfterRefused
  <1>5. CASE r.call = "unlock"
    BY <1>3, <1>4, <1>5
  <1>6. CASE r.call = "lock"
    <2>1. e \notin Entries(r)
      BY <1>4, <1>6, AfterGranted
    <2>2. e.owner = r.owner /\ e.byte \in Span(r)
      BY <1>2 DEF On
    <2>3. e = [owner |-> e.owner, byte |-> e.byte, excl |-> e.excl]
      BY <1>1 DEF Lock
    <2>4. e.excl # r.excl
      BY <2>1, <2>2, <2>3 DEF Entries
    <2>5. QED
      BY <1>3, <1>4, <1>6, <2>4 DEF Converted
  <1>7. QED
    BY <1>4, <1>5, <1>6

\* Over NFSv4 a request is for another owner than all handles.
LEMMA OthersHandles ==
  ASSUME IInv, Version = 4, op.call \in {"lock", "unlock"}
  PROVE  \A h \in handles : h.owner # op.owner
  <1>1. handles \subseteq Handle /\ lock_counter \in Nat
    BY DEF IInv, TypeOK
  <1>2. CASE op.call = "unlock"
    BY <1>2 DEF IInv, Apart
  <1>3. CASE op.call = "lock"
    BY <1>1, <1>3, NotThem DEF IInv, Fresh, Older, Handle, Owners
  <1>4. QED
    BY <1>2, <1>3

\* So that a lock changes nothing that a handle stands for.
LEMMA NothingConverted ==
  ASSUME IInv, Version = 4
  PROVE  Converted(op) = {}
  <1>1. CASE op.call # "lock"
    BY <1>1 DEF Converted
  <1>2. CASE op.call = "lock"
    <2>1. handles \subseteq Handle /\ \A h \in handles : h.owner # op.owner
      BY <1>2, OthersHandles DEF IInv, TypeOK
    <2>2. \A e \in Promised : e.owner # op.owner
      BY <2>1, PromisedType
    <2>3. QED
      BY <2>2 DEF Converted, On
  <1>3. QED
    BY <1>1, <1>2
-----------------------------------------------------------------------------
(* The calls. *)

\* The fields of a request.
LEMMA AskFields ==
  ASSUME NEW call, NEW r, NEW excl, NEW owner
  PROVE  LET a == Ask(call, r, excl, owner)
         IN /\ a = [call |-> call, offset |-> r.offset, length |-> r.length, excl |-> excl,
                    owner |-> owner, port |-> None]
            /\ a.call = call /\ a.offset = r.offset /\ a.length = r.length
            /\ a.excl = excl /\ a.owner = owner /\ a.port = None
  BY DEF Ask

\* Initially nothing is locked.
LEMMA InitInv == Init => IInv
  <1> SUFFICES ASSUME Init PROVE IInv
    OBVIOUS
  <1>1. setting \in Setting /\ lockd \in Nat \ {0} /\ MaxOps \in Nat
    BY LocksAssumption DEF Init
  <1>2. Idle \in Request /\ Idle.call = "none" /\ Idle.owner = 0
    BY <1>1 DEF Idle, Request, Owners, None
  <1>3. TypeOK
    <2>1. lost \in BOOLEAN /\ moved \in BOOLEAN /\ quiet \in BOOLEAN
      BY Zenon DEF Init
    <2>2. result \in [status : {"none", "Ok", "Locked", "Unavailable", "Err"}, op : Request]
      BY <1>2 DEF Init, NoResult
    <2>3. QED
      BY <1>1, <1>2, <2>1, <2>2 DEF Init, TypeOK, None
  <1>4. Released /\ Connected /\ Stray /\ Backed /\ Apart
    BY <1>1, <1>2 DEF Init, Released, Connected, Stray, Backed, Apart, Promised
  <1>5. Fresh
    BY <1>1, <1>2 DEF Init, Fresh, NoResult
  <1>6. TestPredicts
    BY <1>2 DEF Init, TestPredicts, NoResult
  <1>7. QED
    BY <1>3, <1>4, <1>5, <1>6 DEF IInv

\* A call that only takes up a request which gives up nothing preserves the
\* invariant: it is of the owner of the backend, or of one that is new.
LEMMA NewOwnerStep ==
  ASSUME IInv, NEW call \in {"lock", "test"}, NEW r \in Ranges, NEW excl \in BOOLEAN,
         Begin(Ask(call, r, excl, Owner)),
         lock_counter' = IF Version = 4 THEN lock_counter + 1 ELSE lock_counter,
         UNCHANGED <<handles, yielded>>
  PROVE  IInv'
  <1>0. /\ TypeOK /\ Released /\ Connected /\ Fresh /\ Stray /\ Backed /\ Apart
        /\ setting \in Setting /\ Version \in {3, 4} /\ MaxOps \in Nat
        /\ r.offset \in Nat /\ r.length \in Nat
    BY LocksAssumption DEF IInv, TypeOK, Version, Setting
  <1>1. /\ pc = "idle" /\ ops < MaxOps /\ ops' = ops + 1
        /\ pc' = IF Version = 3 /\ nlm = None THEN "getport" ELSE "rpc"
        /\ result' = NoResult /\ op' = Ask(call, r, excl, Owner)
        /\ UNCHANGED <<setting, held, lockd, restarts, copies, nlm, lost, moved, quiet>>
    BY DEF Begin, server
  <1>2. /\ op'.call = call /\ op'.owner = Owner /\ op'.length = r.length
        /\ op' = [call |-> call, offset |-> r.offset, length |-> r.length, excl |-> excl,
                  owner |-> Owner, port |-> None]
    BY <1>1, AskFields
  <1>3. Owner \in Owners
    BY <1>0, <1>1 DEF TypeOK, Owner, Owners
  <1>4. op' \in Request
    BY <1>0, <1>2, <1>3 DEF Request, None
  <1>5. Version' = Version
    BY <1>1 DEF Version
  <1>6. NoResult \in [status : {"none", "Ok", "Locked", "Unavailable", "Err"}, op : Request]
    BY <1>0 DEF NoResult, Idle, Request, Owners, None
  <1>7. TypeOK'
    <2>1. lock_counter' \in Nat /\ ops' \in 0 .. MaxOps /\ lock_counter' <= ops'
      BY <1>0, <1>1 DEF TypeOK
    <2>2. pc' \in {"idle", "getport", "connect", "rpc"}
      BY <1>1
    <2>3. Them' = Them
      BY DEF Them
    <2>4. QED
      BY <1>0, <1>1, <1>4, <1>6, <2>1, <2>2, <2>3 DEF TypeOK
  <1>8. Released' /\ Connected' /\ Stray' /\ Backed' /\ Apart'
    <2>1. Released'
      BY <1>0, <1>1, <1>2, <1>5 DEF Released
    <2>2. Connected'
      BY <1>0, <1>1, <1>2, <1>5 DEF Connected
    <2>3. op.call # "unlock"
      BY <1>0, <1>1 DEF Released, Idle
    <2>4. Stray'
      BY <1>0, <1>1, <2>3 DEF Stray, Promised
    <2>5. Backed' /\ Apart'
      BY <1>0, <1>1, <1>2, <1>5 DEF Backed, Apart, Promised
    <2>6. QED
      BY <2>1, <2>2, <2>4, <2>5
  <1>9. Fresh'
    <2>1. CASE Version = 3
      BY <1>0, <1>1, <1>2, <1>5, <2>1 DEF Fresh, Owner, NoResult, Idle
    <2>2. CASE Version = 4
      <3>1. /\ lock_counter' = lock_counter + 1 /\ op'.owner = lock_counter + 1
            /\ lock_counter \in Nat
        BY <1>0, <1>2, <2>2 DEF Owner, TypeOK
      <3>2. \A o \in Owners \union {Them} : Older(o) => Older(o)'
        BY <1>0, <3>1 DEF Older, Owners
      <3>3. /\ \A h \in held : Older(h.owner) /\ h.owner \in Owners \union {Them}
            /\ \A h \in handles : Older(h.owner) /\ h.owner \in Owners
            /\ \A c \in copies : Older(c.owner) /\ c.owner \in Owners
        BY <1>0, <2>2 DEF Fresh, TypeOK, Lock, Handle, Request
      <3>4. /\ \A h \in held' : Older(h.owner)'
            /\ \A h \in handles' : Older(h.owner)'
            /\ \A c \in copies' : Older(c.owner)'
        BY <1>1, <3>2, <3>3
      <3>5. op'.owner = lock_counter' /\ op'.owner <= lock_counter'
        BY <3>1
      <3>6. Version' = 4 /\ Version' # 3
        BY <1>5, <2>2
      <3>7. QED
        BY <3>4, <3>5, <3>6 DEF Fresh
    <2>3. QED
      BY Zenon, <1>0, <2>1, <2>2
  <1>10. TestPredicts'
    BY <1>1 DEF TestPredicts
  <1>11. QED
    BY <1>7, <1>8, <1>9, <1>10 DEF IInv

\* The bytes of a range depend on nothing else.
LEMMA SameSpan ==
  ASSUME NEW a, NEW b, a.offset = b.offset, a.length = b.length
  PROVE  Span(a) = Span(b)
  BY DEF Span

\* unlock gives up its handle before the request goes out.
LEMMA UnlockStep ==
  ASSUME IInv, NEW h \in handles, unlock(h)
  PROVE  IInv'
  <1>0. /\ TypeOK /\ Released /\ Connected /\ Fresh /\ Stray /\ Backed /\ Apart
        /\ setting \in Setting /\ Version \in {3, 4} /\ MaxOps \in Nat /\ h \in Handle
    BY LocksAssumption DEF IInv, TypeOK, Version, Setting
  <1>1. /\ pc = "idle" /\ ops < MaxOps /\ ops' = ops + 1
        /\ pc' = IF Version = 3 /\ nlm = None THEN "getport" ELSE "rpc"
        /\ result' = NoResult /\ op' = Ask("unlock", h, h.excl, h.owner)
        /\ handles' = handles \ {h} /\ yielded' = yielded \union Shared(h)
        /\ UNCHANGED <<setting, held, lockd, restarts, copies, nlm, lock_counter, lost, moved,
                       quiet>>
    BY DEF unlock, Begin, server
  <1>2. /\ op'.call = "unlock" /\ op'.owner = h.owner /\ op'.length = h.length
        /\ op'.offset = h.offset
        /\ op' = [call |-> "unlock", offset |-> h.offset, length |-> h.length,
                  excl |-> h.excl, owner |-> h.owner, port |-> None]
    BY <1>1, AskFields
  <1>3. op' \in Request
    BY <1>0, <1>2 DEF Handle, Request, None
  <1>4. Version' = Version /\ pc' = "rpc"
    BY <1>0, <1>1 DEF Version, Connected
  <1>5. Span(op') = Span(h)
    BY <1>2, SameSpan
  <1>6. TypeOK'
    <2>1. NoResult \in [status : {"none", "Ok", "Locked", "Unavailable", "Err"}, op : Request]
      BY <1>0 DEF NoResult, Idle, Request, Owners, None
    <2>2. lock_counter' \in Nat /\ ops' \in 0 .. MaxOps /\ lock_counter' <= ops'
      BY <1>0, <1>1 DEF TypeOK
    <2>3. Them' = Them
      BY DEF Them
    <2>4. QED
      BY <1>0, <1>1, <1>3, <1>4, <2>1, <2>2, <2>3 DEF TypeOK
  <1>13. Shared(h) = On(Promised', op')
    <2>1. Promised' = UNION {Entries(g) : g \in handles \ {h}}
      BY Zenon, <1>1 DEF Promised
    <2>2. QED
      BY Zenon, <1>2, <1>5, <2>1 DEF Shared, On
  <1>7. Released'
    <2>1. On(Promised, op)' \subseteq yielded'
      BY <1>1, <1>13 DEF On
    <2>2. QED
      BY <1>0, <1>1, <1>2, <1>4, <2>1 DEF Released
  <1>8. Connected'
    BY <1>0, <1>1, <1>2, <1>4 DEF Connected
  <1>9. Fresh'
    <2>1. CASE Version = 3
      BY <1>0, <1>1, <1>2, <1>4, <2>1 DEF Fresh, NoResult, Idle
    <2>2. CASE Version = 4
      <3>1. lock_counter \in Nat /\ \A o : Older(o) => Older(o)'
        BY <1>0, <1>1, <1>2 DEF Older, TypeOK
      <3>2. Older(h.owner) /\ h.owner <= lock_counter
        BY <1>0, <2>2, <3>1, NotThem DEF Fresh, Older, Handle, Owners
      <3>3. QED
        BY <1>0, <1>1, <1>2, <1>4, <2>2, <3>1, <3>2 DEF Fresh
    <2>3. QED
      BY <1>0, <2>1, <2>2
  <1>10. Stray'
    <2>1. op.call # "unlock"
      BY <1>0, <1>1 DEF Released, Idle
    <2>2. \A e \in Promised : e \in Promised' \/ e \in Entries(h)
      BY Zenon, <1>1 DEF Promised
    <2>3. \A e \in Entries(h) : e.owner = op'.owner /\ e.byte \in Span(op')
      BY <1>2, <1>5 DEF Entries
    <2>4. QED
      BY Zenon, <1>0, <1>1, <1>2, <2>1, <2>2, <2>3 DEF Stray, On
  <1>11. Backed' /\ Apart' /\ TestPredicts'
    <2>1. Promised' \subseteq Promised
      BY Zenon, <1>1 DEF Promised
    <2>2. Backed'
      BY <1>0, <1>1, <2>1 DEF Backed
    <2>3. ASSUME Version = 4 PROVE Shared(h) = {} /\ \A g \in handles' : g.owner # h.owner
      <3>1. \A g \in handles' : g.owner # h.owner
        BY <1>0, <1>1, <2>3 DEF Apart
      <3>2. \A g \in handles' : \A e \in Entries(g) : e.owner # h.owner
        BY <3>1 DEF Entries
      <3>3. Shared(h) = {}
        BY Zenon, <1>1, <3>2 DEF Shared, On
      <3>4. QED
        BY <3>1, <3>3
    <2>4. Apart'
      BY <1>0, <1>1, <1>2, <1>4, <2>3 DEF Apart
    <2>5. QED
      BY <1>1, <1>4, <2>2, <2>4 DEF TestPredicts
  <1>12. QED
    BY <1>6, <1>7, <1>8, <1>9, <1>10, <1>11 DEF IInv
-----------------------------------------------------------------------------
(* ensure_nlm. *)

\* GETPORT and the connection to lockd move no lock.
LEMMA EnsureStep ==
  ASSUME IInv, Getport \/ ConnectNlm
  PROVE  IInv'
  <1>0. /\ TypeOK /\ Released /\ Connected /\ Fresh /\ Stray /\ Backed /\ Apart
    BY DEF IInv
  <1>1. /\ pc \in {"getport", "connect"} /\ pc' \in {"connect", "rpc"}
        /\ UNCHANGED <<setting, held, lockd, restarts, copies, lock_counter, ops, handles,
                       result, yielded, lost, moved, quiet>>
    BY DEF Getport, ConnectNlm, server, history
  <1>2. /\ pc' = "connect" => op' = [op EXCEPT !.port = lockd] /\ nlm' = nlm
        /\ pc' = "rpc" => op' = op /\ nlm' = op.port /\ pc = "connect"
    BY DEF Getport, ConnectNlm
  <1>3. /\ op' \in Request /\ op'.call = op.call /\ op'.owner = op.owner
        /\ op'.offset = op.offset /\ op'.length = op.length
        /\ pc' = "connect" => op'.port # None
    BY <1>0, <1>1, <1>2 DEF TypeOK, Request, None
  <1>4. Version' = Version /\ Version = 3 /\ op.call # "unlock"
    BY <1>0, <1>1 DEF Version, Connected
  <1>5. TypeOK'
    <2>1. nlm' \in Nat
      BY <1>0, <1>1, <1>2 DEF TypeOK, Request
    <2>2. Them' = Them
      BY DEF Them
    <2>3. QED
      BY <1>0, <1>1, <1>3, <2>1, <2>2 DEF TypeOK
  <1>6. Released'
    BY <1>0, <1>1, <1>3, <1>4 DEF Released, Promised
  <1>7. Connected'
    BY <1>0, <1>1, <1>2, <1>3, <1>4 DEF Connected
  <1>8. Fresh'
    BY <1>0, <1>1, <1>3, <1>4 DEF Fresh
  <1>9. Stray' /\ Backed' /\ Apart' /\ TestPredicts'
    BY <1>0, <1>1, <1>3, <1>4 DEF Stray, Backed, Apart, Promised, TestPredicts
  <1>10. QED
    BY <1>5, <1>6, <1>7, <1>8, <1>9 DEF IInv

\* What a call that returns leaves of its request.
LEMMA Returned ==
  ASSUME IInv, NEW status \in {"Ok", "Locked", "Unavailable", "Err"}, Return(status)
  PROVE  /\ pc' = "idle" /\ op' = Idle /\ op' \in Request
         /\ op'.call = "none" /\ op'.owner = 0
         /\ result'.status = status /\ result'.op = op
         /\ result' \in [status : {"none", "Ok", "Locked", "Unavailable", "Err"}, op : Request]
         /\ UNCHANGED <<setting, lock_counter, ops, Version>>
  <1>1. op \in Request /\ MaxOps \in Nat
    BY LocksAssumption DEF IInv, TypeOK
  <1>2. Idle \in Request /\ Idle.call = "none" /\ Idle.owner = 0
    BY <1>1 DEF Idle, Request, Owners, None
  <1>3. QED
    BY <1>1, <1>2 DEF Return, Version

\* lockd is not found: there was nothing to unlock.
LEMMA EnsureFailsStep ==
  ASSUME IInv, EnsureFails
  PROVE  IInv'
  <1>0. /\ TypeOK /\ Released /\ Connected /\ Fresh /\ Stray /\ Backed /\ Apart
    BY DEF IInv
  <1>1. /\ pc \in {"getport", "connect"} /\ Return("Err")
        /\ UNCHANGED <<held, lockd, restarts, copies, nlm, handles, yielded, lost, moved, quiet>>
    BY DEF EnsureFails, server, history
  <1>2. /\ pc' = "idle" /\ op' = Idle /\ op' \in Request
        /\ op'.call = "none" /\ op'.owner = 0
        /\ result'.status = "Err" /\ result'.op = op
        /\ result' \in [status : {"none", "Ok", "Locked", "Unavailable", "Err"}, op : Request]
        /\ UNCHANGED <<setting, lock_counter, ops, Version>>
    BY <1>1, Returned
  <1>3. Version = 3 /\ op.call # "unlock"
    BY <1>0, <1>1 DEF Connected
  <1>4. TypeOK'
    <2>1. Them' = Them
      BY DEF Them
    <2>2. QED
      BY <1>0, <1>1, <1>2, <2>1 DEF TypeOK
  <1>5. Released' /\ Connected'
    BY Zenon, <1>0, <1>1, <1>2, <1>3 DEF Released, Connected
  <1>6. Fresh' /\ Stray'
    BY <1>0, <1>1, <1>2, <1>3 DEF Fresh, Stray, Promised
  <1>7. Backed' /\ Apart' /\ TestPredicts'
    BY <1>0, <1>1, <1>2 DEF Backed, Apart, Promised, TestPredicts
  <1>8. QED
    BY <1>4, <1>5, <1>6, <1>7 DEF IInv
-----------------------------------------------------------------------------
(* The RPC. *)

\* The owner of a test under way holds nothing, and neither does the owner of
\* the lock that would follow it: both conflict with the same locks.
LEMMA SameConflicts ==
  ASSUME IInv, op.call = "test"
  PROVE  Conflicts([op EXCEPT !.owner = Owner]) = Conflicts(op)
  <1>0. /\ TypeOK /\ Fresh /\ op \in Request /\ Version \in {3, 4} /\ MaxOps \in Nat
        /\ held \subseteq Lock /\ lock_counter \in Nat /\ lock_counter <= MaxOps
    BY LocksAssumption DEF IInv, TypeOK, Version, Setting
  <1> DEFINE o == [op EXCEPT !.owner = Owner]
  <1>1. /\ o.owner = Owner /\ o.excl = op.excl /\ o.offset = op.offset
        /\ o.length = op.length
    BY <1>0 DEF Request
  <1>2. Span(o) = Span(op)
    BY Zenon, <1>1, SameSpan
  <1>3. CASE Version = 3
    <2>1. Owner = op.owner
      BY <1>0, <1>3 DEF Fresh, Owner
    <2>2. QED
      BY <1>1, <1>2, <2>1 DEF Conflicts
  <1>4. CASE Version = 4
    <2>1. Owner = lock_counter + 1 /\ op.owner = lock_counter
      BY <1>0, <1>4 DEF Fresh, Owner
    <2>2. \A h \in held : h.owner = Them \/ h.owner < lock_counter
      BY <1>0, <1>4 DEF Fresh, Older
    <2>3. \A h \in held : h.owner \in Nat /\ h.owner # Owner /\ h.owner # op.owner
      BY <1>0, <2>1, <2>2 DEF Lock, Owners, Them
    <2>4. QED
      BY <1>1, <1>2, <2>3 DEF Conflicts
  <1>5. QED
    BY <1>0, <1>3, <1>4

\* Carrying out the request: what it leaves is well-formed, and of owners that
\* are not to come.
LEMMA Executed ==
  ASSUME IInv, pc = "rpc"
  PROVE  /\ After(op) \subseteq Lock /\ Entries(op) \subseteq Lock
         /\ \A h \in Entries(op) : h.owner = op.owner
         /\ op.owner # Them
         /\ Version = 3 => \A h \in After(op) : h.owner \in {0, Them}
         /\ Version = 4 => \A h \in After(op) : h.owner = Them \/ h.owner <= lock_counter
  <1>0. /\ TypeOK /\ Fresh /\ op \in Request /\ held \subseteq Lock /\ lock_counter \in Nat
        /\ op.owner \in Owners /\ op.excl \in BOOLEAN
    BY DEF IInv, TypeOK, Request
  <1>1. /\ After(op) \subseteq Lock /\ Entries(op) \subseteq Lock
        /\ \A h \in Entries(op) : h.owner = op.owner
        /\ \A h \in After(op) : h \in held \/ h.owner = op.owner
    BY <1>0, AfterType, EntriesType
  <1>2. op.owner # Them
    BY <1>0, NotThem
  <1>3. Version = 4 => \A h \in held : h.owner = Them \/ h.owner <= lock_counter
    BY <1>0, NotThem DEF Fresh, Older, Lock, Owners
  <1>4. QED
    BY <1>0, <1>1, <1>2, <1>3 DEF Fresh

\* The statuses and what becomes of them (stat_to_result).
LEMMA Results ==
  ASSUME NEW r
  PROVE  /\ Result(r) \in {"Ok", "Locked", "Unavailable", "Err"}
         /\ (Result(r) = "Ok") = (Status(r) = "Granted")
         /\ Result(r) = "Unavailable" => Status(r) = "Denied" /\ r.call = "test"
         /\ Status(r) = "Granted" /\ Version = 4 => r.length # 0
         /\ r.call = "unlock" => Status(r) = "Granted" \/ (Version = 4 /\ r.length = 0)
         /\ r.call = "test" /\ Status(r) = "Granted" => Conflicts(r) = {}
         /\ Status(r) = "Denied" => Conflicts(r) # {}
  <1>1. Status(r) \in {"Granted", "Denied", "Inval"}
    BY DEF Status
  <1>2. /\ Status(r) = "Granted" /\ Version = 4 => r.length # 0
        /\ r.call = "unlock" => Status(r) = "Granted" \/ (Version = 4 /\ r.length = 0)
        /\ r.call = "test" /\ Status(r) = "Granted" => Conflicts(r) = {}
        /\ Status(r) = "Denied" => Conflicts(r) # {}
    BY DEF Status
  <1>3. /\ Result(r) \in {"Ok", "Locked", "Unavailable", "Err"}
        /\ (Result(r) = "Ok") = (Status(r) = "Granted")
        /\ Result(r) = "Unavailable" => Status(r) = "Denied" /\ r.call = "test"
    BY <1>1 DEF Result
  <1>4. QED
    BY <1>2, <1>3

\* Once a call has returned, everybody up to the last owner may hold locks.
LEMMA FreshAfter ==
  ASSUME IInv, pc = "rpc", pc' = "idle", op'.call = "none", op'.owner = 0, result'.op = op,
         UNCHANGED <<setting, lock_counter>>, held' \in {held, After(op)},
         \A r \in copies' : r \in copies \/ r = op,
         \A h \in handles' : h \in handles \/ h.owner = op.owner
  PROVE  Fresh'
  <1>0. /\ TypeOK /\ Fresh /\ Version' = Version /\ lock_counter \in Nat
        /\ Version \in {3, 4} /\ held \subseteq Lock /\ handles \subseteq Handle
        /\ copies \subseteq Request /\ op.owner \in Owners /\ MaxOps \in Nat
    BY LocksAssumption DEF IInv, TypeOK, Version, Setting, Request
  <1>1. /\ Version = 3 => \A h \in After(op) : h.owner \in {0, Them}
        /\ Version = 4 => \A h \in After(op) : h.owner = Them \/ h.owner <= lock_counter
        /\ After(op) \subseteq Lock
    BY Executed
  <1>2. CASE Version = 3
    BY <1>0, <1>1, <1>2 DEF Fresh, Them
  <1>3. CASE Version = 4
    <2>1. \A o \in Owners \union {Them} : o = Them \/ o <= lock_counter => Older(o)'
      BY <1>0 DEF Older, Owners, Them
    <2>2. \A o \in Owners \union {Them} : Older(o) => Older(o)'
      BY <1>0, <2>1 DEF Older, Owners, Them
    <2>3. op.owner <= lock_counter
      BY <1>0, <1>3 DEF Fresh
    <2>4. \A h \in held' : Older(h.owner)'
      BY <1>0, <1>1, <1>3, <2>1, <2>2 DEF Fresh, Lock
    <2>5. \A h \in handles' : Older(h.owner)'
      BY <1>0, <1>3, <2>1, <2>2, <2>3 DEF Fresh, Handle
    <2>6. \A r \in copies' : Older(r.owner)'
      BY <1>0, <1>3, <2>1, <2>2, <2>3 DEF Fresh, Request
    <2>7. QED
      BY <1>0, <1>3, <2>4, <2>5, <2>6 DEF Fresh
  <1>4. QED
    BY <1>0, <1>2, <1>3

\* The request is executed and answered.
LEMMA AnsweredStep ==
  ASSUME IInv, Answered
  PROVE  IInv'
  <1>0. /\ TypeOK /\ Released /\ Connected /\ Fresh /\ Stray /\ Backed /\ Apart /\ op \in Request
        /\ Version \in {3, 4}
    BY DEF IInv, TypeOK, Version, Setting
  <1> DEFINE handle == [id |-> ops, owner |-> op.owner, offset |-> op.offset,
                        length |-> op.length, excl |-> op.excl]
  <1>1. /\ pc = "rpc" /\ held' = After(op) /\ Return(Result(op)) /\ quiet' = TRUE
        /\ handles' = IF op.call = "lock" /\ Result(op) = "Ok"
                      THEN handles \union {handle} ELSE handles
        /\ yielded' = IF Result(op) # "Ok" THEN yielded
                      ELSE (IF op.call = "lock" THEN yielded \ Entries(op) ELSE yielded)
                             \union Converted(op)
        /\ copies' \in {copies, copies \union IF setting.late THEN {op} ELSE {}}
        /\ UNCHANGED <<lockd, restarts, nlm, lost, moved>>
    BY DEF Answered
  <1>2. /\ pc' = "idle" /\ op' = Idle /\ op' \in Request
        /\ op'.call = "none" /\ op'.owner = 0
        /\ result'.status = Result(op) /\ result'.op = op
        /\ result' \in [status : {"none", "Ok", "Locked", "Unavailable", "Err"}, op : Request]
        /\ UNCHANGED <<setting, lock_counter, ops, Version>>
    BY <1>1, Returned, Results
  <1>3. \A r \in copies' : r \in copies \/ r = op
    BY <1>1
  <1>4. /\ handle \in Handle /\ handle.owner = op.owner /\ handle.length = op.length
        /\ \A h \in handles' : h \in handles \/ h = handle
    BY <1>0, <1>1 DEF Request, Handle, TypeOK
  <1>5. /\ After(op) \subseteq Lock /\ Entries(op) \subseteq Lock /\ op.owner # Them
        /\ \A h \in Entries(op) : h.owner = op.owner
    BY <1>1, Executed
  <1>6. /\ op.call = "lock" /\ Status(op) = "Granted" =>
             /\ Promised' = Promised \union Entries(op)
             /\ yielded' = (yielded \ Entries(op)) \union Converted(op)
        /\ op.call # "lock" \/ Status(op) # "Granted" => handles' = handles /\ Promised' = Promised
        /\ op.call # "lock" /\ Status(op) = "Granted" => yielded' = yielded \union Converted(op)
        /\ Status(op) # "Granted" => yielded' = yielded
    <2>1. handle.offset = op.offset /\ handle.excl = op.excl
      OBVIOUS
    <2>2. Entries(handle) = Entries(op)
      BY Zenon, <1>4, <2>1, SameSpan DEF Entries
    <2> HIDE DEF handle
    <2>3. (Result(op) = "Ok") = (Status(op) = "Granted")
      BY Zenon, Results
    <2>4. ASSUME handles' = handles PROVE Promised' = Promised
      BY Zenon, <2>4 DEF Promised
    <2>5. ASSUME handles' = handles \union {handle}
          PROVE  Promised' = Promised \union Entries(op)
      <3>1. \A e : e \in Promised' <=> e \in Promised \/ e \in Entries(handle)
        BY Zenon, <2>5 DEF Promised
      <3>2. QED
        BY <2>2, <3>1
    <2>6. QED
      BY <1>1, <2>3, <2>4, <2>5
  <1> HIDE DEF handle
  <1>7. TypeOK'
    <2>2. quiet' \in BOOLEAN /\ Them' = Them
      BY <1>1 DEF Them
    <2>3. handles' \subseteq Handle /\ copies' \subseteq Request
      BY <1>0, <1>3, <1>4 DEF TypeOK
    <2>4. QED
      BY <1>0, <1>1, <1>2, <1>5, <2>2, <2>3 DEF TypeOK
  <1>8. Released'
    <2>1. Version = 4 => \A h \in handles' : h.length # 0
      BY <1>0, <1>1, <1>4, Results DEF Released
    <2>2. QED
      BY Zenon, <1>2, <2>1 DEF Released
  <1>9. Connected'
    BY Zenon, <1>0, <1>1, <1>2 DEF Connected
  <1>10. Fresh'
    BY <1>1, <1>2, <1>3, <1>4, FreshAfter
  <1>11. Stray'
    <2>0. held' = After(op) /\ op.call \in {"lock", "unlock", "test"} /\ op'.call = "none"
          /\ moved' = moved /\ lost' = lost
      BY <1>0, <1>1, <1>2 DEF Released, Request
    <2>1. CASE op.call = "lock" /\ Status(op) = "Granted"
      <3>1. held' = (held \ On(held, op)) \union Entries(op)
        BY <1>1, <2>1, AfterGranted
      <3>2. QED
        BY <1>0, <1>6, <2>0, <2>1, <3>1 DEF Stray
    <2>2. CASE op.call = "unlock"
      <3>1. Status(op) = "Granted"
        BY <1>0, <2>2, Results DEF Released
      <3>2. held' = held \ On(held, op) /\ Promised' = Promised
        BY <1>1, <1>6, <2>2, <3>1, AfterGranted
      <3>3. QED
        BY SMTT(30), <1>0, <2>0, <2>2, <3>2 DEF Stray
    <2>3. CASE op.call # "unlock" /\ ~(op.call = "lock" /\ Status(op) = "Granted")
      <3>1. held' = held /\ Promised' = Promised
        BY <1>1, <1>6, <2>0, <2>3, AfterRefused
      <3>2. QED
        BY <1>0, <2>0, <2>3, <3>1 DEF Stray
    <2>4. QED
      BY <2>1, <2>2, <2>3
  <1>14. Backed'
    <2> SUFFICES ASSUME ~moved, NEW e \in Promised'
                 PROVE  e \in held' \/ e \in yielded'
      BY <1>1 DEF Backed
    <2>1. handles \subseteq Handle /\ op.call \in {"lock", "unlock", "test"}
      BY <1>0, <1>1 DEF TypeOK, Released, Request
    <2>2. CASE op.call = "lock" /\ Status(op) = "Granted" /\ e \in Entries(op)
      BY <1>1, <2>2, AfterGranted
    <2>3. CASE ~(op.call = "lock" /\ Status(op) = "Granted" /\ e \in Entries(op))
      <3>1. e \in Promised /\ (e \in yielded => e \in yielded')
        BY <1>6, <2>3
      <3>2. e \in held \/ e \in yielded
        BY <1>0, <3>1 DEF Backed
      <3>3. CASE e \in held /\ e \notin held'
        <4>1. /\ Status(op) = "Granted"
              /\ e \in Converted(op) \/ (op.call = "unlock" /\ e \in On(Promised, op))
          BY <1>1, <2>1, <3>1, <3>3, KeptUnlessTaken
        <4>2. CASE e \in Converted(op)
          BY <1>6, <4>1, <4>2
        <4>3. CASE op.call = "unlock" /\ e \in On(Promised, op)
          BY <1>0, <3>1, <4>3 DEF Released
        <4>4. QED
          BY <4>1, <4>2, <4>3
      <3>4. QED
        BY <3>1, <3>2, <3>3
    <2>4. QED
      BY <2>2, <2>3
  <1>15. Apart'
    <2> SUFFICES ASSUME Version = 4
                 PROVE  /\ yielded' = {}
                        /\ \A g, h \in handles' : g.owner = h.owner => g = h
      BY <1>2 DEF Apart
    <2>1. yielded' = {}
      BY <1>0, <1>1, NothingConverted DEF Apart
    <2>2. op.call = "lock" => \A h \in handles : h.owner # op.owner
      BY OthersHandles
    <2>3. handles' = handles \/ (op.call = "lock" /\ handles' = handles \union {handle})
      BY <1>1
    <2>4. QED
      BY <1>0, <1>4, <2>1, <2>2, <2>3 DEF Apart
  <1>12. TestPredicts'
    <2> SUFFICES ASSUME op.call = "test"
                 PROVE  /\ Result(op) = "Ok" =>
                             Conflicts([result.op EXCEPT !.owner = Owner])' = {}
                        /\ Result(op) = "Unavailable" =>
                             Conflicts([result.op EXCEPT !.owner = Owner])' # {}
      BY <1>2 DEF TestPredicts
    <2>1. held' = held /\ Owner' = Owner
      BY <1>1, <1>2, AfterRefused DEF Owner
    <2>2. Conflicts([result.op EXCEPT !.owner = Owner])' = Conflicts([op EXCEPT !.owner = Owner])
      BY <1>2, <2>1 DEF Conflicts
    <2>3. Conflicts([op EXCEPT !.owner = Owner]) = Conflicts(op)
      BY SameConflicts
    <2>4. QED
      BY <2>2, <2>3, Results
  <1>13. QED
    BY <1>7, <1>8, <1>9, <1>10, <1>11, <1>12, <1>14, <1>15 DEF IInv

\* The call fails, before or after the server carried it out.
LEMMA RpcFailsStep ==
  ASSUME IInv, RpcFails
  PROVE  IInv'
  <1>0. /\ TypeOK /\ Released /\ Connected /\ Fresh /\ Stray /\ Backed /\ Apart /\ op \in Request
    BY DEF IInv, TypeOK
  <1>1. /\ pc = "rpc" /\ held' \in {held, After(op)} /\ Return("Err")
        /\ yielded' = yielded \union Converted(op)
        /\ lost' = (lost \/ op.call # "test")
        /\ UNCHANGED <<lockd, restarts, copies, nlm, handles, moved, quiet>>
    BY DEF RpcFails
  <1>2. /\ pc' = "idle" /\ op' = Idle /\ op' \in Request
        /\ op'.call = "none" /\ op'.owner = 0
        /\ result'.status = "Err" /\ result'.op = op
        /\ result' \in [status : {"none", "Ok", "Locked", "Unavailable", "Err"}, op : Request]
        /\ UNCHANGED <<setting, lock_counter, ops, Version>>
    BY <1>1, Returned
  <1>3. After(op) \subseteq Lock
    BY <1>1, Executed
  <1>4. TypeOK'
    <2>1. lost' \in BOOLEAN /\ Them' = Them
      BY <1>0, <1>1 DEF TypeOK, Them
    <2>2. QED
      BY <1>0, <1>1, <1>2, <1>3, <2>1 DEF TypeOK
  <1>5. Released' /\ Connected'
    BY Zenon, <1>0, <1>1, <1>2 DEF Released, Connected
  <1>6. Fresh'
    BY <1>1, <1>2, FreshAfter
  <1>7. Stray'
    <2>1. CASE op.call = "test"
      BY Zenon, <1>0, <1>1, <1>2, <2>1, AfterRefused DEF Stray, Promised
    <2>2. CASE op.call # "test"
      BY Zenon, <1>1, <2>2 DEF Stray
    <2>3. QED
      BY <2>1, <2>2
  <1>8. Backed' /\ Apart'
    <2>1. handles \subseteq Handle /\ op.call \in {"lock", "unlock", "test"} /\ Promised' = Promised
      BY <1>0, <1>1 DEF TypeOK, Released, Request, Promised
    <2>2. ASSUME NEW e \in Promised, e \in held, e \notin held' PROVE e \in yielded'
      <3>1. e \in Converted(op) \/ (op.call = "unlock" /\ e \in On(Promised, op))
        BY <1>1, <2>1, <2>2, KeptUnlessTaken
      <3>2. QED
        BY <1>0, <1>1, <3>1 DEF Released
    <2>3. Backed'
      BY <1>0, <1>1, <2>1, <2>2 DEF Backed
    <2>4. Version = 4 => Converted(op) = {}
      BY NothingConverted
    <2>5. Apart'
      BY <1>0, <1>1, <1>2, <2>4 DEF Apart
    <2>6. QED
      BY <2>3, <2>5
  <1>9. TestPredicts'
    BY <1>2 DEF TestPredicts
  <1>10. QED
    BY <1>4, <1>5, <1>6, <1>7, <1>8, <1>9 DEF IInv
-----------------------------------------------------------------------------
(* The rest of the world. *)

\* A copy of an earlier request is executed: nothing is promised after it,
\* but owners to come still hold nothing.
LEMMA LateStep ==
  ASSUME IInv, NEW r \in copies, Late(r)
  PROVE  IInv'
  <1>0. /\ TypeOK /\ Released /\ Connected /\ Fresh /\ Apart /\ copies \subseteq Request
        /\ r \in Request /\ r.owner \in Owners /\ r.excl \in BOOLEAN
    BY DEF IInv, TypeOK, Request
  <1>1. /\ copies' = copies \ {r} /\ held' = After(r) /\ moved' = TRUE /\ quiet' = FALSE
        /\ UNCHANGED <<setting, lockd, restarts, nlm, lock_counter, pc, op, ops, handles,
                       result, yielded, lost>>
    BY DEF Late, OthersVars
  <1>2. After(r) \subseteq Lock /\ \A h \in After(r) : h \in held \/ h.owner = r.owner
    BY <1>0, AfterType DEF TypeOK
  <1>3. TypeOK'
    <2>1. moved' \in BOOLEAN /\ quiet' \in BOOLEAN /\ Them' = Them
      BY Zenon, <1>1 DEF Them
    <2>2. QED
      BY <1>0, <1>1, <1>2, <2>1 DEF TypeOK
  <1>4. Released' /\ Connected'
    BY Zenon, <1>0, <1>1 DEF Released, Connected, Version, On, Promised
  <1>5. Fresh'
    BY <1>0, <1>1, <1>2 DEF Fresh, Older, Version, Them
  <1>6. Stray' /\ Backed' /\ Apart' /\ TestPredicts'
    BY <1>0, <1>1 DEF Stray, Backed, Apart, Version, TestPredicts
  <1>7. QED
    BY <1>3, <1>4, <1>5, <1>6 DEF IInv

\* What another client asks for concerns locks of its own.
LEMMA TheyAskStep ==
  ASSUME IInv, NEW call, NEW r \in Ranges, NEW excl \in BOOLEAN, TheyAsk(call, r, excl)
  PROVE  IInv'
  <1> DEFINE a == Ask(call, r, excl, Them)
  <1>0. /\ TypeOK /\ Released /\ Connected /\ Fresh /\ Stray /\ Backed /\ Apart
        /\ a.owner = Them /\ a.excl \in BOOLEAN
    BY AskFields DEF IInv
  <1>1. /\ held' = After(a) /\ quiet' = FALSE
        /\ UNCHANGED <<setting, lockd, restarts, copies, nlm, lock_counter, pc, op, ops,
                       handles, result, yielded, lost, moved>>
    BY DEF TheyAsk, OthersVars
  <1> HIDE DEF a
  <1>2. /\ After(a) \subseteq Lock
        /\ \A h \in After(a) : h \in held \/ h.owner = Them
        /\ held \ On(held, a) \subseteq After(a)
    BY <1>0, AfterType, AfterBounds DEF TypeOK
  <1>3. TypeOK'
    <2>1. quiet' \in BOOLEAN /\ Them' = Them
      BY Zenon, <1>1 DEF Them
    <2>2. QED
      BY <1>0, <1>1, <1>2, <2>1 DEF TypeOK
  <1>4. Released' /\ Connected'
    BY Zenon, <1>0, <1>1 DEF Released, Connected, Version, On, Promised
  <1>5. Fresh'
    BY <1>0, <1>1, <1>2 DEF Fresh, Older, Version, Them
  <1>6. Stray'
    BY <1>0, <1>1, <1>2 DEF Stray, On, Them, Span, Promised
  <1>7. Backed' /\ Apart'
    <2>1. Promised' = Promised /\ \A e \in Promised : e.owner # Them
      BY <1>0, <1>1, PromisedType DEF Promised, TypeOK
    <2>2. Backed'
      BY Zenon, <1>0, <1>1, <1>2, <2>1 DEF Backed, On
    <2>3. Apart'
      BY Zenon, <1>0, <1>1 DEF Apart, Version
    <2>4. QED
      BY Zenon, <2>2, <2>3
  <1>8. TestPredicts'
    BY <1>1 DEF TestPredicts
  <1>9. QED
    BY Zenon, <1>3, <1>4, <1>5, <1>6, <1>7, <1>8 DEF IInv

\* After a restart no lock is left.
LEMMA RestartStep ==
  ASSUME IInv, Restart
  PROVE  IInv'
  <1>0. /\ TypeOK /\ Released /\ Connected /\ Fresh /\ Apart
    BY DEF IInv
  <1>1. /\ held' = {} /\ lockd' \in Ports /\ moved' = TRUE /\ quiet' = FALSE
        /\ restarts' = restarts + 1
        /\ UNCHANGED <<setting, copies, nlm, lock_counter, pc, op, ops, handles, result, yielded,
                       lost>>
    BY DEF Restart
  <1>2. TypeOK'
    <2>1. moved' \in BOOLEAN /\ quiet' \in BOOLEAN /\ Them' = Them
      BY Zenon, <1>1 DEF Them
    <2>2. lockd' \in Nat \ {0} /\ restarts' \in Nat
      BY <1>0, <1>1, LocksAssumption DEF TypeOK
    <2>3. QED
      BY <1>0, <1>1, <2>1, <2>2 DEF TypeOK
  <1>3. Released' /\ Connected'
    BY Zenon, <1>0, <1>1 DEF Released, Connected, Version, On, Promised
  <1>4. Fresh'
    BY <1>0, <1>1 DEF Fresh, Older, Version, Them
  <1>5. Stray' /\ Backed' /\ Apart' /\ TestPredicts'
    BY <1>0, <1>1 DEF Stray, Backed, Apart, Version, TestPredicts
  <1>6. QED
    BY <1>2, <1>3, <1>4, <1>5 DEF IInv
-----------------------------------------------------------------------------
\* Every step preserves the invariant.
LEMMA StepInv == IInv /\ [Next]_vars => IInv'
  <1> SUFFICES ASSUME IInv, [Next]_vars PROVE IInv'
    OBVIOUS
  <1>1. ASSUME NEW r \in Ranges, NEW excl \in BOOLEAN, lock(r, excl) PROVE IInv'
    BY <1>1, NewOwnerStep DEF lock
  <1>2. ASSUME NEW r \in Ranges, NEW excl \in BOOLEAN, test_lock(r, excl) PROVE IInv'
    BY <1>2, NewOwnerStep DEF test_lock
  <1>3. CASE Caller
    BY <1>1, <1>2, <1>3, UnlockStep DEF Caller
  <1>4. CASE Client
    BY <1>4, EnsureStep, EnsureFailsStep, AnsweredStep, RpcFailsStep DEF Client
  <1>5. CASE World
    BY <1>5, LateStep, TheyAskStep, RestartStep DEF World
  <1>6. CASE UNCHANGED vars
    BY <1>6 DEF IInv, TypeOK, Released, Connected, Fresh, Older, Stray, Backed, Apart,
                Promised, Entries, TestPredicts, vars, server, history, Version, On, Span, Conflicts, Owner, Them
  <1>7. QED
    BY <1>3, <1>4, <1>5, <1>6 DEF Next

(***************************************************************************)
(* The server holds what the program's LockHandles stand for, whatever     *)
(* calls fail, until a restart or the late execution of a copy; over NLM,  *)
(* but for the bytes that the program released or changed itself through   *)
(* another handle (lock and unlock of context.rs, over both backends).     *)
(***************************************************************************)
THEOREM HandlesBacked == Spec => []HandlesActive
  <1>1. IInv => HandlesActive
    BY DEF IInv, Backed, Apart, HandlesActive
  <1>2. QED
    BY <1>1, InitInv, StepInv, PTL DEF Spec

(***************************************************************************)
(* The server holds no lock of the program that it does not know of, as    *)
(* long as no lock or unlock failed.                                       *)
(***************************************************************************)
THEOREM NoStrayLock == Spec => []NothingStray
  <1>1. IInv => NothingStray
    BY DEF IInv, Stray, Released, NothingStray, Idle
  <1>2. QED
    BY <1>1, InitInv, StepInv, PTL DEF Spec

(***************************************************************************)
(* test_lock tells what lock would be answered (NLM TEST, LOCKT), although *)
(* over NFSv4 the two calls are made for different owners.                 *)
(***************************************************************************)
THEOREM TestTells == Spec => []TestPredicts
  <1>1. IInv => TestPredicts
    BY DEF IInv
  <1>2. QED
    BY <1>1, InitInv, StepInv, PTL DEF Spec
=============================================================================
