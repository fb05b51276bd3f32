----------------------------- MODULE Protocols ------------------------------
(***************************************************************************)
(* What the servers understand, written from the protocols (RFC 1813,      *)
(* 1833, 7530, 5661 and the NLM, RQUOTA and NSM definitions) and not from  *)
(* the client's methods: which procedure a triple of numbers names, which  *)
(* operation of a COMPOUND an opcode, the grammar of its arguments and of  *)
(* its results, and what it does; then what a method of the client         *)
(* promises to do.  The same effect is meant whichever version carries it: *)
(* <<"rename", from directory, name, to directory, name>>.                 *)
(***************************************************************************)
EXTENDS Procedures, Compound

-----------------------------------------------------------------------------
(* Programs with one procedure per call. *)

Proc(name, args, res) == [name |-> name, args |-> args, res |-> res]

Served ==
    (<<3, 3, 0>> :> Proc("null", Void, Void))
    @@ (<<3, 3, 1>> :> Proc("getattr", NfsFh3, Nfs3Result(Fattr3)))
    @@ (<<3, 3, 2>> :> Proc("setattr", SetattrArgs, Nfs3Result(WccData)))
    @@ (<<3, 3, 3>> :> Proc("lookup", DirOpArgs3, Nfs3Result(LookupOk)))
    @@ (<<3, 3, 4>> :> Proc("access", AccessArgs, Nfs3Result(AccessOk)))
    @@ (<<3, 3, 5>> :> Proc("readlink", NfsFh3, Nfs3Result(ReadlinkOk)))
    @@ (<<3, 3, 6>> :> Proc("read", ReadArgs, Nfs3Result(ReadOk)))
    @@ (<<3, 3, 7>> :> Proc("write", WriteArgs, Nfs3Result(WriteOk)))
    @@ (<<3, 3, 8>> :> Proc("create", CreateArgs, Nfs3Result(CreateOk)))
    @@ (<<3, 3, 9>> :> Proc("mkdir", MkdirArgs, Nfs3Result(CreateOk)))
    @@ (<<3, 3, 10>> :> Proc("symlink", SymlinkArgs, Nfs3Result(CreateOk)))
    @@ (<<3, 3, 11>> :> Proc("mknod", MknodArgs, Nfs3Result(CreateOk)))
    @@ (<<3, 3, 12>> :> Proc("remove", DirOpArgs3, Nfs3Result(WccData)))
    @@ (<<3, 3, 13>> :> Proc("rmdir", DirOpArgs3, Nfs3Result(WccData)))
    @@ (<<3, 3, 14>> :> Proc("rename", RenameArgs, Nfs3Result(RenameOk)))
    @@ (<<3, 3, 15>> :> Proc("link", LinkArgs, Nfs3Result(LinkOk)))
    @@ (<<3, 3, 16>> :> Proc("readdir", ReaddirArgs, Nfs3Result(ReaddirOk)))
    @@ (<<3, 3, 17>> :> Proc("readdirplus", ReaddirplusArgs, Nfs3Result(ReaddirplusOk)))
    @@ (<<3, 3, 18>> :> Proc("fsstat", NfsFh3, Nfs3Result(FsstatOk)))
    @@ (<<3, 3, 19>> :> Proc("fsinfo", NfsFh3, Nfs3Result(FsinfoOk)))
    @@ (<<3, 3, 20>> :> Proc("pathconf", NfsFh3, Nfs3Result(PathconfOk)))
    @@ (<<3, 3, 21>> :> Proc("commit", CommitArgs, Nfs3Result(CommitOk)))
    @@ (<<5, 3, 1>> :> Proc("mnt", String, Mountres3))
    @@ (<<5, 3, 2>> :> Proc("dump", Void, MountList))
    @@ (<<5, 3, 3>> :> Proc("umnt", String, Void))
    @@ (<<5, 3, 5>> :> Proc("export", Void, ExportList))
    @@ (<<0, 2, 3>> :> Proc("getport", Mapping, U32))
    @@ (<<0, 2, 4>> :> Proc("pmap_dump", Void, PortmapList))
    @@ (<<21, 4, 1>> :> Proc("test", Nlm4TestArgs, TestResult))
    @@ (<<21, 4, 2>> :> Proc("lock", Nlm4LockArgs, Nlm4Res))
    @@ (<<21, 4, 3>> :> Proc("cancel", Nlm4CancelArgs, Nlm4Res))
    @@ (<<21, 4, 4>> :> Proc("unlock", Nlm4UnlockArgs, Nlm4Res))
    @@ (<<11, 1, 1>> :> Proc("getquota", GetquotaArgs, GetquotaResult))
    @@ (<<11, 1, 2>> :> Proc("getactivequota", GetquotaArgs, GetquotaResult))
    @@ (<<24, 1, 1>> :> Proc("stat", SmName, SmStatRes))
    @@ (<<24, 1, 2>> :> Proc("mon", MonArgs, SmStatRes))
    @@ (<<24, 1, 3>> :> Proc("unmon", MonId, SmStat))

-----------------------------------------------------------------------------
(* COMPOUND: the arguments and results of every operation, by its opcode.    *)

Each(types) == [i \in DOMAIN types |-> Plain(types[i])]
One(type) == <<Plain(type)>>
Fattr == Fields(<<Bitmap4, Opaque>>)
Owner == Fields(<<U64, Opaque>>)
ChannelAttrs4 == Fields(<<U32, U32, U32, U32, U32, U32, Vec(U32)>>)
CreateType == Union((1 :> <<>>) @@ (2 :> <<>>) @@ (5 :> One(String)) @@ (6 :> <<>>) @@ (7 :> <<>>))
CreateHow == Union((0 :> One(Fattr)) @@ (1 :> One(Fattr)) @@ (2 :> One(Fixed(8))))
OpenFlag == Union((0 :> <<>>) @@ (1 :> One(CreateHow)))
Claim == Union((0 :> One(String)) @@ (1 :> One(U32)))
OpenToLockOwner == Each(<<U32, Stateid4, U32, Owner>>)
Locker == Union((0 :> Each(<<Stateid4, U32>>)) @@ (1 :> OpenToLockOwner))
Delegation == Union((0 :> <<>>) @@ (1 :> Each(<<Stateid4, Bool, U32, U32, U32, String>>)))
SecParms == Union((0 :> <<>>) @@ (1 :> Each(<<U32, String, U32, U32, Vec(U32)>>)))
Denied4 == Each(<<U64, U64, U32, Owner>>)

ArgOp4 == Union(
    (3 :> One(U32)) @@ (4 :> Each(<<U32, Stateid4>>)) @@ (5 :> Each(<<U64, U32>>))
    @@ (6 :> Each(<<CreateType, String, Fattr>>)) @@ (9 :> One(Bitmap4)) @@ (10 :> <<>>)
    @@ (11 :> One(String)) @@ (12 :> Each(<<Enum32(1 .. 4), Bool, U64, U64, Locker>>))
    @@ (13 :> Each(<<Enum32(1 .. 4), U64, U64, Owner>>))
    @@ (14 :> Each(<<Enum32(1 .. 4), U32, Stateid4, U64, U64>>)) @@ (15 :> One(String))
    @@ (18 :> Each(<<U32, U32, U32, Owner, OpenFlag, Claim>>))
    @@ (20 :> Each(<<Stateid4, U32>>)) @@ (22 :> One(NfsFh4)) @@ (24 :> <<>>)
    @@ (25 :> Each(<<Stateid4, U64, U32>>)) @@ (26 :> Each(<<U64, Fixed(8), U32, U32, Bitmap4>>))
    @@ (27 :> <<>>) @@ (28 :> One(String)) @@ (29 :> Each(<<String, String>>)) @@ (30 :> One(U64))
    @@ (32 :> <<>>) @@ (34 :> Each(<<Stateid4, Fattr>>))
    @@ (35 :> Each(<<Fixed(8), Opaque, U32, String, String, U32>>))
    @@ (36 :> Each(<<U64, Fixed(8)>>)) @@ (38 :> Each(<<Stateid4, U64, U32, Opaque>>))
    @@ (42 :> Each(<<Fixed(8), Opaque, U32, Union(0 :> <<>>), Vec(Void)>>))
    @@ (43 :> Each(<<U64, U32, U32, ChannelAttrs4, ChannelAttrs4, U32, Vec(SecParms)>>))
    @@ (44 :> One(Fixed(16))) @@ (53 :> Each(<<Fixed(16), U32, U32, U32, Bool>>))
    @@ (58 :> One(Bool)))

Compound4args == Fields(<<String, U32, Vec(ArgOp4)>>)

(* The fields of a result with status NFS4_OK; a denied lock is described.   *)
OkOf4 ==
    (3 :> <<U32, U32>>) @@ (4 :> <<Stateid4>>) @@ (5 :> <<Fixed(8)>>)
    @@ (6 :> <<ChangeInfo4, Bitmap4>>) @@ (9 :> <<Fattr>>) @@ (10 :> <<NfsFh4>>)
    @@ (11 :> <<ChangeInfo4>>) @@ (12 :> <<Stateid4>>) @@ (13 :> <<>>) @@ (14 :> <<Stateid4>>)
    @@ (15 :> <<>>) @@ (18 :> <<Stateid4, ChangeInfo4, U32, Bitmap4, Delegation>>)
    @@ (20 :> <<Stateid4>>) @@ (22 :> <<>>) @@ (24 :> <<>>) @@ (25 :> <<Bool, Opaque>>)
    @@ (26 :> <<Fixed(8), List(Fields(<<U64, String, Fattr>>)), Bool>>) @@ (27 :> <<String>>)
    @@ (28 :> <<ChangeInfo4>>) @@ (29 :> <<ChangeInfo4, ChangeInfo4>>) @@ (30 :> <<>>)
    @@ (32 :> <<>>) @@ (34 :> <<Bitmap4>>) @@ (35 :> <<U64, Fixed(8)>>) @@ (36 :> <<>>)
    @@ (38 :> <<U32, U32, Fixed(8)>>)
    @@ (42 :> <<U64, U32, U32, Union(0 :> <<>>), U64, Opaque, Opaque,
                Vec(Fields(<<String, String, Nfstime4>>))>>)
    @@ (43 :> <<Fixed(16), U32, U32, ChannelAttrs4, ChannelAttrs4>>) @@ (44 :> <<>>)
    @@ (53 :> <<Fixed(16), U32, U32, U32, U32, U32>>) @@ (58 :> <<>>)

ResOp4 ==
    Union([code \in DOMAIN OkOf4 |->
        One(Switch((0 :> Each(OkOf4[code]))
                   @@ (IF code \in {12, 13} THEN NFS4ERR_DENIED :> Denied4 ELSE <<>>)))])

Compound4res == Fields(<<U32, String, Vec(ResOp4)>>)

Named4(bitmap) == {b \in 0 .. Len(bitmap) * WordBits - 1 : bit_set(bitmap, b)}

-----------------------------------------------------------------------------
(* What a request means.  Attributes to set: one optional value for each.    *)

NoChange == [mode |-> <<>>, uid |-> <<>>, gid |-> <<>>, size |-> <<>>, atime |-> <<>>,
             mtime |-> <<>>]

Changes3(sattr) ==
    LET time(t) == IF t[1] = 2 THEN t[2] ELSE <<>>
    IN [mode |-> sattr[1], uid |-> sattr[2], gid |-> sattr[3], size |-> sattr[4],
        atime |-> time(sattr[5]), mtime |-> time(sattr[6])]

SizeAndMode(attrs) ==
    LET opt(b) == IF b \in DOMAIN attrs THEN <<attrs[b]>> ELSE <<>>
    IN [NoChange EXCEPT !.size = opt(4), !.mode = opt(33)]
Changes4(fattr) == SizeAndMode(decode_fattr4(fattr[1], fattr[2]).value)

(* One procedure: v is the value of its arguments. *)
Effect3(name, v) ==
    CASE name \in {"getattr", "readlink", "fsstat", "fsinfo", "pathconf"} -> <<name, v[1]>>
      [] name = "setattr" -> <<name, v[1][1], Changes3(v[2]), v[3]>>
      [] name \in {"lookup", "remove", "rmdir"} -> <<name, v[1][1], v[2]>>
      [] name \in {"access", "read", "commit", "readdir", "readdirplus"} ->
             <<name, v[1][1]>> \o Tail(v)
      [] name = "write" -> <<name, v[1][1], v[2], v[4], Take(v[5], v[3])>>
      [] name \in {"create", "mknod"} -> <<name, v[1][1][1], v[1][2], v[2]>>
      [] name = "mkdir" -> <<name, v[1][1][1], v[1][2], Changes3(v[2])>>
      [] name = "symlink" -> <<name, v[1][1][1], v[1][2], v[2][2], Changes3(v[2][1])>>
      [] name = "rename" -> <<name, v[1][1][1], v[1][2], v[2][1][1], v[2][2]>>
      [] name = "link" -> <<name, v[1][1], v[2][1][1], v[2][2]>>
      [] OTHER -> <<name, v>>

(* How OPEN creates: not, or the attributes to set (UNCHECKED4). *)
Created(flag) == IF flag[1] = 0 THEN <<>> ELSE <<Changes4(flag[2][1][2][1])>>

(* Operations of a COMPOUND act on the current and the saved file handle;    *)
(* Named is the object that the operation before has looked up or created.   *)
Root == <<-1>>
Named == <<-2>>

Effect4(code, f, cur, saved) ==
    CASE code = 3 -> <<"access", cur, f[1]>>
      [] code = 4 -> <<"close", cur, f[1], f[2]>>
      [] code = 5 -> <<"commit", cur, f[1], f[2]>>
      [] code = 6 /\ f[1][1] = 2 -> <<"mkdir", cur, f[2], Changes4(f[3])>>
      [] code = 6 /\ f[1][1] = 5 -> <<"symlink", cur, f[2], f[1][2][1], Changes4(f[3])>>
      [] code = 9 -> <<"getattr", cur, Named4(f[1])>>
      [] code = 10 -> <<"getfh", cur>>
      [] code = 11 -> <<"link", saved, cur, f[1]>>
      [] code = 12 -> <<"lock", cur, f[1], f[3], f[4], f[5][2]>>
      [] code = 13 -> <<"test", cur, f[1], f[2], f[3], f[4]>>
      [] code = 14 -> <<"unlock", cur, f[1], f[4], f[5], f[3], f[2]>>
      [] code = 15 -> <<"lookup", cur, f[1]>>
      [] code = 18 -> <<"open", cur, f[6][2][1], f[1], f[2], f[4], Created(f[5])>>
      [] code = 25 -> <<"read", cur, f[2], f[3], f[1]>>
      [] code = 26 -> <<"readdirplus", cur, f[1], f[2], f[3], f[4], Named4(f[5])>>
      [] code = 27 -> <<"readlink", cur>>
      [] code = 28 -> <<"remove", cur, f[1]>>
      [] code = 29 -> <<"rename", saved, f[1], cur, f[2]>>
      [] code = 34 -> <<"setattr", cur, Changes4(f[2]), f[1]>>
      [] code = 38 -> <<"write", cur, f[2], f[3], f[4], f[1]>>
      [] OTHER -> <<"other", cur, code, f>>

Executed(ops4) ==
    FoldLeft(LAMBDA s, op :
        LET code == op[1] IN
        CASE code = 22 -> [s EXCEPT !.cur = op[2][1][1]]
          [] code = 24 -> [s EXCEPT !.cur = Root]
          [] code = 32 -> [s EXCEPT !.saved = s.cur]
          [] OTHER -> [s EXCEPT !.acts = Append(@, Effect4(code, op[2], s.cur, s.saved)),
                                !.cur = IF code \in {6, 15, 18} THEN Named ELSE @],
        [cur |-> <<>>, saved |-> <<>>, acts |-> <<>>], ops4).acts

-----------------------------------------------------------------------------
(* What the methods of the client promise, for their arguments `a`.          *)

(* A time of NFSv3 has 32 bits of seconds. *)
Wished3(attrs) ==
    LET time(t) == [i \in DOMAIN t |-> <<t[i][1] % (MaxU32 + 1), t[i][2]>>]
    IN [attrs EXCEPT !.atime = time(@), !.mtime = time(@)]

Lock4(a) == <<a.name, a.fh, a.owner, a.seqid, a.offset, a.length>>
Myself(a) == <<a.toname, a.mask, a.count, a.seqid>>

Meant3(m, a) ==
    CASE m \in {"getattr", "readlink", "fsstat", "fsinfo", "pathconf"} -> <<m, a.fh>>
      [] m = "setattr" -> <<m, a.fh, Wished3(a.attrs), a.guard>>
      [] m \in {"lookup", "remove", "rmdir"} -> <<m, a.dir, a.name>>
      [] m = "access" -> <<m, a.fh, a.mask>>
      [] m \in {"read", "commit"} -> <<m, a.fh, a.offset, a.count>>
      [] m = "write" -> <<m, a.fh, a.offset, a.stable, a.data>>
      [] m = "create" -> <<m, a.dir, a.name, a.how>>
      [] m = "mknod" -> <<m, a.dir, a.name, a.node>>
      [] m = "mkdir" -> <<m, a.dir, a.name, Wished3(a.attrs)>>
      [] m = "symlink" -> <<m, a.dir, a.name, a.target, Wished3(a.attrs)>>
      [] m = "rename" -> <<m, a.dir, a.name, a.todir, a.toname>>
      [] m = "link" -> <<m, a.fh, a.dir, a.name>>
      [] m = "readdir" -> <<m, a.dir, a.offset, a.verf, a.count>>
      [] m = "readdirplus" -> <<m, a.dir, a.offset, a.verf, a.mask, a.count>>
      [] m \in {"mnt", "umnt"} -> <<m, a.name>>
      [] m = "getport" -> <<m, <<a.mask, a.count, 6, 0>>>>       \* over TCP
      [] m = "test" -> <<m, <<Zeros(4), a.flag, Lock4(a)>>>>
      [] m = "lock" -> <<m, <<Zeros(4), FALSE, a.flag, Lock4(a), FALSE, 0>>>>
      [] m = "cancel" -> <<m, <<Zeros(4), FALSE, a.flag, Lock4(a)>>>>
      [] m = "unlock" -> <<m, <<Zeros(4), Lock4(a)>>>>
      [] m \in {"getquota", "getactivequota"} -> <<m, <<a.name, a.mask>>>>
      [] m = "stat" -> <<m, <<a.name>>>>
      [] m = "mon" -> <<m, <<<<a.name, Myself(a)>>, a.session.sessionid>>>>
      [] m = "unmon" -> <<m, <<a.name, Myself(a)>>>>
      [] OTHER -> <<m, <<>>>>

LockKind(a) == IF a.flag THEN 2 ELSE 1          \* WRITE_LT, READ_LT
Anonymous == <<0, Zeros(12)>>
Found == <<"getfh", Named>>
Mine(a) == <<a.clientid, a.owner>>
Session4(a) == <<"other", <<>>, 53, <<a.session.sessionid, a.session.seq_id, 0, 0, FALSE>>>>
Channel4 == <<0, MiB, MiB, 0, 8, 1, <<>>>>

Meant4(m, a) ==
    CASE m = "root_fh" -> <<<<"getfh", Root>>>>
      [] m = "getattr" -> <<<<"getattr", a.fh, REQUEST_ATTRS>>>>
      [] m = "statvfs" -> <<<<"getattr", a.fh, STATVFS_ATTRS>>>>
      [] m = "lookup" -> <<<<"lookup", a.dir, a.name>>, Found, <<"getattr", Named, REQUEST_ATTRS>>>>
      [] m = "access" -> <<<<m, a.fh, a.mask>>>>
      [] m = "readlink" -> <<<<m, a.fh>>>>
      [] m = "open" -> <<<<m, a.dir, a.name, a.seqid, a.mask, Mine(a),
                           IF a.flag THEN <<NoChange>> ELSE <<>>>>, Found>>
      [] m = "open_confirm" -> <<<<"other", a.fh, 20, <<a.stateid, a.seqid>>>>>>
      [] m = "close" -> <<<<m, a.fh, a.seqid, a.stateid>>>>
      [] m = "lock" -> <<<<m, a.fh, LockKind(a), a.offset, a.length,
                           <<a.seqid, a.stateid, 0, Mine(a)>>>>>>
      [] m = "unlock" -> <<<<m, a.fh, LockKind(a), a.offset, a.length, a.stateid, 1>>>>
      [] m = "test_lock" -> <<<<"test", a.fh, LockKind(a), a.offset, a.length, Mine(a)>>>>
      [] m = "read" -> <<<<m, a.fh, a.offset, a.count, a.stateid>>>>
      [] m = "write" -> <<<<m, a.fh, a.offset, a.stable, a.data, a.stateid>>>>
      [] m = "commit" -> <<<<m, a.fh, a.offset, a.count>>>>
      [] m = "setattr" -> <<<<m, a.fh, [NoChange EXCEPT !.mode = a.attrs.mode,
                                                        !.size = a.attrs.size], Anonymous>>>>
      [] m = "mkdir" -> <<<<m, a.dir, a.name, NoChange>>, Found>>
      [] m = "symlink" -> <<<<m, a.dir, a.name, a.target, NoChange>>, Found>>
      [] m = "remove" -> <<<<m, a.dir, a.name>>>>
      [] m = "link" -> <<<<m, a.fh, a.dir, a.name>>>>
      [] m = "rename" -> <<<<m, a.dir, a.name, a.todir, a.toname>>>>
      [] m = "readdir" -> <<<<"readdirplus", a.dir, a.offset, a.verf, a.count \div 2, a.count,
                              REQUEST_ATTRS>>>>
      [] m = "setclientid" -> <<<<"other", <<>>, 35, <<a.verf, a.owner, 0, <<>>, <<>>, 0>>>>>>
      [] m = "setclientid_confirm" -> <<<<"other", <<>>, 36, <<a.clientid, a.verf>>>>>>
      [] m = "renew" -> <<<<"other", <<>>, 30, <<a.clientid>>>>>>
      [] m = "exchange_id" -> <<<<"other", <<>>, 42, <<a.verf, a.owner, 0, <<0, <<>>>>, <<>>>>>>>>
      [] m = "create_session" ->
             <<<<"other", <<>>, 43, <<a.clientid, a.seqid, 0, Channel4, Channel4, 0,
                                      <<<<0, <<>>>>>>>>>>>>
      [] m = "destroy_session" -> <<<<"other", <<>>, 44, <<a.session.sessionid>>>>>>
      [] m = "reclaim_complete" -> <<<<"other", <<>>, 58, <<FALSE>>>>>>

(* The failure that a status stands for, in both versions. *)
Meaning ==
    (1 :> "PermissionDenied") @@ (2 :> "NotFound") @@ (13 :> "PermissionDenied")
    @@ (17 :> "AlreadyExists") @@ (20 :> "NotADirectory") @@ (21 :> "IsADirectory")
    @@ (22 :> "InvalidArgument") @@ (28 :> "NoSpace") @@ (30 :> "ReadOnly")
    @@ (63 :> "NameTooLong") @@ (66 :> "NotEmpty") @@ (70 :> "Stale")
    @@ (NFS4ERR_DENIED :> "Locked")
=============================================================================
