----------------------------- MODULE Procedures -----------------------------
(***************************************************************************)
(* The procedures of NFSv3, MOUNT, PORTMAP, NLM, RQUOTA and NSM as the     *)
(* functions of nfs-proto call them: the numbers, the arguments that each  *)
(* function builds from its parameters (the record `a`), the type it       *)
(* decodes the reply with, and how it turns the decoded reply into Ok or   *)
(* Err.  A program has its number less 100000.                             *)
(***************************************************************************)
EXTENDS WireTypes

CONSTANT PortSpace   \* 2^16

ASSUME PortAssumption == PortSpace \in Nat \ {0}

-----------------------------------------------------------------------------
(* nsm.rs: types. *)

MyId == Fields(<<String, U32, U32, U32>>)
MonId == Fields(<<String, MyId>>)
MonArgs == Fields(<<MonId, Fixed(16)>>)
SmName == Fields(<<String>>)
SmStatRes == Fields(<<U32, U32>>)
SmStat == Fields(<<U32>>)

-----------------------------------------------------------------------------
(* A call: its numbers, its arguments, the type of the reply, and the error *)
(* that a status other than `ok` becomes ("" when there is no status).      *)

Call(num, args, value, reply, err, ok) ==
    [num |-> num, args |-> args, value |-> value, reply |-> reply, err |-> err, ok |-> ok]

nfs3(proc, args, value, ok) == Call(<<3, 3, proc>>, args, value, Nfs3Result(ok), "Nfs3", 0)

v3_null(a) == Call(<<3, 3, 0>>, Void, <<>>, Void, "", 0)
v3_getattr(a) == nfs3(1, NfsFh3, <<a.fh>>, Fattr3)
v3_setattr(a) == nfs3(2, SetattrArgs, <<<<a.fh>>, a.sattr, a.guard>>, WccData)
v3_lookup(a) == nfs3(3, DirOpArgs3, <<<<a.dir>>, a.name>>, LookupOk)
v3_access(a) == nfs3(4, AccessArgs, <<<<a.fh>>, a.mask>>, AccessOk)
v3_readlink(a) == nfs3(5, NfsFh3, <<a.fh>>, ReadlinkOk)
v3_read(a) == nfs3(6, ReadArgs, <<<<a.fh>>, a.offset, a.count>>, ReadOk)
v3_write(a) == nfs3(7, WriteArgs, <<<<a.fh>>, a.offset, Len(a.data), a.stable, a.data>>, WriteOk)
v3_create(a) == nfs3(8, CreateArgs, <<<<<<a.dir>>, a.name>>, a.how>>, CreateOk)
v3_mkdir(a) == nfs3(9, MkdirArgs, <<<<<<a.dir>>, a.name>>, a.sattr>>, CreateOk)
v3_symlink(a) ==
    nfs3(10, SymlinkArgs, <<<<<<a.dir>>, a.name>>, <<a.sattr, a.target>>>>, CreateOk)
v3_mknod(a) == nfs3(11, MknodArgs, <<<<<<a.dir>>, a.name>>, a.node>>, CreateOk)
v3_remove(a) == nfs3(12, DirOpArgs3, <<<<a.dir>>, a.name>>, WccData)
v3_rmdir(a) == nfs3(13, DirOpArgs3, <<<<a.dir>>, a.name>>, WccData)
v3_rename(a) ==
    nfs3(14, RenameArgs, <<<<<<a.dir>>, a.name>>, <<<<a.todir>>, a.toname>>>>, RenameOk)
v3_link(a) == nfs3(15, LinkArgs, <<<<a.fh>>, <<<<a.dir>>, a.name>>>>, LinkOk)
v3_readdir(a) == nfs3(16, ReaddirArgs, <<<<a.dir>>, a.offset, a.verf, a.count>>, ReaddirOk)
v3_readdirplus(a) ==
    nfs3(17, ReaddirplusArgs, <<<<a.dir>>, a.offset, a.verf, a.mask, a.count>>, ReaddirplusOk)
v3_fsstat(a) == nfs3(18, NfsFh3, <<a.fh>>, FsstatOk)
v3_fsinfo(a) == nfs3(19, NfsFh3, <<a.fh>>, FsinfoOk)
v3_pathconf(a) == nfs3(20, NfsFh3, <<a.fh>>, PathconfOk)
v3_commit(a) == nfs3(21, CommitArgs, <<<<a.fh>>, a.offset, a.count>>, CommitOk)

mount_mnt(a) == Call(<<5, 3, 1>>, String, a.name, Mountres3, "Mount", 0)
mount_dump(a) == Call(<<5, 3, 2>>, Void, <<>>, MountList, "", 0)
mount_umnt(a) == Call(<<5, 3, 3>>, String, a.name, Void, "", 0)
mount_export(a) == Call(<<5, 3, 5>>, Void, <<>>, ExportList, "", 0)

pmap_getport(a) == Call(<<0, 2, 3>>, Mapping, <<a.mask, a.count, 6, 0>>, U32, "Port", 0)
pmap_dump(a) == Call(<<0, 2, 4>>, Void, <<>>, PortmapList, "", 0)

cookie == <<0, 0, 0, 0>>
nlm4_lock(a) == <<a.name, a.fh, a.owner, a.seqid, a.offset, a.length>>
nlm(proc, args, value) == Call(<<21, 4, proc>>, args, value, Nlm4Res, "Nlm", 0)

nlm_test(a) == Call(<<21, 4, 1>>, Nlm4TestArgs, <<cookie, a.flag, nlm4_lock(a)>>, TestResult, "", 0)
nlm_lock(a) == nlm(2, Nlm4LockArgs, <<cookie, FALSE, a.flag, nlm4_lock(a), FALSE, 0>>)
nlm_cancel(a) == nlm(3, Nlm4CancelArgs, <<cookie, FALSE, a.flag, nlm4_lock(a)>>)
nlm_unlock(a) == nlm(4, Nlm4UnlockArgs, <<cookie, nlm4_lock(a)>>)

quota_get(a) == Call(<<11, 1, 1>>, GetquotaArgs, <<a.name, a.mask>>, GetquotaResult, "Rquota", 1)
quota_active(a) ==
    Call(<<11, 1, 2>>, GetquotaArgs, <<a.name, a.mask>>, GetquotaResult, "Rquota", 1)

my_id(a) == <<a.toname, a.mask, a.count, a.seqid>>
nsm_stat(a) == Call(<<24, 1, 1>>, SmName, <<a.name>>, SmStatRes, "", 0)
nsm_mon(a) ==
  Call(<<24, 1, 2>>, MonArgs, <<<<a.name, my_id(a)>>, a.session.sessionid>>, SmStatRes, "", 0)
nsm_unmon(a) == Call(<<24, 1, 3>>, MonId, <<a.name, my_id(a)>>, SmStat, "", 0)

Called(a) ==
    [ null |-> v3_null(a), getattr |-> v3_getattr(a), setattr |-> v3_setattr(a),
      lookup |-> v3_lookup(a), access |-> v3_access(a), readlink |-> v3_readlink(a),
      read |-> v3_read(a), write |-> v3_write(a), create |-> v3_create(a),
      mkdir |-> v3_mkdir(a), symlink |-> v3_symlink(a), mknod |-> v3_mknod(a),
      remove |-> v3_remove(a), rmdir |-> v3_rmdir(a), rename |-> v3_rename(a),
      link |-> v3_link(a), readdir |-> v3_readdir(a), readdirplus |-> v3_readdirplus(a),
      fsstat |-> v3_fsstat(a), fsinfo |-> v3_fsinfo(a), pathconf |-> v3_pathconf(a),
      commit |-> v3_commit(a), mnt |-> mount_mnt(a), dump |-> mount_dump(a),
      umnt |-> mount_umnt(a), export |-> mount_export(a), getport |-> pmap_getport(a),
      pmap_dump |-> pmap_dump(a), test |-> nlm_test(a), lock |-> nlm_lock(a),
      cancel |-> nlm_cancel(a), unlock |-> nlm_unlock(a), getquota |-> quota_get(a),
      getactivequota |-> quota_active(a), stat |-> nsm_stat(a), mon |-> nsm_mon(a),
      unmon |-> nsm_unmon(a) ]

-----------------------------------------------------------------------------
(* into_result, stat_to_result, and the matches of mnt, getquota, getport.   *)

StatusOf(call, v) == IF call.err = "Nlm" THEN v[2] ELSE v[1]

into_result_Lenient(call, v) ==
    CASE call.err = "" -> Done(v, <<>>)
      [] call.err = "Port" -> IF v = 0 THEN Fail("PortNotRegistered") ELSE Done(v % PortSpace, <<>>)
      [] call.err = "Nlm" -> Done(<<>>, <<>>)
      [] OTHER -> IF v[1] = call.ok THEN Done(v[2], <<>>)
                  ELSE [err |-> call.err, value |-> v[1], rest |-> <<>>]

into_result(call, v) ==
    CASE call.err = "" -> Done(v, <<>>)
      [] call.err = "Port" -> IF v = 0 THEN Fail("PortNotRegistered") ELSE Done(v % PortSpace, <<>>)
      [] OTHER -> IF StatusOf(call, v) # call.ok
                  THEN [err |-> call.err, value |-> StatusOf(call, v), rest |-> <<>>]
                  ELSE IF call.err = "Nlm" THEN Done(<<>>, <<>>) ELSE Done(v[2], <<>>)

(* rpc.call decodes the reply and drops what is left of the record. *)
returned(call, body) == AndThen(Decode(call.reply, body), LAMBDA v, rest : into_result(call, v))
=============================================================================
