----------------------------- MODULE WireTypes -----------------------------
(***************************************************************************)
(* The arguments and results of the NFSv3, MOUNT, PORTMAP, NLM and RQUOTA  *)
(* procedures (nfs-proto) and the AUTH_SYS credential (nfs-rpc), as        *)
(* schemas of Xdr.  The limits of the attributes are constants, scaled     *)
(* down with the byte: 64 for a file handle, 255 for the machine name, 16  *)
(* for the supplementary groups.                                           *)
(***************************************************************************)
EXTENDS Xdr

CONSTANTS FhLimit, NameLimit, GidsLimit

ASSUME LimitsAssumption == {FhLimit, NameLimit, GidsLimit} \subseteq Nat

-----------------------------------------------------------------------------
(* nfs3.rs: base types. *)

Nfstime3 == Fields(<<U32, U32>>)
Specdata3 == Fields(<<U32, U32>>)
Fattr3 == Fields(<<U32, U32, U32, U32, U32, U64, U64, Specdata3, U64, U64,
                   Nfstime3, Nfstime3, Nfstime3>>)
NfsFh3 == Struct(<<Limited(Opaque, FhLimit)>>)
WccAttr == Fields(<<U64, Nfstime3, Nfstime3>>)
WccData == Fields(<<Option(WccAttr), Option(Fattr3)>>)
SetTime == Union((0 :> <<>>) @@ (1 :> <<>>) @@ (2 :> <<Plain(Nfstime3)>>))
Sattr3 == Fields(<<Option(U32), Option(U32), Option(U32), Option(U64), SetTime, SetTime>>)

(* A status other than NFS3_OK keeps only the status. *)
Nfs3Result(t) == Switch(0 :> <<Plain(t)>>)

-----------------------------------------------------------------------------
(* nfs3.rs: arguments and results of the procedures. *)

DirOpArgs3 == Fields(<<NfsFh3, String>>)
LookupOk == Fields(<<NfsFh3, Option(Fattr3), Option(Fattr3)>>)
AccessArgs == Fields(<<NfsFh3, U32>>)
AccessOk == Fields(<<Option(Fattr3), U32>>)
ReadlinkOk == Fields(<<Option(Fattr3), String>>)
ReadArgs == Fields(<<NfsFh3, U64, U32>>)
ReadOk == Fields(<<Option(Fattr3), U32, Bool, Opaque>>)
WriteArgs == Fields(<<NfsFh3, U64, U32, U32, Opaque>>)
WriteOk == Fields(<<WccData, U32, U32, Fixed(8)>>)
CreateHow3 == Union((0 :> <<Plain(Sattr3)>>) @@ (1 :> <<Plain(Sattr3)>>)
                    @@ (2 :> <<Plain(Fixed(8))>>))
CreateArgs == Fields(<<DirOpArgs3, CreateHow3>>)
CreateOk == Fields(<<Option(NfsFh3), Option(Fattr3), WccData>>)
MkdirArgs == Fields(<<DirOpArgs3, Sattr3>>)
SymlinkData3 == Fields(<<Sattr3, String>>)
SymlinkArgs == Fields(<<DirOpArgs3, SymlinkData3>>)
DeviceData3 == Fields(<<Sattr3, Specdata3>>)
MknodData3 == Union((3 :> <<Plain(DeviceData3)>>) @@ (4 :> <<Plain(DeviceData3)>>)
                    @@ (6 :> <<Plain(Sattr3)>>) @@ (7 :> <<Plain(Sattr3)>>))
MknodArgs == Fields(<<DirOpArgs3, MknodData3>>)
SetattrArgs == Fields(<<NfsFh3, Sattr3, Option(Nfstime3)>>)
RenameArgs == Fields(<<DirOpArgs3, DirOpArgs3>>)
RenameOk == Fields(<<WccData, WccData>>)
LinkArgs == Fields(<<NfsFh3, DirOpArgs3>>)
LinkOk == Fields(<<Option(Fattr3), WccData>>)
ReaddirArgs == Fields(<<NfsFh3, U64, Fixed(8), U32>>)
Entry3 == Fields(<<U64, String, U64>>)
ReaddirOk == Fields(<<Option(Fattr3), Fixed(8), List(Entry3), Bool>>)
ReaddirplusArgs == Fields(<<NfsFh3, U64, Fixed(8), U32, U32>>)
EntryPlus3 == Fields(<<U64, String, U64, Option(Fattr3), Option(NfsFh3)>>)
ReaddirplusOk == Fields(<<Option(Fattr3), Fixed(8), List(EntryPlus3), Bool>>)
FsstatOk == Fields(<<Option(Fattr3), U64, U64, U64, U64, U64, U64, U32>>)
FsinfoOk == Fields(<<Option(Fattr3), U32, U32, U32, U32, U32, U32, U32, U64, Nfstime3, U32>>)
PathconfOk == Fields(<<Option(Fattr3), U32, U32, Bool, Bool, Bool, Bool>>)
CommitArgs == Fields(<<NfsFh3, U64, U32>>)
CommitOk == Fields(<<WccData, Fixed(8)>>)

-----------------------------------------------------------------------------
(* mount.rs, portmap.rs, nlm.rs, rquota.rs, auth.rs. *)

Mountres3 == Switch(0 :> <<Plain(Bounded(FhLimit)), Plain(Vec(U32))>>)
ExportNode == Fields(<<String, List(String)>>)
ExportList == List(ExportNode)
MountList == List(Fields(<<String, String>>))

Mapping == Fields(<<U32, U32, U32, U32>>)
PortmapList == List(Mapping)

Nlm4Lock == Fields(<<String, Opaque, Opaque, U32, U64, U64>>)
Nlm4LockArgs == Fields(<<Opaque, Bool, Bool, Nlm4Lock, Bool, U32>>)
Nlm4UnlockArgs == Fields(<<Opaque, Nlm4Lock>>)
Nlm4CancelArgs == Fields(<<Opaque, Bool, Bool, Nlm4Lock>>)
Nlm4TestArgs == Fields(<<Opaque, Bool, Nlm4Lock>>)
Nlm4Res == Fields(<<Opaque, U32>>)
TestResult == Fields(<<Opaque, Switch(1 :> [i \in 1 .. 5 |->
                  Plain(<<Bool, U32, Opaque, U64, U64>>[i])])>>)

GetquotaArgs == Fields(<<String, U32>>)
Rquota == Fields(<<U32, Bool, U32, U32, U32, U32, U32, U32, U32, U32>>)
GetquotaResult == Switch(1 :> <<Plain(Rquota)>>)   \* Q_OK is 1

AuthSysParams == Struct(<<Plain(U32), Limited(String, NameLimit), Plain(U32), Plain(U32),
                          Limited(Vec(U32), GidsLimit)>>)

(* One schema for every message body the client writes or reads. *)
Schemas ==
    [ access |-> AccessArgs, access_ok |-> Nfs3Result(AccessOk),
      auth_sys |-> AuthSysParams, commit |-> CommitArgs, commit_ok |-> Nfs3Result(CommitOk),
      create |-> CreateArgs, create_ok |-> Nfs3Result(CreateOk), diropargs |-> DirOpArgs3,
      exports |-> ExportList, fsinfo_ok |-> Nfs3Result(FsinfoOk),
      fsstat_ok |-> Nfs3Result(FsstatOk), getattr |-> NfsFh3,
      getattr_ok |-> Nfs3Result(Fattr3), getport |-> Mapping, link |-> LinkArgs,
      link_ok |-> Nfs3Result(LinkOk), lookup_ok |-> Nfs3Result(LookupOk),
      mkdir |-> MkdirArgs, mknod |-> MknodArgs, mnt |-> String, mnt_ok |-> Mountres3,
      mounts |-> MountList, nlm_cancel |-> Nlm4CancelArgs, nlm_lock |-> Nlm4LockArgs,
      nlm_res |-> Nlm4Res, nlm_test |-> Nlm4TestArgs, nlm_test_ok |-> TestResult,
      nlm_unlock |-> Nlm4UnlockArgs, null |-> Void, pathconf_ok |-> Nfs3Result(PathconfOk),
      portmap |-> PortmapList, quota |-> GetquotaArgs, quota_ok |-> GetquotaResult,
      read |-> ReadArgs, read_ok |-> Nfs3Result(ReadOk), readdir |-> ReaddirArgs,
      readdir_ok |-> Nfs3Result(ReaddirOk), readdirplus |-> ReaddirplusArgs,
      readdirplus_ok |-> Nfs3Result(ReaddirplusOk), readlink_ok |-> Nfs3Result(ReadlinkOk),
      remove_ok |-> Nfs3Result(WccData), rename |-> RenameArgs,
      rename_ok |-> Nfs3Result(RenameOk), setattr |-> SetattrArgs, symlink |-> SymlinkArgs,
      write |-> WriteArgs, write_ok |-> Nfs3Result(WriteOk) ]
=============================================================================
