------------------------------ MODULE Compound ------------------------------
(***************************************************************************)
(* The COMPOUND procedure of NFSv4 as nfs4.rs writes and reads it: bitmaps *)
(* and fattr4, the builder of requests (struct Compound, assemble), the    *)
(* reader of results (CompoundReader), and for every method of Nfs4 the    *)
(* operations it puts into its COMPOUND and what it reads of each result.  *)
(*                                                                         *)
(* A method takes the record `a` of its arguments.  It is a record of the  *)
(* operations it writes, in order, and of the types it reads after the     *)
(* opcode and the status of each.  An attribute has its number of the      *)
(* code; a word has WordBits bits (32 in the code).                        *)
(***************************************************************************)
EXTENDS WireTypes, FiniteSetsExt

CONSTANTS WordBits, Fh4Limit

ASSUME CompoundAssumption == /\ WordBits \in Nat /\ 2^WordBits = Base^4
                             /\ Fh4Limit \in Nat

-----------------------------------------------------------------------------
(* Types. *)

Stateid4 == Fields(<<U32, Fixed(12)>>)
NfsFh4 == Struct(<<Limited(Opaque, Fh4Limit)>>)
Nfstime4 == Fields(<<U64, U32>>)
ChangeInfo4 == Fields(<<Bool, U64, U64>>)
Bitmap4 == Vec(U32)

FATTR4_SIZE == 4
FATTR4_MODE == 33

(* The attributes that decode_fattr4 knows, each with what it reads. *)
Fattr4 ==
    (1 :> U32) @@ (3 :> U64) @@ (FATTR4_SIZE :> U64) @@ (8 :> Fields(<<U64, U64>>))
    @@ (20 :> U64) @@ (21 :> U64) @@ (22 :> U64) @@ (23 :> U64)
    @@ (FATTR4_MODE :> U32) @@ (35 :> U32) @@ (36 :> String) @@ (37 :> String)
    @@ (41 :> Fields(<<U32, U32>>)) @@ (42 :> U64) @@ (43 :> U64) @@ (44 :> U64)
    @@ (45 :> U64) @@ (47 :> Nfstime4) @@ (52 :> Nfstime4) @@ (53 :> Nfstime4)

REQUEST_ATTRS == {1, 3, 4, 8, 20, 33, 35, 36, 37, 41, 45, 47, 52, 53}
STATVFS_ATTRS == {21, 22, 23, 42, 43, 44}

-----------------------------------------------------------------------------
(* Bitmaps and fattr4. *)

build_bitmap(bits) ==
    LET max_word == Max({b \div WordBits : b \in bits} \cup {0})
    IN [w \in 1 .. max_word + 1 |->
           SumSet({2^(b % WordBits) : b \in {c \in bits : c \div WordBits = w - 1}})]

bit_set(bitmap, bit) ==
    LET word == bit \div WordBits
    IN word < Len(bitmap) /\ (bitmap[word + 1] \div 2^(bit % WordBits)) % 2 = 1

(* The bits that are set, in ascending order. *)
BitsOf(bitmap) ==
    SelectSeq([b \in 1 .. Len(bitmap) * WordBits |-> b - 1], LAMBDA b : bit_set(bitmap, b))

(* The attributes of a fattr4 are a function on the numbers that it has. *)
decode_fattr4(bitmap, attrs) ==
    LET bits == BitsOf(bitmap)
    IN FoldLeft(LAMBDA r, bit :
                    AndThen(r, LAMBDA out, rest :
                        IF bit \notin DOMAIN Fattr4 THEN Fail("Protocol")
                        ELSE AndThen(Decode(Fattr4[bit], rest), LAMBDA v, tail :
                                 Done((bit :> v) @@ out, tail))),
                Done(<<>>, attrs), bits)

(* size before mode; an absent one is <<>>. *)
encode_setattr_fattr4(attrs) ==
    LET bits == (IF attrs.size # <<>> THEN {FATTR4_SIZE} ELSE {})
                \cup (IF attrs.mode # <<>> THEN {FATTR4_MODE} ELSE {})
        values == EncodeAll([i \in DOMAIN attrs.size |-> Encode(U64, attrs.size[i])]
                            \o [i \in DOMAIN attrs.mode |-> Encode(U32, attrs.mode[i])])
    IN <<Encode(Bitmap4, build_bitmap(bits)), encode_opaque(values.bytes, NoLimit)>>

-----------------------------------------------------------------------------
(* struct Compound: an operation is its opcode and what is written after it. *)

Op(code, puts) == [code |-> code, puts |-> puts]
EmptyFattr4 == <<Encode(Bitmap4, build_bitmap({})), Word(0)>>

putrootfh == Op(24, <<>>)
putfh(fh) == Op(22, <<Encode(NfsFh4, <<fh>>)>>)
getfh == Op(10, <<>>)
savefh == Op(32, <<>>)
getattr(bits) == Op(9, <<Encode(Bitmap4, build_bitmap(bits))>>)
lookup(name) == Op(15, <<Encode(String, name)>>)
access(mask) == Op(3, <<Word(mask)>>)
readlink == Op(27, <<>>)
read(sid, offset, count) == Op(25, <<Encode(Stateid4, sid), Encode(U64, offset), Word(count)>>)
write(sid, offset, stable, data) ==
    Op(38, <<Encode(Stateid4, sid), Encode(U64, offset), Word(stable), Encode(Opaque, data)>>)
commit(offset, count) == Op(5, <<Encode(U64, offset), Word(count)>>)
remove(name) == Op(28, <<Encode(String, name)>>)
rename(old, new) == Op(29, <<Encode(String, old), Encode(String, new)>>)
link(newname) == Op(11, <<Encode(String, newname)>>)
renew(clientid) == Op(30, <<Encode(U64, clientid)>>)
create_dir(name) == Op(6, <<Word(2), Encode(String, name)>> \o EmptyFattr4)
create_symlink(name, target) ==
    Op(6, <<Word(5), Encode(String, target), Encode(String, name)>> \o EmptyFattr4)
open(seqid, clientid, owner, share, create, name) ==
    Op(18, <<Word(seqid), Word(share), Word(0), Encode(U64, clientid), Encode(Opaque, owner)>>
           \o (IF create THEN <<Word(1), Word(0)>> \o EmptyFattr4 ELSE <<Word(0)>>)
           \o <<Word(0), Encode(String, name)>>)
open_confirm(sid, seqid) == Op(20, <<Encode(Stateid4, sid), Word(seqid)>>)
close(seqid, sid) == Op(4, <<Word(seqid), Encode(Stateid4, sid)>>)
lock_new(type, offset, length, oseq, osid, lseq, clientid, owner) ==
    Op(12, <<Word(type), encode_bool(FALSE), Encode(U64, offset), Encode(U64, length),
             encode_bool(TRUE), Word(oseq), Encode(Stateid4, osid), Word(lseq),
             Encode(U64, clientid), Encode(Opaque, owner)>>)
locku(type, lseq, lsid, offset, length) ==
    Op(14, <<Word(type), Word(lseq), Encode(Stateid4, lsid), Encode(U64, offset),
             Encode(U64, length)>>)
lockt(type, offset, length, clientid, owner) ==
    Op(13, <<Word(type), Encode(U64, offset), Encode(U64, length), Encode(U64, clientid),
             Encode(Opaque, owner)>>)
setattr(sid, attrs) == Op(34, <<Encode(Stateid4, sid)>> \o encode_setattr_fattr4(attrs))
readdir(cookie, verf, dircount, maxcount, bits) ==
    Op(26, <<Encode(U64, cookie), Encode(Fixed(8), verf), Word(dircount), Word(maxcount),
             Encode(Bitmap4, build_bitmap(bits))>>)

ops(c) == EncodeAll([i \in DOMAIN c |-> Then(Word(c[i].code), EncodeAll(c[i].puts))])

finish(c, minor) ==
    EncodeAll(<<Encode(String, <<>>), Word(minor), Word(Len(c)), ops(c)>>)

sequence(s) == Op(53, <<Encode(Fixed(16), s.sessionid), Word(s.seq_id), Word(0), Word(0),
                        encode_bool(FALSE)>>)

(* c.nops + 1 operations, SEQUENCE the first; s is the session. *)
assemble(c, minor, s) ==
    IF minor = 0 THEN finish(c, 0) ELSE finish(<<sequence(s)>> \o c, minor)

-----------------------------------------------------------------------------
(* struct CompoundReader.  An error of the server carries its status.        *)

Status(kind, code) == [err |-> kind, value |-> code, rest |-> <<>>]

parse(buf) ==
    AndThen(decode_u32(buf), LAMBDA status, b1 :
    AndThen(decode_string(b1), LAMBDA tag, b2 :
    AndThen(decode_u32(b2), LAMBDA count, b3 :
        IF status # 0 THEN Status("Nfs4", status) ELSE Done(<<>>, b3))))

begin_op(expected, buf) ==
    AndThen(decode_u32(buf), LAMBDA opcode, b1 :
        IF opcode # expected THEN Fail("Protocol")
        ELSE AndThen(decode_u32(b1), LAMBDA status, b2 :
                 IF status # 0 THEN Status("Nfs4", status) ELSE Done(<<>>, b2)))

fattr4(buf) ==
    AndThen(Decode(Bitmap4, buf), LAMBDA bitmap, b1 :
    AndThen(decode_opaque(b1, NoLimit), LAMBDA attrlist, b2 :
    AndThen(decode_fattr4(bitmap, attrlist), LAMBDA attrs, unread : Done(attrs, b2))))

(* What a method may read besides a type: the attributes, the entries of a   *)
(* directory, the type of a delegation, which must be none.                  *)
Attrs == [kind |-> "fattr4"]
Entries == [kind |-> "entries"]
NoDelegation == [kind |-> "delegation"]

RECURSIVE read_entries(_)
read_entries(buf) ==
    AndThen(decode_bool(buf), LAMBDA present, b1 :
        IF ~ present THEN Done(<<>>, b1)
        ELSE AndThen(construct(<<Plain(U64), Plain(String)>>, b1), LAMBDA head, b2 :
             AndThen(fattr4(b2), LAMBDA attrs, b3 :
             AndThen(read_entries(b3), LAMBDA more, b4 :
                 Done(<<Append(head, attrs)>> \o more, b4)))))

no_delegation(buf) ==
    AndThen(decode_u32(buf), LAMBDA type, rest :
        IF type # 0 THEN Fail("Protocol") ELSE Done(type, rest))

read_item(t, buf) ==
    CASE t.kind = "fattr4" -> fattr4(buf)
      [] t.kind = "entries" -> read_entries(buf)
      [] t.kind = "delegation" -> no_delegation(buf)
      [] OTHER -> Decode(t, buf)

(* Read, one after the other, what ReadOne(x, buf) reads for each x in xs. *)
read_each(xs, ReadOne(_, _), buf) ==
    FoldLeft(LAMBDA r, x :
                 AndThen(r, LAMBDA vs, rest :
                     AndThen(ReadOne(x, rest), LAMBDA v, tail : Done(Append(vs, v), tail))),
             Done(<<>>, buf), xs)

(* The results of a COMPOUND: expected opcodes with the types read of each. *)
read_results(expected, buf) ==
    read_each(expected,
              LAMBDA e, b : AndThen(begin_op(e.code, b), LAMBDA ok, rest :
                                        read_each(e.reads, read_item, rest)), buf)

SequenceReads == [code |-> 53, reads |-> <<Fixed(16), U32, U32, U32, U32, U32>>]

-----------------------------------------------------------------------------
(* The methods of Nfs4.  `raw` is for the ones sent by run_raw.              *)

Method(c, reads) == [ops |-> c, reads |-> reads, raw |-> FALSE]
RawMethod(c, reads) == [ops |-> c, reads |-> reads, raw |-> TRUE]

Nothing == <<>>
MiB == 64            \* 1_048_576, scaled
ChannelAttrs == <<Word(0), Word(MiB), Word(MiB), Word(0), Word(8), Word(1), Word(0)>>
SkipChannelAttrs == <<U32, U32, U32, U32, U32, U32, Vec(U32)>>
locktype(exclusive) == IF exclusive THEN 2 ELSE 1

v4_exchange_id(a) ==
    RawMethod(<<Op(42, <<Encode(Fixed(8), a.verf), Encode(Opaque, a.owner), Word(0), Word(0),
                         Word(0)>>)>>,
              <<<<U64, U32, U32, U32, U64, Opaque, Opaque, U32>>>>)
v4_create_session(a) ==
    RawMethod(<<Op(43, <<Encode(U64, a.clientid), Word(a.seqid), Word(0)>> \o ChannelAttrs
                       \o ChannelAttrs \o <<Word(0), Word(1), Word(0)>>)>>,
              <<<<Fixed(16), U32, U32>> \o SkipChannelAttrs \o SkipChannelAttrs>>)
v4_reclaim_complete(a) == Method(<<Op(58, <<encode_bool(FALSE)>>)>>, <<Nothing>>)
v4_destroy_session(a) ==
  RawMethod(<<Op(44, <<Encode(Fixed(16), a.session.sessionid)>>)>>, <<Nothing>>)
v4_setclientid(a) ==
    Method(<<Op(35, <<Encode(Fixed(8), a.verf), Encode(Opaque, a.owner), Word(0),
                      Encode(String, <<>>), Encode(String, <<>>), Word(0)>>)>>,
           <<<<U64, Fixed(8)>>>>)
v4_setclientid_confirm(a) ==
    Method(<<Op(36, <<Encode(U64, a.clientid), Encode(Fixed(8), a.verf)>>)>>, <<Nothing>>)
v4_renew(a) == Method(<<renew(a.clientid)>>, <<Nothing>>)
v4_root_fh(a) == Method(<<putrootfh, getfh>>, <<Nothing, <<NfsFh4>>>>)
v4_getattr(a) == Method(<<putfh(a.fh), getattr(REQUEST_ATTRS)>>, <<Nothing, <<Attrs>>>>)
v4_statvfs(a) == Method(<<putfh(a.fh), getattr(STATVFS_ATTRS)>>, <<Nothing, <<Attrs>>>>)
v4_lookup(a) ==
    Method(<<putfh(a.dir), lookup(a.name), getfh, getattr(REQUEST_ATTRS)>>,
           <<Nothing, Nothing, <<NfsFh4>>, <<Attrs>>>>)
v4_access(a) == Method(<<putfh(a.fh), access(a.mask)>>, <<Nothing, <<U32, U32>>>>)
v4_readlink(a) == Method(<<putfh(a.fh), readlink>>, <<Nothing, <<String>>>>)
v4_open(a) ==
    Method(<<putfh(a.dir), open(a.seqid, a.clientid, a.owner, a.mask, a.flag, a.name), getfh>>,
           <<Nothing, <<Stateid4, ChangeInfo4, U32, Vec(U32), NoDelegation>>, <<NfsFh4>>>>)
v4_open_confirm(a) ==
    Method(<<putfh(a.fh), open_confirm(a.stateid, a.seqid)>>, <<Nothing, <<Stateid4>>>>)
v4_close(a) == Method(<<putfh(a.fh), close(a.seqid, a.stateid)>>, <<Nothing, <<Stateid4>>>>)
v4_lock(a) ==
    Method(<<putfh(a.fh), lock_new(locktype(a.flag), a.offset, a.length, a.seqid, a.stateid, 0,
                                   a.clientid, a.owner)>>, <<Nothing, <<Stateid4>>>>)
v4_unlock(a) ==
    Method(<<putfh(a.fh), locku(locktype(a.flag), 1, a.stateid, a.offset, a.length)>>,
           <<Nothing, <<Stateid4>>>>)
v4_test_lock(a) ==
    Method(<<putfh(a.fh), lockt(locktype(a.flag), a.offset, a.length, a.clientid, a.owner)>>,
           <<Nothing, Nothing>>)
v4_read(a) ==
    Method(<<putfh(a.fh), read(a.stateid, a.offset, a.count)>>, <<Nothing, <<Bool, Opaque>>>>)
v4_write(a) ==
    Method(<<putfh(a.fh), write(a.stateid, a.offset, a.stable, a.data)>>,
           <<Nothing, <<U32, U32, Fixed(8)>>>>)
v4_commit(a) == Method(<<putfh(a.fh), commit(a.offset, a.count)>>, <<Nothing, <<Fixed(8)>>>>)
v4_setattr(a) ==
    Method(<<putfh(a.fh), setattr(<<0, Zeros(12)>>, a.sattr4)>>, <<Nothing, <<Vec(U32)>>>>)
v4_mkdir(a) ==
    Method(<<putfh(a.dir), create_dir(a.name), getfh>>,
           <<Nothing, <<ChangeInfo4, Vec(U32)>>, <<NfsFh4>>>>)
v4_symlink(a) ==
    Method(<<putfh(a.dir), create_symlink(a.name, a.target), getfh>>,
           <<Nothing, <<ChangeInfo4, Vec(U32)>>, <<NfsFh4>>>>)
v4_remove(a) == Method(<<putfh(a.dir), remove(a.name)>>, <<Nothing, <<ChangeInfo4>>>>)
v4_link(a) ==
    Method(<<putfh(a.fh), savefh, putfh(a.dir), link(a.name)>>,
           <<Nothing, Nothing, Nothing, <<ChangeInfo4>>>>)
v4_rename_Swapped(a) ==
    Method(<<putfh(a.todir), savefh, putfh(a.dir), rename(a.name, a.toname)>>,
           <<Nothing, Nothing, Nothing, <<ChangeInfo4, ChangeInfo4>>>>)
v4_rename(a) ==
    Method(<<putfh(a.dir), savefh, putfh(a.todir), rename(a.name, a.toname)>>,
           <<Nothing, Nothing, Nothing, <<ChangeInfo4, ChangeInfo4>>>>)
v4_readdir(a) ==
    Method(<<putfh(a.dir), readdir(a.offset, a.verf, a.count \div 2, a.count, REQUEST_ATTRS)>>,
           <<Nothing, <<Fixed(8), Entries, Bool>>>>)

Methods4 == {"exchange_id", "create_session", "reclaim_complete", "destroy_session",
             "setclientid", "setclientid_confirm", "renew", "root_fh", "getattr", "statvfs",
             "lookup", "access", "readlink", "open", "open_confirm", "close", "lock", "unlock",
             "test_lock", "read", "write", "commit", "setattr", "mkdir", "symlink", "remove",
             "link", "rename", "readdir"}

Nfs4(m, a) ==
    CASE m = "exchange_id" -> v4_exchange_id(a)
      [] m = "create_session" -> v4_create_session(a)
      [] m = "reclaim_complete" -> v4_reclaim_complete(a)
      [] m = "destroy_session" -> v4_destroy_session(a)
      [] m = "setclientid" -> v4_setclientid(a)
      [] m = "setclientid_confirm" -> v4_setclientid_confirm(a)
      [] m = "renew" -> v4_renew(a)
      [] m = "root_fh" -> v4_root_fh(a)
      [] m = "getattr" -> v4_getattr(a)
      [] m = "statvfs" -> v4_statvfs(a)
      [] m = "lookup" -> v4_lookup(a)
      [] m = "access" -> v4_access(a)
      [] m = "readlink" -> v4_readlink(a)
      [] m = "open" -> v4_open(a)
      [] m = "open_confirm" -> v4_open_confirm(a)
      [] m = "close" -> v4_close(a)
      [] m = "lock" -> v4_lock(a)
      [] m = "unlock" -> v4_unlock(a)
      [] m = "test_lock" -> v4_test_lock(a)
      [] m = "read" -> v4_read(a)
      [] m = "write" -> v4_write(a)
      [] m = "commit" -> v4_commit(a)
      [] m = "setattr" -> v4_setattr(a)
      [] m = "mkdir" -> v4_mkdir(a)
      [] m = "symlink" -> v4_symlink(a)
      [] m = "remove" -> v4_remove(a)
      [] m = "link" -> v4_link(a)
      [] m = "rename" -> v4_rename(a)
      [] m = "readdir" -> v4_readdir(a)

-----------------------------------------------------------------------------
(* run and run_raw: what is sent, and how the body of the reply is read.     *)

NFS4ERR_DENIED == 1010   \* 10010: the codes above 10000 are kept less 9000

sent(method, minor, session) ==
    IF method.raw THEN finish(method.ops, minor) ELSE assemble(method.ops, minor, session)

run(method, minor, body) ==
    AndThen(parse(body), LAMBDA ok, rest :
        IF minor = 0 \/ method.raw THEN Done(<<>>, rest)
        ELSE read_results(<<SequenceReads>>, rest))

(* test_lock takes the denial for an answer, Ok(false). *)
result_of(m, method, r) ==
    IF m = "test_lock" /\ r.err = "Nfs4" /\ r.value = NFS4ERR_DENIED
    THEN Done(<<>>, <<>>)
    ELSE AndThen(r, LAMBDA ok, rest :
             read_results([i \in DOMAIN method.ops |->
                              [code |-> method.ops[i].code, reads |-> method.reads[i]]], rest))
results(m, method, minor, body) == result_of(m, method, run(method, minor, body))

=============================================================================
