----------------------------- MODULE RpcMessage -----------------------------
(***************************************************************************)
(* The bytes of one message: it is encoded by one side, travels, and is    *)
(* decoded by the other.  On the way it may be cut short, have one word    *)
(* replaced, or be followed by more bytes: the record layer delivers what  *)
(* the peer wrote, and nothing obliges the peer to write what the schema   *)
(* says.  A message is                                                     *)
(*   - a body of Schemas, or the header of a CALL or a REPLY (message.rs,  *)
(*     auth.rs), each for itself;                                          *)
(*   - the request of a method of the client, as the server understands    *)
(*     it: one procedure of Procedures ("request3") or one COMPOUND        *)
(*     ("request4");                                                       *)
(*   - the reply to a procedure, as the method reads it ("response3");     *)
(*   - the reply to a COMPOUND, as Nfs4::run takes it from RpcClient::call *)
(*     ("run4"): call decodes the body as Bytes before CompoundReader      *)
(*     sees it; and the results of a COMPOUND given to CompoundReader as   *)
(*     they are ("compound4"), which is the reader by itself;              *)
(*   - the attributes of an object or of a file system ("stat",            *)
(*     "statvfs"), in the results of a server of either version.           *)
(***************************************************************************)
EXTENDS Protocols, Attributes

CONSTANTS MaxAuthBody,  \* MAX_AUTH_BODY
          Samples,      \* the seeds of the sample values
          MethodSamples, \* those of the methods' arguments and results
          Words,        \* the words that may replace another
          Kinds         \* the kinds of message, besides those of Schemas

ASSUME MessageAssumption == /\ MaxAuthBody \in Nat
                            /\ Samples \subseteq Nat /\ MethodSamples \subseteq Nat
                            /\ Words \subseteq 0 .. MaxU32

VARIABLES what,    \* the name of a schema, or one of Kinds
          value,   \* the value that is sent
          wire,    \* the bytes that arrive
          damage,  \* what happened to them on the way
          pc,      \* "encode", "travel", "decode", "done", "refused"
          got      \* the error of the encoder, or the result of the decoder

vars == <<what, value, wire, damage, pc, got>>

-----------------------------------------------------------------------------
(* Sample values.  The k-th sample of a type runs, as k grows, through the *)
(* lengths around its limit, both presences, every case and every status.  *)

SampleLen(limit, k) == k % (IF limit = NoLimit THEN 6 ELSE limit + 2)

RECURSIVE Sample(_, _, _)
Sample(t, limit, k) ==
    LET fieldsOf(fs, j) == [i \in DOMAIN fs |-> Sample(fs[i].type, fs[i].limit, j + i)]
        pick(S) == SetToSeq(S)[(k % Cardinality(S)) + 1]
    IN CASE t.kind \in {"u32", "u64"} -> (7 * k + 1) % (MaxU32 + 1)
         [] t.kind = "bool" -> k % 2 = 1
         [] t.kind = "void" -> <<>>
         [] t.kind = "string" -> [i \in 1 .. SampleLen(limit, k) |-> (i + k) % (Base - 1)]
         [] t.kind = "opaque" -> [i \in 1 .. SampleLen(limit, k) |-> (i + k) % Base]
         [] t.kind = "bounded" -> [i \in 1 .. SampleLen(t.n, k) |-> (i + k) % Base]
         [] t.kind = "fixed" -> [i \in 1 .. t.n |-> (i + k) % Base]
         [] t.kind = "vec" -> [i \in 1 .. SampleLen(limit, k) |-> Sample(t.of, NoLimit, k + i)]
         [] t.kind = "list" -> [i \in 1 .. k % 3 |-> Sample(t.of, NoLimit, k + i)]
         [] t.kind = "option" -> IF k % 2 = 0 THEN <<>> ELSE <<Sample(t.of, NoLimit, k + 1)>>
         [] t.kind = "struct" -> fieldsOf(t.fields, k)
         [] t.kind = "enum32" -> pick(t.discs)
         [] t.kind = "union" -> LET d == pick(DOMAIN t.cases) IN <<d, fieldsOf(t.cases[d], k)>>
         [] t.kind = "switch" ->
                LET d == pick(DOMAIN t.cases \cup {5}) IN <<d, fieldsOf(CaseOf(t.cases, d), k)>>

-----------------------------------------------------------------------------
(* auth.rs and message.rs.  A credential is <<>> (None) or <<params>>.     *)

AUTH_NONE == 0
AUTH_SYS == 1
MSG_CALL == 0
MSG_REPLY == 1
RPC_VERSION == 2
MSG_ACCEPTED == 0
MSG_DENIED == 1

encode_auth(cred) ==
    IF cred = <<>> THEN Then(Word(AUTH_NONE), encode_opaque(<<>>, MaxAuthBody))
    ELSE LET body == Encode(AuthSysParams, cred[1]) IN
         IF body.err # None THEN body
         ELSE Then(Word(AUTH_SYS), encode_opaque(body.bytes, MaxAuthBody))

(* call.num is <<xid, prog, vers, proc_>>. *)
encode_call_VersFirst(call) ==
    EncodeAll(<<Word(call.num[1]), Word(MSG_CALL), Word(RPC_VERSION), Word(call.num[3]),
                Word(call.num[2]), Word(call.num[4]), encode_auth(call.cred), encode_auth(<<>>)>>)

encode_call(call) ==
    EncodeAll(<<Word(call.num[1]), Word(MSG_CALL), Word(RPC_VERSION), Word(call.num[2]),
                Word(call.num[3]), Word(call.num[4]), encode_auth(call.cred), encode_auth(<<>>)>>)

(* What parse_reply returns when it returns: the xid and the inner result. *)
Inner(xid, result, detail, body) ==
    Done([xid |-> xid, result |-> result, detail |-> detail], body)

Accepted(xid, stat, buf) ==
    CASE stat = 0 -> Inner(xid, "Success", <<>>, buf)
      [] stat = 1 -> Inner(xid, "ProgUnavail", <<>>, <<>>)
      [] stat = 2 -> AndThen(construct(<<Plain(U32), Plain(U32)>>, buf),
                             LAMBDA lh, rest : Inner(xid, "ProgMismatch", lh, <<>>))
      [] stat = 3 -> Inner(xid, "ProcUnavail", <<>>, <<>>)
      [] stat = 4 -> Inner(xid, "GarbageArgs", <<>>, <<>>)
      [] stat = 5 -> Inner(xid, "SystemErr", <<>>, <<>>)
      [] OTHER -> Inner(xid, "UnknownAcceptStat", <<stat>>, <<>>)

Denied(xid, stat, buf) ==
    CASE stat = 0 -> AndThen(construct(<<Plain(U32), Plain(U32)>>, buf),
                             LAMBDA lh, rest : Inner(xid, "RpcMismatch", lh, <<>>))
      [] stat = 1 -> AndThen(decode_u32(buf), LAMBDA w, rest : Inner(xid, "AuthError", <<w>>, <<>>))
      [] OTHER -> Inner(xid, "MalformedReply", <<>>, <<>>)

parse_reply_VerfUnread(buf) ==
    AndThen(construct(<<Plain(U32), Plain(U32)>>, buf), LAMBDA head, b1 :
        IF head[2] # MSG_REPLY THEN Fail("MalformedReply")
        ELSE AndThen(decode_u32(b1), LAMBDA stat, b2 :
            CASE stat = MSG_ACCEPTED ->
                   AndThen(construct(<<Plain(U32), Plain(U32), Plain(U32)>>, b2), LAMBDA w, b3 :
                       Accepted(head[1], w[3], b3))
              [] stat = MSG_DENIED ->
                   AndThen(decode_u32(b2), LAMBDA reject, b3 : Denied(head[1], reject, b3))
              [] OTHER -> Fail("MalformedReply")))

parse_reply(buf) ==
    AndThen(decode_u32(buf), LAMBDA xid, b0 :
    AndThen(decode_u32(b0), LAMBDA mtype, b1 :
        IF mtype # MSG_REPLY THEN Fail("MalformedReply")
        ELSE AndThen(decode_u32(b1), LAMBDA stat, b2 :
            CASE stat = MSG_ACCEPTED ->
                   AndThen(decode_u32(b2), LAMBDA flavor, b3 :
                   AndThen(decode_opaque(b3, MaxAuthBody), LAMBDA verf, b4 :
                   AndThen(decode_u32(b4), LAMBDA accept, b5 : Accepted(xid, accept, b5))))
              [] stat = MSG_DENIED ->
                   AndThen(decode_u32(b2), LAMBDA reject, b3 : Denied(xid, reject, b3))
              [] OTHER -> Fail("MalformedReply"))))

-----------------------------------------------------------------------------
(* The grammar of RFC 5531, as schemas: the reference for both headers.    *)

OpaqueAuth == Struct(<<Plain(U32), Limited(Opaque, MaxAuthBody)>>)
CallSchema == Fields(<<U32, Enum32({MSG_CALL}), Enum32({RPC_VERSION}), U32, U32, U32,
                       OpaqueAuth, OpaqueAuth>>)
MismatchInfo == <<Plain(U32), Plain(U32)>>
ReplySchema ==
    Fields(<<U32, Enum32({MSG_REPLY}),
             Union((MSG_ACCEPTED :> <<Plain(OpaqueAuth), Plain(Switch(2 :> MismatchInfo))>>)
                   @@ (MSG_DENIED :>
                          <<Plain(Switch((0 :> MismatchInfo) @@ (1 :> <<Plain(U32)>>)))>>))>>)

CredentialOf(auth) ==
    IF auth[1] = AUTH_NONE THEN <<>> ELSE <<Decode(AuthSysParams, auth[2]).value>>

-----------------------------------------------------------------------------
(* Methods: their arguments, and what a server answers.                      *)

SetAttrOf(k) ==
    LET opt(j, v) == IF (k \div j) % 2 = 0 THEN <<>> ELSE <<v>>
    IN [mode |-> opt(1, k + 8), uid |-> opt(2, k), gid |-> opt(1, k + 1), size |-> opt(2, 9 * k),
        atime |-> opt(1, <<MaxU32 + k, k>>), mtime |-> opt(2, <<k, 3>>)]

Args(k) ==
    LET bytes(n, j) == [i \in 1 .. n |-> (i + j) % (Base - 1)]
    IN [fh |-> bytes(k % (Fh4Limit + 2), k), dir |-> bytes(2, k + 1), todir |-> bytes(3, k + 2),
        name |-> bytes(k % 6, k), toname |-> bytes((k + 1) % 6, k + 3), target |-> bytes(4, k),
        data |-> bytes((k + 2) % 6, k), verf |-> bytes(8, k), owner |-> bytes(3, k + 4),
        stateid |-> <<k + 1, bytes(12, k)>>, seqid |-> k + 2, clientid |-> k + 3,
        mask |-> k + 4, count |-> 2 * k + 5, offset |-> MaxU32 + k, length |-> 7 * k,
        stable |-> k % 3, flag |-> k % 2 = 1, attrs |-> SetAttrOf(k),
        sattr |-> to_sattr3(SetAttrOf(k)), sattr4 |-> to_setattr4(SetAttrOf(k)),
        guard |-> Sample(Option(Nfstime3), NoLimit, k),
        how |-> Sample(CreateHow3, NoLimit, k), node |-> Sample(MknodData3, NoLimit, k),
        session |-> [sessionid |-> bytes(16, k), seq_id |-> k]]

(* The method called: its procedure, or its COMPOUND. *)
Call3(v) == Called(Args(v.k))[v.m]
Call4(v) == Nfs4(v.m, Args(v.k))

Sent4(v) == sent(Call4(v), v.minor, Args(v.k).session)

(* A fattr4 of a server: the attributes in ascending order, under a bitmap   *)
(* that may end in words without any.                                        *)
WireFattr(attrs, extra) ==
    LET bits == SelectSeq([b \in 1 .. 64 |-> b - 1], LAMBDA b : b \in DOMAIN attrs)
        words == (IF bits = <<>> THEN 0 ELSE Last(bits) \div WordBits + 1) + extra
    IN <<[w \in 1 .. words |->
             SumSet({2^(b - (w - 1) * WordBits) :
                        b \in DOMAIN attrs \cap ((w - 1) * WordBits .. w * WordBits - 1)})],
         EncodeAll([i \in DOMAIN bits |-> Encode(Fattr4[bits[i]], attrs[bits[i]])]).bytes>>

(* Of the attributes asked for, those that the server has, and their values. *)
Told(asked, k) ==
    [b \in {c \in asked : (c + k) % 4 # 0} |-> Sample(Fattr4[b], NoLimit, k + b)]
Asked(m) == IF m = "statvfs" THEN STATVFS_ATTRS ELSE REQUEST_ATTRS

(* The successful result of an operation, with attributes as functions, and  *)
(* as it is on the wire.                                                     *)
Result4(m, code, k) ==
    CASE code = 9 -> <<Told(Asked(m), k)>>
      [] code = 26 -> <<Zeros(8),
                        [i \in 1 .. k % 3 |->
                           <<k + i, Args(k + i).name, Told(REQUEST_ATTRS, k + i)>>],
                        k % 2 = 0>>
      [] OTHER -> Sample(Fields(OkOf4[code]), NoLimit, k)

Wire4(code, f, k) ==
    CASE code = 9 -> <<WireFattr(f[1], k % 2)>>
      [] code = 26 -> [f EXCEPT ![2] = [i \in DOMAIN f[2] |->
                                           [f[2][i] EXCEPT ![3] = WireFattr(@, k % 2)]]]
      [] OTHER -> f

Codes4(minor, method) ==
    LET own == [i \in DOMAIN method.ops |-> method.ops[i].code]
    IN IF minor = 0 \/ method.raw THEN own ELSE <<53>> \o own

(* The server stops at operation v.stop with v.status, or does them all (0). *)
Reply4(v, codes) ==
    LET last == IF v.stop = 0 THEN Len(codes) ELSE v.stop
        fields(i) == IF i # v.stop THEN Wire4(codes[i], Result4(v.m, codes[i], v.k + i), v.k)
                     ELSE IF v.status = NFS4ERR_DENIED
                     THEN Sample(Fields(<<U64, U64, U32, Owner>>), NoLimit, v.k)
                     ELSE <<>>
        status(i) == IF i = v.stop THEN v.status ELSE 0
    IN Encode(Compound4res, <<status(last), Args(v.k).name,
                  [i \in 1 .. last |-> <<codes[i], <<<<status(i), fields(i)>>>>>>]>>)

-----------------------------------------------------------------------------
(* An object, and a file system, as both versions describe them.             *)

Numeral(n) ==
    LET len == CHOOSE l \in 1 .. 16 : Radix^l > n /\ (l = 1 \/ Radix^(l - 1) <= n)
    IN [i \in 1 .. len |-> (n \div Radix^(len - i)) % Radix]

(* The owner as a number, as a number in a domain, or by name. *)
OwnerText(id, k) == CASE k % 3 = 0 -> Numeral(id)
                      [] k % 3 = 1 -> Numeral(id) \o <<At, Plus + 1>>
                      [] k % 3 = 2 -> <<Plus + 1, 0, At, 1>>

Object(k) == [type |-> k % 9, mode |-> k + 1, nlink |-> k + 2, uid |-> 37 * k, gid |-> MaxU32 - k,
              size |-> 300 * k, used |-> 301 * k, rdev |-> <<k, k + 3>>, fsid |-> k + 5,
              fileid |-> k + 6, atime |-> <<k + 7, 1>>, mtime |-> <<k + 8, 2>>,
              ctime |-> <<k + 9, 3>>]

Object3(o) == <<o.type, o.mode, o.nlink, o.uid, o.gid, o.size, o.used, o.rdev, o.fsid, o.fileid,
                o.atime, o.mtime, o.ctime>>
Object4(o, k) ==
    (1 :> o.type) @@ (3 :> k) @@ (4 :> o.size) @@ (8 :> <<o.fsid, 1>>) @@ (20 :> o.fileid)
    @@ (33 :> o.mode) @@ (35 :> o.nlink) @@ (36 :> OwnerText(o.uid, k))
    @@ (37 :> OwnerText(o.gid, k)) @@ (41 :> o.rdev) @@ (45 :> o.used) @@ (47 :> o.atime)
    @@ (52 :> o.ctime) @@ (53 :> o.mtime)

FileSystem(k) == StatVfs(k + 90, k + 80, k + 70, k + 60, k + 50, k + 40)
FileSystem3(f) == <<<<>>, f.total_blocks, f.free_blocks, f.avail_blocks, f.total_files,
                    f.free_files, f.avail_files, 0>>
FileSystem4(f) == (21 :> f.avail_files) @@ (22 :> f.free_files) @@ (23 :> f.total_files)
                  @@ (42 :> f.avail_blocks) @@ (43 :> f.free_blocks) @@ (44 :> f.total_blocks)

Get4 == [ops |-> <<getattr({})>>, reads |-> <<<<Attrs>>>>, raw |-> TRUE]
Attrs4(body) == AndThen(results("getattr", Get4, 0, body), LAMBDA vs, rest : Done(vs[1][1], rest))
Reply4Of(attrs, k) ==
    Encode(Compound4res, <<0, <<>>, <<<<9, <<<<0, <<WireFattr(attrs, k % 2)>>>>>>>>>>>>)

-----------------------------------------------------------------------------
(* The exchange. *)

Calls == {[num |-> <<k, 3, 1, 0>>, cred |-> c] :
             k \in Samples,
             c \in {<<>>} \cup {<<Sample(AuthSysParams, NoLimit, j)>> : j \in Samples}}

Methods3 == DOMAIN Called(Args(0))
Minors(m) ==
  CASE m \in {"exchange_id", "create_session", "reclaim_complete", "destroy_session"} -> {1}
    [] m \in {"setclientid", "setclientid_confirm"} -> {0}
    [] OTHER -> {0, 1}
Statuses(m) == IF m = "getattr" THEN DOMAIN Meaning \ {NFS4ERR_DENIED} ELSE {2, 5}
Failures(m, code) == Statuses(m) \cup (IF code \in {12, 13} THEN {NFS4ERR_DENIED} ELSE {})

Requests4 == UNION {[m : {m}, minor : Minors(m), k : MethodSamples] : m \in Methods4}
Stopped(v, codes) ==
    {v @@ [stop |-> 0, status |-> 0]}
      \cup UNION {{v @@ [stop |-> i, status |-> s] : s \in Failures(v.m, codes[i])} :
                      i \in DOMAIN codes}
Responses4 ==
    UNION {Stopped(v, Codes4(v.minor, Call4(v))) : v \in Requests4}
Responses3 == UNION {[m : {m}, k : MethodSamples, status : {0} \cup Statuses(m)] : m \in Methods3}

Init == /\ \/ /\ "body" \in Kinds /\ what \in DOMAIN Schemas
              /\ \E k \in Samples : value = Sample(Schemas[what], NoLimit, k)
           \/ /\ what \in Kinds \ {"body"}
              /\ CASE what = "call" -> value \in Calls
                   [] what = "reply" -> \E k \in Samples : value = Sample(ReplySchema, NoLimit, k)
                   [] what = "request3" -> value \in [m : Methods3, k : MethodSamples]
                   [] what = "response3" -> value \in Responses3
                   [] what = "request4" -> value \in Requests4
                   [] what \in {"compound4", "run4"} -> value \in Responses4
                   [] what \in {"stat", "statvfs"} -> value \in [version : {3, 4}, k : Samples]
        /\ wire = <<>> /\ damage = "none" /\ pc = "encode" /\ got = Fail("pending")

CallHeader(num) == encode_call([num |-> <<1>> \o num, cred |-> <<>>])
ReplyHeader ==
  Encode(ReplySchema, <<1, MSG_REPLY, <<MSG_ACCEPTED, <<<<AUTH_NONE, <<>>>>, <<0, <<>>>>>>>>>>)

(* A result of NFSv3, MOUNT and RQUOTA begins with its status. *)
Reply3(v, num, res) ==
    LET ok == IF num[1] = 11 THEN 1 ELSE 0
    IN CASE res.kind = "switch" ->
              IF v.status = 0 THEN <<ok, Sample(Struct(res.cases[ok]), NoLimit, v.k)>>
              ELSE <<v.status, <<>>>>
         [] res = Nlm4Res -> <<Args(v.k).owner, v.status>>
         [] OTHER -> Sample(res, NoLimit, v.k)

Request3(call) == Then(CallHeader(call.num), Encode(call.args, call.value))
Response3(v, num, res) == Then(ReplyHeader, Encode(res, Reply3(v, num, res)))

Encoded ==
    CASE what = "call" -> encode_call(value)
      [] what = "reply" -> Encode(ReplySchema, value)
      [] what = "request3" -> Request3(Call3(value))
      [] what = "response3" ->
             Response3(value, Call3(value).num, Served[Call3(value).num].res)
      [] what = "request4" -> Then(CallHeader(<<3, 4, 1>>), Sent4(value))
      [] what = "run4" -> Then(ReplyHeader, Reply4(value, Codes4(value.minor, Call4(value))))
      [] what = "compound4" -> Reply4(value, Codes4(value.minor, Call4(value)))
      [] what = "stat" -> IF value.version = 3
                          THEN Encode(Nfs3Result(Fattr3), <<0, <<Object3(Object(value.k))>>>>)
                          ELSE Reply4Of(Object4(Object(value.k), value.k), value.k)
      [] what = "statvfs" -> IF value.version = 3
                             THEN Encode(Nfs3Result(FsstatOk),
                                         <<0, <<FileSystem3(FileSystem(value.k))>>>>)
                             ELSE Reply4Of(FileSystem4(FileSystem(value.k)), value.k)
      [] OTHER -> Encode(Schemas[what], value)

(* A server: it finds the procedure by its numbers. *)
Understood(buf) ==
    AndThen(Decode(CallSchema, buf), LAMBDA c, args :
        LET num == <<c[4], c[5], c[6]>> IN
        CASE num = <<3, 4, 1>> ->
               AndThen(Decode(Compound4args, args), LAMBDA v, rest :
                           Done(<<v[2], Executed(v[3])>>, rest))
          [] num \in DOMAIN Served ->
               AndThen(Decode(Served[num].args, args), LAMBDA v, rest :
                           Done(Effect3(Served[num].name, v), rest))
          [] OTHER -> Fail("ProcUnavail"))

Decoded ==
    CASE what = "call" -> Decode(CallSchema, wire)
      [] what = "reply" -> parse_reply(wire)
      [] what \in {"request3", "request4"} -> Understood(wire)
      [] what = "response3" ->
             AndThen(parse_reply(wire), LAMBDA r, body : returned(Call3(value), body))
      [] what = "compound4" -> results(value.m, Call4(value), value.minor, wire)
      [] what = "run4" ->
             AndThen(parse_reply(wire), LAMBDA r, body :
             AndThen(decode_opaque(body, NoLimit), LAMBDA reply, rest :
                 results(value.m, Call4(value), value.minor, reply)))
      [] what = "stat" ->
             IF value.version = 3
             THEN AndThen(returned(v3_getattr(Args(0)), wire),
                          LAMBDA v, rest : Done(from_fattr3(v[1]), rest))
             ELSE AndThen(Attrs4(wire), LAMBDA v, rest : Done(from_fattr4(v), rest))
      [] what = "statvfs" ->
             IF value.version = 3
             THEN AndThen(returned(v3_fsstat(Args(0)), wire),
                          LAMBDA v, rest : Done(statvfs3(v[1]), rest))
             ELSE AndThen(Attrs4(wire), LAMBDA v, rest : Done(statvfs4(v), rest))
      [] OTHER -> Decode(Schemas[what], wire)

Sends(r) == IF r.err = None
            THEN wire' = r.bytes /\ pc' = "travel" /\ UNCHANGED got
            ELSE got' = Fail(r.err) /\ pc' = "refused" /\ UNCHANGED wire
EncodeStep == pc = "encode" /\ Sends(Encoded) /\ UNCHANGED <<what, value, damage>>

Arrives(bytes, how) == /\ pc = "travel"
                       /\ wire' = bytes /\ damage' = how /\ pc' = "decode"
                       /\ UNCHANGED <<what, value, got>>

Body == what \in DOMAIN Schemas \cup {"call", "reply"}
Response == what \in {"response3", "compound4"}

Intact == Arrives(wire, "none")
Longer == Body /\ Arrives(wire \o <<1, 0, 1, 0>>, "longer")
Cut == (Body \/ Response) /\ \E n \in 0 .. Len(wire) - 1 : Arrives(Take(wire, n), "cut")
Replaced == Body /\ \E i \in 1 .. Len(wire) \div 4, w \in Words :
                Arrives(Take(wire, 4 * (i - 1)) \o ToBytes(w, 4) \o Drop(wire, 4 * i), "replaced")

DecodeStep == /\ pc = "decode"
              /\ got' = Decoded /\ pc' = "done"
              /\ UNCHANGED <<what, value, wire, damage>>

Next == EncodeStep \/ Intact \/ Longer \/ Cut \/ Replaced \/ DecodeStep

Spec == Init /\ [][Next]_vars

-----------------------------------------------------------------------------
(* Properties. *)

Extra == IF damage = "longer" THEN <<1, 0, 1, 0>> ELSE <<>>
Whole == pc = "done" /\ damage \in {"none", "longer"}

(* RoundTrip: what one side encodes, the other decodes to the same value,    *)
(* and the decoder stops exactly where the encoder stopped, whatever         *)
(* follows.  For a call, what is read back is the numbers given to           *)
(* encode_call, the credential inside its opaque body, and an AUTH_NONE      *)
(* verifier.  (codec.rs, impls.rs, the derive macro, message.rs, auth.rs.)   *)
RoundTrip ==
    Whole /\ Body /\ what # "reply" =>
        /\ got.err = None /\ got.rest = Extra
        /\ IF what # "call" THEN got.value = value
           ELSE LET c == got.value IN
                /\ value.num = <<c[1], c[4], c[5], c[6]>>
                /\ value.cred = CredentialOf(c[7])
                /\ c[8] = <<AUTH_NONE, <<>>>>

(* What a method should return for the reply of the server in `value`. *)
Answer(err, v) == [err |-> err, value |-> v]

Expected3(v, num, res) ==
    CASE num = <<0, 2, 3>> -> IF res = 0 THEN Answer("PortNotRegistered", <<>>)
                              ELSE Answer(None, res % PortSpace)
      [] num[1] = 21 /\ num[3] # 1 ->
             IF v.status = 0 THEN Answer(None, <<>>) ELSE Answer("Nlm", v.status)
      [] num[1] \in {3, 11} \/ num = <<5, 3, 1>> ->
             IF v.m = "null" THEN Answer(None, <<>>)
             ELSE IF v.status = 0 THEN Answer(None, res[2])
             ELSE Answer(IF num[1] = 3 THEN "Nfs3" ELSE IF num[1] = 5 THEN "Mount" ELSE "Rquota",
                         v.status)
      [] OTHER -> Answer(None, res)

(* Of EXCHANGE_ID the implementation is counted and not read, of OPEN only   *)
(* the type of the delegation, of CREATE_SESSION the fields one by one.      *)
Seen4(code, f) ==
    CASE code = 42 -> [f EXCEPT ![4] = f[4][1], ![8] = Len(f[8])]
      [] code = 43 -> SubSeq(f, 1, 3) \o f[4] \o f[5]
      [] code = 18 -> [f EXCEPT ![5] = f[5][1]]
      [] OTHER -> f

Expected4(v, codes, first) ==                              \* first: 1 after SEQUENCE
    LET result(i) == Seen4(codes[first + i], Result4(v.m, codes[first + i], v.k + first + i))
        delegated == \E i \in DOMAIN codes : codes[i] = 18 /\ result(i - first)[5] # 0
    IN CASE v.m = "test_lock" /\ v.status = NFS4ERR_DENIED -> Answer(None, <<>>)
         [] v.status # 0 -> Answer("Nfs4", v.status)
         [] v.status = 0 /\ delegated -> Answer("Protocol", <<>>)
         [] OTHER -> Answer(None, [i \in 1 .. Len(codes) - first |-> result(i)])

Answer3(v, num, res) == Expected3(v, num, Reply3(v, num, res))
Answer4(v, method) ==
    Expected4(v, Codes4(v.minor, method), IF v.minor = 0 \/ method.raw THEN 0 ELSE 1)

Is(e) == got.err = e.err /\ got.value = e.value
AsExpected == Is(IF what = "response3"
                 THEN Answer3(value, Call3(value).num, Served[Call3(value).num].res)
                 ELSE Answer4(value, Call4(value)))

(* CutNoticed: a message cut anywhere, in padding included, is reported as   *)
(* Truncated, and never decodes to a value.  (`ensure` before every read;    *)
(* error.rs: a declared length beyond the bytes there are is Truncated.)  A  *)
(* method that needs only the beginning of a cut reply, a status or a        *)
(* delegation, returns what it would return for all of it.                   *)
CutNoticed ==
    pc = "done" /\ damage = "cut" =>
        got.err = "Truncated" \/ (Response /\ AsExpected)

(* Canonical: a body with a word replaced is either rejected, or it is a     *)
(* value of its type, within its limits, whose own encoding is what was      *)
(* consumed, but for bytes the encoder writes as zero: so a boolean, a       *)
(* discriminant or a length has no second spelling.  Padding is not          *)
(* compared by the decoder, and a boolean is the word 0 or 1.                *)
Canonical ==
    pc = "done" /\ what \in DOMAIN Schemas /\ got.err = None =>
        LET again == Encode(Schemas[what], got.value)
        IN /\ again.err = None
           /\ Len(again.bytes) + Len(got.rest) = Len(wire)
           /\ \A i \in DOMAIN again.bytes : again.bytes[i] \in {0, wire[i]}

(* ReplyAsSpecified: parse_reply, written by hand, accepts the replies the   *)
(* grammar of RFC 5531 accepts, under the same xid, reports success with the *)
(* bytes after the header exactly for an accepted SUCCESS, carries the       *)
(* server's numbers in every other outcome, and calls truncated only what is. *)
ReplyAsSpecified ==
    pc = "done" /\ what = "reply" =>
        LET ref == Decode(ReplySchema, wire)
            body == ref.value[3]                 \* <<reply_stat, its fields>>
            stat == body[2][Len(body[2])]        \* <<accept or reject_stat, details>>
        IN /\ (got.err = None) = (ref.err = None)
           /\ got.err = "Truncated" => ref.err = "Truncated"
           /\ ref.err = None =>
                /\ got.value.xid = ref.value[1]
                /\ (got.value.result = "Success") = (body[1] = MSG_ACCEPTED /\ stat[1] = 0)
                /\ got.value.result = "Success" => got.rest = ref.rest
                /\ stat[2] # <<>> => got.value.detail = stat[2]

(* RequestAsMeant: a server that knows only the protocols finds in the bytes *)
(* of each method the effect the method promises, on the objects and with    *)
(* the numbers it was called with, and nothing before or after it: PUTFH and *)
(* SAVEFH leave the right handles, SEQUENCE comes first in a session and     *)
(* nowhere else, the count of operations is theirs, size precedes mode.  A   *)
(* request is refused by the encoder only for a handle beyond its limit.     *)
(* (nfs3.rs, nfs4.rs struct Compound and assemble, nlm.rs, mount.rs.)        *)
RequestAsMeant ==
    what \in {"request3", "request4"} =>
        LET a == Args(value.k)
            session == IF value.minor = 1 /\ ~ Nfs4(value.m, a).raw THEN <<Session4(a)>> ELSE <<>>
        IN /\ pc = "refused" =>
                /\ got.err = "LimitExceeded"
                /\ Len(a.fh) > IF what = "request3" THEN FhLimit ELSE Fh4Limit
           /\ pc = "done" =>
                /\ got.err = None /\ got.rest = <<>>
                /\ got.value = IF what = "request3" THEN Meant3(value.m, a)
                               ELSE <<value.minor, session \o Meant4(value.m, a)>>

(* The statuses that error.rs translates for NFSv3 and leaves in Proto for   *)
(* NFSv4: PERM, ISDIR, NOSPC, ROFS, NAMETOOLONG.                             *)
Untranslated4 == {1, 21, 28, 30, 63}

(* ResponseRead: whatever a server answers within the protocol, each method  *)
(* returns exactly what the answer holds, and the error of the VFS names the *)
(* failure that the status stands for, those in Untranslated4 excepted.  Of  *)
(* a method of NFSv4 this is said from CompoundReader on, given the results  *)
(* of the COMPOUND (what run gives it is the matter of OkReachesMethod): the *)
(* values of its operations, whichever attributes the server has and however *)
(* long its bitmap is, the status where the server stopped, a denial as the  *)
(* answer of test_lock.  (CompoundReader, into_result, error.rs.)            *)
ResponseRead ==
    pc = "done" /\ damage = "none" /\ Response =>
        /\ AsExpected
        /\ got.err \in {"Nfs3", "Nfs4"} /\ got.value \in DOMAIN Meaning =>
               NfsError(got.err, got.value) =
                   IF got.err = "Nfs4" /\ got.value \in Untranslated4 THEN "Proto"
                   ELSE Meaning[got.value]

(* SameStat: stat and statvfs tell the same of the same object whichever     *)
(* version of NFS the mount speaks: type, mode, sizes, times, and the owner  *)
(* when the server gives it as a number, with or without a domain (a name    *)
(* counts as owner 0).  (attr.rs from_fattr3, from_fattr4, parse_id;         *)
(* statvfs of both backends.)                                                *)
SameStat ==
    pc = "done" /\ what \in {"stat", "statvfs"} =>
        LET o == Object(value.k)
            named == value.version = 4 /\ value.k % 3 = 2
        IN /\ got.err = None
           /\ what = "statvfs" => got.value = FileSystem(value.k)
           /\ what = "stat" =>
                /\ \A f \in {"mode", "nlink", "size", "used", "rdev", "fsid", "fileid",
                             "atime", "mtime", "ctime"} : got.value[f] = o[f]
                /\ \A f \in {"uid", "gid"} : got.value[f] = IF named THEN 0 ELSE o[f]
                /\ got.value.file_type =
                       IF o.type \in 1 .. 7
                       THEN <<"Regular", "Directory", "Block", "Char", "Symlink", "Socket",
                              "Fifo">>[o.type]
                       ELSE "Unknown"

(* OkReachesMethod: nfs4.rs says that NFSv4.0 works (`Alcance: v4.0          *)
(* funcional`): a COMPOUND that the server did as a whole succeeds for the   *)
(* method that sent it.                                                      *)
OkReachesMethod ==
    pc = "done" /\ what = "run4" /\ Answer4(value, Call4(value)).err = None => got.err = None
=============================================================================
