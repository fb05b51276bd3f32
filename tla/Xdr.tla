-------------------------------- MODULE Xdr --------------------------------
(***************************************************************************)
(* The XDR codec (nfs-xdr) and the code its derive macro generates         *)
(* (nfs-xdr-derive), as functions from schemas and values to bytes and     *)
(* back.                                                                   *)
(*                                                                         *)
(* A schema is a record that names the Rust type: a primitive, a           *)
(* container, a struct (its fields in order, each with the limit of its    *)
(* #[xdr(limit = N)] attribute), an enum32, a union, and the two forms     *)
(* written by hand in nfs-proto: a linked list (`while bool::decode`) and  *)
(* a switch on a status word, whose unlisted values carry nothing.  A byte *)
(* is a digit in 0..Base-1, so that a word of four bytes has Base^4        *)
(* values; the words of the code are those of Base = 256.  The greatest    *)
(* byte stands for the bytes that are not UTF-8.                           *)
(*                                                                         *)
(* This module is for model checking only: its operators are recursive.    *)
(***************************************************************************)
EXTENDS Integers, FiniteSets, Sequences, SequencesExt, TLC

CONSTANT Base

ASSUME BaseAssumption == Base \in Nat /\ Base >= 2

Byte == 0 .. Base - 1
MaxU32 == Base^4 - 1

-----------------------------------------------------------------------------
(* Schemas. *)

NoLimit == -1

U32 == [kind |-> "u32"]
U64 == [kind |-> "u64"]
Bool == [kind |-> "bool"]
Void == [kind |-> "void"]
String == [kind |-> "string"]
Opaque == [kind |-> "opaque"]
Bounded(n) == [kind |-> "bounded", n |-> n]   \* encode_opaque, decode_opaque with a limit
Fixed(n) == [kind |-> "fixed", n |-> n]
Vec(t) == [kind |-> "vec", of |-> t]
Option(t) == [kind |-> "option", of |-> t]
List(t) == [kind |-> "list", of |-> t]
Struct(fields) == [kind |-> "struct", fields |-> fields]
Enum32(discs) == [kind |-> "enum32", discs |-> discs]
Union(cases) == [kind |-> "union", cases |-> cases]
Switch(cases) == [kind |-> "switch", cases |-> cases]

(* A field with a limit, and fields without one. *)
Limited(t, n) == [type |-> t, limit |-> n]
Plain(t) == Limited(t, NoLimit)
Fields(types) == Struct([i \in DOMAIN types |-> Plain(types[i])])

-----------------------------------------------------------------------------
(* Results.  `rest` is what the cursor has not consumed. *)

None == "none"

Put(bytes) == [err |-> None, bytes |-> bytes]
Refuse(e) == [err |-> e, bytes |-> <<>>]

Done(value, rest) == [err |-> None, value |-> value, rest |-> rest]
Fail(e) == [err |-> e, value |-> <<>>, rest |-> <<>>]

(* The `?` operator, for encoders and for decoders. *)
Then(r, s) == IF r.err # None THEN r
              ELSE IF s.err # None THEN s
              ELSE Put(r.bytes \o s.bytes)
AndThen(r, F(_, _)) == IF r.err # None THEN r ELSE F(r.value, r.rest)

-----------------------------------------------------------------------------
(* codec.rs *)

Take(buf, n) == SubSeq(buf, 1, n)
Drop(buf, n) == SubSeq(buf, n + 1, Len(buf))

(* put_uN and get_uN: n bytes, the most significant first. *)
ToBytes(v, n) == [i \in 1 .. n |-> (v \div Base^(n - i)) % Base]
RECURSIVE FromBytes(_)
FromBytes(bytes) ==
    IF bytes = <<>> THEN 0 ELSE FromBytes(Front(bytes)) * Base + Last(bytes)

padding(len) == (4 - (len % 4)) % 4

ensure(buf, needed, r) == IF Len(buf) < needed THEN Fail("Truncated") ELSE r

decode_prim(buf, n) == ensure(buf, n, Done(FromBytes(Take(buf, n)), Drop(buf, n)))

decode_u32(buf) == decode_prim(buf, 4)

Zeros(n) == [i \in 1 .. n |-> 0]

encode_opaque(data, limit) ==
    IF limit # NoLimit /\ Len(data) > limit THEN Refuse("LimitExceeded")
    ELSE IF Len(data) > MaxU32 THEN Refuse("LengthOverflow")
    ELSE Put(ToBytes(Len(data), 4) \o data \o Zeros(padding(Len(data))))

decode_opaque_PadUnchecked(buf, limit) ==
    AndThen(decode_u32(buf), LAMBDA len, rest :
        IF limit # NoLimit /\ len > limit THEN Fail("LimitExceeded")
        ELSE ensure(rest, len, Done(Take(rest, len), Drop(rest, len + padding(len)))))

decode_opaque(buf, limit) ==
    AndThen(decode_u32(buf), LAMBDA len, rest :
        IF limit # NoLimit /\ len > limit THEN Fail("LimitExceeded")
        ELSE ensure(rest, len + padding(len),
                    Done(Take(rest, len), Drop(rest, len + padding(len)))))

-----------------------------------------------------------------------------
(* impls.rs: strings and booleans. *)

IsUtf8(bytes) == \A i \in DOMAIN bytes : bytes[i] # Base - 1

decode_string(buf) ==
    AndThen(decode_opaque(buf, NoLimit), LAMBDA raw, rest :
        IF IsUtf8(raw) THEN Done(raw, rest) ELSE Fail("InvalidUtf8"))

encode_bool(b) == Put(ToBytes(IF b THEN 1 ELSE 0, 4))

decode_bool_NonZero(buf) ==
    AndThen(decode_u32(buf), LAMBDA w, rest : Done(w # 0, rest))

decode_bool(buf) ==
    AndThen(decode_u32(buf), LAMBDA w, rest :
        IF w \in {0, 1} THEN Done(w = 1, rest) ELSE Fail("InvalidBool"))

Word(v) == Put(ToBytes(v, 4))

decode_fixed(buf, n) ==
    ensure(buf, n + padding(n), Done(Take(buf, n), Drop(buf, n + padding(n))))

-----------------------------------------------------------------------------
(* Containers and derived types. *)

RECURSIVE Encode(_, _)
RECURSIVE Decode(_, _)

RECURSIVE EncodeAll(_)
EncodeAll(results) ==
    IF results = <<>> THEN Put(<<>>) ELSE Then(Head(results), EncodeAll(Tail(results)))

(* xdr_len of the value is its number of bytes or of elements. *)
encode_access(field, v) ==
    IF field.limit # NoLimit /\ Len(v) > field.limit THEN Refuse("LimitExceeded")
    ELSE Encode(field.type, v)

decode_value(field, buf) ==
    AndThen(Decode(field.type, buf), LAMBDA v, rest :
        IF field.limit # NoLimit /\ Len(v) > field.limit THEN Fail("LimitExceeded")
        ELSE Done(v, rest))

struct_encode(fields, v) ==
    EncodeAll([i \in DOMAIN fields |-> encode_access(fields[i], v[i])])

construct(fields, buf) ==
    FoldLeft(LAMBDA r, f :
                 AndThen(r, LAMBDA vs, rest :
                     AndThen(decode_value(f, rest), LAMBDA v, tail : Done(Append(vs, v), tail))),
             Done(<<>>, buf), fields)

encode_vec(t, v) ==
    IF Len(v) > MaxU32 THEN Refuse("LengthOverflow")
    ELSE Then(Put(ToBytes(Len(v), 4)), EncodeAll([i \in DOMAIN v |-> Encode(t, v[i])]))

decode_vec(t, buf) ==
    AndThen(decode_u32(buf), LAMBDA count, rest :
        ensure(rest, count, construct([i \in 1 .. count |-> Plain(t)], rest)))

(* An absent optional value is <<>>, a present one <<v>>. *)
encode_option(t, v) ==
    IF v = <<>> THEN encode_bool(FALSE) ELSE Then(encode_bool(TRUE), Encode(t, v[1]))

decode_option(t, buf) ==
    AndThen(decode_bool(buf), LAMBDA some, rest :
        IF ~ some THEN Done(<<>>, rest)
        ELSE AndThen(Decode(t, rest), LAMBDA v, tail : Done(<<v>>, tail)))

RECURSIVE decode_list(_, _)
decode_list(t, buf) ==
    AndThen(decode_bool(buf), LAMBDA more, rest :
        IF ~ more THEN Done(<<>>, rest)
        ELSE AndThen(Decode(t, rest), LAMBDA v, tail :
                 AndThen(decode_list(t, tail), LAMBDA vs, end : Done(<<v>> \o vs, end))))

(* What a server writes for a list. *)
encode_list(t, v) ==
    Then(EncodeAll([i \in DOMAIN v |-> Then(encode_bool(TRUE), Encode(t, v[i]))]),
         encode_bool(FALSE))

enum32_encode(v) == Put(ToBytes(v, 4))

enum32_decode(discs, buf) ==
    AndThen(decode_u32(buf), LAMBDA d, rest :
        IF d \in discs THEN Done(d, rest) ELSE Fail("InvalidEnum"))

(* A union value is <<discriminant, the values of that case's fields>>. *)
union_encode(cases, v) == Then(Put(ToBytes(v[1], 4)), struct_encode(cases[v[1]], v[2]))

union_decode(cases, buf) ==
    AndThen(decode_u32(buf), LAMBDA d, rest :
        IF d \notin DOMAIN cases THEN Fail("InvalidUnion")
        ELSE AndThen(construct(cases[d], rest), LAMBDA vs, tail : Done(<<d, vs>>, tail)))

(* A switch takes every status; those without a case carry nothing. *)
CaseOf(cases, d) == IF d \in DOMAIN cases THEN cases[d] ELSE <<>>

encode_switch(cases, v) ==
    Then(Put(ToBytes(v[1], 4)), struct_encode(CaseOf(cases, v[1]), v[2]))

decode_switch(cases, buf) ==
    AndThen(decode_u32(buf), LAMBDA d, rest :
        AndThen(construct(CaseOf(cases, d), rest), LAMBDA vs, tail : Done(<<d, vs>>, tail)))

Encode(t, v) ==
    CASE t.kind = "u32" -> Put(ToBytes(v, 4))
      [] t.kind = "u64" -> Put(ToBytes(v, 8))
      [] t.kind = "bool" -> encode_bool(v)
      [] t.kind = "void" -> Put(<<>>)
      [] t.kind \in {"string", "opaque"} -> encode_opaque(v, NoLimit)
      [] t.kind = "bounded" -> encode_opaque(v, t.n)
      [] t.kind = "fixed" -> Put(v \o Zeros(padding(t.n)))
      [] t.kind = "vec" -> encode_vec(t.of, v)
      [] t.kind = "option" -> encode_option(t.of, v)
      [] t.kind = "list" -> encode_list(t.of, v)
      [] t.kind = "struct" -> struct_encode(t.fields, v)
      [] t.kind = "enum32" -> enum32_encode(v)
      [] t.kind = "union" -> union_encode(t.cases, v)
      [] t.kind = "switch" -> encode_switch(t.cases, v)

Decode(t, buf) ==
    CASE t.kind = "u32" -> decode_u32(buf)
      [] t.kind = "u64" -> decode_prim(buf, 8)
      [] t.kind = "bool" -> decode_bool(buf)
      [] t.kind = "void" -> Done(<<>>, buf)
      [] t.kind = "string" -> decode_string(buf)
      [] t.kind = "opaque" -> decode_opaque(buf, NoLimit)
      [] t.kind = "bounded" -> decode_opaque(buf, t.n)
      [] t.kind = "fixed" -> decode_fixed(buf, t.n)
      [] t.kind = "vec" -> decode_vec(t.of, buf)
      [] t.kind = "option" -> decode_option(t.of, buf)
      [] t.kind = "list" -> decode_list(t.of, buf)
      [] t.kind = "struct" -> construct(t.fields, buf)
      [] t.kind = "enum32" -> enum32_decode(t.discs, buf)
      [] t.kind = "union" -> union_decode(t.cases, buf)
      [] t.kind = "switch" -> decode_switch(t.cases, buf)
=============================================================================
