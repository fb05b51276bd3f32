-------------------------------- MODULE Url ---------------------------------
(***************************************************************************)
(* NfsUrl::parse (nfs-client/src/url.rs).  The text of a URL is a sequence *)
(* of tokens: the scheme, the characters that it is split at, words and    *)
(* numbers.  A number is one token; a port above the u16 is none.          *)
(***************************************************************************)
EXTENDS Naturals, Sequences, FiniteSetsExt

CONSTANT PortSpace        \* a port is a u16: 2^16 in the code

Numerals == [n \in {"0", "1", "2", "3", "4", "6"} |->
               CASE n = "0" -> 0 [] n = "1" -> 1 [] n = "2" -> 2
                 [] n = "3" -> 3 [] n = "4" -> 4 [] n = "6" -> 6]

(* A port, or none.  Some(0) is a port. *)
NoPort == PortSpace

Default == [server |-> <<>>, path |-> <<"/">>, version |-> 3, minorversion |-> 0, uid |-> 0,
            gid |-> 0, nfsport |-> NoPort, mountport |-> NoPort, timeo |-> 60,
            autotraverse |-> FALSE, tls |-> FALSE, tls_insecure |-> FALSE]
Invalid == [Default EXCEPT !.version = 0, !.path = <<>>]

-----------------------------------------------------------------------------
(* Cutting a text. *)

\* The places of x in s, the first and the last of them or 0.
All(s, x) == {i \in DOMAIN s : s[i] = x}
At(s, x) == IF All(s, x) = {} THEN 0 ELSE Min(All(s, x))
LastAt(s, x) == Max({0} \union All(s, x))
Before(s, i) == SubSeq(s, 1, i - 1)
After(s, i) == SubSeq(s, i + 1, Len(s))
Upto(s, x) == IF At(s, x) = 0 THEN s ELSE Before(s, At(s, x))
Beyond(s, x) == IF At(s, x) = 0 THEN <<>> ELSE After(s, At(s, x))
\* op from the left to the right.
FoldLeft(op(_, _), base, s) ==
  MapThenFoldSet(LAMBDA t, acc : op(acc, t), base, LAMBDA i : s[i], Max, DOMAIN s)
Join(ss) == FoldLeft(LAMBDA a, b : a \o b, <<>>, ss)
Split(s, x) ==
  FoldLeft(LAMBDA parts, t : IF t = x THEN Append(parts, <<>>)
                             ELSE [parts EXCEPT ![Len(parts)] = Append(@, t)],
           <<<<>>>>, s)

IsNumber(s) == Len(s) = 1 /\ s[1] \in DOMAIN Numerals
Number(s) == Numerals[s[1]]
parse_bool(s) == s \notin {<<"0">>, <<"false">>}

-----------------------------------------------------------------------------
(* u, or u with one field set; Invalid stays so. *)
Put(u, field, good, value) ==
  IF u = Invalid \/ ~good THEN Invalid ELSE [u EXCEPT ![field] = value]
parse_u32(u, field, s) == Put(u, field, IsNumber(s), IF IsNumber(s) THEN Number(s) ELSE 0)
parse_port(u, field, s) ==
  Put(u, field, IsNumber(s) /\ (IsNumber(s) => Number(s) < PortSpace),
      IF IsNumber(s) THEN Number(s) ELSE 0)

(* host, host:port, [ipv6] or [ipv6]:port; what follows "]" may be anything. *)
Authority(u, s) ==
  CASE s = <<>> -> Invalid
    [] s # <<>> /\ s[1] = "[" ->
         IF At(s, "]") = 0 THEN Invalid
         ELSE LET v == [u EXCEPT !.server = SubSeq(s, 2, At(s, "]") - 1)]
                  after == Beyond(s, "]")
              IN IF after # <<>> /\ after[1] = ":" THEN parse_port(v, "nfsport", Tail(after))
                 ELSE v
    [] s # <<>> /\ s[1] # "[" ->
         IF LastAt(s, ":") = 0 THEN [u EXCEPT !.server = s]
         ELSE parse_port([u EXCEPT !.server = Before(s, LastAt(s, ":"))], "nfsport",
                         After(s, LastAt(s, ":")))

Version_MajorOnly(u, s) == parse_u32(u, "version", Upto(s, "."))
Version(u, s) ==
  IF At(s, ".") = 0 THEN parse_u32(u, "version", s)
  ELSE parse_u32(parse_u32(u, "version", Upto(s, ".")), "minorversion", Beyond(s, "."))

Param(u, key, s) ==
  CASE u = Invalid -> Invalid
    [] u # Invalid /\ key \in {<<"version">>, <<"vers">>, <<"nfsvers">>} -> Version(u, s)
    [] u # Invalid /\ key \in {<<"minorversion">>, <<"minor">>} -> parse_u32(u, "minorversion", s)
    [] u # Invalid /\ key \in {<<"uid">>, <<"gid">>, <<"timeo">>} -> parse_u32(u, key[1], s)
    [] u # Invalid /\ key \in {<<"nfsport">>, <<"mountport">>} -> parse_port(u, key[1], s)
    [] u # Invalid /\ key \in {<<"autotraverse">>, <<"auto-traverse">>} ->
         Put(u, "autotraverse", TRUE, parse_bool(s))
    [] u # Invalid /\ key \in {<<"tls">>, <<"xprtsec">>} -> Put(u, "tls", TRUE, parse_bool(s))
    [] u # Invalid /\ key \in {<<"tls_insecure">>, <<"tls-insecure">>} ->
         Put(u, "tls_insecure", TRUE, parse_bool(s))
    [] u # Invalid /\ key \in {<<"dircache">>, <<"readahead">>, <<"auto-mount">>, <<"rsize">>,
                               <<"wsize">>, <<"retrans">>} -> u
    [] OTHER -> Invalid

Pairs(query) == SelectSeq(Split(query, "&"), LAMBDA pair : pair # <<>>)
Query(u, query) ==
  FoldLeft(LAMBDA v, pair : Param(v, Upto(pair, "="), Beyond(pair, "=")), u, Pairs(query))

parse(text) ==
  LET location == Upto(Tail(text), "?")
      slash == At(location, "/")
      path == IF slash = 0 THEN <<"/">> ELSE SubSeq(location, slash, Len(location))
      u == Authority([Default EXCEPT !.path = path], Upto(location, "/"))
  IN IF text = <<>> \/ (text # <<>> /\ text[1] # "nfs://") THEN Invalid
     ELSE Query(u, Beyond(text, "?"))
=============================================================================
