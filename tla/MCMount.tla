------------------------------ MODULE MCMount -------------------------------
(* Mount on a small server: two levels of directories, three ports. *)
EXTENDS Mount

MCTree == {<<>>, <<"a">>, <<"a", "b">>, <<"b">>}
Paths == {<<"/", "a", "/", "/", "b">>, <<"/", "/">>, <<"/", "c">>}

O(key, value) == <<[key |-> key, value |-> value]>>
Opt(b, key, value) == IF b THEN O(key, value) ELSE <<>>
Url(n, path, opts) == [host |-> <<"srv">>, port |-> n, path |-> path, opts |-> opts]
Mounts(parts, feature, auth_tls, lossy, n) ==
  [parts : parts, api : {"url"}, feature : feature, auth_tls : auth_tls, lossy : lossy,
   moves : n, standard : {FALSE}]

\* NFSv3 with ports fixed or looked up, at every placement of the services.
Urls3 == Mounts({Url(nfsport, path, Opt(m, "mountport", <<"2">>)) :
                   nfsport \in {<<>>, <<"3">>}, path \in Paths, m \in BOOLEAN},
                {TRUE}, {FALSE}, BOOLEAN, {0})
Moving == Mounts({Url(nfsport, <<"/", "a">>, <<>>) : nfsport \in {<<>>, <<"3">>}},
                 {TRUE}, {FALSE}, {FALSE}, {2})
\* NFSv4 with and without TLS.
Urls4 == Mounts({Url(nfsport, path, O("vers", <<"4">>) \o Opt(t, "tls", <<"1">>)
                                      \o Opt(t /\ i, "tls_insecure", <<>>)) :
                   nfsport \in {<<>>, <<"2">>}, path \in Paths, t \in BOOLEAN, i \in BOOLEAN},
                BOOLEAN, BOOLEAN, BOOLEAN, {0, 1})
\* Port 0, where nothing can listen.
Nowhere == Mounts({Url(<<"0">>, <<"/", "a">>, O("vers", <<"4">>))}, {TRUE}, {FALSE}, {FALSE}, {0})

\* URLs of every form, and mount(), with the services in their usual places.
Options == {O("version", <<"4">>), O("nfsvers", <<"4", ".", "1">>), O("vers", <<"4", ".">>),
            O("vers", <<"2">>), O("minorversion", <<"2">>), O("uid", <<"x">>), O("gid", <<"3">>),
            O("timeo", <<"0">>), O("nfsport", <<"2">>), O("mountport", <<"6">>),
            O("xprtsec", <<"false">>),
            O("tls", <<>>), O("tls-insecure", <<"0">>), O("auto-traverse", <<"1">>),
            O("rsize", <<"x">>), O("unknown", <<"1">>)}
Forms == [parts : [host : {<<"srv">>, <<":", ":", "1">>},
                   port : {<<>>, <<"3">>, <<"0">>, <<"6">>, <<"x">>}, path : {<<>>, <<"/", "a">>},
                   opts : {<<>>} \union Options \union {a \o b : a \in Options, b \in Options}],
          api : {"url"}, feature : {TRUE}, auth_tls : {TRUE}, lossy : {FALSE}, moves : {0},
          standard : {TRUE}]
Plain == [parts : {Url(<<>>, path, <<>>) : path \in Paths}, api : {"mount"}, feature : {TRUE},
          auth_tls : {TRUE}, lossy : {FALSE}, moves : {0}, standard : BOOLEAN]
MCSettings == Urls3 \union Urls4 \union Nowhere \union Moving \union Forms \union Plain

\* What the theorem about ContextAsNamed supposes of the parser.
ASSUME PathsAsWritten == PathAsWritten
=============================================================================
