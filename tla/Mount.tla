------------------------------- MODULE Mount --------------------------------
(***************************************************************************)
(* How an NfsContext comes to be (nfs-client/src/context.rs, mount_url,    *)
(* mount, mount_v3 and mount_v4; nfs-proto/src/connect.rs): the URL is     *)
(* parsed (Url); then for NFSv3 the portmapper, the mount daemon, the      *)
(* portmapper again and the NFS server; for NFSv4 the NFS server alone,    *)
(* over TCP or over TLS.  A step is one connection or one RPC call, both   *)
(* of which return (RpcClient); between any two the services may move.     *)
(***************************************************************************)
EXTENDS Url

CONSTANTS Ports,          \* where services may listen
          PMAP, NFS_PORT, \* PORTMAP_PORT and NFS_PORT, 111 and 2049 in the code
          Registrable,    \* what the portmapper may answer, a u32
          Tree,           \* the directories of the server, as sequences of names
          MinPref, MaxPref, DefaultPref, Prefs,  \* 32 KiB, 1 MiB, 64 KiB; FSINFO's values
          Settings

None == 0                 \* no port; also: nothing listens, not registered

(***************************************************************************)
(* One mount: what its URL is made of, unless it is made by mount(); the   *)
(* server's support of TLS and the build's; whether RPCs may fail, how     *)
(* often services move, and whether each is where it usually is.           *)
(***************************************************************************)
Parts(text) == [host : {<<"srv">>, <<":", ":", "1">>}, port : text, path : text,
                opts : Seq([key : STRING, value : text])]
Setting ==
  [parts : Parts(Seq(STRING)), api : {"url", "mount"}, feature : BOOLEAN, auth_tls : BOOLEAN,
   lossy : BOOLEAN, moves : Nat, standard : BOOLEAN]

ASSUME MountAssumption ==
  /\ PortSpace \in Nat \ {0} /\ Ports \subseteq 1 .. PortSpace - 1
  /\ {PMAP, NFS_PORT} \subseteq Ports
  /\ Registrable \subseteq Nat
  /\ MinPref \in Nat \ {0} /\ MaxPref \in Nat /\ DefaultPref \in MinPref .. MaxPref
  /\ Prefs \subseteq Nat
  /\ Tree \subseteq Seq(STRING)
  /\ \A s \in Settings : s \in Setting

VARIABLES setting,
          where, table, moves,  \* services, registrations at the portmapper
          url,                  \* the NfsUrl
          pc, seek, port, conn, \* the call: service looked for, its port, connected to
          root, rest, wsize,    \* the context under construction
          sent                  \* history: the calls sent in clear

world == <<where, table, moves>>
context == <<root, rest, wsize>>
vars == <<setting, world, url, pc, seek, port, conn, context, sent>>

Services == {"portmap", "mountd", "nfs"}
Steps == {"parse", "resolve", "portmap", "getport", "connect", "mnt", "fsinfo", "probe",
          "handshake", "root_fh", "lookup"}

Placement ==
  {w \in [Services -> Ports \union {None}] :
     /\ w["portmap"] \in {PMAP, None}
     /\ \A s, t \in Services : s # t => w[s] # w[t] \/ w[s] = None}

Usual == [s \in Services |-> CASE s = "portmap" -> PMAP [] s = "nfs" -> NFS_PORT
                              [] s = "mountd" -> CHOOSE p \in Ports \ {PMAP, NFS_PORT} : TRUE]

Init ==
  /\ setting \in Settings
  /\ where \in Placement /\ moves = 0
  /\ table \in [{"mountd", "nfs"} -> Registrable]
  /\ setting.standard => where = Usual /\ table = [s \in {"mountd", "nfs"} |-> where[s]]
  /\ url = Default
  /\ pc = "parse" /\ seek = "mountd" /\ port = None /\ conn = None
  /\ root = <<>> /\ rest = <<>> /\ wsize = None /\ sent = {}
-----------------------------------------------------------------------------
(* One step of the mount. *)

\* split_components
Components(path) == Join(SelectSeq(Split(path, "/"), LAMBDA c : c # <<>>))

Go(step) == pc' = step
\* A call is answered by the program that it is for.
Serves(s) == where[s] # None /\ where[s] = conn
Clear(call) == sent' = sent \union {call}

\* The next service: at the port of the URL, or where the portmapper says.
Look(service, fixed) ==
  /\ seek' = service /\ port' = IF fixed = NoPort THEN None ELSE fixed
  /\ Go(IF fixed = NoPort THEN "portmap" ELSE "connect")

\* mount_url and mount.  The parts of a URL, one after the other, are its text.
Text(parts) ==
  LET host == IF ":" \in Range(parts.host) THEN <<"[">> \o parts.host \o <<"]">> ELSE parts.host
      option(o) == <<o.key>> \o (IF o.value = <<>> THEN <<>> ELSE <<"=">> \o o.value)
      query == [i \in DOMAIN parts.opts |-> <<IF i = 1 THEN "?" ELSE "&">> \o option(parts.opts[i])]
  IN <<"nfs://">> \o host \o (IF parts.port = <<>> THEN <<>> ELSE <<":">> \o parts.port)
       \o parts.path \o Join(query)
Given(s) ==
  IF s.api = "url" THEN parse(Text(s.parts))
  ELSE [Default EXCEPT !.server = s.parts.host, !.path = s.parts.path]
Parse ==
  /\ pc = "parse"
  /\ url' = Given(setting)
  /\ Go(IF url' = Invalid THEN "failed" ELSE "resolve")
  /\ UNCHANGED <<setting, world, seek, port, conn, context, sent>>

\* mount_parsed: whatever is not version 4 is mounted as version 3.  mount_v4
\* takes the standard port without asking.
Resolve ==
  /\ pc = "resolve"
  /\ IF url.version = 4
     THEN /\ url.tls => setting.feature
          /\ Look("nfs", IF url.nfsport = NoPort THEN NFS_PORT ELSE url.nfsport)
     ELSE Look("mountd", url.mountport)
  /\ UNCHANGED <<setting, world, url, conn, context, sent>>

\* connect_timeout refuses a duration of 0 (std::net).
Connectable == url.timeo # 0

ConnectPortmap ==
  /\ pc = "portmap" /\ Connectable /\ where["portmap"] = PMAP
  /\ conn' = PMAP /\ Go("getport")
  /\ UNCHANGED <<setting, world, url, seek, port, context, sent>>

\* The answer is cut down to a u16.
getport ==
  /\ pc = "getport" /\ Serves("portmap") /\ table[seek] # 0
  /\ port' = table[seek] % PortSpace /\ Go("connect") /\ Clear("getport")
  /\ UNCHANGED <<setting, world, url, seek, conn, context>>

AfterConnect_InClear ==
  IF seek = "mountd" THEN "mnt" ELSE IF url.version = 4 THEN "handshake" ELSE "fsinfo"
AfterConnect ==
  IF seek = "mountd" THEN "mnt"
  ELSE IF url.version # 4 THEN "fsinfo" ELSE IF url.tls THEN "probe" ELSE "handshake"

\* Somebody listens there: the client does not learn who.
Connect ==
  /\ pc = "connect" /\ Connectable /\ \E s \in Services : where[s] # None /\ where[s] = port
  /\ conn' = port /\ Go(AfterConnect)
  /\ UNCHANGED <<setting, world, url, seek, port, context, sent>>

mnt_AlwaysAsks ==
  /\ pc = "mnt" /\ Serves("mountd") /\ Components(url.path) \in Tree
  /\ root' = Components(url.path) /\ Look("nfs", NoPort) /\ Clear("mnt")
  /\ UNCHANGED <<setting, world, url, conn, rest, wsize>>
mnt ==
  /\ pc = "mnt" /\ Serves("mountd") /\ Components(url.path) \in Tree
  /\ root' = Components(url.path) /\ Look("nfs", url.nfsport) /\ Clear("mnt")
  /\ UNCHANGED <<setting, world, url, conn, rest, wsize>>
-----------------------------------------------------------------------------
(* V3Backend::new *)

clamp_pref(value) ==
  IF value < MinPref THEN MinPref ELSE IF value > MaxPref THEN MaxPref ELSE value

\* A failing FSINFO does not make the mount fail.
fsinfo ==
  /\ pc = "fsinfo"
  /\ \/ Serves("nfs") /\ \E v \in Prefs : wsize' = clamp_pref(v)
     \/ (setting.lossy \/ ~Serves("nfs")) /\ wsize' = DefaultPref
  /\ Go("mounted") /\ Clear("fsinfo")
  /\ UNCHANGED <<setting, world, url, seek, port, conn, root, rest>>
-----------------------------------------------------------------------------
(* connect_v4 and mount_v4 *)

\* A call to the NFS server, in clear unless the probe succeeded.
Nfs4Call(call) ==
  /\ pc = call /\ Serves("nfs")
  /\ sent' = IF url.tls /\ "probe" \in sent THEN sent ELSE sent \union {call}
  /\ UNCHANGED <<setting, world, url, seek, port, conn, wsize>>

\* starttls_probe; the TLS handshake follows with the first call.
Probe ==
  /\ Nfs4Call("probe") /\ setting.auth_tls
  /\ Go("handshake") /\ UNCHANGED <<root, rest>>

\* Without tls_insecure no root certificate is given, and the server's is refused.
Trusted == url.tls => url.tls_insecure

\* The handshake of TLS, then setclientid or establish_session, in Nfs4State step
\* by step.  This call and the next ones may also fail (Refused).
Handshake ==
  /\ Nfs4Call("handshake") /\ Trusted /\ Go("root_fh") /\ UNCHANGED <<root, rest>>

RootFh ==
  /\ Nfs4Call("root_fh")
  /\ root' = <<>> /\ rest' = Components(url.path) /\ Go("lookup")

lookup_FromRoot ==
  /\ rest # <<>> /\ Append(root, Head(rest)) \in Tree /\ Nfs4Call("lookup")
  /\ root' = <<Head(rest)>> /\ rest' = Tail(rest) /\ Go("lookup")
lookup ==
  /\ rest # <<>> /\ Append(root, Head(rest)) \in Tree /\ Nfs4Call("lookup")
  /\ root' = Append(root, Head(rest)) /\ rest' = Tail(rest) /\ Go("lookup")

\* V4Backend::new: sizes that are not negotiated.
Mounted ==
  /\ pc = "lookup" /\ rest = <<>> /\ wsize' = DefaultPref /\ Go("mounted")
  /\ UNCHANGED <<setting, world, url, seek, port, conn, root, rest, sent>>
-----------------------------------------------------------------------------
(* Errors end the mount, whatever was done before stays done. *)

Succeeds ==
  Parse \/ Resolve \/ ConnectPortmap \/ getport \/ Connect \/ mnt \/ fsinfo \/ Probe \/ Handshake
    \/ RootFh \/ lookup \/ Mounted

\* Why a step fails although the network does not.
Refused ==
  \/ pc = "resolve" /\ url.version = 4 /\ url.tls /\ ~setting.feature
  \/ pc \in {"portmap", "connect"} /\ ~Connectable
  \/ pc = "portmap" /\ where["portmap"] # PMAP
  \/ pc = "getport" /\ (~Serves("portmap") \/ table[seek] = 0)
  \/ pc = "connect" /\ \A s \in Services : where[s] # port \/ port = None
  \/ pc = "mnt" /\ ~(Serves("mountd") /\ Components(url.path) \in Tree)
  \/ pc = "probe" /\ ~(Serves("nfs") /\ setting.auth_tls)
  \* The server is asked for a clientid or a session, or answers a COMPOUND: it
  \* may refuse, or run may not read the answer (nfs4.rs:815).
  \/ pc \in {"handshake", "root_fh"} \/ (pc = "lookup" /\ rest # <<>>)

Fails ==
  /\ \/ Refused
     \/ setting.lossy /\ pc \in Steps \ {"parse", "fsinfo"} /\ ~(pc = "lookup" /\ rest = <<>>)
  /\ Go("failed")
  /\ UNCHANGED <<setting, world, url, seek, port, conn, context, sent>>

\* A service moves or stops; its registration may lag behind (external).
Move(s) ==
  /\ pc \in Steps \ {"parse"} /\ moves < setting.moves /\ moves' = moves + 1
  /\ \E p \in (IF s = "portmap" THEN {PMAP} ELSE Ports) \union {None} :
       where' = [where EXCEPT ![s] = p]
  /\ where' \in Placement /\ where' # where
  /\ table' \in {table} \union
       IF s = "portmap" THEN {} ELSE {[table EXCEPT ![s] = where'[s]]}
  /\ UNCHANGED <<setting, url, pc, seek, port, conn, context, sent>>

Client == Succeeds \/ Fails
Next == Client \/ \E s \in Services : Move(s)
Spec == Init /\ [][Next]_vars
-----------------------------------------------------------------------------
(* What a URL means: each field is what the last option that names it says,  *)
(* or else the authority; what nothing names has its default.                *)

Names(field) ==
  CASE field = "version" -> {"version", "vers", "nfsvers"}
    [] field = "minorversion" -> {"minorversion", "minor"}
    [] field = "tls" -> {"tls", "xprtsec"}
    [] field = "tls_insecure" -> {"tls_insecure", "tls-insecure"}
    [] field = "autotraverse" -> {"autotraverse", "auto-traverse"}
    [] OTHER -> {field}
Counts == {"version", "minorversion", "uid", "gid", "timeo"}
Switches == {"tls", "tls_insecure", "autotraverse"}
Fixed == {"nfsport", "mountport"}
Unused == {"dircache", "readahead", "auto-mount", "rsize", "wsize", "retrans"}

OfVersion(o) == o.key \in Names("version")
Pointed(o) == OfVersion(o) /\ "." \in Range(o.value)
Sets(field, o) == o.key \in Names(field) \/ (field = "minorversion" /\ Pointed(o))
Figure(field, o) ==     \* the part of the value that is for field
  IF ~Pointed(o) THEN o.value
  ELSE IF field = "version" THEN Upto(o.value, ".") ELSE Beyond(o.value, ".")
IsPort(v) == IsNumber(v) /\ (IsNumber(v) => Number(v) < PortSpace)

WellFormed(parts) ==
  /\ parts.port = <<>> \/ IsPort(parts.port)
  /\ \A o \in Range(parts.opts) :
       \/ \E f \in Counts : Sets(f, o) /\ \A g \in Counts : Sets(g, o) => IsNumber(Figure(g, o))
       \/ o.key \in Fixed /\ IsPort(o.value)
       \/ o.key \in Unused \/ \E f \in Switches : Sets(f, o)

Meant(parts) ==
  LET last(f) == Max({0} \union {i \in DOMAIN parts.opts : Sets(f, parts.opts[i])})
      said(f) == Figure(f, parts.opts[last(f)])
  IN [f \in DOMAIN Default |->
        CASE f = "server" -> parts.host
          [] f = "path" -> IF parts.path = <<>> THEN <<"/">> ELSE parts.path
          [] f \in Counts -> IF last(f) = 0 THEN Default[f] ELSE Number(said(f))
          [] f \in Switches -> IF last(f) = 0 THEN FALSE ELSE said(f) \notin {<<"0">>, <<"false">>}
          [] f \in Fixed -> IF last(f) # 0 THEN Number(said(f))
                           ELSE IF f = "nfsport" /\ parts.port # <<>> THEN Number(parts.port)
                           ELSE NoPort]

-----------------------------------------------------------------------------
(* Properties. *)

\* A URL is mounted as it is written, whichever of the names and forms of the
\* options it uses, in whatever order, and however often one is given; or the
\* mount is refused before anything is sent (url.rs parse).
UrlAsWritten ==
  setting.api = "url" /\ pc # "parse" =>
    IF WellFormed(setting.parts) THEN url = Meant(setting.parts) ELSE pc = "failed" /\ sent = {}

\* The names in the path that parse makes out of a URL are the names that were
\* written into it: a fact about parse and split_components alone (url.rs).
PathAsWritten ==
  \A s \in Settings : Given(s) # Invalid =>
    /\ Components(Given(s).path) = SelectSeq(s.parts.path, LAMBDA t : t # "/")
    /\ Components(Given(s).path) \in Seq(STRING)

\* A context's root is the directory that the URL names, by MNT as by LOOKUPs
\* (mount_v3, mount_v4), and its sizes let pread and pwrite advance, also when
\* the server answers 0 or nothing (V3Backend::new).
ContextAsNamed ==
  pc = "mounted" =>
    /\ root = SelectSeq(setting.parts.path, LAMBDA t : t # "/")
    /\ wsize \in MinPref .. MaxPref

\* "el resto del RPC viaja cifrado" (client_tls.rs): with TLS in a NFSv4 URL
\* the probe is all that is sent in clear.
ProbeOnlyInClear == url.version = 4 /\ url.tls => sent \subseteq {"probe"}

(***************************************************************************)
(* Everything that a URL of NFSv3 needs is there: the services at the      *)
(* ports that it fixes (connect.rs: "Si se fija, se salta el portmapper"), *)
(* or at the registered ones, and then the portmapper too.                 *)
(***************************************************************************)
Found(s, fixed) ==
  /\ where[s] # None
  /\ \/ fixed = where[s]
     \/ fixed = NoPort /\ where["portmap"] = PMAP /\ table[s] = where[s]
Provided ==
  /\ ~setting.lossy /\ setting.moves = 0 /\ Components(url.path) \in Tree /\ url.timeo # 0
  /\ Found("mountd", url.mountport) /\ Found("nfs", url.nfsport)

\* Then mounting over NFSv3 does not fail, and ends with a connection to the NFS
\* server: with both ports fixed, without a portmapper as well.
MountsIfProvided ==
  url # Invalid /\ url.version # 4 /\ Provided =>
    pc # "failed" /\ (pc = "mounted" => Serves("nfs"))
=============================================================================
