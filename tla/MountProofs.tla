---------------------------- MODULE MountProofs -----------------------------
(***************************************************************************)
(* Proofs about Mount: what is sent in clear, which directory a context is *)
(* for, and that a mount over NFSv3 that has all it needs does not fail,   *)
(* for every set of ports, every tree and every setting.  What parse makes *)
(* of a text is not looked into (it is defined by folds); url is any       *)
(* record.                                                                 *)
(***************************************************************************)
EXTENDS Mount, TLAPS

(***************************************************************************)
(* The inductive invariant.                                                *)
(***************************************************************************)
TypeOK ==
  /\ setting \in Settings /\ where \in Placement /\ table \in [{"mountd", "nfs"} -> Nat]
  /\ moves \in Nat /\ seek \in {"mountd", "nfs"} /\ pc \in Steps \union {"failed", "mounted"}

\* Before the URL is parsed nothing is known of it; afterwards it is what the
\* setting gives, and a URL that is refused goes no further.
Parsed ==
  IF pc = "parse" THEN url = Default /\ sent = {}
  ELSE url = Given(setting) /\ (url = Invalid => pc = "failed")

\* The two ways through the mount: NFSv4 asks neither the portmapper nor the
\* mount daemon; NFSv3 looks for the mount daemon and then for the NFS server.
V4Steps == {"probe", "handshake", "root_fh", "lookup"}
OnePath ==
  /\ pc \in {"portmap", "getport", "mnt", "fsinfo"} => url.version # 4
  /\ pc \in V4Steps => url.version = 4
  /\ pc = "probe" => url.tls
  /\ pc = "connect" /\ url.version = 4 => seek = "nfs"
  /\ pc \in {"parse", "resolve", "mnt"} => seek = "mountd"
  /\ pc \in V4Steps \union {"fsinfo"} => seek = "nfs"

\* After the probe everything is sent through TLS.
InClear ==
  url.version = 4 /\ url.tls =>
    /\ sent \subseteq {"probe"}
    /\ pc \in {"handshake", "root_fh", "lookup"} => "probe" \in sent

\* The root so far and the names still to look up are the path; MNT took all
\* of it at once.
Way == Components(url.path)
Named ==
  /\ pc \in {"portmap", "getport", "connect", "fsinfo"} /\ url.version # 4 /\ seek = "nfs"
       => root = Way
  /\ pc = "lookup" /\ Way \in Seq(STRING) =>
       root \in Seq(STRING) /\ rest \in Seq(STRING) /\ root \o rest = Way
  /\ pc = "mounted" /\ (url.version # 4 \/ Way \in Seq(STRING)) => root = Way
  /\ pc = "mounted" => wsize \in MinPref .. MaxPref

\* A mount over NFSv3 that has all it needs is connected to the service that it
\* talks to, or knows its port, or is about to ask a portmapper that knows it.
Sought == IF seek = "mountd" THEN url.mountport ELSE url.nfsport
OnItsWay ==
  url # Invalid /\ url.version # 4 /\ Provided =>
    /\ pc # "failed"
    /\ pc \in {"portmap", "getport"} => Sought = NoPort
    /\ pc = "getport" => conn = PMAP
    /\ pc = "connect" => port = where[seek]
    /\ pc = "mnt" => conn = where["mountd"]
    /\ pc \in {"fsinfo", "mounted"} => conn = where["nfs"]

IInv == TypeOK /\ Parsed /\ OnePath /\ InClear /\ Named /\ OnItsWay
-----------------------------------------------------------------------------
(***************************************************************************)
(* Facts about ports and paths.                                            *)
(***************************************************************************)

\* A port number in use is no special value, and fits in a u16.
LEMMA InUse ==
  ASSUME NEW p \in Ports
  PROVE  p \in Nat /\ p # None /\ p # NoPort /\ p % PortSpace = p
BY MountAssumption DEF None, NoPort

\* Sizes are within their limits, whatever FSINFO answers.
LEMMA Clamped ==
  ASSUME NEW v \in Prefs
  PROVE  clamp_pref(v) \in MinPref .. MaxPref
BY MountAssumption DEF clamp_pref

\* The next name goes from the rest of a path to the part that is resolved.
LEMMA OneName ==
  ASSUME NEW p \in Seq(STRING), NEW q \in Seq(STRING), q # <<>>
  PROVE  /\ Append(p, Head(q)) \in Seq(STRING) /\ Tail(q) \in Seq(STRING)
         /\ Append(p, Head(q)) \o Tail(q) = p \o q
OBVIOUS

\* What the setting and the services are at any time.
LEMMA Placed ==
  ASSUME TypeOK
  PROVE  /\ where \in [Services -> Ports \union {None}]
         /\ where["portmap"] \in {PMAP, None}
         /\ \A s \in Services : where[s] # None => where[s] \in Ports
BY DEF TypeOK, Placement

\* The NFS server is somewhere when a mount has all it needs.
LEMMA Server ==
  ASSUME Provided
  PROVE  where["nfs"] # None
BY DEF Provided, Found
-----------------------------------------------------------------------------
(***************************************************************************)
(* The invariant holds initially, and every step preserves it.             *)
(***************************************************************************)

\* It holds before the URL is parsed.
LEMMA InitInv == Init => IInv
<1> SUFFICES ASSUME Init PROVE IInv
  OBVIOUS
<1>1. TypeOK
  <2>1. table \in [{"mountd", "nfs"} -> Nat]
    BY Zenon, MountAssumption DEF Init
  <2> QED BY <2>1 DEF Init, TypeOK, Steps
<1>2. Parsed /\ OnePath /\ InClear /\ Named /\ OnItsWay
  BY DEF Init, Parsed, OnePath, InClear, Named, OnItsWay, V4Steps
<1> QED BY <1>1, <1>2 DEF IInv

\* What a step that leaves the settings, the services and the URL alone leaves
\* alone besides.
LEMMA Still ==
  ASSUME UNCHANGED <<setting, world, url>>
  PROVE  /\ UNCHANGED <<setting, where, table, moves, url>>
         /\ Provided' <=> Provided
         /\ Way' = Way
BY DEF world, Provided, Found, Way

\* Parsing the URL.
LEMMA ParseStep == IInv /\ Parse => IInv'
<1> SUFFICES ASSUME IInv, Parse PROVE IInv'
  OBVIOUS
<1>1. TypeOK'
  BY DEF IInv, TypeOK, Parse, world, Go, Steps
<1>2. Parsed' /\ OnePath' /\ InClear' /\ Named' /\ OnItsWay'
  BY DEF IInv, Parsed, OnePath, InClear, Named, OnItsWay, V4Steps, Parse, Go
<1> QED BY <1>1, <1>2 DEF IInv

\* Which service is looked for first, and how.
LEMMA ResolveStep == IInv /\ Resolve => IInv'
<1> SUFFICES ASSUME IInv, Resolve PROVE IInv'
  OBVIOUS
<1> USE DEF Resolve, Look, Go
<1>0. UNCHANGED <<setting, world, url>> /\ NFS_PORT # NoPort
  BY Zenon, InUse, MountAssumption
<1>1. TypeOK'
  BY <1>0 DEF IInv, TypeOK, world, Steps
<1>2. Parsed'
  BY <1>0 DEF IInv, Parsed
<1>3. OnePath'
  BY <1>0 DEF IInv, OnePath, V4Steps
<1>4. InClear'
  BY <1>0 DEF IInv, InClear
<1>5. Named'
  BY <1>0 DEF IInv, OnePath, Named
<1>6. OnItsWay'
  <2> SUFFICES ASSUME url # Invalid, url.version # 4, Provided PROVE OnItsWay'
    BY <1>0, Still DEF OnItsWay
  <2> QED BY <1>0, Still, Placed, InUse DEF OnItsWay, Provided, Found, Sought, IInv, Services
<1> QED BY <1>1, <1>2, <1>3, <1>4, <1>5, <1>6 DEF IInv

\* The portmapper is where it always is.
LEMMA ConnectPortmapStep == IInv /\ ConnectPortmap => IInv'
<1> SUFFICES ASSUME IInv, ConnectPortmap PROVE IInv'
  OBVIOUS
<1> USE DEF ConnectPortmap, Go
<1>1. TypeOK'
  BY DEF IInv, TypeOK, world, Steps
<1>2. Parsed' /\ OnePath' /\ InClear'
  BY DEF IInv, Parsed, OnePath, InClear, V4Steps
<1>3. Named'
  BY Still DEF IInv, Named, context
<1>4. OnItsWay'
  BY Still DEF IInv, OnItsWay, Sought, V4Steps
<1> QED BY <1>1, <1>2, <1>3, <1>4 DEF IInv

\* With all it needs, the mount is told the port where the service is.
LEMMA GetportStep == IInv /\ getport => IInv'
<1> SUFFICES ASSUME IInv, getport PROVE IInv'
  OBVIOUS
<1> USE DEF getport, Go
<1>1. TypeOK'
  BY DEF IInv, TypeOK, world, Steps
<1>2. Parsed' /\ OnePath'
  BY DEF IInv, Parsed, OnePath, V4Steps
<1>3. InClear'
  BY DEF IInv, OnePath, InClear
<1>4. Named'
  BY Still DEF IInv, Named, context
<1>5. OnItsWay'
  <2> SUFFICES ASSUME url # Invalid, url.version # 4, Provided PROVE OnItsWay'
    BY Still DEF OnItsWay
  <2>1. url.version # 4 /\ Sought = NoPort /\ seek \in {"mountd", "nfs"}
    BY DEF IInv, OnePath, OnItsWay, TypeOK
  <2>2. Found("mountd", url.mountport) /\ Found("nfs", url.nfsport)
    BY <2>1 DEF Provided
  <2>3. where[seek] \in Ports
    BY <2>1, <2>2, Placed DEF Found, IInv, Services
  <2>4. Found(seek, Sought)
    BY <2>1, <2>2 DEF Sought
  <2>5. table[seek] = where[seek]
    BY <2>1, <2>3, <2>4, InUse DEF Found
  <2>6. port' = where[seek]
    BY <2>3, <2>5, InUse
  <2> QED BY <2>6, Still DEF OnItsWay, V4Steps
<1> QED BY <1>1, <1>2, <1>3, <1>4, <1>5 DEF IInv

\* A connection is made to whoever listens at the port.
LEMMA ConnectStep == IInv /\ Connect => IInv'
<1> SUFFICES ASSUME IInv, Connect PROVE IInv'
  OBVIOUS
<1> USE DEF Connect, Go
<1>0. \/ seek = "mountd" /\ url.version # 4 /\ pc' = "mnt"
      \/ seek = "nfs" /\ url.version # 4 /\ pc' = "fsinfo"
      \/ seek = "nfs" /\ url.version = 4 /\ url.tls /\ pc' = "probe"
      \/ seek = "nfs" /\ url.version = 4 /\ ~url.tls /\ pc' = "handshake"
  BY DEF AfterConnect, IInv, TypeOK, OnePath
<1>1. TypeOK'
  BY <1>0 DEF IInv, TypeOK, world, Steps
<1>2. Parsed'
  BY <1>0 DEF IInv, Parsed
<1>3. OnePath'
  BY <1>0 DEF IInv, OnePath, V4Steps
<1>4. InClear'
  BY <1>0 DEF IInv, InClear
<1>5. Named'
  BY <1>0, Still DEF IInv, Named, context
<1>6. OnItsWay'
  BY <1>0, Still DEF IInv, OnItsWay, V4Steps
<1> QED BY <1>1, <1>2, <1>3, <1>4, <1>5, <1>6 DEF IInv

\* MNT takes the whole path; the NFS server comes next.
LEMMA MntStep == IInv /\ mnt => IInv'
<1> SUFFICES ASSUME IInv, mnt PROVE IInv'
  OBVIOUS
<1> USE DEF mnt, Look, Go
<1>1. TypeOK'
  BY DEF IInv, TypeOK, world, Steps
<1>2. Parsed'
  BY DEF IInv, Parsed
<1>3. OnePath'
  BY DEF IInv, OnePath, V4Steps
<1>4. InClear'
  BY DEF IInv, InClear, OnePath
<1>5. Named'
  BY Still DEF IInv, Named, OnePath, Way
<1>6. OnItsWay'
  <2> SUFFICES ASSUME url # Invalid, url.version # 4, Provided PROVE OnItsWay'
    BY Still DEF OnItsWay
  <2>1. Found("nfs", url.nfsport)
    BY DEF Provided, IInv, OnePath
  <2> QED BY <2>1, Still DEF OnItsWay, V4Steps, Found, Sought
<1> QED BY <1>1, <1>2, <1>3, <1>4, <1>5, <1>6 DEF IInv

\* FSINFO, whether it succeeds or not, ends the mount over NFSv3.
LEMMA FsinfoStep == IInv /\ fsinfo => IInv'
<1> SUFFICES ASSUME IInv, fsinfo PROVE IInv'
  OBVIOUS
<1> USE DEF fsinfo, Go
<1>0. wsize' \in MinPref .. MaxPref
  BY Clamped, MountAssumption
<1>1. TypeOK'
  BY DEF IInv, TypeOK, world, Steps
<1>2. Parsed' /\ OnePath'
  BY DEF IInv, Parsed, OnePath, V4Steps
<1>3. InClear'
  BY DEF IInv, InClear, OnePath
<1>4. Named'
  BY <1>0, Still DEF IInv, Named, OnePath
<1>5. OnItsWay'
  BY Still DEF IInv, OnItsWay, V4Steps
<1> QED BY <1>1, <1>2, <1>3, <1>4, <1>5 DEF IInv

\* The calls of NFSv4 go to the connection that was made.
LEMMA Nfs4Step ==
  ASSUME IInv, NEW call \in V4Steps, Nfs4Call(call),
         NEW next \in V4Steps \ {"probe"}, Go(next), Named'
  PROVE  IInv'
<1> USE DEF Nfs4Call, Go
<1>0. url.version = 4 /\ seek = "nfs"
  BY DEF IInv, OnePath
<1>1. TypeOK'
  BY DEF IInv, TypeOK, world, Steps, V4Steps
<1>2. Parsed'
  BY DEF IInv, Parsed, V4Steps
<1>3. OnePath'
  BY <1>0 DEF OnePath, V4Steps
<1>4. InClear'
  BY DEF IInv, InClear, V4Steps
<1>5. OnItsWay'
  BY Still DEF IInv, OnItsWay, V4Steps
<1> QED BY <1>1, <1>2, <1>3, <1>4, <1>5 DEF IInv

\* The probe, and the handshake.
LEMMA HandshakeStep == IInv /\ (Probe \/ Handshake) => IInv'
<1>1. ASSUME IInv, Probe PROVE IInv'
  <2>1. Named'
    BY <1>1 DEF Probe, Go, Named
  <2> QED BY <1>1, <2>1, Nfs4Step DEF Probe, V4Steps
<1>2. ASSUME IInv, Handshake PROVE IInv'
  <2>1. Named'
    BY <1>2 DEF Handshake, Go, Named
  <2> QED BY <1>2, <2>1, Nfs4Step DEF Handshake, V4Steps
<1> QED BY <1>1, <1>2

\* At the root nothing is looked up yet, and every LOOKUP is for the next name.
LEMMA LookupStep == IInv /\ (RootFh \/ lookup) => IInv'
<1>1. ASSUME IInv, RootFh PROVE IInv'
  <2>1. Named'
    <3> SUFFICES ASSUME Way \in Seq(STRING)
                 PROVE  root' \in Seq(STRING) /\ rest' = Way /\ root' \o rest' = Way
      BY <1>1, Still DEF RootFh, Nfs4Call, Go, Named
    <3> QED BY <1>1 DEF RootFh, Way
  <2> QED BY <1>1, <2>1, Nfs4Step DEF RootFh, V4Steps
<1>2. ASSUME IInv, lookup PROVE IInv'
  <2>1. Named'
    <3> SUFFICES ASSUME Way \in Seq(STRING)
                 PROVE  root' \in Seq(STRING) /\ rest' \in Seq(STRING) /\ root' \o rest' = Way
      BY Zenon, <1>2, Still DEF lookup, Nfs4Call, Go, Named
    <3>1. root \in Seq(STRING) /\ rest \in Seq(STRING) /\ root \o rest = Way
      BY <1>2 DEF IInv, Named, lookup, Nfs4Call
    <3> QED BY Zenon, <1>2, <3>1, OneName DEF lookup
  <2> QED BY <1>2, <2>1, Nfs4Step DEF lookup, V4Steps
<1> QED BY <1>1, <1>2

\* When no name is left the root is the whole path.
LEMMA MountedStep == IInv /\ Mounted => IInv'
<1> SUFFICES ASSUME IInv, Mounted PROVE IInv'
  OBVIOUS
<1> USE DEF Mounted, Go
<1>1. TypeOK'
  BY DEF IInv, TypeOK, world, Steps
<1>2. Parsed' /\ OnePath' /\ InClear'
  BY DEF IInv, Parsed, OnePath, InClear, V4Steps
<1>3. Named'
  <2>1. wsize' \in MinPref .. MaxPref
    BY MountAssumption
  <2>2. Way \in Seq(STRING) => root = Way
    BY DEF IInv, Named
  <2> QED BY <2>1, <2>2, Still DEF Named, IInv, OnePath, V4Steps
<1>4. OnItsWay'
  BY Still DEF IInv, OnItsWay, OnePath, V4Steps
<1> QED BY <1>1, <1>2, <1>3, <1>4 DEF IInv

\* Nothing refuses a mount over NFSv3 that has all it needs.
LEMMA NotRefused ==
  ASSUME IInv, url # Invalid, url.version # 4, Provided
  PROVE  ~Refused
<1> USE DEF IInv
<1>1. where["nfs"] # None /\ url.timeo # 0 /\ Way \in Tree
  BY SMTT(30), Server DEF Provided, Way
<1>2. CASE pc = "resolve"
  BY <1>2 DEF Refused, Provided
<1>3. CASE pc \in {"portmap", "getport"}
  <2>1. url.version # 4 /\ Sought = NoPort /\ seek \in {"mountd", "nfs"}
    BY <1>3 DEF OnePath, OnItsWay, TypeOK
  <2>2. Found(seek, Sought)
    BY <2>1 DEF Provided, Sought
  <2>3. where[seek] \in Ports
    BY <2>1, <2>2, Placed DEF Found, Services
  <2>4. where["portmap"] = PMAP /\ table[seek] # 0 /\ PMAP # None
    BY Zenon, <2>1, <2>2, <2>3, InUse, MountAssumption DEF Found, None
  <2> QED BY <1>1, <1>3, <2>4 DEF Refused, Serves, Connectable, OnItsWay
<1>4. CASE pc = "connect"
  <2>1. port = where[seek] /\ seek \in Services
    BY <1>4 DEF OnItsWay, TypeOK, Services
  <2>2. where[seek] # None
    BY <1>1, <1>4 DEF OnePath, Provided, Found, TypeOK
  <2> QED BY <1>1, <1>4, <2>1, <2>2 DEF Refused, Connectable
<1>5. CASE pc = "mnt"
  BY <1>1, <1>5 DEF Refused, Serves, OnItsWay, OnePath, Provided, Found, Way
<1>6. pc \notin V4Steps
  BY DEF OnePath
<1> QED BY <1>2, <1>3, <1>4, <1>5, <1>6 DEF Refused, V4Steps

\* A step that fails is one of a mount that lacks something.
LEMMA FailsStep == IInv /\ Fails => IInv'
<1> SUFFICES ASSUME IInv, Fails PROVE IInv'
  OBVIOUS
<1> USE DEF Fails, Go
<1>1. TypeOK'
  BY DEF IInv, TypeOK, world, Steps
<1>2. pc # "parse"
  BY DEF Refused
<1>3. Parsed' /\ OnePath' /\ InClear' /\ Named'
  BY <1>2 DEF IInv, Parsed, OnePath, InClear, Named, V4Steps
<1>4. OnItsWay'
  <2>1. ~(url # Invalid /\ url.version # 4 /\ Provided)
    <3> SUFFICES ASSUME url # Invalid, url.version # 4, Provided PROVE FALSE
      OBVIOUS
    <3>1. ~setting.lossy
      BY DEF Provided
    <3> QED BY <3>1, NotRefused
  <2> QED BY <2>1, Still DEF OnItsWay
<1> QED BY <1>1, <1>3, <1>4 DEF IInv

\* Services move only under a mount that is not promised anything.
LEMMA MoveStep ==
  ASSUME IInv, NEW s \in Services, Move(s)
  PROVE  IInv'
<1> USE DEF Move
<1>1. TypeOK'
  <2>1. where' \in Placement /\ where'[s] \in Nat
    <3>1. where' \in Placement
      OBVIOUS
    <3>2. where'[s] \in Ports \union {None}
      BY <3>1 DEF Placement
    <3>3. Ports \union {None} \subseteq Nat
      BY InUse DEF None
    <3> QED BY <3>1, <3>2, <3>3
  <2>2. table' \in [{"mountd", "nfs"} -> Nat]
    BY <2>1 DEF IInv, TypeOK, Services
  <2>3. moves' \in Nat
    BY DEF IInv, TypeOK
  <2> QED BY <2>1, <2>2, <2>3 DEF IInv, TypeOK
<1>2. Parsed' /\ OnePath' /\ InClear'
  BY DEF IInv, Parsed, OnePath, InClear
<1>3. Named'
  BY DEF IInv, Named, Way, context
<1>4. OnItsWay'
  <2>1. setting' = setting /\ setting.moves # 0
    BY DEF IInv, TypeOK
  <2> QED BY <2>1 DEF OnItsWay, Provided
<1> QED BY <1>1, <1>2, <1>3, <1>4 DEF IInv

\* Every step preserves the invariant.
LEMMA NextInv == IInv /\ [Next]_vars => IInv'
<1> SUFFICES ASSUME IInv, [Next]_vars PROVE IInv'
  OBVIOUS
<1>1. CASE Succeeds
  BY <1>1, ParseStep, ResolveStep, ConnectPortmapStep, GetportStep, ConnectStep, MntStep,
     FsinfoStep, HandshakeStep, LookupStep, MountedStep DEF Succeeds
<1>2. CASE Fails
  BY <1>2, FailsStep
<1>3. CASE \E s \in Services : Move(s)
  BY <1>3, MoveStep
<1>4. CASE UNCHANGED vars
  <2>1. /\ UNCHANGED <<setting, where, table, moves, url, pc, seek, port, conn>>
        /\ UNCHANGED <<root, rest, wsize, sent>>
    BY <1>4 DEF vars, world, context
  <2>2. TypeOK' /\ Parsed' /\ OnePath' /\ InClear'
    BY <2>1 DEF IInv, TypeOK, Parsed, OnePath, InClear
  <2>3. Named'
    BY <2>1 DEF IInv, Named, Way
  <2>4. OnItsWay'
    BY <2>1, Still DEF IInv, OnItsWay, Sought, world
  <2> QED BY <2>2, <2>3, <2>4 DEF IInv
<1> QED BY <1>1, <1>2, <1>3, <1>4 DEF Next, Client

\* The invariant holds always.
THEOREM Invariant == Spec => []IInv
BY InitInv, NextInv, PTL DEF Spec
-----------------------------------------------------------------------------
(***************************************************************************)
(* What follows from it.                                                   *)
(***************************************************************************)

\* With TLS in the URL of an NFSv4 mount nothing but the STARTTLS probe is sent
\* in clear, whether or not the server supports it, the certificate is trusted
\* or services move under the mount (connect_v4).
THEOREM Encrypted == Spec => []ProbeOnlyInClear
<1>1. IInv => ProbeOnlyInClear
  BY DEF IInv, InClear, ProbeOnlyInClear
<1> QED BY <1>1, Invariant, PTL

\* A mount over NFSv3 that has all it needs does not fail, and ends connected to
\* the NFS server: through the portmapper, whose 32 bits are cut down to 16, or
\* past it (connect.rs mount).
THEOREM Mounts == Spec => []MountsIfProvided
<1>1. IInv => MountsIfProvided
  <2> SUFFICES ASSUME IInv, url # Invalid, url.version # 4, Provided
               PROVE  pc # "failed" /\ (pc = "mounted" => Serves("nfs"))
    BY DEF MountsIfProvided
  <2> QED BY Server DEF IInv, OnItsWay, Serves
<1> QED BY <1>1, Invariant, PTL

\* If parse and split_components keep the names of a path, then the context is
\* for the directory that was asked for: MNT is given all of it, and the LOOKUPs
\* of NFSv4, however long the path, skip and repeat no name.  The sizes that
\* pread and pwrite divide by are within their limits.
THEOREM NamesItsRoot ==
  ASSUME PathAsWritten
  PROVE  Spec => []ContextAsNamed
<1>1. IInv => ContextAsNamed
  <2> SUFFICES ASSUME IInv, pc = "mounted"
               PROVE  /\ root = SelectSeq(setting.parts.path, LAMBDA t : t # "/")
                      /\ wsize \in MinPref .. MaxPref
    BY DEF ContextAsNamed
  <2>1. setting \in Settings /\ url = Given(setting) /\ url # Invalid
    BY DEF IInv, TypeOK, Parsed
  <2>2. /\ Way = SelectSeq(setting.parts.path, LAMBDA t : t # "/")
        /\ Way \in Seq(STRING)
    BY <2>1, PathAsWritten DEF PathAsWritten, Way
  <2> QED BY <2>2 DEF IInv, Named
<1> QED BY <1>1, Invariant, PTL
=============================================================================
