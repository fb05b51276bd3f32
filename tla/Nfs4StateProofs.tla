-------------------------- MODULE Nfs4StateProofs ---------------------------
(***************************************************************************)
(* What Nfs4State promises, for any number of files, calls, passes and     *)
(* restarts of the server, and for whatever it answers.                    *)
(*                                                                         *)
(* The client and the server count the same things, the operations of an   *)
(* open-owner (NFSv4.0) and the COMPOUNDs of a slot (NFSv4.1), and each    *)
(* property rests on their counts being equal (OwnerInv, SlotInv) while    *)
(* nothing of Disturbs has happened.  A COMPOUND in order is carried out   *)
(* and not answered from what was saved for another one: the stateid of an *)
(* OPEN is then new (OpensInv).                                            *)
(***************************************************************************)
EXTENDS Nfs4State, TLAPS

Kinds == {"none", "setclientid", "setclientid_confirm", "exchange_id", "create_session",
          "reclaim_complete", "open", "open_confirm", "close", "lock", "plain",
          "destroy_session"}
Statuses == {"Ok", "Err", "Delay", "Resource", "Denied", "BadStateid", "Stale", "RpcError"}
              \union Refusals
Files == Names \union {NoFile}
RepType == [status : Statuses, kind : Kinds, serial : Nat, try : Nat, fh : Files, id : Nat,
            confirm : BOOLEAN, deleg : BOOLEAN]
ServerType == [boot : Nat, client : BOOLEAN, session : BOOLEAN, slot : Nat, known : BOOLEAN,
               confirmed : BOOLEAN, expected : Nat, cached : RepType,
               opens : SUBSET [id : Nat, fh : Files], nextid : Nat]
OpType == [kind : Kinds, serial : Nat, name : Files, fh : Files, id : Nat, seqid : Nat,
           seq : Nat, try : Nat, clientid : Nat]
HandleType == [name : Files, fh : Files, id : Nat, serial : Nat]

TypeOK ==
  /\ setting \in Settings /\ upset \in BOOLEAN
  /\ clientid \in Nat /\ open_seqid \in Nat /\ sessionid \in BOOLEAN /\ seq_id \in Nat
  /\ pc \in {"run", "sleep", "idle", "failed"} /\ op \in OpType /\ attempts \in Nat
  /\ handles \subseteq HandleType /\ serial \in Nat
  /\ srv \in ServerType

\* A call is under way.
Working == pc \in {"run", "sleep"}
KindsOf(minor) ==
  IF minor = 1 THEN {"exchange_id", "create_session", "reclaim_complete", "open", "close", "lock",
                     "plain", "destroy_session"}
  ELSE {"setclientid", "setclientid_confirm", "open", "open_confirm", "close", "lock", "plain"}
Flow ==
  /\ op.kind \in KindsOf(Minor)
  /\ Minor = 0 => ~sessionid
  /\ Minor = 1 => ~srv.confirmed
  /\ srv.session => srv.client
  /\ clientid <= srv.boot /\ op.clientid <= srv.boot
  /\ Working =>
       IF op.kind \in Handshake
       THEN ~sessionid /\ handles = {} /\ ~srv.confirmed /\ srv.slot = 0
       ELSE op.clientid = clientid
  /\ Working /\ op.kind = "create_session" => op.clientid = clientid
  /\ Working /\ op.kind \in Sequenced => op.seqid = open_seqid
  /\ Working /\ InSession /\ attempts > 0 => sessionid

\* The server still knows this client, and nothing has disturbed the counts.
Steady == clientid = srv.boot /\ ~upset
OwnerInv ==
  Minor = 0 /\ Steady =>
    /\ srv.confirmed => srv.known /\ open_seqid = srv.expected
    /\ ~srv.confirmed => handles = {} /\ (Working => op.kind \notin {"close", "lock"})
    /\ Working /\ op.kind = "open_confirm" =>
         srv.known /\ ~srv.confirmed /\ open_seqid = srv.expected
SlotInv ==
  EirSequence = 1 /\ sessionid /\ srv.session /\ Steady => seq_id = srv.slot + 1
OpensInv ==
  /\ OpensKeptApart
  /\ ~upset => \A h \in handles : h.id < srv.nextid
  /\ Working /\ op.kind = "open_confirm" /\ ~upset =>
       op.fh = op.name /\ op.id < srv.nextid /\ \A h \in handles : h.id # op.id
RetriesInv == EirSequence = 1 => RetriesInSession

IInv == TypeOK /\ Flow /\ OwnerInv /\ SlotInv /\ OpensInv /\ RetriesInv

-----------------------------------------------------------------------------
(* Answers and servers. *)

\* An answer is of its type, and to the request that it is for.
LEMMA AnswerType ==
  ASSUME NEW req, req.kind \in Kinds, req.serial \in Nat, req.try \in Nat, NEW st \in Statuses
  PROVE  LET a == Answer(req, st) IN
           /\ a \in RepType /\ a.status = st /\ a.kind = req.kind /\ a.try = req.try
           /\ a.id = 0 /\ a.confirm = FALSE /\ a.deleg = FALSE
  BY DEF Answer, RepType, Files

\* A call that has no answer.
LEMMA RpcErrorType ==
  RpcError \in RepType /\ RpcError.status = "RpcError" /\ RpcError.deleg = FALSE
  <1>1. Nobody.kind \in Kinds /\ Nobody.serial \in Nat /\ Nobody.try \in Nat
    BY DEF Nobody, Kinds
  <1>2. "RpcError" \in Statuses
    BY DEF Statuses
  <1> QED BY Zenon, <1>1, <1>2, AnswerType DEF RpcError

\* A server that has just started.
LEMMA FreshType ==
  ASSUME NEW b \in Nat
  PROVE  LET s == FreshServer(b) IN
           /\ s \in ServerType /\ s.boot = b /\ ~s.session /\ ~s.confirmed /\ s.slot = 0
           /\ s.nextid = 1
  <1>1. Nobody.kind \in Kinds /\ Nobody.serial \in Nat /\ Nobody.try \in Nat
    BY DEF Nobody, Kinds
  <1>2. Answer(Nobody, "Ok") \in RepType
    BY Zenon, <1>1, AnswerType DEF Statuses
  <1> QED BY <1>2 DEF FreshServer, ServerType

\* The circumstances.
LEMMA SettingType ==
  ASSUME setting \in Settings
  PROVE  /\ Minor \in {0, 1} /\ Delegations \in BOOLEAN
         /\ Failures \subseteq {"Err", "Delay", "Resource", "Denied"}
  BY SettingsAssumption DEF Setting, Minor, Delegations, Failures

(***************************************************************************)
(* What carrying out an operation does to the server and what it answers.  *)
(***************************************************************************)
Plainly == {"Ok", "Err", "Delay", "Resource", "Denied", "BadStateid", "Stale"}
Carries(s, req, d) ==
  /\ d.srv \in ServerType /\ d.rep \in RepType
  /\ d.rep.kind = req.kind /\ d.rep.try = req.try /\ d.rep.status \in Plainly
  /\ d.srv.boot = s.boot /\ d.srv.slot = s.slot /\ d.srv.known = s.known
  /\ d.srv.expected = s.expected /\ s.nextid <= d.srv.nextid
  /\ d.srv.confirmed = (s.confirmed \/ (req.kind = "open_confirm" /\ d.rep.status = "Ok"))
  /\ (s.session => s.client) => (d.srv.session => d.srv.client)
  /\ d.srv.session => s.session \/ req.kind \in {"create_session", "setclientid_confirm"}
  /\ req.kind \in Sequenced => d.srv.client = s.client /\ d.srv.session = s.session
  /\ req.kind = "open" /\ d.rep.status = "Ok" =>
       /\ d.rep.fh = req.name /\ d.rep.id = s.nextid /\ d.rep.id < d.srv.nextid
       /\ d.rep.confirm = (Minor = 0 /\ ~s.confirmed)
  /\ req.kind = "open_confirm" /\ d.rep.status = "Ok" => d.rep.id = req.id
  /\ req.kind \in {"exchange_id", "setclientid"} /\ d.rep.status = "Ok" => d.rep.id = s.boot

\* ... when it fails or changes nothing,
LEMMA CarriesNothing ==
  ASSUME NEW s \in ServerType, NEW req \in OpType, NEW st \in Plainly,
         req.kind \in {"open", "open_confirm", "exchange_id", "setclientid"} => st # "Ok",
         NEW d, d = Did(s, Answer(req, st))
  PROVE  Carries(s, req, d)
  <1>1. req.kind \in Kinds /\ req.serial \in Nat /\ req.try \in Nat /\ st \in Statuses
    BY DEF OpType, Statuses, Plainly
  <1>2. PICK a \in RepType : a = Answer(req, st) /\ a.status = st /\ a.kind = req.kind
                             /\ a.try = req.try
    BY Zenon, <1>1, AnswerType
  <1>3. d.srv = s /\ d.rep = a
    BY <1>2 DEF Did
  <1>4. s.nextid <= s.nextid
    BY DEF ServerType
  <1>5. s.confirmed \in BOOLEAN
    BY Zenon DEF ServerType
  <1> QED BY <1>2, <1>3, <1>4, <1>5 DEF Carries

\* ... OPEN,
LEMMA CarriesOpen ==
  ASSUME setting \in Settings, NEW s \in ServerType, NEW req \in OpType, req.kind = "open",
         NEW dl \in {FALSE, Delegations}, NEW d,
         d = Did([s EXCEPT !.opens = (IF Minor = 0 /\ ~s.confirmed THEN {} ELSE @)
                                     \union {[id |-> s.nextid, fh |-> req.name]},
                           !.nextid = @ + 1],
                 [Answer(req, "Ok") EXCEPT !.fh = req.name, !.id = s.nextid,
                                           !.confirm = (Minor = 0 /\ ~s.confirmed),
                                           !.deleg = dl])
  PROVE  Carries(s, req, d)
  <1>1. /\ req.kind \in Kinds /\ req.serial \in Nat /\ req.try \in Nat /\ "Ok" \in Statuses
        /\ req.name \in Files /\ dl \in BOOLEAN
    BY Zenon, SettingType DEF OpType, Statuses
  <1>2. PICK a \in RepType : a = Answer(req, "Ok") /\ a.status = "Ok" /\ a.kind = req.kind
                             /\ a.try = req.try
    BY Zenon, <1>1, AnswerType
  <1>3. PICK os \in SUBSET [id : Nat, fh : Files] :
          os = (IF Minor = 0 /\ ~s.confirmed THEN {} ELSE s.opens)
                 \union {[id |-> s.nextid, fh |-> req.name]}
    <2>1. s.opens \in SUBSET [id : Nat, fh : Files] /\ s.nextid \in Nat
      BY DEF ServerType
    <2>2. [id |-> s.nextid, fh |-> req.name] \in [id : Nat, fh : Files]
      BY <1>1, <2>1
    <2> QED BY Zenon, <2>1, <2>2
  <1>4. PICK c \in BOOLEAN : c = (Minor = 0 /\ ~s.confirmed)
    BY Zenon
  <1>5. PICK s1 : s1 = [s EXCEPT !.opens = os, !.nextid = s.nextid + 1]
    OBVIOUS
  <1>6. PICK a1 : a1 = [a EXCEPT !.fh = req.name, !.id = s.nextid, !.confirm = c, !.deleg = dl]
    OBVIOUS
  <1>7. d.srv = s1 /\ d.rep = a1
    BY <1>2, <1>3, <1>4, <1>5, <1>6 DEF Did
  <1>8. s.nextid \in Nat /\ s.nextid + 1 \in Nat /\ s.nextid <= s.nextid + 1 /\ s.nextid < s.nextid + 1
    BY DEF ServerType
  <1>9. /\ s1 \in ServerType /\ s1.boot = s.boot /\ s1.slot = s.slot /\ s1.known = s.known
        /\ s1.expected = s.expected /\ s1.nextid = s.nextid + 1 /\ s1.confirmed = s.confirmed
        /\ s1.session = s.session /\ s1.client = s.client /\ s1.confirmed \in BOOLEAN
    BY Zenon, <1>5, <1>8 DEF ServerType
  <1>10. /\ a1 \in RepType /\ a1.status = "Ok" /\ a1.kind = req.kind /\ a1.try = req.try
         /\ a1.fh = req.name /\ a1.id = s.nextid /\ a1.confirm = c
    BY Zenon, <1>1, <1>2, <1>6, <1>8 DEF RepType
  <1>11. a1.confirm = (Minor = 0 /\ ~s.confirmed)
    BY <1>4, <1>10
  <1> QED BY <1>7, <1>8, <1>9, <1>10, <1>11 DEF Carries, Plainly

\* ... and the others.
LEMMA CarriesRest ==
  ASSUME setting \in Settings, NEW s \in ServerType, NEW req \in OpType, NEW d, NEW a \in RepType,
         a.status \in Plainly, a.kind = req.kind, a.try = req.try, req.kind # "open",
         NEW s1 \in ServerType, d = Did(s1, a),
         s1.boot = s.boot, s1.slot = s.slot, s1.known = s.known, s1.expected = s.expected,
         s1.nextid = s.nextid,
         s1.confirmed = (s.confirmed \/ (req.kind = "open_confirm" /\ a.status = "Ok")),
         (s.session => s.client) => (s1.session => s1.client),
         s1.session => s.session \/ req.kind \in {"create_session", "setclientid_confirm"},
         req.kind \in Sequenced => s1.client = s.client /\ s1.session = s.session,
         req.kind = "open_confirm" /\ a.status = "Ok" => a.id = req.id,
         req.kind \in {"exchange_id", "setclientid"} => a.id = s.boot
  PROVE  Carries(s, req, d)
  <1>1. d.srv = s1 /\ d.rep = a
    BY DEF Did
  <1>2. s.nextid <= s1.nextid
    BY DEF ServerType
  <1> QED BY <1>1, <1>2 DEF Carries

LEMMA EffectsCarry ==
  ASSUME setting \in Settings, NEW s \in ServerType, NEW req \in OpType, NEW d \in Effects(s, req)
  PROVE  Carries(s, req, d)
  <1>0. /\ req.kind \in Kinds /\ req.serial \in Nat /\ req.try \in Nat /\ req.id \in Nat
        /\ "Ok" \in Statuses /\ "Ok" \in Plainly /\ "Stale" \in Plainly /\ "BadStateid" \in Statuses
        /\ "BadStateid" \in Plainly
    BY DEF OpType, Statuses, Plainly
  <1>1. ASSUME NEW f \in Failures, d = Did(s, Answer(req, f)) PROVE Carries(s, req, d)
    <2>1. f \in Plainly /\ f # "Ok"
      BY SettingType DEF Plainly
    <2> QED BY <1>1, <2>1, CarriesNothing
  <1>2. PICK a \in RepType : /\ a = Answer(req, "Ok") /\ a.status = "Ok" /\ a.kind = req.kind
                             /\ a.try = req.try
    BY Zenon, <1>0, AnswerType
  <1>3. CASE req.kind = "open"
    <2>1. ASSUME NEW dl \in {FALSE, Delegations},
                 d = Did([s EXCEPT !.opens = (IF Minor = 0 /\ ~s.confirmed THEN {} ELSE @)
                                     \union {[id |-> s.nextid, fh |-> req.name]},
                           !.nextid = @ + 1],
                 [Answer(req, "Ok") EXCEPT !.fh = req.name, !.id = s.nextid,
                                           !.confirm = (Minor = 0 /\ ~s.confirmed),
                                           !.deleg = dl])
          PROVE  Carries(s, req, d)
      BY Zenon, <1>3, <2>1, CarriesOpen
    <2> QED BY <1>1, <1>3, <2>1 DEF Effects
  <1>4. CASE req.kind = "open_confirm"
    <2>1. ASSUME d = Did([s EXCEPT !.confirmed = TRUE], [Answer(req, "Ok") EXCEPT !.id = req.id])
          PROVE  Carries(s, req, d)
      <3>1. PICK s1 : s1 = [s EXCEPT !.confirmed = TRUE]
        BY Zenon
      <3>2. PICK a1 : a1 = [a EXCEPT !.id = req.id]
        BY Zenon
      <3>3. /\ s1 \in ServerType /\ s1.boot = s.boot /\ s1.slot = s.slot /\ s1.known = s.known
            /\ s1.expected = s.expected /\ s1.nextid = s.nextid /\ s1.confirmed = TRUE
            /\ s1.session = s.session /\ s1.client = s.client
        BY Zenon, <3>1 DEF ServerType
      <3>4. /\ a1 \in RepType /\ a1.status = "Ok" /\ a1.kind = req.kind /\ a1.try = req.try
            /\ a1.id = req.id
        BY <1>0, <1>2, <3>2 DEF RepType
      <3>5. d = Did(s1, a1)
        BY <1>2, <2>1, <3>1, <3>2
      <3> QED BY Zenon, <1>0, <1>4, <3>3, <3>4, <3>5, CarriesRest
    <2> QED BY <1>1, <1>4, <2>1 DEF Effects
  <1>5. CASE req.kind = "close"
    <2>1. ASSUME NEW st \in {"Ok", "BadStateid"},
                 d = Did([s EXCEPT !.opens = {o \in @ : o.id # req.id}], Answer(req, st))
          PROVE  Carries(s, req, d)
      <3>1. PICK os \in SUBSET [id : Nat, fh : Files] : os = {o \in s.opens : o.id # req.id}
        BY Zenon DEF ServerType
      <3>2. PICK s1 : s1 = [s EXCEPT !.opens = os]
        BY Zenon
      <3>3. /\ s1 \in ServerType /\ s1.boot = s.boot /\ s1.slot = s.slot /\ s1.known = s.known
            /\ s1.expected = s.expected /\ s1.nextid = s.nextid /\ s1.confirmed = s.confirmed
            /\ s1.session = s.session /\ s1.client = s.client /\ s1.confirmed \in BOOLEAN
        BY <3>2 DEF ServerType
      <3>0. st \in Statuses
        BY <1>0
      <3>4. PICK a1 : a1 = Answer(req, st)
        OBVIOUS
      <3>6. a1 \in RepType /\ a1.status = st /\ a1.kind = req.kind /\ a1.try = req.try
        BY Zenon, <1>0, <3>0, <3>4, AnswerType
      <3>5. d = Did(s1, a1) /\ st \in Plainly
        BY <1>0, <2>1, <3>1, <3>2, <3>4
      <3> QED BY <1>5, <3>3, <3>5, <3>6, CarriesRest
    <2> QED BY <1>1, <1>5, <2>1 DEF Effects
  <1>6. CASE req.kind \in {"exchange_id", "setclientid"}
    <2>1. ASSUME d = Did(s, [Answer(req, "Ok") EXCEPT !.id = s.boot])
          PROVE  Carries(s, req, d)
      <3>1. PICK a1 : a1 = [a EXCEPT !.id = s.boot]
        BY Zenon
      <3>2. s.boot \in Nat /\ s.confirmed \in BOOLEAN
        BY DEF ServerType
      <3>3. /\ a1 \in RepType /\ a1.status = "Ok" /\ a1.kind = req.kind /\ a1.try = req.try
            /\ a1.id = s.boot
        BY <1>2, <3>1, <3>2 DEF RepType
      <3>4. d = Did(s, a1)
        BY <1>2, <2>1, <3>1
      <3> QED BY <1>0, <1>6, <3>2, <3>3, <3>4, CarriesRest DEF Sequenced
    <2> QED BY <1>1, <1>6, <2>1 DEF Effects
  <1>7. CASE req.kind \in {"create_session", "setclientid_confirm"}
    <2>1. ASSUME d = Did([s EXCEPT !.client = TRUE, !.session = (Minor = 1)], Answer(req, "Ok"))
          PROVE  Carries(s, req, d)
      <3>0. PICK b \in BOOLEAN : b = (Minor = 1)
        BY Zenon
      <3>1. PICK s1 : s1 = [s EXCEPT !.client = TRUE, !.session = b]
        OBVIOUS
      <3>2. /\ s1 \in ServerType /\ s1.boot = s.boot /\ s1.slot = s.slot /\ s1.known = s.known
            /\ s1.expected = s.expected /\ s1.nextid = s.nextid /\ s1.confirmed = s.confirmed
            /\ s1.client = TRUE /\ s1.confirmed \in BOOLEAN
        BY Zenon, <3>1 DEF ServerType
      <3>3. d = Did(s1, a)
        BY <1>2, <2>1, <3>0, <3>1
      <3> QED BY <1>0, <1>2, <1>7, <3>2, <3>3, CarriesRest DEF Sequenced
    <2>2. ASSUME d = Did(s, Answer(req, "Stale")) PROVE Carries(s, req, d)
      BY <1>0, <1>7, <2>2, CarriesNothing
    <2> QED BY <1>1, <1>7, <2>1, <2>2 DEF Effects
  <1>8. CASE req.kind = "destroy_session"
    <2>1. ASSUME d = Did([s EXCEPT !.session = FALSE], Answer(req, "Ok"))
          PROVE  Carries(s, req, d)
      <3>1. PICK s1 : s1 = [s EXCEPT !.session = FALSE]
        BY Zenon
      <3>2. /\ s1 \in ServerType /\ s1.boot = s.boot /\ s1.slot = s.slot /\ s1.known = s.known
            /\ s1.expected = s.expected /\ s1.nextid = s.nextid /\ s1.confirmed = s.confirmed
            /\ s1.session = FALSE /\ s1.confirmed \in BOOLEAN
        BY Zenon, <3>1 DEF ServerType
      <3>3. d = Did(s1, a)
        BY <1>2, <2>1, <3>1
      <3> QED BY <1>0, <1>2, <1>8, <3>2, <3>3, CarriesRest DEF Sequenced
    <2> QED BY <1>1, <1>8, <2>1 DEF Effects
  <1>9. CASE req.kind \in {"none", "reclaim_complete", "lock", "plain"}
    <2>1. ASSUME d = Did(s, Answer(req, "Ok")) PROVE Carries(s, req, d)
      BY <1>0, <1>9, <2>1, CarriesNothing
    <2> QED BY <1>1, <1>9, <2>1 DEF Effects
  <1> QED BY <1>0, <1>3, <1>4, <1>5, <1>6, <1>7, <1>8, <1>9 DEF Kinds

-----------------------------------------------------------------------------
(* What the server does with a COMPOUND, once or twice. *)

\* One whose client or session it does not know.
LEMMA StaleDone ==
  ASSUME NEW s \in ServerType, NEW req \in OpType, NEW d, d = Did(s, Answer(req, "Stale"))
  PROVE  d.srv = s /\ d.rep \in RepType /\ d.rep.status = "Stale" /\ d.rep.try = req.try
  <1>1. req.kind \in Kinds /\ req.serial \in Nat /\ req.try \in Nat /\ "Stale" \in Statuses
    BY DEF OpType, Statuses
  <1>2. PICK a \in RepType : a = Answer(req, "Stale") /\ a.status = "Stale" /\ a.try = req.try
    BY Zenon, <1>1, AnswerType
  <1> QED BY <1>2 DEF Did

\* One that it refuses to look at.
LEMMA RefusalDone ==
  ASSUME NEW s \in ServerType, NEW req \in OpType, NEW st \in Refusals, NEW d,
         d = Did(s, Answer(req, st))
  PROVE  d.srv = s /\ d.rep \in RepType /\ d.rep.status = st
  <1>1. req.kind \in Kinds /\ req.serial \in Nat /\ req.try \in Nat /\ st \in Statuses
    BY DEF OpType, Statuses
  <1>2. PICK a : a = Answer(req, st)
    OBVIOUS
  <1>3. a \in RepType /\ a.status = st
    BY Zenon, <1>1, <1>2, AnswerType
  <1> QED BY <1>2, <1>3 DEF Did

\* What holds of every COMPOUND.
Served(s, d) ==
  /\ d.srv \in ServerType /\ d.rep \in RepType
  /\ d.srv.boot = s.boot /\ s.nextid <= d.srv.nextid
  /\ (s.session => s.client) => (d.srv.session => d.srv.client)

\* A handshake leaves the counts alone.
HandshakeDone(s, req, d) ==
  /\ Served(s, d) /\ d.srv.slot = s.slot /\ d.srv.confirmed = s.confirmed
  /\ d.srv.session => s.session \/ req.kind \in {"create_session", "setclientid_confirm"}
  /\ req.kind \in {"exchange_id", "setclientid"} /\ d.rep.status = "Ok" => d.rep.id = s.boot

LEMMA HandshakeOnce ==
  ASSUME setting \in Settings, NEW s \in ServerType, NEW req \in OpType, req.kind \in Handshake,
         NEW d \in Process(s, req)
  PROVE  HandshakeDone(s, req, d)
  <1>1. Carries(s, req, d)
    BY EffectsCarry DEF Process
  <1>2. s.confirmed \in BOOLEAN /\ d.rep.status # "RpcError"
    BY <1>1 DEF ServerType, Carries, Plainly
  <1> QED BY <1>1, <1>2 DEF HandshakeDone, Served, Carries, Handshake

LEMMA HandshakeCall ==
  ASSUME setting \in Settings, NEW s \in ServerType, NEW req \in OpType, req.kind \in Handshake,
         NEW d \in Executions(s, req)
  PROVE  HandshakeDone(s, req, d)
  <1>1. CASE d \in Process(s, req)
    BY <1>1, HandshakeOnce
  <1>2. ASSUME NEW x \in Process(s, req), d \in Process(x.srv, req)
        PROVE  HandshakeDone(s, req, d)
    <2>1. HandshakeDone(s, req, x)
      BY HandshakeOnce
    <2>2. x.srv \in ServerType
      BY <2>1 DEF HandshakeDone, Served
    <2>3. HandshakeDone(x.srv, req, d)
      BY <1>2, <2>2, HandshakeOnce
    <2>4. s.nextid \in Nat /\ x.srv.nextid \in Nat /\ d.srv.nextid \in Nat
      BY <2>1, <2>3 DEF HandshakeDone, Served, ServerType
    <2> QED BY <2>1, <2>3, <2>4 DEF HandshakeDone, Served
  <1> QED BY <1>1, <1>2 DEF Executions

\* NFSv4.1: a COMPOUND in order takes the slot's next sequenceid.
SlotDone(s, req, d) ==
  /\ Served(s, d)
  /\ d.srv.session => s.session
  /\ req.kind = "destroy_session" => d.srv.slot = s.slot
  /\ req.kind # "open_confirm" => d.srv.confirmed = s.confirmed
  /\ d.srv.slot \in {s.slot, req.seq}
  /\ req.kind # "destroy_session" /\ Knows(s, req) /\ req.seq = s.slot + 1 =>
       d.srv.slot = req.seq
  /\ req.kind = "open" /\ d.rep.status = "Ok" =>
       /\ d.rep.fh = req.name /\ s.nextid <= d.rep.id /\ d.rep.id < d.srv.nextid
       /\ ~d.rep.confirm

LEMMA SlotOnce ==
  ASSUME setting \in Settings, Minor = 1, NEW s \in ServerType, NEW req \in OpType,
         req.kind \notin Handshake, NEW d \in Process(s, req)
  PROVE  /\ SlotDone(s, req, d)
         /\ ~Knows(s, req) \/ req.kind = "destroy_session" \/ req.seq = s.slot + 1 =>
              d.rep.try = req.try /\ d.rep.status \notin Refusals
  <1>0. /\ s.nextid \in Nat /\ s.nextid <= s.nextid /\ s.slot \in Nat /\ s.confirmed \in BOOLEAN
        /\ req.seq \in Nat
    BY DEF ServerType, OpType
  <1>1. CASE ~Knows(s, req)
    <2>1. d = Did(s, Answer(req, "Stale"))
      BY <1>1 DEF Process
    <2>2. d.srv = s /\ d.rep \in RepType /\ d.rep.status = "Stale" /\ d.rep.try = req.try
      BY <2>1, StaleDone
    <2> QED BY <1>0, <1>1, <2>2 DEF SlotDone, Served, Refusals
  <1>2. CASE Knows(s, req) /\ req.kind = "destroy_session"
    <2>1. Carries(s, req, d)
      BY <1>2, EffectsCarry DEF Process
    <2> QED BY <1>0, <1>2, <2>1 DEF SlotDone, Served, Carries, Plainly, Refusals
  <1>3. CASE Knows(s, req) /\ req.kind # "destroy_session" /\ req.seq = s.slot + 1
    <2>1. d \in {Did([x.srv EXCEPT !.slot = req.seq], x.rep) : x \in Effects(s, req)}
      BY <1>3 DEF Process, SlotStep
    <2>2. PICK x \in Effects(s, req) : d = Did([x.srv EXCEPT !.slot = req.seq], x.rep)
      BY <2>1
    <2>3. Carries(s, req, x)
      BY EffectsCarry
    <2>4. x.srv \in ServerType
      BY <2>3 DEF Carries
    <2>5. PICK s1 : s1 = [x.srv EXCEPT !.slot = req.seq]
      BY Zenon
    <2>6. d.srv = s1 /\ d.rep = x.rep
      BY <2>2, <2>5 DEF Did
    <2>7. /\ s1 \in ServerType /\ s1.slot = req.seq /\ s1.boot = x.srv.boot
          /\ s1.nextid = x.srv.nextid /\ s1.session = x.srv.session /\ s1.client = x.srv.client
          /\ s1.confirmed = x.srv.confirmed
      BY <1>0, <2>4, <2>5 DEF ServerType
    <2>8. x.srv.session => s.session
      BY <2>3 DEF Carries, Handshake
    <2>9. x.rep.status \notin Refusals /\ x.rep.status # "RpcError" /\ x.rep.try = req.try
      BY <2>3 DEF Carries, Plainly, Refusals
    <2>10. Served(s, d)
      BY <2>3, <2>6, <2>7, <2>9 DEF Served, Carries
    <2>11. req.kind = "open" /\ d.rep.status = "Ok" =>
             /\ d.rep.fh = req.name /\ s.nextid <= d.rep.id /\ d.rep.id < d.srv.nextid
             /\ ~d.rep.confirm
      <3> SUFFICES ASSUME req.kind = "open", d.rep.status = "Ok"
                   PROVE  /\ d.rep.fh = req.name /\ s.nextid <= d.rep.id /\ d.rep.id < d.srv.nextid
                          /\ ~d.rep.confirm
        OBVIOUS
      <3>1. /\ x.rep.fh = req.name /\ x.rep.id = s.nextid /\ x.rep.id < x.srv.nextid
            /\ x.rep.confirm = (Minor = 0 /\ ~s.confirmed)
        BY <2>3, <2>6 DEF Carries
      <3>2. Minor # 0
        OBVIOUS
      <3>3. ~x.rep.confirm
        BY <3>1, <3>2, Zenon
      <3> QED BY <1>0, <2>6, <2>7, <3>1, <3>3
    <2>12. req.kind # "open_confirm" => d.srv.confirmed = s.confirmed
      BY <1>0, <2>3, <2>6, <2>7 DEF Carries
    <2> QED BY <1>3, <2>6, <2>7, <2>8, <2>9, <2>10, <2>11, <2>12 DEF SlotDone
  <1>4. CASE Knows(s, req) /\ req.kind # "destroy_session" /\ req.seq # s.slot + 1
    <2>1. PICK st \in Refusals : d = Did(s, Answer(req, st))
      BY <1>4 DEF Process, SlotStep, Refusals
    <2>2. d.srv = s /\ d.rep \in RepType /\ d.rep.status = st
      BY <2>1, RefusalDone
    <2>3. d.rep.status # "RpcError" /\ d.rep.status # "Ok"
      BY <2>2 DEF Refusals
    <2> QED BY <1>0, <1>4, <2>2, <2>3 DEF SlotDone, Served
  <1> QED BY <1>1, <1>2, <1>3, <1>4

LEMMA SlotCall ==
  ASSUME setting \in Settings, Minor = 1, NEW s \in ServerType, NEW req \in OpType,
         req.kind \notin Handshake, NEW d \in Executions(s, req)
  PROVE  SlotDone(s, req, d)
  <1>1. CASE d \in Process(s, req)
    BY Zenon, <1>1, SlotOnce
  <1>2. ASSUME NEW x \in Process(s, req), d \in Process(x.srv, req)
        PROVE  SlotDone(s, req, d)
    <2>1. SlotDone(s, req, x)
      BY SlotOnce
    <2>2. x.srv \in ServerType
      BY <2>1 DEF SlotDone, Served
    <2>3. SlotDone(x.srv, req, d)
      BY Zenon, <1>2, <2>2, SlotOnce
    <2>4. s.nextid \in Nat /\ x.srv.nextid \in Nat /\ d.srv.nextid \in Nat
      BY <2>1, <2>3 DEF SlotDone, Served, ServerType
    <2>5. Served(s, d)
      BY <2>1, <2>3, <2>4 DEF SlotDone, Served
    <2>6. req.kind = "open" /\ d.rep.status = "Ok" =>
             /\ d.rep.fh = req.name /\ s.nextid <= d.rep.id /\ d.rep.id < d.srv.nextid
             /\ ~d.rep.confirm
      <3>1. d.rep.id \in Nat
        BY <2>3 DEF SlotDone, Served, RepType
      <3> QED BY <2>1, <2>3, <2>4, <3>1 DEF SlotDone, Served
    <2> QED BY <2>1, <2>3, <2>5, <2>6 DEF SlotDone
  <1> QED BY <1>1, <1>2 DEF Executions

\* NFSv4.0: an operation of the open-owner that has the seqid which the server
\* expects is carried out, and the one that is sent again gets the same answer.
InOrder(s, req) ==
  ~s.known \/ (req.kind = "open" /\ ~s.confirmed) \/ req.seqid = s.expected
OwnerDone(s, req, d) ==
  /\ Served(s, d)
  /\ d.srv.session => s.session
  /\ d.rep.status = "Ok" =>
       /\ Knows(s, req) /\ d.srv.known /\ d.srv.expected = req.seqid + 1
       /\ d.srv.confirmed = (s.confirmed \/ req.kind = "open_confirm")
       /\ req.kind = "open" =>
            /\ d.rep.fh = req.name /\ s.nextid <= d.rep.id /\ d.rep.id < d.srv.nextid
            /\ d.rep.confirm = ~s.confirmed
       /\ req.kind = "open_confirm" => d.rep.id = req.id
  /\ d.rep.status \notin Mutating =>
       /\ d.srv.confirmed = s.confirmed
       /\ s.confirmed \/ req.kind # "open" => d.srv.known = s.known /\ d.srv.expected = s.expected

\* Carried out, with a status after which the server expects the next seqid,
LEMMA OwnerMoves ==
  ASSUME setting \in Settings, Minor = 0, NEW s \in ServerType, NEW req \in OpType,
         req.kind \in Sequenced, Knows(s, req), NEW x \in Effects(s, req),
         x.rep.status \in Mutating, NEW d, d.rep = x.rep, d.srv \in ServerType,
         d.srv.known, d.srv.expected = req.seqid + 1, d.srv.cached = x.rep,
         d.srv.boot = x.srv.boot, d.srv.client = x.srv.client, d.srv.session = x.srv.session,
         d.srv.confirmed = x.srv.confirmed, d.srv.nextid = x.srv.nextid
  PROVE  /\ OwnerDone(s, req, d) /\ Knows(d.srv, req)
         /\ d.srv.known /\ d.srv.expected = req.seqid + 1 /\ d.srv.cached = d.rep
         /\ d.rep.kind = req.kind /\ (req.kind = "open" => d.srv.confirmed = s.confirmed)
  <1>1. Carries(s, req, x)
    BY EffectsCarry
  <1>2. x.rep \in RepType
    BY Zenon, <1>1 DEF Carries
  <1>6. /\ x.srv.boot = s.boot /\ x.srv.client = s.client /\ x.srv.session = s.session
        /\ x.srv.confirmed = (s.confirmed \/ (req.kind = "open_confirm" /\ x.rep.status = "Ok"))
        /\ x.rep.kind = req.kind /\ x.rep.status # "RpcError" /\ s.nextid <= x.srv.nextid
        /\ s.confirmed \in BOOLEAN
    BY <1>1 DEF Carries, Plainly, ServerType
  <1>7. Served(s, d)
    BY <1>1, <1>2, <1>6 DEF Served
  <1>8. Knows(d.srv, req)
    BY Zenon, <1>6 DEF Knows
  <1>9. ASSUME x.rep.status = "Ok"
        PROVE  /\ req.kind = "open" =>
                    /\ x.rep.fh = req.name /\ s.nextid <= x.rep.id /\ x.rep.id < x.srv.nextid
                    /\ x.rep.confirm = ~s.confirmed
               /\ req.kind = "open_confirm" => x.rep.id = req.id
    <2>1. s.nextid <= s.nextid
      BY DEF ServerType
    <2> QED BY Zenon, <1>1, <1>6, <1>9, <2>1 DEF Carries
  <1>10. x.srv.confirmed = (s.confirmed \/ req.kind = "open_confirm") \/ x.rep.status # "Ok"
    BY <1>6
  <1>11. req.kind = "open" => x.srv.confirmed = s.confirmed
    BY <1>6
  <1>12. OwnerDone(s, req, d)
    BY Zenon, <1>6, <1>7, <1>9, <1>10 DEF OwnerDone
  <1> QED BY <1>6, <1>8, <1>11, <1>12

\* ... or with one after which it expects the same.
LEMMA OwnerStays ==
  ASSUME setting \in Settings, Minor = 0, NEW s \in ServerType, NEW req \in OpType,
         req.kind \in Sequenced, Knows(s, req), NEW d \in Effects(s, req),
         d.rep.status \notin Mutating
  PROVE  /\ OwnerDone(s, req, d) /\ Knows(d.srv, req)
         /\ d.srv.known = s.known /\ d.srv.expected = s.expected /\ d.srv.confirmed = s.confirmed
  <1>1. Carries(s, req, d)
    BY EffectsCarry
  <1>2. d.rep.status # "Ok"
    BY ServerAssumption
  <1>3. /\ d.srv.boot = s.boot /\ d.srv.client = s.client /\ d.srv.session = s.session
        /\ d.srv.confirmed = s.confirmed /\ d.rep.status # "RpcError"
        /\ d.srv.known = s.known /\ d.srv.expected = s.expected
    BY <1>1, <1>2 DEF Carries, Plainly, ServerType
  <1>4. Served(s, d)
    BY <1>1, <1>3 DEF Served, Carries
  <1>5. Knows(d.srv, req)
    BY <1>3 DEF Knows
  <1> QED BY <1>2, <1>3, <1>4, <1>5 DEF OwnerDone

LEMMA OwnerOnce ==
  ASSUME setting \in Settings, Minor = 0, NEW s \in ServerType, NEW req \in OpType,
         req.kind \in Sequenced, Knows(s, req), InOrder(s, req), NEW d \in Process(s, req)
  PROVE  /\ OwnerDone(s, req, d) /\ Knows(d.srv, req)
         /\ \/ /\ d.srv.known /\ d.srv.expected = req.seqid + 1 /\ d.srv.cached = d.rep
               /\ d.rep.kind = req.kind /\ (req.kind = "open" => d.srv.confirmed = s.confirmed)
            \/ d.srv.known = s.known /\ d.srv.expected = s.expected /\ d.srv.confirmed = s.confirmed
  <1>1. Process(s, req) = OwnerStep(s, req)
    BY SMTT(30) DEF Process, Sequenced, Handshake
  <1>2. PICK x \in Effects(s, req) :
          d = IF x.rep.status \in Mutating
              THEN Did([x.srv EXCEPT !.known = TRUE, !.expected = req.seqid + 1,
                                     !.cached = x.rep], x.rep)
              ELSE x
    BY Zenon, <1>1 DEF OwnerStep, InOrder
  <1>3. CASE x.rep.status \in Mutating
    <2>1. x.srv \in ServerType /\ x.rep \in RepType /\ req.seqid + 1 \in Nat
      BY EffectsCarry DEF Carries, OpType
    <2>2. PICK s1 : s1 = [x.srv EXCEPT !.known = TRUE, !.expected = req.seqid + 1, !.cached = x.rep]
      OBVIOUS
    <2>3. d.srv = s1 /\ d.rep = x.rep
      BY <1>2, <1>3, <2>2 DEF Did
    <2>4. /\ s1 \in ServerType /\ s1.known = TRUE /\ s1.expected = req.seqid + 1
          /\ s1.cached = x.rep /\ s1.boot = x.srv.boot /\ s1.client = x.srv.client
          /\ s1.session = x.srv.session /\ s1.confirmed = x.srv.confirmed
          /\ s1.nextid = x.srv.nextid
      BY Zenon, <2>1, <2>2 DEF ServerType
    <2> QED BY <1>3, <2>3, <2>4, OwnerMoves
  <1>4. CASE x.rep.status \notin Mutating
    BY <1>2, <1>4, OwnerStays
  <1> QED BY <1>3, <1>4

\* Not known, or carried out once or twice.
LEMMA OwnerCall ==
  ASSUME setting \in Settings, Minor = 0, NEW s \in ServerType, NEW req \in OpType,
         req.kind \in Sequenced, Knows(s, req) => InOrder(s, req), NEW d \in Executions(s, req)
  PROVE  OwnerDone(s, req, d)
  <1>0. s.nextid \in Nat /\ s.nextid <= s.nextid
    BY DEF ServerType
  <1>1. ASSUME ~Knows(s, req), NEW e \in Process(s, req) PROVE OwnerDone(s, req, e) /\ e.srv = s
    <2>1. e = Did(s, Answer(req, "Stale"))
      BY <1>1 DEF Process, Sequenced, Handshake
    <2>2. e.srv = s /\ e.rep \in RepType /\ e.rep.status = "Stale"
      BY <2>1, StaleDone
    <2> QED BY <1>0, <2>2 DEF OwnerDone, Served
  <1>2. CASE d \in Process(s, req)
    BY <1>1, <1>2, OwnerOnce
  <1>3. ASSUME NEW x \in Process(s, req), d \in Process(x.srv, req)
        PROVE  OwnerDone(s, req, d)
    <2>1. CASE ~Knows(s, req)
      BY <1>1, <1>3, <2>1
    <2>2. CASE Knows(s, req)
      <3>1. /\ OwnerDone(s, req, x) /\ Knows(x.srv, req)
            /\ \/ /\ x.srv.known /\ x.srv.expected = req.seqid + 1 /\ x.srv.cached = x.rep
                  /\ x.rep.kind = req.kind /\ (req.kind = "open" => x.srv.confirmed = s.confirmed)
               \/ x.srv.known = s.known /\ x.srv.expected = s.expected
                    /\ x.srv.confirmed = s.confirmed
        BY Zenon, <2>2, OwnerOnce
      <3>2. x.srv \in ServerType /\ req.seqid \in Nat
        BY Zenon, <3>1 DEF OwnerDone, Served, OpType
      <3>3. CASE InOrder(x.srv, req)
        <4>1. OwnerDone(x.srv, req, d)
          BY Zenon, <1>3, <3>1, <3>2, <3>3, OwnerOnce
        <4>2. s.nextid \in Nat /\ x.srv.nextid \in Nat /\ d.srv.nextid \in Nat /\ d.rep.id \in Nat
          BY Zenon, <3>1, <4>1 DEF OwnerDone, Served, ServerType, RepType
        <4>3. Served(s, d) /\ (d.srv.session => s.session)
          BY <3>1, <4>1, <4>2 DEF OwnerDone, Served
        <4>4. req.seqid # req.seqid + 1
          BY <3>2
        <4>5. x.srv.confirmed = s.confirmed
          BY <3>1, <3>3, <4>4 DEF InOrder
        <4>6. s.confirmed \/ req.kind # "open" =>
                x.srv.known = s.known /\ x.srv.expected = s.expected
          BY <3>1, <3>3, <4>4, <4>5 DEF InOrder
        <4>7. s.nextid <= x.srv.nextid
          BY Zenon, <3>1 DEF OwnerDone, Served
        <4>8. ASSUME d.rep.status = "Ok"
              PROVE  /\ d.srv.known /\ d.srv.expected = req.seqid + 1
                     /\ d.srv.confirmed = (s.confirmed \/ req.kind = "open_confirm")
                     /\ req.kind = "open" =>
                          /\ d.rep.fh = req.name /\ s.nextid <= d.rep.id /\ d.rep.id < d.srv.nextid
                          /\ d.rep.confirm = ~s.confirmed
                     /\ req.kind = "open_confirm" => d.rep.id = req.id
          BY <4>1, <4>2, <4>5, <4>7, <4>8 DEF OwnerDone
        <4>9. ASSUME d.rep.status \notin Mutating
              PROVE  /\ d.srv.confirmed = s.confirmed
                     /\ s.confirmed \/ req.kind # "open" =>
                          d.srv.known = s.known /\ d.srv.expected = s.expected
          BY Zenon, <4>1, <4>5, <4>6, <4>9 DEF OwnerDone
        <4> QED BY Zenon, <2>2, <4>3, <4>8, <4>9 DEF OwnerDone
      <3>4. CASE ~InOrder(x.srv, req)
        <4>1. d \in OwnerStep(x.srv, req)
          BY <1>3, <3>1 DEF Process, Sequenced, Handshake
        <4>2. req.seqid + 1 = x.srv.expected /\ req.kind = x.srv.cached.kind /\ x.srv.cached = x.rep
          BY <2>2, <3>1, <3>4 DEF InOrder
        <4>3. d = Did(x.srv, x.rep)
          BY <3>4, <4>1, <4>2 DEF OwnerStep, InOrder
        <4>4. d.srv = x.srv /\ d.rep = x.rep
          BY <4>3 DEF Did
        <4> QED BY Zenon, <3>1, <4>4 DEF OwnerDone, Served
      <3> QED BY Zenon, <3>3, <3>4
    <2> QED BY <2>1, <2>2
  <1> QED BY <1>2, <1>3 DEF Executions

\* In or out of order, a server keeps to its types.
LEMMA OwnerServed ==
  ASSUME setting \in Settings, Minor = 0, NEW s \in ServerType, NEW req \in OpType,
         req.kind \in Sequenced, NEW d \in Process(s, req)
  PROVE  Served(s, d)
  <1>0. s.nextid <= s.nextid /\ s.cached \in RepType
    BY DEF ServerType
  <1>1. CASE ~Knows(s, req)
    <2>1. d = Did(s, Answer(req, "Stale"))
      BY <1>1 DEF Process, Sequenced, Handshake
    <2>2. d.srv = s /\ d.rep \in RepType
      BY Zenon, <2>1, StaleDone
    <2> QED BY <1>0, <2>2 DEF Served
  <1>2. CASE Knows(s, req) /\ InOrder(s, req)
    BY <1>2, OwnerOnce DEF OwnerDone
  <1>3. CASE Knows(s, req) /\ ~InOrder(s, req)
    <2>1. d \in OwnerStep(s, req)
      BY <1>3 DEF Process, Sequenced, Handshake
    <2>2. d = Did(s, s.cached) \/ d = Did(s, Answer(req, "BadSeqid"))
      BY <1>3, <2>1 DEF OwnerStep, InOrder
    <2>3. CASE d = Did(s, s.cached)
      BY <1>0, <2>3 DEF Served, Did
    <2>4. CASE d = Did(s, Answer(req, "BadSeqid"))
      <3>1. "BadSeqid" \in Refusals
        BY DEF Refusals
      <3>2. d.srv = s /\ d.rep \in RepType
        BY <2>4, <3>1, RefusalDone
      <3> QED BY <1>0, <3>2 DEF Served
    <2> QED BY <2>2, <2>3, <2>4
  <1> QED BY <1>1, <1>2, <1>3

LEMMA OwnerServedCall ==
  ASSUME setting \in Settings, Minor = 0, NEW s \in ServerType, NEW req \in OpType,
         req.kind \in Sequenced, NEW d \in Executions(s, req)
  PROVE  Served(s, d)
  <1>1. CASE d \in Process(s, req)
    BY <1>1, OwnerServed
  <1>2. ASSUME NEW x \in Process(s, req), d \in Process(x.srv, req)
        PROVE  Served(s, d)
    <2>1. Served(s, x)
      BY OwnerServed
    <2>2. x.srv \in ServerType
      BY <2>1 DEF Served
    <2>3. Served(x.srv, d)
      BY Zenon, <1>2, <2>2, OwnerServed
    <2>4. s.nextid \in Nat /\ x.srv.nextid \in Nat /\ d.srv.nextid \in Nat
      BY <2>1, <2>3 DEF Served, ServerType
    <2> QED BY <2>1, <2>3, <2>4 DEF Served
  <1> QED BY <1>1, <1>2 DEF Executions

\* NFSv4.0: an operation of no open-owner leaves its count alone.
PlainDone(s, d) ==
  /\ Served(s, d) /\ d.srv.known = s.known /\ d.srv.expected = s.expected
  /\ d.srv.confirmed = s.confirmed

LEMMA PlainOnce ==
  ASSUME setting \in Settings, Minor = 0, NEW s \in ServerType, NEW req \in OpType,
         req.kind = "plain", NEW d \in Process(s, req)
  PROVE  PlainDone(s, d)
  <1>1. CASE ~Knows(s, req)
    <2>1. d = Did(s, Answer(req, "Stale"))
      BY <1>1 DEF Process, Handshake
    <2>2. d.srv = s /\ d.rep \in RepType /\ d.rep.status = "Stale"
      BY <2>1, StaleDone
    <2>3. s.nextid <= s.nextid
      BY DEF ServerType
    <2> QED BY <2>2, <2>3 DEF PlainDone, Served
  <1>2. CASE Knows(s, req)
    <2>1. Carries(s, req, d)
      BY <1>2, EffectsCarry DEF Process, Handshake, Sequenced
    <2>2. s.confirmed \in BOOLEAN /\ d.rep.status # "RpcError"
      BY <2>1 DEF ServerType, Carries, Plainly
    <2> QED BY <2>1, <2>2 DEF PlainDone, Served, Carries
  <1> QED BY <1>1, <1>2

LEMMA PlainCall ==
  ASSUME setting \in Settings, Minor = 0, NEW s \in ServerType, NEW req \in OpType,
         req.kind = "plain", NEW d \in Executions(s, req)
  PROVE  PlainDone(s, d)
  <1>1. CASE d \in Process(s, req)
    BY <1>1, PlainOnce
  <1>2. ASSUME NEW x \in Process(s, req), d \in Process(x.srv, req)
        PROVE  PlainDone(s, d)
    <2>1. PlainDone(s, x)
      BY PlainOnce
    <2>2. x.srv \in ServerType
      BY <2>1 DEF PlainDone, Served
    <2>3. PlainDone(x.srv, d)
      BY Zenon, <1>2, <2>2, PlainOnce
    <2>4. s.nextid \in Nat /\ x.srv.nextid \in Nat /\ d.srv.nextid \in Nat
      BY <2>1, <2>3 DEF PlainDone, Served, ServerType
    <2> QED BY <2>1, <2>3, <2>4 DEF PlainDone, Served
  <1> QED BY <1>1, <1>2 DEF Executions

-----------------------------------------------------------------------------
(***************************************************************************)
(* What an RPC call of run() did to the server, and what run() learns.     *)
(***************************************************************************)
InTurn(d) ==
  IF d.rep.status = "Ok"
  THEN /\ d.srv.known /\ d.srv.expected = open_seqid + 1
       /\ d.srv.confirmed = (srv.confirmed \/ op.kind = "open_confirm")
       /\ op.kind = "open" => d.rep.confirm = ~srv.confirmed
       /\ op.kind = "open_confirm" => d.rep.id = op.id
  ELSE /\ d.srv.confirmed = srv.confirmed
       /\ srv.confirmed \/ op.kind # "open" =>
            d.srv.known = srv.known /\ d.srv.expected = srv.expected
InSlot(d) ==
  IF InSession THEN d.srv.slot = seq_id ELSE seq_id = d.srv.slot + 1
Answered(d) ==
  /\ d.srv \in ServerType /\ d.rep \in RepType
  /\ d.srv.boot = srv.boot /\ srv.nextid <= d.srv.nextid
  /\ d.srv.session => d.srv.client
  /\ op.kind \in Handshake => d.srv.slot = srv.slot /\ d.srv.confirmed = srv.confirmed
  /\ op.kind \in {"exchange_id", "setclientid"} /\ d.rep.status = "Ok" => d.rep.id = srv.boot
  /\ Minor = 0 /\ op.kind = "plain" =>
       /\ d.srv.known = srv.known /\ d.srv.expected = srv.expected
       /\ d.srv.confirmed = srv.confirmed
  /\ Minor = 0 /\ op.kind \in Sequenced /\ ~upset /\ ~Disturbs(d) => InTurn(d)
  /\ Minor = 1 => d.srv.confirmed = srv.confirmed
  /\ Minor = 1 /\ op.kind = "open" /\ d.rep.status = "Ok" => ~d.rep.confirm
  /\ ~upset /\ op.kind = "open" /\ d.rep.status = "Ok" =>
       d.rep.fh = op.name /\ srv.nextid <= d.rep.id /\ d.rep.id < d.srv.nextid
  /\ Minor = 1 /\ op.kind \notin Handshake /\ EirSequence = 1 /\ sessionid /\ Steady
       /\ d.srv.session /\ ~Disturbs(d) => InSlot(d)
  /\ Minor = 1 /\ EirSequence = 1 /\ ~setting.resends /\ ~upset /\ d.rep.status # "RpcError" =>
       d.rep.try = attempts /\ d.rep.status \notin Refusals

\* The request that run() sends.
LEMMA SentType ==
  ASSUME TypeOK
  PROVE  /\ Sent \in OpType /\ Sent.kind = op.kind /\ Sent.name = op.name /\ Sent.id = op.id
         /\ Sent.seqid = op.seqid /\ Sent.clientid = op.clientid /\ Sent.try = attempts
         /\ Sent.seq = IF InSession THEN seq_id ELSE 0
  <1>1. PICK n \in Nat : n = IF InSession THEN seq_id ELSE 0
    BY DEF TypeOK
  <1>2. Sent = [op EXCEPT !.seq = n, !.try = attempts]
    BY <1>1 DEF Sent
  <1>3. op \in OpType /\ attempts \in Nat
    BY DEF TypeOK
  <1> QED BY Zenon, <1>1, <1>2, <1>3 DEF OpType

\* A call is carried out, or has no answer, or both.
LEMMA RpcCallCases ==
  ASSUME NEW req, NEW d \in RpcCall(req)
  PROVE  \/ d \in Executions(srv, req)
         \/ d.srv = srv /\ d.rep = RpcError
         \/ \E x \in Executions(srv, req) : d.srv = x.srv /\ d.rep = RpcError
  <1>1. ASSUME NEW x \in Process(srv, req), d = Did(x.srv, RpcError)
        PROVE  \E y \in Executions(srv, req) : d.srv = y.srv /\ d.rep = RpcError
    <2>1. x \in Executions(srv, req)
      BY DEF Executions
    <2>2. d.srv = x.srv /\ d.rep = RpcError
      BY <1>1 DEF Did
    <2> QED BY <2>1, <2>2
  <1>2. ASSUME d = Did(srv, RpcError) PROVE d.srv = srv /\ d.rep = RpcError
    BY <1>2 DEF Did
  <1> QED BY <1>1, <1>2 DEF RpcCall

\* ... carried out, it was in order as long as nothing had disturbed it,
LEMMA InOrderSent ==
  ASSUME IInv, pc = "run", Minor = 0, ~upset, op.kind \in Sequenced, Knows(srv, Sent)
  PROVE  InOrder(srv, Sent)
  <1>1. Sent.kind = op.kind /\ Sent.seqid = op.seqid /\ Sent.clientid = op.clientid
    BY SentType DEF IInv
  <1>2. op.seqid = open_seqid /\ op.clientid = clientid
    BY DEF IInv, Flow, Working, Sequenced, Handshake
  <1>3. Steady
    BY <1>1, <1>2 DEF Knows, Steady
  <1>4. srv.confirmed \/ op.kind \in {"open", "open_confirm"}
    BY <1>3 DEF IInv, OwnerInv, Working, Sequenced
  <1>5. srv.confirmed \/ op.kind = "open_confirm" => open_seqid = srv.expected
    BY <1>3 DEF IInv, OwnerInv, Working
  <1> QED BY <1>1, <1>2, <1>4, <1>5 DEF InOrder

\* ... of its types,
LEMMA ExecutedType ==
  ASSUME IInv, pc = "run", NEW x \in Executions(srv, Sent)
  PROVE  Served(srv, x)
  <1>1. /\ setting \in Settings /\ srv \in ServerType /\ Sent \in OpType /\ Sent.kind = op.kind
        /\ Minor \in {0, 1}
    BY SentType, SettingType DEF IInv, TypeOK
  <1>2. op.kind \in Handshake \/ Minor = 1 \/ op.kind \in Sequenced \/ op.kind = "plain"
    BY <1>1 DEF IInv, Flow, KindsOf, Handshake, Sequenced
  <1>3. CASE op.kind \in Handshake
    BY Zenon, <1>1, <1>3, HandshakeCall DEF HandshakeDone
  <1>4. CASE op.kind \notin Handshake /\ Minor = 1
    BY <1>1, <1>4, SlotCall DEF SlotDone
  <1>5. CASE Minor = 0 /\ op.kind \in Sequenced
    BY <1>1, <1>5, OwnerServedCall
  <1>6. CASE Minor = 0 /\ op.kind = "plain"
    BY Zenon, <1>1, <1>6, PlainCall DEF PlainDone
  <1> QED BY <1>1, <1>2, <1>3, <1>4, <1>5, <1>6

\* ... and answered as InTurn says of an open-owner,
LEMMA AnsweredInTurn ==
  ASSUME IInv, pc = "run", NEW d \in RpcCall(Sent), Minor = 0, op.kind \in Sequenced, ~upset
  PROVE  /\ ~Disturbs(d) => InTurn(d)
         /\ op.kind = "open" /\ d.rep.status = "Ok" =>
              d.rep.fh = op.name /\ srv.nextid <= d.rep.id /\ d.rep.id < d.srv.nextid
  <1>1. /\ setting \in Settings /\ srv \in ServerType /\ Sent \in OpType /\ Sent.kind = op.kind
        /\ Sent.name = op.name /\ Sent.id = op.id /\ Sent.seqid = op.seqid
    BY SentType DEF IInv, TypeOK
  <1>2. op.seqid = open_seqid
    BY DEF IInv, Flow, Working
  <1>3. CASE d.rep = RpcError
    <2>1. d.rep.status = "RpcError"
      BY Zenon, <1>3, RpcErrorType
    <2> QED BY <2>1 DEF Disturbs
  <1>4. CASE d \in Executions(srv, Sent)
    <2>1. OwnerDone(srv, Sent, d)
      BY Zenon, <1>1, <1>4, InOrderSent, OwnerCall
    <2>2. ASSUME ~Disturbs(d), d.rep.status # "Ok" PROVE d.rep.status \notin Mutating
      BY Zenon, <2>2 DEF Disturbs
    <2>3. ASSUME d.rep.status = "Ok"
          PROVE  /\ d.srv.known /\ d.srv.expected = open_seqid + 1
                 /\ d.srv.confirmed = (srv.confirmed \/ op.kind = "open_confirm")
                 /\ op.kind = "open" => d.rep.confirm = ~srv.confirmed
                 /\ op.kind = "open_confirm" => d.rep.id = op.id
                 /\ op.kind = "open" =>
                      d.rep.fh = op.name /\ srv.nextid <= d.rep.id /\ d.rep.id < d.srv.nextid
      BY Zenon, <1>1, <1>2, <2>1, <2>3 DEF OwnerDone
    <2>4. ASSUME ~Disturbs(d), d.rep.status # "Ok"
          PROVE  /\ d.srv.confirmed = srv.confirmed
                 /\ srv.confirmed \/ op.kind # "open" =>
                      d.srv.known = srv.known /\ d.srv.expected = srv.expected
      BY Zenon, <1>1, <2>1, <2>2, <2>4 DEF OwnerDone
    <2>5. ASSUME ~Disturbs(d) PROVE InTurn(d)
      BY Zenon, <2>3, <2>4, <2>5 DEF InTurn
    <2> QED BY Zenon, <2>3, <2>5
  <1> QED BY <1>3, <1>4, RpcCallCases

\* ... as InSlot says of a slot,
LEMMA AnsweredInSlot ==
  ASSUME IInv, pc = "run", InSession => sessionid, NEW d \in RpcCall(Sent), Minor = 1,
         op.kind \notin Handshake
  PROVE  /\ d.srv.confirmed = srv.confirmed
         /\ op.kind = "open" /\ d.rep.status = "Ok" =>
              /\ ~d.rep.confirm
              /\ d.rep.fh = op.name /\ srv.nextid <= d.rep.id /\ d.rep.id < d.srv.nextid
         /\ EirSequence = 1 /\ sessionid /\ Steady /\ d.srv.session /\ ~Disturbs(d) => InSlot(d)
  <1>1. /\ setting \in Settings /\ srv \in ServerType /\ Sent \in OpType /\ Sent.kind = op.kind
        /\ Sent.name = op.name /\ Sent.clientid = op.clientid
        /\ Sent.seq = IF InSession THEN seq_id ELSE 0
    BY SentType DEF IInv, TypeOK
  <1>2. op.clientid = clientid /\ (srv.session => srv.client)
    BY DEF IInv, Flow, Working
  <1>3. InSession <=> op.kind # "destroy_session"
    BY DEF InSession, Raw, Handshake
  <1>9. op.kind # "open_confirm"
    BY DEF IInv, Flow, KindsOf
  <1>4. ASSUME EirSequence = 1, sessionid, Steady, srv.session
        PROVE  seq_id = srv.slot + 1 /\ Knows(srv, Sent)
    <2>1. seq_id = srv.slot + 1
      BY <1>4 DEF IInv, SlotInv
    <2>2. Knows(srv, Sent)
      BY <1>1, <1>2, <1>4 DEF Knows, Steady
    <2> QED BY <2>1, <2>2
  <1>5. ASSUME NEW x \in Executions(srv, Sent), EirSequence = 1, sessionid, Steady, x.srv.session
        PROVE  InSlot(x)
    <2>1. SlotDone(srv, Sent, x)
      BY Zenon, <1>1, SlotCall
    <2>2. srv.session
      BY <1>5, <2>1 DEF SlotDone
    <2>3. seq_id = srv.slot + 1 /\ Knows(srv, Sent)
      BY Zenon, <1>4, <1>5, <2>2
    <2>4. CASE op.kind = "destroy_session"
      BY Zenon, <1>1, <1>3, <2>1, <2>3, <2>4 DEF SlotDone, InSlot
    <2>5. CASE op.kind # "destroy_session"
      BY Zenon, <1>1, <1>3, <2>1, <2>3, <2>5 DEF SlotDone, InSlot
    <2> QED BY <2>4, <2>5
  <1>6. CASE d \in Executions(srv, Sent)
    <2>1. SlotDone(srv, Sent, d)
      BY Zenon, <1>1, <1>6, SlotCall
    <2> QED BY Zenon, <1>1, <1>5, <1>6, <1>9, <2>1 DEF SlotDone
  <1>7. CASE d.srv = srv /\ d.rep = RpcError
    <2>1. d.rep.status = "RpcError"
      BY <1>7, RpcErrorType
    <2>2. ~Disturbs(d) => ~InSession
      BY Zenon, <1>7, <2>1 DEF Disturbs
    <2> QED BY <1>4, <1>7, <2>1, <2>2 DEF InSlot
  <1>8. ASSUME NEW x \in Executions(srv, Sent), d.srv = x.srv, d.rep = RpcError
        PROVE  /\ d.rep.status # "Ok" /\ d.srv.confirmed = srv.confirmed
               /\ EirSequence = 1 /\ sessionid /\ Steady /\ d.srv.session => InSlot(d)
    <2>1. d.rep.status = "RpcError"
      BY <1>8, RpcErrorType
    <2>2. SlotDone(srv, Sent, x)
      BY <1>1, SlotCall
    <2> QED BY Zenon, <1>1, <1>5, <1>8, <1>9, <2>1, <2>2 DEF InSlot, SlotDone
  <1> QED BY <1>6, <1>7, <1>8, RpcCallCases

\* ... and, if the RPC layer sends it once, by a server that looked at it.
LEMMA AnsweredOwn ==
  ASSUME IInv, pc = "run", InSession => sessionid, NEW d \in RpcCall(Sent), Minor = 1,
         EirSequence = 1, ~setting.resends, ~upset, d.rep.status # "RpcError"
  PROVE  d.rep.try = attempts /\ d.rep.status \notin Refusals
  <1>1. /\ setting \in Settings /\ srv \in ServerType /\ Sent \in OpType /\ Sent.kind = op.kind
        /\ Sent.clientid = op.clientid /\ Sent.try = attempts
        /\ Sent.seq = IF InSession THEN seq_id ELSE 0
    BY SentType DEF IInv, TypeOK
  <1>2. d \in Executions(srv, Sent)
    BY RpcCallCases, RpcErrorType
  <1>3. d \in Process(srv, Sent)
    BY Zenon, <1>2 DEF Executions
  <1>4. CASE op.kind \in Handshake
    <2>1. Carries(srv, Sent, d)
      BY Zenon, <1>1, <1>3, <1>4, EffectsCarry DEF Process
    <2> QED BY Zenon, <1>1, <2>1 DEF Carries, Plainly, Refusals
  <1>5. CASE op.kind \notin Handshake
    <2>1. op.clientid = clientid
      BY <1>5 DEF IInv, Flow, Working
    <2>2. ASSUME Knows(srv, Sent), op.kind # "destroy_session" PROVE Sent.seq = srv.slot + 1
      <3>1. InSession
        BY <1>5, <2>2 DEF InSession, Raw, Handshake
      <3>2. srv.session /\ Steady
        BY Zenon, <1>1, <2>1, <2>2 DEF Knows, Steady
      <3> QED BY <1>1, <3>1, <3>2 DEF IInv, SlotInv
    <2> QED BY <1>1, <1>3, <1>5, <2>2, SlotOnce
  <1> QED BY Zenon, <1>4, <1>5

\* Together:
LEMMA RpcAnswered ==
  ASSUME IInv, pc = "run", InSession => sessionid, NEW d \in RpcCall(Sent)
  PROVE  Answered(d)
  <1>1. /\ setting \in Settings /\ srv \in ServerType /\ Sent \in OpType /\ Sent.kind = op.kind
        /\ Minor \in {0, 1}
    BY SentType, SettingType DEF IInv, TypeOK
  <1>2. RpcError \in RepType /\ RpcError.status = "RpcError"
    BY RpcErrorType
  <1>3. PICK x : /\ d.srv = x.srv /\ (d.rep = x.rep \/ d.rep = RpcError)
                 /\ (x.srv = srv /\ x.rep = RpcError) \/ x \in Executions(srv, Sent)
    BY RpcCallCases
  <1>4. srv.nextid <= srv.nextid /\ (srv.session => srv.client)
    BY <1>1 DEF IInv, Flow, ServerType
  <1>5. Served(srv, x)
    <2>1. CASE x.srv = srv /\ x.rep = RpcError
      BY <1>1, <1>2, <1>4, <2>1 DEF Served
    <2>2. CASE x \in Executions(srv, Sent)
      BY Zenon, <2>2, ExecutedType
    <2> QED BY Zenon, <1>3, <2>1, <2>2
  <1>6. /\ d.srv \in ServerType /\ d.rep \in RepType
        /\ d.srv.boot = srv.boot /\ srv.nextid <= d.srv.nextid
        /\ d.srv.session => d.srv.client
    BY Zenon, <1>2, <1>3, <1>4, <1>5 DEF Served
  <1>7. ASSUME op.kind \in Handshake
        PROVE  /\ d.srv.slot = srv.slot /\ d.srv.confirmed = srv.confirmed
               /\ op.kind \in {"exchange_id", "setclientid"} /\ d.rep.status = "Ok" =>
                    d.rep.id = srv.boot
    <2>1. CASE x.srv = srv /\ x.rep = RpcError
      BY Zenon, <1>2, <1>3, <2>1
    <2>2. CASE x \in Executions(srv, Sent)
      <3>1. HandshakeDone(srv, Sent, x)
        BY Zenon, <1>1, <1>7, <2>2, HandshakeCall
      <3> QED BY Zenon, <1>1, <1>2, <1>3, <3>1 DEF HandshakeDone
    <2> QED BY Zenon, <1>3, <2>1, <2>2
  <1>8. ASSUME Minor = 0, op.kind = "plain"
        PROVE  /\ d.srv.known = srv.known /\ d.srv.expected = srv.expected
               /\ d.srv.confirmed = srv.confirmed
    <2>1. CASE x.srv = srv /\ x.rep = RpcError
      BY Zenon, <1>3, <2>1
    <2>2. CASE x \in Executions(srv, Sent)
      BY <1>1, <1>3, <1>8, <2>2, PlainCall DEF PlainDone
    <2> QED BY Zenon, <1>3, <2>1, <2>2
  <1>9. Minor = 0 /\ op.kind \in Sequenced /\ ~upset /\ ~Disturbs(d) => InTurn(d)
    BY AnsweredInTurn
  <1>10. op.kind \in Sequenced => op.kind \notin Handshake
    BY DEF Sequenced, Handshake
  <1>11. Minor = 1 /\ op.kind = "open" /\ d.rep.status = "Ok" => ~d.rep.confirm
    BY Zenon, <1>10, AnsweredInSlot DEF Sequenced
  <1>12. ~upset /\ op.kind = "open" /\ d.rep.status = "Ok" =>
           d.rep.fh = op.name /\ srv.nextid <= d.rep.id /\ d.rep.id < d.srv.nextid
    BY Zenon, <1>1, <1>10, AnsweredInSlot, AnsweredInTurn DEF Sequenced
  <1>13. Minor = 1 /\ op.kind \notin Handshake /\ EirSequence = 1 /\ sessionid /\ Steady
           /\ d.srv.session /\ ~Disturbs(d) => InSlot(d)
    BY Zenon, AnsweredInSlot
  <1>14. Minor = 1 /\ EirSequence = 1 /\ ~setting.resends /\ ~upset /\ d.rep.status # "RpcError" =>
           d.rep.try = attempts /\ d.rep.status \notin Refusals
    BY Zenon, AnsweredOwn
  <1>16. Minor = 1 => d.srv.confirmed = srv.confirmed
    BY <1>7, AnsweredInSlot
  <1>15. {"exchange_id", "setclientid"} \subseteq Handshake
    BY DEF Handshake
  <1> QED BY Zenon, <1>6, <1>7, <1>8, <1>9, <1>11, <1>12, <1>13, <1>14, <1>15, <1>16 DEF Answered

-----------------------------------------------------------------------------
(***************************************************************************)
(* run() once the call has returned.  Afterwards(d): an answer d to a call *)
(* of run(), and what run() does whatever it is.                           *)
(***************************************************************************)
Afterwards(d) ==
  /\ IInv /\ pc = "run" /\ (InSession => sessionid) /\ Answered(d)
  /\ UNCHANGED <<setting, serial>>
  /\ srv' = d.srv /\ upset' = (upset \/ Disturbs(d))

\* What the step keeps of the counts: the slot's,
LEMMA SlotKept ==
  ASSUME NEW d, Afterwards(d), op.kind \notin Handshake, assemble, clientid' = clientid,
         sessionid' => sessionid
  PROVE  SlotInv'
  <1>1. SUFFICES ASSUME EirSequence = 1, sessionid', srv'.session, Steady'
                 PROVE  seq_id' = srv'.slot + 1
    BY DEF SlotInv
  <1>2. srv' = d.srv /\ d.srv.boot = srv.boot /\ ~upset' /\ ~upset /\ ~Disturbs(d) /\ Steady
    BY Zenon, <1>1 DEF Afterwards, Answered, Steady
  <1>3. Minor = 1 /\ sessionid
    <2>1. Minor \in {0, 1} /\ (Minor = 0 => ~sessionid)
      BY Zenon, SettingType DEF Afterwards, IInv, TypeOK, Flow
    <2> QED BY Zenon, <1>1, <2>1
  <1>4. InSlot(d)
    BY <1>1, <1>2, <1>3 DEF Afterwards, Answered
  <1>5. seq_id' = IF InSession THEN seq_id + 1 ELSE seq_id
    BY Zenon DEF assemble
  <1> QED BY <1>2, <1>4, <1>5 DEF InSlot

\* ... the open-owner's, after anything but an Ok,
LEMMA OwnerKept ==
  ASSUME NEW d, Afterwards(d), op.kind \in Sequenced => d.rep.status # "Ok",
         UNCHANGED <<clientid, open_seqid, op, handles>>, Working' => Working
  PROVE  OwnerInv'
  <1>1. SUFFICES ASSUME Minor = 0, Steady'
                 PROVE  /\ srv'.confirmed => srv'.known /\ open_seqid = srv'.expected
                        /\ ~srv'.confirmed =>
                             handles = {} /\ (Working => op.kind \notin {"close", "lock"})
                        /\ Working /\ op.kind = "open_confirm" =>
                             srv'.known /\ ~srv'.confirmed /\ open_seqid = srv'.expected
    BY DEF OwnerInv, Afterwards, Minor
  <1>2. srv' = d.srv /\ d.srv.boot = srv.boot /\ ~upset' /\ ~upset /\ ~Disturbs(d) /\ Steady
    BY ZenonT(40), <1>1 DEF Afterwards, Answered, Steady
  <1>3. /\ srv.confirmed => srv.known /\ open_seqid = srv.expected
        /\ ~srv.confirmed => handles = {} /\ (Working => op.kind \notin {"close", "lock"})
        /\ Working /\ op.kind = "open_confirm" =>
             srv.known /\ ~srv.confirmed /\ open_seqid = srv.expected
    BY Zenon, <1>1, <1>2 DEF Afterwards, IInv, OwnerInv
  <1>4. CASE op.kind \in Handshake
    <2>1. ~srv.confirmed /\ d.srv.confirmed = srv.confirmed
      BY Zenon, <1>4 DEF Afterwards, IInv, Flow, Working, Answered
    <2> QED BY Zenon, <1>2, <1>3, <1>4, <2>1 DEF Handshake
  <1>5. CASE op.kind = "plain"
    <2>1. d.srv.known = srv.known /\ d.srv.expected = srv.expected /\ d.srv.confirmed = srv.confirmed
      BY Zenon, <1>1, <1>5 DEF Afterwards, Answered
    <2> QED BY Zenon, <1>2, <1>3, <1>5, <2>1
  <1>6. CASE op.kind \in Sequenced
    <2>1. InTurn(d)
      BY Zenon, <1>1, <1>2, <1>6 DEF Afterwards, Answered
    <2>2. /\ d.srv.confirmed = srv.confirmed
          /\ srv.confirmed \/ op.kind # "open" =>
               d.srv.known = srv.known /\ d.srv.expected = srv.expected
      BY Zenon, <1>6, <2>1 DEF InTurn
    <2> QED BY Zenon, <1>2, <1>3, <2>2
  <1>7. op.kind \in Handshake \/ op.kind = "plain" \/ op.kind \in Sequenced
    BY <1>1 DEF Afterwards, IInv, Flow, KindsOf, Handshake, Sequenced
  <1> QED BY Zenon, <1>4, <1>5, <1>6, <1>7

\* ... the handles,
LEMMA OpensStay ==
  ASSUME IInv, handles' \subseteq handles, upset' \in BOOLEAN, upset => upset',
         srv'.nextid \in Nat, srv.nextid <= srv'.nextid,
         Working' /\ op'.kind = "open_confirm" =>
           Working /\ op.kind = "open_confirm" /\ op'.fh = op.fh /\ op'.name = op.name /\ op'.id = op.id
  PROVE  OpensInv'
  <1>1. SUFFICES ASSUME ~upset'
                 PROVE  /\ OpensKeptApart' /\ \A h \in handles' : h.id < srv'.nextid
                        /\ Working' /\ op'.kind = "open_confirm" =>
                             /\ op'.fh = op'.name /\ op'.id < srv'.nextid
                             /\ \A h \in handles' : h.id # op'.id
    BY Zenon DEF OpensInv, OpensKeptApart
  <1>2. /\ ~upset /\ handles \subseteq HandleType /\ srv.nextid \in Nat /\ op.id \in Nat
    BY Zenon, <1>1 DEF IInv, TypeOK, ServerType, OpType
  <1>3. /\ \A h \in handles : h.fh = h.name /\ h.id < srv.nextid
        /\ \A h, k \in handles : h.id = k.id => h = k
        /\ Working /\ op.kind = "open_confirm" =>
             op.fh = op.name /\ op.id < srv.nextid /\ \A h \in handles : h.id # op.id
    BY <1>2 DEF IInv, OpensInv, OpensKeptApart
  <1>4. \A h \in handles' : h \in handles /\ h.id \in Nat
    BY Zenon, <1>2 DEF HandleType
  <1>5. OpensKeptApart'
    BY Zenon, <1>3, <1>4 DEF OpensKeptApart
  <1>6. \A h \in handles' : h.id < srv'.nextid
    BY <1>2, <1>3, <1>4
  <1>7. Working' /\ op'.kind = "open_confirm" =>
          op'.fh = op'.name /\ op'.id < srv'.nextid /\ \A h \in handles' : h.id # op'.id
    BY <1>2, <1>3, <1>4
  <1> QED BY Zenon, <1>5, <1>6, <1>7

\* ... one more,
LEMMA OpensAdd ==
  ASSUME IInv, NEW h, h.fh = h.name, h.id \in Nat, h.id < srv'.nextid,
         \A k \in handles : k.id # h.id,
         handles' = handles \union {h}, upset => upset', upset' \in BOOLEAN,
         srv'.nextid \in Nat, srv.nextid <= srv'.nextid, ~Working'
  PROVE  OpensInv'
  <1>1. SUFFICES ASSUME ~upset'
                 PROVE  OpensKeptApart' /\ \A k \in handles' : k.id < srv'.nextid
    BY Zenon DEF OpensInv, OpensKeptApart
  <1>2. ~upset /\ handles \subseteq HandleType /\ srv.nextid \in Nat
    BY <1>1 DEF IInv, TypeOK, ServerType
  <1>3. /\ \A k \in handles : k.fh = k.name /\ k.id < srv.nextid /\ k.id \in Nat
        /\ \A k, l \in handles : k.id = l.id => k = l
    BY <1>2 DEF IInv, OpensInv, OpensKeptApart, HandleType
  <1>4. OpensKeptApart'
    BY <1>3 DEF OpensKeptApart
  <1>5. \A k \in handles' : k.id < srv'.nextid
    BY <1>2, <1>3
  <1> QED BY Zenon, <1>4, <1>5

\* ... and what was returned.
LEMMA Returned ==
  ASSUME NEW d, Afterwards(d), NEW st, Return(st, d.rep),
         d.rep.status = "RpcError" => st = "RpcError"
  PROVE  RetriesInv'
  <1>1. SUFFICES ASSUME EirSequence = 1, Minor = 1, ~setting.resends, ~upset', result'.tries > 1,
                        result'.status # "RpcError"
                 PROVE  result'.own
    BY Zenon DEF RetriesInv, RetriesInSession, Afterwards, Minor
  <1>2. /\ result'.status = st
        /\ result'.own = (d.rep.try = attempts /\ d.rep.status \notin Refusals)
    BY DEF Return
  <1>3. ~upset /\ d.rep.status # "RpcError"
    BY ZenonT(40), <1>1, <1>2 DEF Afterwards
  <1>4. d.rep.try = attempts /\ d.rep.status \notin Refusals
    BY <1>1, <1>3 DEF Afterwards, Answered
  <1> QED BY Zenon, <1>2, <1>4

LEMMA NothingReturned ==
  ASSUME IInv, UNCHANGED <<setting, result>>, upset => upset'
  PROVE  RetriesInv'
  BY Zenon DEF IInv, RetriesInv, RetriesInSession, Minor

\* When a call ends, little is left of Flow.
LEMMA FlowEnds ==
  ASSUME NEW d, Afterwards(d), ~Working', op' = op, sessionid' => sessionid,
         clientid' \in {clientid, op.clientid}
  PROVE  Flow'
  <1>1. /\ setting' = setting /\ srv' = d.srv /\ d.srv.boot = srv.boot
        /\ (d.srv.session => d.srv.client) /\ (Minor = 1 => d.srv.confirmed = srv.confirmed)
    BY Zenon DEF Afterwards, Answered
  <1>2. /\ op.kind \in KindsOf(Minor) /\ (Minor = 0 => ~sessionid) /\ (Minor = 1 => ~srv.confirmed)
        /\ clientid <= srv.boot /\ op.clientid <= srv.boot
    BY Zenon DEF Afterwards, IInv, Flow
  <1>3. Minor' = Minor
    BY <1>1 DEF Minor
  <1> QED BY Zenon, <1>1, <1>2, <1>3 DEF Flow

\* The answer is DELAY or GRACE, and the COMPOUND will be sent again.
LEMMA RetryLaterStep ==
  ASSUME NEW d, Afterwards(d), RetryLater(d.rep)
  PROVE  IInv'
  <1>1. /\ setting' = setting /\ serial' = serial /\ srv' = d.srv /\ d.srv.boot = srv.boot
        /\ d.srv \in ServerType /\ (d.srv.session => d.srv.client) /\ upset' \in BOOLEAN
        /\ (upset => upset') /\ srv.nextid <= d.srv.nextid
        /\ op.kind \in Handshake => d.srv.slot = srv.slot /\ d.srv.confirmed = srv.confirmed
    BY ZenonT(40) DEF Afterwards, Answered
  <1>2. /\ pc' = "sleep" /\ attempts' = attempts + 1 /\ assemble /\ d.rep.status # "Ok"
        /\ UNCHANGED <<clientid, open_seqid, sessionid, op, result, handles>>
    BY DEF RetryLater, MayRetry
  <1>3. TypeOK /\ Flow /\ pc = "run" /\ (InSession => sessionid) /\ IInv
    BY DEF Afterwards, IInv
  <1>4. Minor' = Minor /\ InSession' = InSession /\ Working /\ Working'
    BY Zenon, <1>1, <1>2, <1>3 DEF Minor, InSession, Working
  <1>5. TypeOK'
    BY SMTT(30), <1>1, <1>2, <1>3 DEF TypeOK, assemble
  <1>6. Flow'
    <2>1. Minor = 1 => d.srv.confirmed = srv.confirmed
      BY Zenon DEF Afterwards, Answered
    <2> QED BY ZenonT(40), <1>1, <1>2, <1>3, <1>4, <2>1 DEF Flow
  <1>7. OwnerInv'
    BY <1>2, <1>4, OwnerKept
  <1>8. SlotInv'
    <2>1. CASE op.kind \in Handshake
      BY Zenon, <1>2, <1>3, <1>4, <2>1 DEF Flow, SlotInv
    <2>2. CASE op.kind \notin Handshake
      BY Zenon, <1>2, <2>2, SlotKept
    <2> QED BY Zenon, <2>1, <2>2
  <1>9. OpensInv'
    <2>1. srv'.nextid \in Nat /\ srv.nextid <= srv'.nextid
      BY Zenon, <1>1 DEF ServerType
    <2> QED BY Zenon, <1>1, <1>2, <1>3, <1>4, <2>1, OpensStay
  <1>10. RetriesInv'
    BY Zenon, <1>1, <1>2, <1>3, NothingReturned
  <1> QED BY Zenon, <1>5, <1>6, <1>7, <1>8, <1>9, <1>10 DEF IInv

\* A step that ends the call and touches neither seqid nor handles.
LEMMA EndsStep ==
  ASSUME NEW d, Afterwards(d), NEW st, Return(st, d.rep),
         d.rep.status = "RpcError" => st = "RpcError", assemble,
         sessionid' \in BOOLEAN, sessionid' => sessionid,
         op.kind \in Sequenced => d.rep.status # "Ok",
         UNCHANGED <<clientid, open_seqid, attempts, handles>>
  PROVE  IInv'
  <1>1. /\ setting' = setting /\ serial' = serial /\ srv' = d.srv
        /\ d.srv \in ServerType /\ upset' \in BOOLEAN /\ (upset => upset')
        /\ srv.nextid <= d.srv.nextid
    BY Zenon DEF Afterwards, Answered
  <1>2. pc' \in {"failed", "idle"} /\ op' = op
    BY Zenon DEF Return
  <1>3. TypeOK /\ Flow /\ pc = "run" /\ IInv
    BY Zenon DEF Afterwards, IInv
  <1>4. ~Working' /\ Working
    BY Zenon, <1>2, <1>3 DEF Working
  <1>5. TypeOK'
    BY <1>1, <1>2, <1>3 DEF TypeOK, assemble
  <1>6. Flow'
    BY Zenon, <1>2, <1>4, FlowEnds
  <1>7. OwnerInv'
    BY Zenon, <1>2, <1>4, OwnerKept
  <1>8. SlotInv'
    <2>1. CASE op.kind \in Handshake
      BY Zenon, <1>3, <1>4, <2>1 DEF Flow, SlotInv
    <2>2. CASE op.kind \notin Handshake
      BY Zenon, <2>2, SlotKept
    <2> QED BY Zenon, <2>1, <2>2
  <1>9. OpensInv'
    <2>1. srv'.nextid \in Nat /\ srv.nextid <= srv'.nextid
      BY Zenon, <1>1 DEF ServerType
    <2> QED BY Zenon, <1>1, <1>2, <1>3, <1>4, <2>1, OpensStay
  <1>10. RetriesInv'
    BY Zenon, Returned
  <1> QED BY Zenon, <1>5, <1>6, <1>7, <1>8, <1>9, <1>10 DEF IInv

\* The call fails, or had nothing to do with open-owners.
LEMMA FailsStep ==
  ASSUME NEW d, Afterwards(d), Fails(d.rep)
  PROVE  IInv'
  <1>1. sessionid \in BOOLEAN
    BY Zenon DEF Afterwards, IInv, TypeOK
  <1> QED BY <1>1, EndsStep DEF Fails

LEMMA PlainStep ==
  ASSUME NEW d, Afterwards(d), d.rep.status = "Ok", Plain(d.rep)
  PROVE  IInv'
  <1>1. sessionid \in BOOLEAN
    BY DEF Afterwards, IInv, TypeOK
  <1> QED BY Zenon, <1>1, EndsStep DEF Plain, Sequenced

LEMMA DestroySessionStep ==
  ASSUME NEW d, Afterwards(d), d.rep.status = "Ok", destroy_session(d.rep)
  PROVE  IInv'
  BY Zenon, EndsStep DEF destroy_session, Sequenced

\* The handshake of NFSv4.0: SETCLIENTID,
LEMMA SetclientidStep ==
  ASSUME NEW d, Afterwards(d), d.rep.status = "Ok", setclientid(d.rep)
  PROVE  IInv'
  <1>1. /\ setting' = setting /\ serial' = serial /\ srv' = d.srv /\ d.srv.boot = srv.boot
        /\ d.srv \in ServerType /\ (d.srv.session => d.srv.client) /\ upset' \in BOOLEAN
        /\ (upset => upset') /\ srv.nextid <= d.srv.nextid /\ d.rep \in RepType
        /\ op.kind \in Handshake => d.srv.slot = srv.slot /\ d.srv.confirmed = srv.confirmed
    BY Zenon DEF Afterwards, Answered
  <1>2. /\ op.kind \in {"setclientid", "setclientid_confirm"} /\ assemble
        /\ UNCHANGED <<open_seqid, sessionid, handles>>
    BY Zenon DEF setclientid
  <1>3. TypeOK /\ Flow /\ pc = "run" /\ IInv /\ Working
    BY Zenon DEF Afterwards, IInv, Working
  <1>4. /\ op.kind \in Handshake /\ Minor = 0 /\ ~sessionid /\ handles = {} /\ ~srv.confirmed
        /\ srv.slot = 0
    BY Zenon, <1>2, <1>3, SettingType DEF Flow, TypeOK, KindsOf, Handshake
  <1>5. Minor' = Minor
    BY Zenon, <1>1 DEF Minor
  <1>6. srv'.nextid \in Nat /\ srv.nextid <= srv'.nextid
    BY Zenon, <1>1 DEF ServerType
  <1>7. SlotInv'
    BY Zenon, <1>2, <1>4 DEF SlotInv
  <1>8. CASE op.kind = "setclientid"
    <2>1. /\ op' = [op EXCEPT !.kind = "setclientid_confirm", !.clientid = d.rep.id]
          /\ attempts' = 0 /\ UNCHANGED <<pc, result, clientid>>
      BY Zenon, <1>8 DEF setclientid, Continue
    <2>2. d.rep.id = srv.boot /\ d.rep.id \in Nat
      BY <1>1, <1>8 DEF Afterwards, Answered, RepType
    <2>3. op' \in OpType /\ op'.kind = "setclientid_confirm" /\ op'.clientid = srv.boot
      BY ZenonT(40), <1>3, <2>1, <2>2 DEF TypeOK, OpType, Kinds
    <2>4. TypeOK'
      BY SMTT(30), <1>1, <1>2, <1>3, <2>1, <2>3 DEF TypeOK, assemble
    <2>5. srv.boot \in Nat /\ srv.boot <= srv.boot
      BY <1>3 DEF TypeOK, ServerType
    <2>6. Flow'
      BY <1>1, <1>2, <1>3, <1>4, <1>5, <2>1, <2>3, <2>5
         DEF Flow, KindsOf, Handshake, Sequenced, InSession
    <2>7. OwnerInv'
      BY ZenonT(40), <1>1, <1>2, <1>4, <2>3 DEF OwnerInv
    <2>8. OpensInv'
      BY Zenon, <1>1, <1>2, <1>3, <1>6, <2>3, OpensStay
    <2>9. RetriesInv'
      BY Zenon, <1>1, <1>3, <2>1, NothingReturned
    <2> QED BY Zenon, <1>7, <2>4, <2>6, <2>7, <2>8, <2>9 DEF IInv
  <1>9. CASE op.kind = "setclientid_confirm"
    <2>1. clientid' = op.clientid /\ Return("Ok", d.rep) /\ UNCHANGED attempts
      BY Zenon, <1>9 DEF setclientid
    <2>2. pc' \in {"failed", "idle"} /\ op' = op
      BY Zenon, <2>1 DEF Return
    <2>3. ~Working'
      BY Zenon, <2>2 DEF Working
    <2>4. TypeOK'
      BY <1>1, <1>2, <1>3, <2>1, <2>2 DEF TypeOK, assemble, OpType
    <2>5. Flow'
      BY SMTT(30), <1>2, <2>1, <2>2, <2>3, FlowEnds
    <2>6. OwnerInv'
      BY Zenon, <1>1, <1>2, <1>4, <2>3 DEF OwnerInv
    <2>7. OpensInv'
      BY Zenon, <1>1, <1>2, <1>3, <1>6, <2>3, OpensStay
    <2>8. RetriesInv'
      BY Zenon, <2>1, Returned
    <2> QED BY <1>7, <2>4, <2>5, <2>6, <2>7, <2>8 DEF IInv
  <1> QED BY <1>2, <1>8, <1>9

\* ... and of NFSv4.1: EXCHANGE_ID, CREATE_SESSION, RECLAIM_COMPLETE.
LEMMA EstablishSessionStep ==
  ASSUME NEW d, Afterwards(d), d.rep.status = "Ok", establish_session(d.rep)
  PROVE  IInv'
  <1>1. /\ setting' = setting /\ serial' = serial /\ srv' = d.srv /\ d.srv.boot = srv.boot
        /\ d.srv \in ServerType /\ (d.srv.session => d.srv.client) /\ upset' \in BOOLEAN
        /\ (upset => upset') /\ srv.nextid <= d.srv.nextid /\ d.rep \in RepType
        /\ op.kind \in Handshake => d.srv.slot = srv.slot /\ d.srv.confirmed = srv.confirmed
    BY Zenon DEF Afterwards, Answered
  <1>2. /\ op.kind \in {"exchange_id", "create_session", "reclaim_complete"}
        /\ UNCHANGED <<open_seqid, handles>>
    BY Zenon DEF establish_session
  <1>3. TypeOK /\ Flow /\ pc = "run" /\ IInv /\ Working
    BY DEF Afterwards, IInv, Working
  <1>4. Minor = 1 /\ Minor' = Minor
    BY SMTT(30), <1>1, <1>2, <1>3, SettingType DEF Flow, TypeOK, KindsOf, Minor
  <1>5. /\ op.kind \in Handshake => ~sessionid /\ handles = {} /\ srv.slot = 0
        /\ ~srv.confirmed /\ ~d.srv.confirmed
    BY Zenon, <1>3, <1>4 DEF Flow, Afterwards, Answered
  <1>6. srv'.nextid \in Nat /\ srv.nextid <= srv'.nextid
    BY <1>1 DEF ServerType
  <1>7. OwnerInv'
    BY <1>4 DEF OwnerInv
  <1>8. CASE op.kind = "exchange_id"
    <2>1. /\ op' = [op EXCEPT !.kind = "create_session", !.clientid = d.rep.id] /\ assemble
          /\ clientid' = d.rep.id /\ attempts' = 0 /\ UNCHANGED <<pc, result, sessionid>>
      BY SMTT(30), <1>8 DEF establish_session, Continue
    <2>2. d.rep.id = srv.boot /\ d.rep.id \in Nat
      BY Zenon, <1>1, <1>8 DEF Afterwards, Answered, RepType
    <2>3. op' \in OpType /\ op'.kind = "create_session" /\ op'.clientid = srv.boot
      BY Zenon, <1>3, <2>1, <2>2 DEF TypeOK, OpType, Kinds
    <2>4. TypeOK'
      BY <1>1, <1>2, <1>3, <2>1, <2>2, <2>3 DEF TypeOK, assemble
    <2>5. srv.boot \in Nat /\ srv.boot <= srv.boot /\ ~(0 > 0)
      BY <1>3 DEF TypeOK, ServerType
    <2>6. op.kind \in Handshake
      BY <1>8 DEF Handshake
    <2>7. Flow'
      BY <1>1, <1>2, <1>4, <1>5, <2>1, <2>2, <2>3, <2>5, <2>6
         DEF Flow, KindsOf, Handshake, Sequenced, InSession
    <2>8. SlotInv'
      BY SMTT(30), <1>5, <2>1, <2>6 DEF SlotInv
    <2>9. OpensInv'
      BY Zenon, <1>1, <1>2, <1>3, <1>6, <2>3, OpensStay
    <2>10. RetriesInv'
      BY Zenon, <1>1, <1>3, <2>1, NothingReturned
    <2> QED BY Zenon, <1>7, <2>4, <2>7, <2>8, <2>9, <2>10 DEF IInv
  <1>9. CASE op.kind = "create_session"
    <2>1. /\ op' = [op EXCEPT !.kind = "reclaim_complete"] /\ seq_id' = EirSequence
          /\ attempts' = 0 /\ sessionid' = TRUE /\ UNCHANGED <<pc, result, clientid>>
      BY Zenon, <1>9 DEF establish_session, Continue
    <2>2. op.kind \in Handshake /\ op.clientid = clientid
      BY <1>3, <1>9 DEF Flow, Handshake
    <2>3. op' \in OpType /\ op'.kind = "reclaim_complete" /\ op'.clientid = clientid
      BY <1>3, <2>1, <2>2 DEF TypeOK, OpType, Kinds
    <2>4. TypeOK'
      BY Zenon, <1>1, <1>2, <1>3, <2>1, <2>3, ServerAssumption DEF TypeOK
    <2>5. clientid <= srv.boot
      BY <1>3 DEF Flow
    <2>6. Flow'
      BY <1>1, <1>2, <1>4, <1>5, <2>1, <2>3, <2>5
         DEF Flow, KindsOf, Handshake, Sequenced, InSession
    <2>7. SlotInv'
      BY SMTT(30), <1>1, <1>5, <2>1, <2>2 DEF SlotInv
    <2>8. OpensInv'
      BY Zenon, <1>1, <1>2, <1>3, <1>6, <2>3, OpensStay
    <2>9. RetriesInv'
      BY Zenon, <1>1, <1>3, <2>1, NothingReturned
    <2> QED BY <1>7, <2>4, <2>6, <2>7, <2>8, <2>9 DEF IInv
  <1>10. CASE op.kind = "reclaim_complete"
    <2>1. Return("Ok", d.rep) /\ assemble /\ UNCHANGED <<clientid, sessionid, attempts>>
      BY Zenon, <1>10 DEF establish_session
    <2>2. sessionid \in BOOLEAN /\ op.kind \notin Sequenced
      BY Zenon, <1>3, <1>10 DEF TypeOK, Sequenced
    <2> QED BY <1>2, <2>1, <2>2, EndsStep
  <1> QED BY Zenon, <1>2, <1>8, <1>9, <1>10

\* CLOSE and LOCK.
LEMMA CloseOrLockStep ==
  ASSUME NEW d, Afterwards(d), d.rep.status = "Ok", CloseOrLock(d.rep)
  PROVE  IInv'
  <1>1. /\ setting' = setting /\ serial' = serial /\ srv' = d.srv /\ d.srv.boot = srv.boot
        /\ d.srv \in ServerType /\ upset' = (upset \/ Disturbs(d)) /\ upset' \in BOOLEAN
        /\ (upset => upset') /\ srv.nextid <= d.srv.nextid
    BY ZenonT(40) DEF Afterwards, Answered
  <1>2. /\ op.kind \in {"close", "lock"} /\ assemble /\ open_seqid' = open_seqid + 1
        /\ Return("Ok", d.rep) /\ UNCHANGED <<clientid, sessionid, attempts, handles>>
    BY Zenon DEF CloseOrLock
  <1>3. TypeOK /\ Flow /\ pc = "run" /\ IInv /\ Working
    BY DEF Afterwards, IInv, Working
  <1>4. pc' \in {"failed", "idle"} /\ op' = op
    BY Zenon, <1>2 DEF Return
  <1>5. ~Working' /\ op.kind \in Sequenced /\ op.kind \notin Handshake
    BY Zenon, <1>2, <1>4 DEF Working, Sequenced, Handshake
  <1>6. TypeOK'
    BY SMTT(30), <1>1, <1>2, <1>3, <1>4 DEF TypeOK, assemble
  <1>7. Flow'
    BY Zenon, <1>2, <1>4, <1>5, FlowEnds
  <1>8. OwnerInv'
    <2>1. SUFFICES ASSUME Minor = 0, Steady'
                   PROVE  /\ srv'.confirmed => srv'.known /\ open_seqid' = srv'.expected
                          /\ ~srv'.confirmed => handles' = {}
      BY SMTT(30), <1>1, <1>5 DEF OwnerInv, Minor
    <2>2. ~upset /\ ~Disturbs(d) /\ Steady
      BY ZenonT(40), <1>1, <1>2, <2>1 DEF Steady
    <2>3. InTurn(d)
      BY Zenon, <1>5, <2>1, <2>2 DEF Afterwards, Answered
    <2>4. d.srv.known /\ d.srv.expected = open_seqid + 1
      BY SMTT(30), <2>3 DEF InTurn
    <2>5. srv.confirmed
      BY ZenonT(40), <1>2, <1>3, <2>1, <2>2 DEF IInv, OwnerInv
    <2>6. d.srv.confirmed
      BY Zenon, <2>3, <2>5 DEF InTurn
    <2> QED BY Zenon, <1>1, <1>2, <2>4, <2>6
  <1>9. SlotInv'
    BY Zenon, <1>2, <1>5, SlotKept
  <1>10. OpensInv'
    <2>1. srv'.nextid \in Nat /\ srv.nextid <= srv'.nextid
      BY Zenon, <1>1 DEF ServerType
    <2> QED BY Zenon, <1>1, <1>2, <1>3, <1>5, <2>1, OpensStay
  <1>11. RetriesInv'
    BY Zenon, <1>2, Returned
  <1> QED BY Zenon, <1>6, <1>7, <1>8, <1>9, <1>10, <1>11 DEF IInv

\* OPEN_CONFIRM.
LEMMA OpenConfirmedStep ==
  ASSUME NEW d, Afterwards(d), d.rep.status = "Ok", OpenConfirmed(d.rep)
  PROVE  IInv'
  <1>1. /\ setting' = setting /\ serial' = serial /\ srv' = d.srv /\ d.srv.boot = srv.boot
        /\ d.srv \in ServerType /\ upset' = (upset \/ Disturbs(d)) /\ upset' \in BOOLEAN
        /\ (upset => upset') /\ srv.nextid <= d.srv.nextid /\ d.rep \in RepType
    BY Zenon DEF Afterwards, Answered
  <1>2. /\ op.kind = "open_confirm" /\ assemble /\ open_seqid' = open_seqid + 1
        /\ Opened(op.fh, d.rep.id) /\ Return("Ok", d.rep)
        /\ UNCHANGED <<clientid, sessionid, attempts>>
    BY Zenon DEF OpenConfirmed
  <1>3. TypeOK /\ Flow /\ pc = "run" /\ IInv /\ Working
    BY DEF Afterwards, IInv, Working
  <1>4. pc' \in {"failed", "idle"} /\ op' = op
    BY SMTT(30), <1>2 DEF Return
  <1>5. /\ ~Working' /\ op.kind \in Sequenced /\ op.kind \notin Handshake /\ Minor = 0
        /\ Minor' = Minor
    BY ZenonT(40), <1>1, <1>2, <1>3, <1>4, SettingType
       DEF Working, Sequenced, Handshake, Flow, KindsOf, TypeOK, Minor
  <1>0. PICK h : h = [name |-> op.name, fh |-> op.fh, id |-> d.rep.id, serial |-> op.serial]
    BY ZenonT(40)
  <1>6. h \in HandleType /\ h.name = op.name /\ h.fh = op.fh /\ h.id = d.rep.id
    BY Zenon, <1>0, <1>1, <1>3 DEF HandleType, TypeOK, OpType, RepType
  <1>7. handles' = handles \union {h}
    BY Zenon, <1>0, <1>2 DEF Opened
  <1>8. TypeOK'
    BY SMTT(30), <1>1, <1>2, <1>3, <1>4, <1>6, <1>7 DEF TypeOK, assemble
  <1>9. Flow'
    BY SMTT(30), <1>2, <1>4, <1>5, FlowEnds
  <1>10. ~upset' => InTurn(d)
    BY ZenonT(40), <1>1, <1>5 DEF Afterwards, Answered
  <1>11. OwnerInv'
    <2>1. ~upset' => d.srv.known /\ d.srv.expected = open_seqid + 1 /\ d.srv.confirmed
      BY Zenon, <1>2, <1>10 DEF InTurn
    <2> QED BY Zenon, <1>1, <1>2, <1>5, <2>1 DEF OwnerInv, Steady
  <1>12. SlotInv'
    BY Zenon, <1>2, <1>5, SlotKept
  <1>13. OpensInv'
    <2>1. srv'.nextid \in Nat /\ srv.nextid <= srv'.nextid /\ srv.nextid \in Nat
      BY Zenon, <1>1, <1>3 DEF ServerType, TypeOK
    <2>2. ASSUME ~upset' PROVE OpensInv'
      <3>1. op.fh = op.name /\ op.id < srv.nextid /\ \A k \in handles : k.id # op.id
        BY ZenonT(40), <1>1, <1>2, <1>3, <2>2 DEF IInv, OpensInv
      <3>2. d.rep.id = op.id /\ op.id \in Nat
        BY Zenon, <1>2, <1>3, <1>10, <2>2 DEF InTurn, TypeOK, OpType
      <3>3. h.id < srv'.nextid /\ h.id \in Nat
        BY <1>6, <2>1, <3>1, <3>2
      <3> QED BY Zenon, <1>1, <1>3, <1>5, <1>6, <1>7, <2>1, <3>1, <3>2, <3>3, OpensAdd
    <2>3. ASSUME upset' PROVE OpensInv'
      BY Zenon, <2>3, <1>5 DEF OpensInv, OpensKeptApart
    <2> QED BY Zenon, <1>1, <2>2, <2>3
  <1>14. RetriesInv'
    BY <1>2, Returned
  <1> QED BY <1>8, <1>9, <1>11, <1>12, <1>13, <1>14 DEF IInv

\* OPEN: with a delegation, to be confirmed, or done.
LEMMA OpenStep ==
  ASSUME NEW d, Afterwards(d), d.rep.status = "Ok", open(d.rep)
  PROVE  IInv'
  <1>1. /\ setting' = setting /\ serial' = serial /\ srv' = d.srv /\ d.srv.boot = srv.boot
        /\ d.srv \in ServerType /\ upset' = (upset \/ Disturbs(d)) /\ upset' \in BOOLEAN
        /\ (upset => upset') /\ srv.nextid <= d.srv.nextid /\ d.rep \in RepType
        /\ (d.srv.session => d.srv.client)
    BY Zenon DEF Afterwards, Answered
  <1>2. op.kind = "open" /\ assemble /\ UNCHANGED <<clientid, sessionid>>
    BY Zenon DEF open
  <1>3. TypeOK /\ Flow /\ pc = "run" /\ IInv /\ Working
    BY DEF Afterwards, IInv, Working
  <1>4. op.kind \in Sequenced /\ op.kind \notin Handshake /\ Minor \in {0, 1} /\ Minor' = Minor
    BY Zenon, <1>1, <1>2, <1>3, SettingType DEF Sequenced, Handshake, TypeOK, Minor
  <1>5. SlotInv'
    BY SMTT(30), <1>2, <1>4, SlotKept
  <1>6. ~upset' /\ Minor = 0 => InTurn(d)
    BY ZenonT(40), <1>1, <1>4 DEF Afterwards, Answered
  <1>7. ~upset' => d.rep.fh = op.name /\ srv.nextid <= d.rep.id /\ d.rep.id < d.srv.nextid
    BY Zenon, <1>1, <1>2 DEF Afterwards, Answered
  <1>8. /\ srv'.nextid \in Nat /\ srv.nextid <= srv'.nextid /\ srv.nextid \in Nat
        /\ d.rep.id \in Nat /\ d.rep.fh \in Files
    BY Zenon, <1>1, <1>3 DEF ServerType, TypeOK, RepType
  <1>9. ~upset' => \A k \in handles : k.id # d.rep.id
    <2>1. ~upset' => \A k \in handles : k.id < srv.nextid /\ k.id \in Nat
      BY Zenon, <1>1, <1>3 DEF IInv, OpensInv, TypeOK, HandleType
    <2> QED BY <1>7, <1>8, <2>1
  <1>10. ~upset' /\ Minor = 0 =>
           /\ d.srv.known /\ d.srv.expected = open_seqid + 1 /\ d.srv.confirmed = srv.confirmed
           /\ d.rep.confirm = ~srv.confirmed
    <2>1. srv.confirmed \in BOOLEAN
      BY Zenon, <1>3 DEF TypeOK, ServerType
    <2> QED BY Zenon, <1>2, <1>6, <2>1 DEF InTurn
  <1>11. ASSUME d.rep.deleg, Return("Protocol", d.rep), UNCHANGED <<open_seqid, attempts, handles>>
         PROVE  IInv'
    <2>1. pc' \in {"failed", "idle"} /\ op' = op
      BY Zenon, <1>11 DEF Return
    <2>2. ~Working'
      BY <2>1 DEF Working
    <2>3. TypeOK'
      BY <1>1, <1>2, <1>3, <1>11, <2>1 DEF TypeOK, assemble
    <2>4. Flow'
      BY SMTT(30), <1>2, <2>1, <2>2, FlowEnds
    <2>5. Minor = 0 => upset'
      BY ZenonT(40), <1>1, <1>4, <1>11 DEF Disturbs
    <2>6. OwnerInv'
      BY SMTT(30), <1>4, <2>5 DEF OwnerInv, Steady
    <2>7. OpensInv'
      BY <1>1, <1>3, <1>8, <1>11, <2>2, OpensStay
    <2>8. RetriesInv'
      BY Zenon, <1>11, Returned
    <2> QED BY <1>5, <2>3, <2>4, <2>6, <2>7, <2>8 DEF IInv
  <1>12. ASSUME ~d.rep.deleg, d.rep.confirm, open_seqid' = open_seqid + 1,
                Continue([op EXCEPT !.kind = "open_confirm", !.fh = d.rep.fh, !.id = d.rep.id,
                                    !.seqid = open_seqid']),
                UNCHANGED handles
         PROVE  IInv'
    <2>1. /\ op' = [op EXCEPT !.kind = "open_confirm", !.fh = d.rep.fh, !.id = d.rep.id,
                              !.seqid = open_seqid']
          /\ attempts' = 0 /\ UNCHANGED <<pc, result>>
      BY <1>12 DEF Continue
    <2>2. open_seqid' \in Nat
      BY <1>3, <1>12 DEF TypeOK
    <2>3. /\ op' \in OpType /\ op'.kind = "open_confirm" /\ op'.fh = d.rep.fh
          /\ op'.id = d.rep.id /\ op'.seqid = open_seqid' /\ op'.name = op.name
          /\ op'.clientid = op.clientid
      BY Zenon, <1>3, <1>8, <2>1, <2>2 DEF TypeOK, OpType, Kinds
    <2>4. Minor = 0
      BY <1>2, <1>4, <1>12 DEF Afterwards, Answered
    <2>5. TypeOK'
      BY <1>1, <1>2, <1>3, <1>12, <2>1, <2>2, <2>3 DEF TypeOK, assemble
    <2>6. op.clientid = clientid /\ clientid <= srv.boot /\ ~sessionid
      BY <1>3, <1>4, <2>4 DEF Flow
    <2>7. Flow'
      BY <1>1, <1>2, <1>4, <2>1, <2>3, <2>4, <2>6 DEF Flow, KindsOf, Handshake, Sequenced, InSession
    <2>8. OwnerInv'
      <3>1. SUFFICES ASSUME Steady'
                     PROVE  /\ srv'.known /\ ~srv'.confirmed /\ open_seqid' = srv'.expected
                            /\ handles = {}
        BY Zenon, <1>12, <2>3 DEF OwnerInv
      <3>2. ~upset' /\ ~upset /\ Steady
        BY <1>1, <1>2, <3>1 DEF Steady
      <3>3. ~srv.confirmed
        BY ZenonT(40), <1>10, <1>12, <2>4, <3>2
      <3>4. handles = {}
        BY Zenon, <1>3, <2>4, <3>2, <3>3 DEF IInv, OwnerInv
      <3> QED BY Zenon, <1>1, <1>10, <1>12, <2>4, <3>2, <3>3, <3>4
    <2>9. OpensInv'
      <3>1. SUFFICES ASSUME ~upset'
                     PROVE  /\ OpensKeptApart' /\ \A h \in handles' : h.id < srv'.nextid
                            /\ op'.fh = op'.name /\ op'.id < srv'.nextid
                            /\ \A h \in handles' : h.id # op'.id
        BY DEF OpensInv, OpensKeptApart
      <3>2. OpensKeptApart'
        BY Zenon, <1>1, <1>3, <1>12, <3>1 DEF IInv, OpensInv, OpensKeptApart
      <3>3. \A h \in handles : h.id < srv.nextid /\ h.id \in Nat
        BY <1>1, <1>3, <3>1 DEF IInv, OpensInv, TypeOK, HandleType
      <3>4. \A h \in handles' : h.id < srv'.nextid
        BY <1>8, <1>12, <3>3
      <3> QED BY Zenon, <1>1, <1>7, <1>9, <1>12, <2>3, <3>1, <3>2, <3>4
    <2>10. RetriesInv'
      BY Zenon, <1>1, <1>3, <2>1, NothingReturned
    <2> QED BY <1>5, <2>5, <2>7, <2>8, <2>9, <2>10 DEF IInv
  <1>13. ASSUME ~d.rep.deleg, ~d.rep.confirm, open_seqid' = open_seqid + 1,
                Opened(d.rep.fh, d.rep.id), Return("Ok", d.rep), UNCHANGED attempts
         PROVE  IInv'
    <2>1. pc' \in {"failed", "idle"} /\ op' = op
      BY <1>13 DEF Return
    <2>2. ~Working'
      BY <2>1 DEF Working
    <2>0. PICK h : h = [name |-> op.name, fh |-> d.rep.fh, id |-> d.rep.id, serial |-> op.serial]
      BY ZenonT(40)
    <2>3. h \in HandleType /\ h.name = op.name /\ h.fh = d.rep.fh /\ h.id = d.rep.id
      BY Zenon, <1>3, <1>8, <2>0 DEF HandleType, TypeOK, OpType
    <2>4. handles' = handles \union {h}
      BY Zenon, <1>13, <2>0 DEF Opened
    <2>11. handles' \subseteq HandleType
      BY Zenon, <1>3, <2>3, <2>4 DEF TypeOK
    <2>12. seq_id' \in Nat /\ open_seqid' \in Nat
      BY <1>2, <1>3, <1>13 DEF TypeOK, assemble
    <2>5. TypeOK'
      BY Zenon, <1>1, <1>2, <1>3, <1>13, <2>1, <2>11, <2>12 DEF TypeOK
    <2>6. Flow'
      BY <1>2, <2>1, <2>2, FlowEnds
    <2>7. OwnerInv'
      BY Zenon, <1>1, <1>4, <1>10, <1>13, <2>2 DEF OwnerInv, Steady
    <2>8. ASSUME ~upset' PROVE OpensInv'
      BY ZenonT(40), <1>1, <1>3, <1>7, <1>8, <1>9, <2>2, <2>3, <2>4, <2>8, OpensAdd
    <2>9. ASSUME upset' PROVE OpensInv'
      BY Zenon, <2>2, <2>9 DEF OpensInv, OpensKeptApart
    <2>10. RetriesInv'
      BY SMTT(30), <1>13, Returned
    <2> QED BY Zenon, <1>1, <1>5, <2>5, <2>6, <2>7, <2>8, <2>9, <2>10 DEF IInv
  <1> QED BY SMTT(30), <1>11, <1>12, <1>13 DEF open

-----------------------------------------------------------------------------
(* The steps. *)

LEMMA RunStep ==
  ASSUME IInv, run
  PROVE  IInv'
  <1>1. PICK d \in RpcCall(Sent) :
          /\ srv' = d.srv /\ upset' = (upset \/ Disturbs(d))
          /\ \/ RetryLater(d.rep)
             \/ Fails(d.rep)
             \/ /\ d.rep.status = "Ok"
                /\ \/ setclientid(d.rep) \/ establish_session(d.rep)
                   \/ open(d.rep) \/ OpenConfirmed(d.rep) \/ CloseOrLock(d.rep)
                   \/ Plain(d.rep) \/ destroy_session(d.rep)
    BY Zenon DEF run
  <1>2. pc = "run" /\ (InSession => sessionid) /\ UNCHANGED <<setting, serial>>
    BY DEF run
  <1>3. Answered(d)
    BY Zenon, <1>2, RpcAnswered
  <1>4. Afterwards(d)
    BY Zenon, <1>1, <1>2, <1>3 DEF Afterwards
  <1> QED
    BY ZenonT(40), <1>1, <1>4, RetryLaterStep, FailsStep, SetclientidStep, EstablishSessionStep,
       OpenStep, OpenConfirmedStep, CloseOrLockStep, PlainStep, DestroySessionStep

\* The sleep is over.
LEMMA WakeStep ==
  ASSUME IInv, Wake
  PROVE  IInv'
  <1>1. /\ pc = "sleep" /\ pc' = "run"
        /\ UNCHANGED <<setting, fields, op, attempts, handles, serial, result, srv, upset>>
    BY DEF Wake
  <1>2. Working /\ Working' /\ Minor' = Minor /\ InSession' = InSession
    BY Zenon, <1>1 DEF Working, Minor, InSession
  <1>3. TypeOK'
    BY Zenon, <1>1 DEF IInv, TypeOK, fields
  <1>4. Flow'
    BY SMTT(30), <1>1, <1>2 DEF IInv, Flow, fields
  <1>5. OwnerInv' /\ SlotInv' /\ OpensInv' /\ RetriesInv'
    BY Zenon, <1>1, <1>2 DEF IInv, OwnerInv, SlotInv, OpensInv, OpensKeptApart, RetriesInv,
                      RetriesInSession, Steady, fields
  <1> QED BY Zenon, <1>3, <1>4, <1>5 DEF IInv

\* No session: the call fails at its first pass.
LEMMA NoSessionStep ==
  ASSUME IInv, NoSession
  PROVE  IInv'
  <1>1. /\ pc = "run" /\ InSession /\ ~sessionid /\ Return("Protocol", RpcError)
        /\ UNCHANGED <<setting, fields, attempts, handles, serial, srv, upset>>
    BY Zenon DEF NoSession
  <1>2. pc' \in {"failed", "idle"} /\ op' = op /\ result'.tries = attempts + 1
    BY <1>1 DEF Return
  <1>3. Working /\ ~Working' /\ Minor' = Minor
    BY Zenon, <1>1, <1>2 DEF Working, Minor
  <1>4. TypeOK'
    BY Zenon, <1>1, <1>2 DEF IInv, TypeOK, fields
  <1>5. Flow'
    BY Zenon, <1>1, <1>2, <1>3 DEF IInv, Flow, fields
  <1>6. OwnerInv' /\ SlotInv' /\ OpensInv'
    BY Zenon, <1>1, <1>2, <1>3 DEF IInv, OwnerInv, SlotInv, OpensInv, OpensKeptApart, Steady, fields
  <1>7. RetriesInv'
    <2>1. ~(attempts > 0) /\ attempts \in Nat
      BY <1>1, <1>3 DEF IInv, Flow, TypeOK
    <2>2. ~(result'.tries > 1)
      BY <1>2, <2>1
    <2> QED BY Zenon, <2>2 DEF RetriesInv, RetriesInSession
  <1> QED BY Zenon, <1>4, <1>5, <1>6, <1>7 DEF IInv

\* The caller's next call.
LEMMA CallStep ==
  ASSUME IInv, NEW kind, NEW name \in Files, NEW h \in handles \union {NoHandle}, Call(kind, name, h),
         \/ kind \in {"open", "plain"}
         \/ kind \in {"close", "lock"} /\ h \in handles
         \/ kind = "destroy_session" /\ Minor = 1
  PROVE  IInv'
  <1>1. /\ pc = "idle" /\ pc' = "run" /\ attempts' = 0 /\ serial' = serial + 1
        /\ op' = Compound(kind, serial + 1, name, h.id) /\ handles' \subseteq handles
        /\ UNCHANGED <<setting, fields, result, srv, upset>>
    BY Zenon DEF Call
  <1>2. Working' /\ Minor' = Minor /\ Minor \in {0, 1}
    BY Zenon, <1>1, SettingType DEF Working, Minor, IInv, TypeOK
  <1>3. h.id \in Nat
    BY SMTT(30) DEF IInv, TypeOK, HandleType, NoHandle
  <1>4. /\ op' \in OpType /\ op'.kind = kind /\ op'.seqid = open_seqid /\ op'.clientid = clientid
    <2>1. /\ kind \in Kinds /\ serial + 1 \in Nat /\ open_seqid \in Nat /\ clientid \in Nat
          /\ NoFile \in Files
      BY DEF IInv, TypeOK, Kinds, Files
    <2>2. op' = [kind |-> kind, serial |-> serial + 1, name |-> name, fh |-> NoFile, id |-> h.id,
                 seqid |-> open_seqid, seq |-> 0, try |-> 0, clientid |-> clientid]
      BY Zenon, <1>1 DEF Compound
    <2> QED BY <1>3, <2>1, <2>2 DEF OpType
  <1>5. TypeOK'
    BY <1>1, <1>4 DEF IInv, TypeOK, fields
  <1>6. kind \in KindsOf(Minor) /\ kind \notin Handshake /\ kind # "open_confirm"
    BY Zenon, <1>2 DEF KindsOf, Handshake
  <1>7. Flow'
    <2>1. /\ UNCHANGED <<clientid, open_seqid, sessionid, srv>> /\ ~(attempts' > 0)
      BY <1>1 DEF fields
    <2>2. /\ Minor = 0 => ~sessionid
          /\ Minor = 1 => ~srv.confirmed
          /\ srv.session => srv.client
          /\ clientid <= srv.boot
      BY DEF IInv, Flow
    <2>3. kind # "create_session"
      BY <1>6 DEF Handshake
    <2> QED BY Zenon, <1>2, <1>4, <1>6, <2>1, <2>2, <2>3 DEF Flow
  <1>8. OwnerInv'
    BY ZenonT(40), <1>1, <1>2, <1>4, <1>6 DEF IInv, OwnerInv, Steady, fields
  <1>9. SlotInv'
    BY Zenon, <1>1 DEF IInv, SlotInv, Steady, fields
  <1>10. OpensInv'
    <2>1. srv'.nextid \in Nat /\ srv.nextid <= srv'.nextid /\ upset' \in BOOLEAN
      BY <1>1 DEF IInv, TypeOK, ServerType
    <2> QED BY Zenon, <1>1, <1>4, <1>6, <2>1, OpensStay
  <1>11. RetriesInv'
    BY <1>1, NothingReturned
  <1> QED BY Zenon, <1>5, <1>7, <1>8, <1>9, <1>10, <1>11 DEF IInv

LEMMA CallerStep ==
  ASSUME IInv, Caller
  PROVE  IInv'
  <1>1. NoFile \in Files /\ Names \subseteq Files
    BY DEF Files
  <1>2. ASSUME NEW n \in Names, Call("open", n, NoHandle) PROVE IInv'
    BY <1>1, <1>2, CallStep
  <1>3. ASSUME NEW h \in handles, Call("close", NoFile, h) \/ Call("lock", NoFile, h) PROVE IInv'
    BY <1>1, <1>3, CallStep
  <1>4. ASSUME Call("plain", NoFile, NoHandle) PROVE IInv'
    BY <1>1, <1>4, CallStep
  <1>5. ASSUME Minor = 1, Call("destroy_session", NoFile, NoHandle) PROVE IInv'
    BY <1>1, <1>5, CallStep
  <1> QED BY <1>2, <1>3, <1>4, <1>5 DEF Caller

\* The server restarts: it is nobody's server yet.
LEMMA RestartStep ==
  ASSUME IInv, Restart
  PROVE  IInv'
  <1>1. /\ srv' = [FreshServer(srv.boot + 1) EXCEPT !.nextid = srv.nextid]
        /\ UNCHANGED <<setting, fields, pc, op, attempts, handles, serial, result, upset>>
    BY DEF Restart
  <1>2. srv.boot \in Nat /\ srv.nextid \in Nat /\ srv.boot + 1 \in Nat
    BY DEF IInv, TypeOK, ServerType
  <1>3. PICK s : s = FreshServer(srv.boot + 1)
    OBVIOUS
  <1>4. s \in ServerType /\ s.boot = srv.boot + 1 /\ ~s.session /\ ~s.confirmed /\ s.slot = 0
    BY <1>2, <1>3, FreshType
  <1>5. /\ srv' \in ServerType /\ srv'.boot = srv.boot + 1 /\ ~srv'.session /\ ~srv'.confirmed
        /\ srv'.slot = 0 /\ srv'.nextid = srv.nextid
    BY <1>1, <1>2, <1>3, <1>4 DEF ServerType
  <1>6. Working' = Working /\ Minor' = Minor /\ InSession' = InSession
    BY Zenon, <1>1 DEF Working, Minor, InSession
  <1>7. /\ clientid <= srv.boot /\ op.clientid <= srv.boot /\ clientid \in Nat
        /\ op.clientid \in Nat
    BY DEF IInv, Flow, TypeOK, OpType
  <1>8. clientid <= srv'.boot /\ op.clientid <= srv'.boot /\ clientid # srv'.boot
    BY <1>2, <1>5, <1>7
  <1>9. TypeOK'
    BY <1>1, <1>5 DEF IInv, TypeOK, fields
  <1>10. Flow'
    BY <1>1, <1>5, <1>6, <1>8 DEF IInv, Flow, fields
  <1>11. OwnerInv'
    BY Zenon, <1>1, <1>8 DEF OwnerInv, Steady, fields
  <1>12. SlotInv'
    BY <1>5 DEF SlotInv
  <1>13. OpensInv'
    <2>1. srv.nextid <= srv'.nextid /\ srv'.nextid \in Nat /\ upset' \in BOOLEAN
      BY <1>2, <1>5, <1>9 DEF TypeOK
    <2> QED BY Zenon, <1>1, <1>6, <2>1, OpensStay
  <1>14. RetriesInv'
    BY <1>1, NothingReturned
  <1> QED BY <1>9, <1>10, <1>11, <1>12, <1>13, <1>14 DEF IInv

LEMMA InitInv ==
  ASSUME Init
  PROVE  IInv
  <1>1. /\ setting \in Settings /\ upset = FALSE /\ clientid = 0 /\ open_seqid = 0
        /\ sessionid = FALSE /\ seq_id = 0 /\ pc = "run" /\ op = First /\ attempts = 0
        /\ handles = {} /\ serial = 0 /\ result.tries = 0
        /\ srv = FreshServer(1)
    BY DEF Init
  <1>2. srv \in ServerType /\ srv.boot = 1 /\ ~srv.session /\ ~srv.confirmed /\ srv.slot = 0
    BY <1>1, FreshType
  <1>3. Minor \in {0, 1}
    BY Zenon, <1>1, SettingType
  <1>4. /\ op \in OpType /\ op.clientid = 0
        /\ op.kind = IF Minor = 1 THEN "exchange_id" ELSE "setclientid"
    BY <1>1 DEF First, OpType, Kinds, Files
  <1>5. TypeOK
    BY Zenon, <1>1, <1>2, <1>4 DEF TypeOK
  <1>6. Flow
    BY <1>1, <1>2, <1>3, <1>4 DEF Flow, KindsOf, Handshake, Sequenced
  <1>7. OwnerInv /\ SlotInv
    BY <1>1, <1>2 DEF OwnerInv, SlotInv, Steady
  <1>8. OpensInv
    BY <1>1, <1>4 DEF OpensInv, OpensKeptApart
  <1>9. RetriesInv
    BY <1>1 DEF RetriesInv, RetriesInSession
  <1> QED BY Zenon, <1>5, <1>6, <1>7, <1>8, <1>9 DEF IInv

LEMMA StepInv ==
  ASSUME IInv, [Next]_vars
  PROVE  IInv'
  <1>1. CASE UNCHANGED vars
    <2>1. UNCHANGED <<setting, fields, pc, op, attempts, handles, serial, result, srv, upset>>
      BY <1>1 DEF vars
    <2>2. UNCHANGED <<clientid, open_seqid, sessionid, seq_id>>
      BY Zenon, <2>1 DEF fields
    <2>3. Working' = Working /\ Minor' = Minor /\ InSession' = InSession /\ Steady' = Steady
      BY Zenon, <2>1, <2>2 DEF Working, Minor, InSession, Steady
    <2>4. TypeOK' /\ Flow'
      BY Zenon, <2>1, <2>2, <2>3 DEF IInv, TypeOK, Flow
    <2>5. OwnerInv' /\ SlotInv' /\ OpensInv' /\ RetriesInv'
      BY Zenon, <2>1, <2>2, <2>3 DEF IInv, OwnerInv, SlotInv, OpensInv, OpensKeptApart, RetriesInv,
                              RetriesInSession
    <2> QED BY <2>4, <2>5 DEF IInv
  <1> QED BY <1>1, RunStep, WakeStep, NoSessionStep, CallerStep, RestartStep DEF Next

-----------------------------------------------------------------------------
(* Theorems. *)

\* The inductive invariant holds: as long as nothing of Disturbs happens, the
\* client counts its open-owner's operations and its slot's COMPOUNDs as the
\* server does (the fields open_seqid and seq_id of struct Nfs4).
THEOREM Inductive == Spec => []IInv
  BY InitInv, StepInv, PTL DEF Spec

\* Every OpenResult is for the file that open() was asked for, and no two of
\* them share a stateid (Nfs4::open, open_confirm, close).
THEOREM OpensApart == Spec => []OpensKeptApart
  <1>1. IInv => OpensKeptApart
    BY Zenon DEF IInv, OpensInv
  <1> QED BY <1>1, Inductive, PTL

\* Between calls open_seqid is the seqid that the server expects next of the
\* open-owner (Nfs4::open, open_confirm, close, lock).
THEOREM OwnersInSync == Spec => []SeqidInSync
  <1>1. IInv => Minor \in {0, 1} /\ (Minor = 1 => ~srv.confirmed)
    BY Zenon, SettingType DEF IInv, TypeOK, Flow
  <1>2. IInv => SeqidInSync
    BY <1>1 DEF IInv, OwnerInv, SeqidInSync, Steady
  <1> QED BY <1>2, Inductive, PTL

\* With a server whose eir_sequenceid is 1, seq_id is between calls what slot
\* 0 expects next (assemble(); create_session takes csr_sequence for it).
THEOREM SlotsInSync == ASSUME EirSequence = 1 PROVE Spec => []SlotInSync
  <1>1. IInv => SlotInSync
    BY DEF IInv, SlotInv, SlotInSync, Steady
  <1> QED BY <1>1, Inductive, PTL

\* With such a server, what run() returns after several passes was answered to
\* its last one, by a server that looked at the operation (run, assemble).
THEOREM LastPassAnswered == ASSUME EirSequence = 1 PROVE Spec => []RetriesInSession
  <1>1. IInv => RetriesInSession
    BY DEF IInv, RetriesInv
  <1> QED BY <1>1, Inductive, PTL
=============================================================================
