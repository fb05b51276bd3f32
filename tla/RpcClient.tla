----------------------------- MODULE RpcClient -----------------------------
(***************************************************************************)
(* The synchronous RPC client, nfs-rpc/src/client.rs: one call at a time,  *)
(* up to MAX_ATTEMPTS attempts, replies matched by XID.                    *)
(*                                                                         *)
(* pc is where the calling thread is: outside any call ("idle"), about to  *)
(* write the request ("send"), waiting in recv_message ("recv"), or about  *)
(* to open a new socket ("reconnect").                                     *)
(***************************************************************************)
EXTENDS RpcTransport

CONSTANT MAX_ATTEMPTS     \* attempts per call (3 in the code)

ASSUME AttemptsAssumption == MAX_ATTEMPTS \in Nat /\ MAX_ATTEMPTS > 0

VARIABLES
  next_xid,       \* RpcClient::next_xid
  auto_reconnect, \* RpcClient::auto_reconnect
  partial,        \* RpcClient::reassembler: what it holds of an unfinished record
  synced,         \* ... and whether it still knows where records begin
  pending,        \* RpcClient::pending
  pc, attempt,    \* where call() is, and its loop counter
  xid,            \* the XID of the current call
  calls,          \* calls begun so far; the current one has this number
  result,         \* what the last call returned
  seed,           \* history: seed_xid()
  armed           \* history: whether call c was made with auto_reconnect

clientVars == <<next_xid, auto_reconnect, partial, synced, pending, pc, attempt,
                xid, calls, result, seed, armed>>
vars == <<netVars, clientVars>>

NoMessage == [call |-> 0]
Garbage == [call |-> 0, kind |-> "malformed"]

\* What bytes from the middle of a payload may be taken for: a reply to any XID,
\* that nobody sent.
Stray == {Garbage} \union [call : {0}, xid : Xid, kind : {"ok", "undecodable", "rpc_error"}]
----------------------------------------------------------------------------
Init ==
  /\ NetInit
  /\ next_xid \in Xid /\ seed = next_xid
  /\ auto_reconnect = (Transport # "Stream")
  /\ partial = <<>> /\ synced = TRUE /\ pending = <<>>
  /\ pc = "idle" /\ attempt = 0 /\ xid = next_xid /\ calls = 0
  /\ result = [call |-> 0, status |-> "None", by |-> NoMessage]
  /\ armed = [c \in Calls |-> FALSE]

set_auto_reconnect(enabled) ==
  /\ pc = "idle"
  /\ auto_reconnect' = enabled
  /\ UNCHANGED <<netVars, next_xid, partial, synced, pending, pc, attempt, xid,
                 calls, result, seed, armed>>

wrapping_add(x) == IF x = XidSpace - 1 THEN 0 ELSE x + 1

(***************************************************************************)
(* call(): build_call takes an XID, also when encoding the arguments then  *)
(* fails.  A message too long for frame() fails before anything is sent.   *)
(***************************************************************************)
call(outcome) ==
  /\ pc = "idle" /\ calls < setting.calls
  /\ outcome = "RecordTooLarge" => IsStream
  /\ calls' = calls + 1
  /\ xid' = next_xid
  /\ next_xid' = wrapping_add(next_xid)
  /\ armed' = [armed EXCEPT ![calls + 1] = auto_reconnect]
  /\ IF outcome = "Ok"
     THEN pc' = "send" /\ attempt' = 1 /\ UNCHANGED result
     ELSE /\ result' = [call |-> calls + 1, status |-> outcome, by |-> NoMessage]
          /\ UNCHANGED <<pc, attempt>>
  /\ UNCHANGED <<netVars, auto_reconnect, partial, synced, pending, seed>>

is_retryable_IgnoresSetting(err) ==
  err \in {"Io", "ConnectionClosed"} \/ (err = "Timeout" /\ Transport = "Udp")

is_retryable(err) ==
  \/ err = "Timeout" /\ Transport = "Udp"
  \/ err \in {"Io", "ConnectionClosed"} /\ auto_reconnect

\* The call returns to its caller.
Return(status, m) ==
  /\ pc' = "idle"
  /\ result' = [call |-> calls, status |-> status, by |-> m]
  /\ UNCHANGED attempt

\* The loop in call() when an attempt ends in err: resend a datagram, open a
\* new connection, or return the error.
AttemptFails(err, m) ==
  IF attempt < MAX_ATTEMPTS /\ is_retryable(err)
  THEN /\ pc' = IF IsStream THEN "reconnect" ELSE "send"
       /\ attempt' = IF IsStream THEN attempt ELSE attempt + 1
       /\ UNCHANGED result
  ELSE Return(err, m)
----------------------------------------------------------------------------
\* send(): the whole request is written.  A closed peer never sees it.
Send ==
  /\ pc = "send"
  /\ ~stalled \/ closed
  /\ requests' = IF closed THEN requests
                 ELSE requests \union {[call |-> calls, xid |-> xid, conn |-> conn]}
  /\ pc' = "recv"
  /\ UNCHANGED <<setting, conn, inbound, datagrams, closed, stalled, executed,
                 next_xid, auto_reconnect, partial, synced, pending, attempt, xid,
                 calls, result, seed, armed>>

\* write_all or flush fails.  A flush of a from_stream transport may fail
\* after the request went out.
SendFails(out) ==
  /\ pc = "send"
  /\ ~stalled \/ closed
  /\ out => Transport = "Stream" /\ ~closed
  /\ requests' = IF out THEN requests \union {[call |-> calls, xid |-> xid, conn |-> conn]}
                 ELSE requests
  /\ closed' = (closed \/ IsStream)
  /\ AttemptFails("Io", NoMessage)
  /\ UNCHANGED <<setting, conn, inbound, datagrams, stalled, executed,
                 next_xid, auto_reconnect, partial, synced, pending, xid, calls,
                 seed, armed>>
----------------------------------------------------------------------------
(***************************************************************************)
(* attempt_call with one message: parse_reply fails before the XIDs are    *)
(* compared; a reply to another call is dropped.                           *)
(***************************************************************************)
Malformed(m) == m.kind = "malformed"

Matches_Any(m) == TRUE
Matches(m) == m.xid = xid

Handle(m) ==
  \/ Malformed(m) /\ AttemptFails("MalformedReply", m)
  \/ ~Malformed(m) /\ ~Matches(m) /\ UNCHANGED <<pc, attempt, result>>
  \/ ~Malformed(m) /\ Matches(m) /\ m.kind = "rpc_error" /\ AttemptFails("RpcError", m)
  \/ ~Malformed(m) /\ Matches(m) /\ m.kind = "undecodable" /\ AttemptFails("Xdr", m)
  \/ ~Malformed(m) /\ Matches(m) /\ m.kind = "ok" /\ Return("Ok", m)

\* recv_message returns a record read earlier, without looking at the clock.
PopPending ==
  /\ pc = "recv" /\ pending # <<>>
  /\ Handle(Head(pending))
  /\ pending' = Tail(pending)
  /\ UNCHANGED <<netVars, next_xid, auto_reconnect, partial, synced, xid, calls,
                 seed, armed>>

\* recv on a Udp socket; the datagram may be a copy of one still to come.
RecvDatagram ==
  /\ pc = "recv" /\ ~IsStream
  /\ \E m \in datagrams :
       /\ Handle(m)
       /\ datagrams' \in {datagrams, datagrams \ {m}}
  /\ UNCHANGED <<setting, conn, requests, inbound, closed, stalled, executed, next_xid,
                 auto_reconnect, partial, synced, pending, xid, calls, seed, armed>>

\* What the reassembler makes of the halves s: the i-th record, the records
\* that are above its limit, and what it keeps of an unfinished one.
Record(s, i) == IF s[2*i-1].msg = s[2*i].msg THEN s[2*i].msg ELSE Garbage
TooLarge(s) == {i \in 1 .. (Len(s) + 1) \div 2 : s[2*i-1].msg.kind = "oversize"}
Unfinished(s) == IF Len(s) % 2 = 0 THEN <<>> ELSE <<s[Len(s)]>>

(***************************************************************************)
(* read() returns n halves: push them and move every whole record to       *)
(* pending.  A record above the limit ends the attempt with the records    *)
(* before it in pending and the reassembler in the middle of that record.  *)
(***************************************************************************)
Read(n) ==
  LET s == partial \o SubSeq(inbound, 1, n)
  IN /\ pc = "recv" /\ pending = <<>> /\ IsStream
     /\ inbound' = SubSeq(inbound, n + 1, Len(inbound))
     /\ \/ /\ synced /\ TooLarge(s) = {}
           /\ pending' = [i \in 1 .. Len(s) \div 2 |-> Record(s, i)]
           /\ partial' = Unfinished(s)
           /\ UNCHANGED <<synced, pc, attempt, result>>
        \/ /\ synced /\ TooLarge(s) # {}
           /\ \E k \in TooLarge(s) :
                /\ \A i \in TooLarge(s) : k <= i
                /\ pending' = [i \in 1 .. k - 1 |-> Record(s, i)]
           /\ partial' = <<>> /\ synced' = FALSE
           /\ AttemptFails("RecordTooLarge", NoMessage)
        \/ /\ ~synced   \* bytes of a payload are taken for headers
           /\ \E k \in 0 .. setting.strays : pending' \in [1 .. k -> Stray]
           /\ UNCHANGED <<partial, synced, pc, attempt, result>>
        \/ /\ ~synced
           /\ AttemptFails("RecordTooLarge", NoMessage)
           /\ UNCHANGED <<pending, partial, synced>>
     /\ UNCHANGED <<setting, conn, requests, datagrams, closed, stalled, executed, next_xid,
                    auto_reconnect, xid, calls, seed, armed>>

\* recv_message fails with nothing in pending: end of the stream, or an error
\* of the socket, which ends a stream.
RecvFails(err) ==
  /\ pc = "recv" /\ pending = <<>>
  /\ \/ err = "ConnectionClosed" /\ IsStream /\ closed /\ inbound = <<>>
        /\ UNCHANGED <<closed, inbound>>
     \/ err = "Io" /\ IsStream /\ closed' = TRUE /\ inbound' = <<>>
     \/ err = "Io" /\ ~IsStream /\ UNCHANGED <<closed, inbound>>
  /\ AttemptFails(err, NoMessage)
  /\ UNCHANGED <<setting, conn, requests, datagrams, stalled, executed, next_xid,
                 auto_reconnect, partial, synced, pending, xid, calls, seed, armed>>

\* The deadline of this attempt has passed.
RecvTimeout_Never == FALSE
RecvTimeout ==
  /\ pc = "recv" /\ pending = <<>>
  /\ AttemptFails("Timeout", NoMessage)
  /\ UNCHANGED <<netVars, next_xid, auto_reconnect, partial, synced, pending, xid,
                 calls, seed, armed>>
----------------------------------------------------------------------------
FreshBuffers_OldPending == partial' = <<>> /\ synced' = TRUE /\ UNCHANGED pending
FreshBuffers == partial' = <<>> /\ synced' = TRUE /\ pending' = <<>>

\* reconnect(): a new socket, reassembler and pending queue.
reconnect ==
  /\ pc = "reconnect" /\ Transport = "Tcp"
  /\ conn' = conn + 1 /\ inbound' = <<>> /\ closed' = FALSE /\ stalled' = FALSE
  /\ FreshBuffers
  /\ pc' = "send" /\ attempt' = attempt + 1
  /\ UNCHANGED <<setting, requests, datagrams, executed, next_xid, auto_reconnect, xid,
                 calls, result, seed, armed>>

\* open_socket fails, always so for a from_stream client (its address is
\* 0.0.0.0:0): the call returns and the old socket stays.
ReconnectFails ==
  /\ pc = "reconnect"
  /\ Return("Io", NoMessage)
  /\ UNCHANGED <<netVars, next_xid, auto_reconnect, partial, synced, pending, xid,
                 calls, seed, armed>>

Writing == Send \/ \E out \in BOOLEAN : SendFails(out)
Reading == \E n \in 1 .. Len(inbound) : Read(n)
Connecting == reconnect \/ ReconnectFails

Step ==
  \/ Writing
  \/ PopPending
  \/ RecvDatagram
  \/ Reading
  \/ \E err \in {"Io", "ConnectionClosed"} : RecvFails(err)
  \/ RecvTimeout
  \/ Connecting

Caller ==
  \/ \E outcome \in {"Ok", "Xdr", "RecordTooLarge"} : call(outcome)
  \/ \E enabled \in BOOLEAN : set_auto_reconnect(enabled)

Next == Caller \/ Step \/ (Network /\ UNCHANGED clientVars)

Spec == Init /\ [][Next]_vars
----------------------------------------------------------------------------
Statuses == {"None", "Ok", "Io", "Timeout", "ConnectionClosed", "RecordTooLarge",
             "MalformedReply", "RpcError", "Xdr"}
AnyMessage == Message \union Stray \union {NoMessage}

TypeOK ==
  /\ NetTypeOK
  /\ next_xid \in Xid /\ xid \in Xid /\ seed \in Xid
  /\ auto_reconnect \in BOOLEAN /\ synced \in BOOLEAN
  /\ partial \in Seq(Half) /\ pending \in Seq(Message \union Stray)
  /\ pc \in {"idle", "send", "recv", "reconnect"}
  /\ attempt \in 0 .. MAX_ATTEMPTS
  /\ calls \in 0 .. MaxCalls
  /\ result \in [call : 0 .. MaxCalls, status : Statuses, by : AnyMessage]
  /\ armed \in [Calls -> BOOLEAN]

(***************************************************************************)
(* A call that returns Ok returns the reply to its own request, for which  *)
(* the server has run it: never one to an earlier call that timed out, a   *)
(* duplicate, or one left in pending (client.rs 185-193).  Excepted are    *)
(* the bytes of a payload that pass for a reply on a connection that is    *)
(* kept after RecordTooLarge: XIDs tell nothing of them.                   *)
(***************************************************************************)
MatchedReply ==
  result.status = "Ok" /\ result.by \notin Stray =>
    result.by.call = result.call /\ executed[result.call] > 0

(***************************************************************************)
(* After a reconnection nothing read on an older connection is left: no    *)
(* record in pending and no half record in the reassembler comes from one, *)
(* and two connections are never spliced into one record (client.rs        *)
(* 278-283).                                                               *)
(***************************************************************************)
ConnectionPurity ==
  IsStream /\ synced =>
    /\ \A i \in 1 .. Len(pending) : pending[i] \notin Stray /\ pending[i].conn = conn
    /\ \A i \in 1 .. Len(partial) : partial[i].msg.conn = conn

(***************************************************************************)
(* A stream call is executed at most once per attempt, and at most once    *)
(* if it was made with auto_reconnect off: the client then never sends a   *)
(* request twice (client.rs 146-164).                                      *)
(***************************************************************************)
BoundedExecution ==
  IsStream => \A c \in Calls : executed[c] <= IF armed[c] THEN MAX_ATTEMPTS ELSE 1

\* write_all of the synchronous client waits for a peer that has stopped reading:
\* no timeout is set for it.
WriteBlocked == setting.client = "sync" /\ pc = "send" /\ stalled /\ ~closed

(***************************************************************************)
(* Every call returns to its caller, with no answer, late answers, answers *)
(* to other calls and disconnections, or stays in write_all for as long as *)
(* the peer neither reads nor closes: the "timeout por llamada" of         *)
(* client.rs:4 bounds the wait for the reply only (client.rs 135-157,      *)
(* 200, 222).  A call of the asynchronous client returns in any case.      *)
(***************************************************************************)
CallReturns == pc # "idle" ~> pc = "idle" \/ WriteBlocked
============================================================================
