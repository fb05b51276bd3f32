-------------------------- MODULE RpcClientProofs --------------------------
(***************************************************************************)
(* The RPC clients, the synchronous one by itself (Spec) and the library   *)
(* with both (ASpec), for every number of calls up to the size of the XID  *)
(* space, every number of attempts, every transport and every setting.     *)
(*                                                                         *)
(* MatchedReply rests on what every request and every message carries, in  *)
(* the network, in the reassembler or in pending: the XID that its call    *)
(* was given, which no other call was given (XidInjective).                *)
(* ConnectionPurity rests on Framed: what the reassembler keeps and what   *)
(* is still to be read are, together, pairs of halves.  BoundedExecution   *)
(* rests on Bounded, which counts the requests that can still be executed  *)
(* with those that were.  OwnReply rests on CutCallOver.                   *)
(***************************************************************************)
EXTENDS AsyncRpcClient, Integers, TLAPS

\* The XID that build_call gives to call c, counting from seed_xid().
XidOf(c) == IF seed + c <= XidSpace THEN seed + c - 1 ELSE seed + c - 1 - XidSpace

\* A reply carries its call's XID, and a result tells that the call was run.
Own(m) == m.xid = XidOf(m.call) /\ (m.kind = "ok" => executed[m.call] > 0)
OwnHalves(s) == \A i \in 1 .. Len(s) : Own(s[i].msg)
OwnRecords(s) == \A i \in 1 .. Len(s) : s[i] \notin Stray => Own(s[i])

\* Where call() is, and what it has returned.
Control ==
  /\ pc \in {"idle", "send", "recv", "reconnect"}
  /\ attempt \in 0 .. MAX_ATTEMPTS
  /\ result \in [call : 0 .. MaxCalls, status : Statuses, by : AnyMessage]
  /\ pc = "reconnect" => attempt < MAX_ATTEMPTS
  /\ result.status = "Ok" => result.call \in Calls

XidsInOrder ==
  /\ next_xid = XidOf(calls + 1)
  /\ pc # "idle" => calls \in Calls /\ xid = XidOf(calls)

OwnRequests == \A r \in requests : r.xid = XidOf(r.call)
OwnMessages ==
  /\ \A m \in datagrams : Own(m)
  /\ OwnHalves(inbound) /\ OwnHalves(partial) /\ OwnRecords(pending)

IInv ==
  /\ TypeOK /\ Control /\ XidsInOrder /\ OwnRequests /\ OwnMessages /\ MatchedReply
----------------------------------------------------------------------------
\* Calls are counted from 1.
LEMMA CallNumbers ==
  ASSUME NEW n \in Nat, NEW c \in Calls
  PROVE  c \in Nat /\ c # 0 /\ (c <= n => c # n + 1) /\ (c <= n \/ c > n)
  BY DEF Calls

\* Calls and attempts are numbers.
LEMMA Numbers ==
  ASSUME TypeOK
  PROVE  calls \in Nat /\ attempt \in Nat
  BY DEF TypeOK

\* call() is made only while its number is one of the calls'.
LEMMA NextCall ==
  ASSUME TypeOK, calls < setting.calls
  PROVE  calls + 1 \in Calls
  <1>1. setting.calls \in 0 .. MaxCalls /\ calls \in Nat
    BY Numbers DEF TypeOK, NetTypeOK, Setting
  <1>2. QED
    BY <1>1, XidAssumption DEF Calls

\* Where the elements of what follows the first one are.
LEMMA AfterFirst ==
  ASSUME NEW S, NEW s \in Seq(S), s # <<>>
  PROVE  \A i \in 1 .. Len(Tail(s)) : i + 1 \in 1 .. Len(s) /\ Tail(s)[i] = s[i + 1]
  OBVIOUS

\* What a read takes from the front of the stream, and what it leaves.
LEMMA CutAt ==
  ASSUME NEW S, NEW s \in Seq(S), NEW n \in 1 .. Len(s)
  PROVE  LET a == SubSeq(s, 1, n)
             rest == SubSeq(s, n + 1, Len(s))
         IN  /\ a \in Seq(S) /\ Len(a) = n /\ \A i \in 1 .. n : a[i] = s[i]
             /\ rest \in Seq(S) /\ Len(rest) = Len(s) - n
             /\ \A i \in 1 .. Len(rest) : n + i \in 1 .. Len(s) /\ rest[i] = s[n + i]
             /\ Len(rest) \in Nat /\ Len(s) \in Nat
  OBVIOUS

\* No two calls have the same XID (next_xid.wrapping_add(1) in build_call), as
\* there are no more calls than XIDs.
LEMMA XidInjective ==
  ASSUME seed \in Xid, NEW c \in Calls, NEW d \in Calls, XidOf(c) = XidOf(d)
  PROVE  c = d
  BY XidAssumption, SMT DEF XidOf, Xid, Calls

\* Every call has an XID, a u32.
LEMMA XidInRange ==
  ASSUME seed \in Xid, NEW c \in Calls
  PROVE  XidOf(c) \in Xid
  BY XidAssumption, SMT DEF XidOf, Xid, Calls

\* wrapping_add goes from the XID of a call to that of the next.
LEMMA XidNext ==
  ASSUME seed \in Xid, NEW c \in Calls
  PROVE  wrapping_add(XidOf(c)) = XidOf(c + 1) /\ wrapping_add(XidOf(c)) \in Xid
  BY XidAssumption, SMT DEF XidOf, Xid, Calls, wrapping_add

\* AttemptFails leaves call() where it may be, and never makes it return Ok.
LEMMA AttemptFailsControl ==
  ASSUME TypeOK, Control, calls \in 0 .. MaxCalls,
         NEW err \in Statuses \ {"Ok"}, NEW m \in AnyMessage,
         AttemptFails(err, m)
  PROVE  Control' /\ (result'.status = "Ok" => result' = result) /\ pc' # "recv"
  <1>1. CASE attempt < MAX_ATTEMPTS /\ is_retryable(err)
    <2>1. /\ pc' = IF IsStream THEN "reconnect" ELSE "send"
          /\ attempt' = IF IsStream THEN attempt ELSE attempt + 1
          /\ result' = result
      BY <1>1 DEF AttemptFails
    <2>2. QED
      BY <1>1, <2>1, AttemptsAssumption DEF Control
  <1>2. CASE ~(attempt < MAX_ATTEMPTS /\ is_retryable(err))
    <2>1. /\ pc' = "idle" /\ attempt' = attempt
          /\ result' = [call |-> calls, status |-> err, by |-> m]
      BY <1>2 DEF AttemptFails, Return
    <2>2. result' \in [call : 0 .. MaxCalls, status : Statuses, by : AnyMessage]
      BY <2>1
    <2>3. QED
      BY <2>1, <2>2 DEF Control
  <1>3. QED
    BY <1>1, <1>2

----------------------------------------------------------------------------
(* What a step that leaves some of the state alone preserves. *)

\* A step that leaves the call counter and the XIDs alone keeps their order.
LEMMA KeepXids ==
  ASSUME XidsInOrder, UNCHANGED <<next_xid, xid, calls, seed>>, pc' # "idle" => pc # "idle"
  PROVE  XidsInOrder'
  BY DEF XidsInOrder, XidOf, Calls

\* A step that sends nothing keeps the requests on their way own.
LEMMA KeepRequests ==
  ASSUME OwnRequests, UNCHANGED <<requests, seed>>
  PROVE  OwnRequests'
  BY DEF OwnRequests, XidOf

\* A step that moves no message keeps the messages on their way own.
LEMMA KeepMessages ==
  ASSUME OwnMessages, UNCHANGED <<datagrams, inbound, partial, pending, seed, executed>>
  PROVE  OwnMessages'
  BY DEF OwnMessages, OwnHalves, OwnRecords, Own, XidOf

\* Neither does one that empties buffers make a message that is not own.
LEMMA FewerMessages ==
  ASSUME OwnMessages, UNCHANGED <<datagrams, seed, executed>>,
         inbound' = inbound \/ inbound' = <<>>,
         partial' = partial \/ partial' = <<>>,
         pending' = pending \/ pending' = <<>>
  PROVE  OwnMessages'
  <1>1. \A m \in datagrams' : Own(m)'
    BY DEF OwnMessages, Own, XidOf
  <1>2. OwnHalves(inbound)'
    <2>1. CASE inbound' = inbound
      BY <2>1 DEF OwnMessages, OwnHalves, Own, XidOf
    <2>2. CASE inbound' = <<>>
      BY <2>2 DEF OwnHalves
    <2>3. QED
      BY <2>1, <2>2
  <1>3. OwnHalves(partial)'
    <2>1. CASE partial' = partial
      BY <2>1 DEF OwnMessages, OwnHalves, Own, XidOf
    <2>2. CASE partial' = <<>>
      BY <2>2 DEF OwnHalves
    <2>3. QED
      BY <2>1, <2>2
  <1>4. OwnRecords(pending)'
    <2>1. CASE pending' = pending
      BY <2>1 DEF OwnMessages, OwnRecords, Own, XidOf
    <2>2. CASE pending' = <<>>
      BY <2>2 DEF OwnRecords
    <2>3. QED
      BY <2>1, <2>2
  <1>5. QED
    BY <1>1, <1>2, <1>3, <1>4 DEF OwnMessages

\* A step that returns nothing keeps what the last call returned matched.
LEMMA KeepMatched ==
  ASSUME MatchedReply, executed' = executed, result'.status = "Ok" => result' = result
  PROVE  MatchedReply'
  BY DEF MatchedReply

\* attempt_call with a message that is own: Ok is returned for the call itself.
LEMMA HandleOwn ==
  ASSUME IInv, pc = "recv", NEW m \in Message \union Stray, m \notin Stray => Own(m),
         Handle(m), UNCHANGED <<calls, executed, seed, xid>>
  PROVE  Control' /\ MatchedReply'
  <1>0. /\ TypeOK /\ Control /\ calls \in 0 .. MaxCalls /\ m \in AnyMessage
        /\ MatchedReply /\ calls \in Calls /\ xid = XidOf(calls) /\ seed \in Xid
    BY DEF IInv, TypeOK, AnyMessage, XidsInOrder
  <1>1. ASSUME NEW err \in {"MalformedReply", "RpcError", "Xdr"}, AttemptFails(err, m)
        PROVE  Control' /\ MatchedReply'
    <2>1. err \in Statuses \ {"Ok"}
      BY <1>1 DEF Statuses
    <2>2. Control' /\ (result'.status = "Ok" => result' = result)
      BY <1>0, <1>1, <2>1, AttemptFailsControl
    <2>3. QED
      BY <1>0, <2>2, KeepMatched
  <1>2. CASE UNCHANGED <<pc, attempt, result>>
    BY <1>0, <1>2, KeepMatched DEF Control
  <1>3. CASE ~Malformed(m) /\ Matches(m) /\ m.kind = "ok" /\ Return("Ok", m)
    <2>2. m \notin Stray => m \in Message /\ Own(m) /\ m.call \in Calls
      BY DEF Message
    <2>3. m \notin Stray => m.call = calls /\ executed[calls] > 0
      BY Zenon, <1>0, <1>3, <2>2, XidInjective DEF Own, Matches
    <2>4. /\ pc' = "idle" /\ attempt' = attempt
          /\ result' = [call |-> calls, status |-> "Ok", by |-> m]
      BY <1>3 DEF Return
    <2>5. result' \in [call : 0 .. MaxCalls, status : Statuses, by : AnyMessage]
      BY <1>0, <2>4 DEF Statuses
    <2>6. Control'
      BY <1>0, <2>4, <2>5 DEF Control
    <2>7. MatchedReply'
      BY <2>3, <2>4 DEF MatchedReply, Stray, Garbage, Xid
    <2>8. QED
      BY <2>6, <2>7
  <1>4. QED
    BY <1>1, <1>2, <1>3 DEF Handle
----------------------------------------------------------------------------
(* The steps of the caller. *)

\* set_auto_reconnect preserves the invariant.
LEMMA SetAutoReconnectStep ==
  ASSUME IInv, NEW enabled \in BOOLEAN, set_auto_reconnect(enabled)
  PROVE  IInv'
  <1>1. /\ UNCHANGED <<netVars, next_xid, partial, synced, pending, pc, attempt, xid, calls,
                       result, seed, armed>>
        /\ auto_reconnect' = enabled
    BY DEF set_auto_reconnect
  <1>2. TypeOK'
    BY <1>1 DEF IInv, TypeOK, NetTypeOK, netVars
  <1>3. Control'
    BY <1>1 DEF IInv, Control
  <1>4. XidsInOrder' /\ OwnRequests' /\ OwnMessages' /\ MatchedReply'
    BY <1>1, KeepXids, KeepRequests, KeepMessages, KeepMatched DEF IInv, netVars
  <1>5. QED
    BY <1>2, <1>3, <1>4 DEF IInv

\* A new call takes the next XID (build_call), which no earlier call has.
LEMMA CallStep ==
  ASSUME IInv, NEW outcome \in {"Ok", "Xdr", "RecordTooLarge"}, call(outcome)
  PROVE  IInv'
  <1>1. /\ TypeOK /\ Control /\ XidsInOrder /\ OwnRequests /\ OwnMessages /\ MatchedReply
        /\ seed \in Xid /\ calls \in Nat
    BY DEF IInv, TypeOK
  <1>2. calls + 1 \in Calls
    BY XidAssumption DEF IInv, call, TypeOK, NetTypeOK, Setting, Calls
  <1>3. /\ calls' = calls + 1 /\ xid' = next_xid /\ next_xid' = wrapping_add(next_xid)
        /\ armed' = [armed EXCEPT ![calls + 1] = auto_reconnect]
        /\ UNCHANGED <<netVars, auto_reconnect, partial, synced, pending, seed>>
    BY DEF call
  <1>4. UNCHANGED <<setting, conn, requests, inbound, datagrams, closed, stalled, executed>>
    BY <1>3 DEF netVars
  <1>5. next_xid = XidOf(calls + 1)
    BY <1>1 DEF XidsInOrder
  <1>6. Control' /\ (result'.status = "Ok" => result' = result)
    <2>1. CASE outcome = "Ok"
      <3>1. pc' = "send" /\ attempt' = 1 /\ result' = result
        BY <2>1 DEF call
      <3>2. QED
        BY <1>1, <3>1, AttemptsAssumption DEF Control
    <2>2. CASE outcome # "Ok"
      <3>1. /\ result' = [call |-> calls + 1, status |-> outcome, by |-> NoMessage]
            /\ pc' = pc /\ attempt' = attempt
        BY <2>2 DEF call
      <3>2. result' \in [call : 0 .. MaxCalls, status : Statuses, by : AnyMessage]
        <4>1. calls + 1 \in 0 .. MaxCalls
          BY <1>2 DEF Calls
        <4>2. outcome \in Statuses /\ NoMessage \in AnyMessage
          BY DEF Statuses, AnyMessage
        <4>3. QED
          BY <3>1, <4>1, <4>2
      <3>3. QED
        BY <1>1, <2>2, <3>1, <3>2 DEF Control
    <2>3. QED
      BY <2>1, <2>2
  <1>7. next_xid' = XidOf((calls + 1) + 1) /\ next_xid' \in Xid
    BY <1>1, <1>2, <1>3, <1>5, XidNext
  <1>8. XidsInOrder'
    BY <1>2, <1>3, <1>5, <1>7 DEF XidsInOrder, XidOf, Calls
  <1>9. TypeOK'
    <2>1. NetTypeOK'
      BY <1>1, <1>4 DEF TypeOK, NetTypeOK
    <2>2. xid' \in Xid /\ next_xid' \in Xid /\ seed' \in Xid
      BY <1>1, <1>3, <1>7 DEF TypeOK
    <2>3. armed' \in [Calls -> BOOLEAN]
      BY Zenon, <1>1, <1>3 DEF TypeOK
    <2>4. calls' \in 0 .. MaxCalls
      BY <1>2, <1>3 DEF Calls
    <2>5. QED
      BY <1>1, <1>3, <1>6, <2>1, <2>2, <2>3, <2>4 DEF TypeOK, Control
  <1>10. OwnRequests' /\ OwnMessages' /\ MatchedReply'
    BY <1>1, <1>3, <1>4, <1>6, KeepRequests, KeepMessages, KeepMatched
  <1>11. QED
    BY <1>6, <1>8, <1>9, <1>10 DEF IInv
----------------------------------------------------------------------------
(* The steps of a call: sending. *)

\* The request that send() writes is that of the current call.
LEMMA SentRequest ==
  ASSUME IInv, pc # "idle", requests' \subseteq
           requests \union {[call |-> calls, xid |-> xid, conn |-> conn]}, seed' = seed
  PROVE  requests' \subseteq Request /\ OwnRequests'
  <1>1. /\ requests \subseteq Request /\ conn \in Nat /\ xid \in Xid
        /\ calls \in Calls /\ xid = XidOf(calls)
    BY DEF IInv, TypeOK, NetTypeOK, XidsInOrder
  <1>2. [call |-> calls, xid |-> xid, conn |-> conn] \in Request
    BY <1>1 DEF Request
  <1>3. requests' \subseteq Request
    BY <1>1, <1>2
  <1>4. \A r \in requests' : r.xid = XidOf(r.call)
    BY <1>1 DEF IInv, OwnRequests
  <1>5. OwnRequests'
    BY <1>4 DEF OwnRequests, XidOf
  <1>6. QED
    BY <1>3, <1>5

\* send() preserves the invariant.
LEMMA SendStep ==
  ASSUME IInv, Send
  PROVE  IInv'
  <1>0. /\ TypeOK /\ Control /\ XidsInOrder /\ OwnRequests /\ OwnMessages /\ MatchedReply
        /\ calls \in 0 .. MaxCalls
    BY DEF IInv, TypeOK
  <1>1. /\ pc = "send" /\ pc' = "recv"
        /\ requests' \subseteq requests \union {[call |-> calls, xid |-> xid, conn |-> conn]}
        /\ UNCHANGED <<setting, conn, inbound, datagrams, closed, stalled, executed,
                       next_xid, auto_reconnect, partial, synced, pending, attempt, xid,
                       calls, result, seed, armed>>
    BY DEF Send
  <1>2. requests' \subseteq Request /\ OwnRequests'
    BY <1>1, SentRequest
  <1>3. Control'
    BY <1>0, <1>1 DEF Control
  <1>4. TypeOK'
    BY <1>0, <1>1, <1>2, <1>3 DEF TypeOK, NetTypeOK
  <1>5. XidsInOrder' /\ OwnMessages' /\ MatchedReply'
    BY <1>0, <1>1, KeepXids, KeepMessages, KeepMatched
  <1>6. QED
    BY <1>2, <1>3, <1>4, <1>5 DEF IInv

\* A failing send() preserves the invariant.
LEMMA SendFailsStep ==
  ASSUME IInv, NEW out \in BOOLEAN, SendFails(out)
  PROVE  IInv'
  <1>0. /\ TypeOK /\ Control /\ XidsInOrder /\ OwnRequests /\ OwnMessages /\ MatchedReply
        /\ calls \in 0 .. MaxCalls
    BY DEF IInv, TypeOK
  <1>1. /\ pc = "send" /\ closed' = (closed \/ IsStream) /\ AttemptFails("Io", NoMessage)
        /\ requests' \subseteq requests \union {[call |-> calls, xid |-> xid, conn |-> conn]}
        /\ UNCHANGED <<setting, conn, inbound, datagrams, stalled, executed, next_xid,
                       auto_reconnect, partial, synced, pending, xid, calls, seed, armed>>
    BY DEF SendFails
  <1>2. requests' \subseteq Request /\ OwnRequests'
    BY <1>1, SentRequest
  <1>3. Control' /\ (result'.status = "Ok" => result' = result)
    BY <1>0, <1>1, AttemptFailsControl DEF Statuses, AnyMessage
  <1>4. closed' \in BOOLEAN
    BY <1>0, <1>1 DEF TypeOK, NetTypeOK
  <1>5. TypeOK'
    BY <1>0, <1>1, <1>2, <1>3, <1>4 DEF TypeOK, NetTypeOK, Control
  <1>6. XidsInOrder' /\ OwnMessages' /\ MatchedReply'
    BY <1>0, <1>1, <1>3, KeepXids, KeepMessages, KeepMatched
  <1>7. QED
    BY <1>2, <1>3, <1>5, <1>6 DEF IInv
----------------------------------------------------------------------------
(* The steps of a call: receiving. *)

\* recv_message with a record from pending preserves the invariant.
LEMMA PopPendingStep ==
  ASSUME IInv, PopPending
  PROVE  IInv'
  <1>0. /\ TypeOK /\ Control /\ XidsInOrder /\ OwnRequests /\ OwnMessages /\ MatchedReply
        /\ calls \in 0 .. MaxCalls
    BY DEF IInv, TypeOK
  <1>1. /\ pc = "recv" /\ pending # <<>> /\ Handle(Head(pending)) /\ pending' = Tail(pending)
        /\ UNCHANGED <<netVars, next_xid, auto_reconnect, partial, synced, xid, calls,
                       seed, armed>>
    BY DEF PopPending
  <1>2. UNCHANGED <<setting, conn, requests, inbound, datagrams, closed, stalled, executed>>
    BY <1>1 DEF netVars
  <1>3. pending \in Seq(Message \union Stray)
    BY <1>0 DEF TypeOK
  <1>4. /\ Head(pending) \in Message \union Stray
        /\ Head(pending) = pending[1] /\ 1 \in 1 .. Len(pending)
        /\ pending' \in Seq(Message \union Stray)
    BY <1>1, <1>3
  <1>5. Head(pending) \notin Stray => Own(Head(pending))
    BY <1>0, <1>4 DEF OwnMessages, OwnRecords
  <1>6. Control' /\ MatchedReply'
    BY <1>1, <1>2, <1>4, <1>5, HandleOwn
  <1>7. TypeOK'
    BY ZenonT(30), <1>0, <1>1, <1>2, <1>4, <1>6 DEF TypeOK, NetTypeOK, Control
  <1>8. OwnRecords(Tail(pending))
    <2>1. \A i \in 1 .. Len(Tail(pending)) :
            i + 1 \in 1 .. Len(pending) /\ Tail(pending)[i] = pending[i + 1]
      BY Zenon, <1>1, <1>3, AfterFirst
    <2>2. QED
      BY <1>0, <2>1 DEF OwnMessages, OwnRecords
  <1>9. OwnMessages'
    BY Zenon, <1>0, <1>1, <1>2, <1>8 DEF OwnMessages, OwnHalves, OwnRecords, Own, XidOf
  <1>10. XidsInOrder' /\ OwnRequests'
    BY <1>0, <1>1, <1>2, KeepXids, KeepRequests
  <1>11. QED
    BY <1>6, <1>7, <1>9, <1>10 DEF IInv

\* recv_message with a datagram preserves the invariant.
LEMMA RecvDatagramStep ==
  ASSUME IInv, RecvDatagram
  PROVE  IInv'
  <1>0. /\ TypeOK /\ Control /\ XidsInOrder /\ OwnRequests /\ OwnMessages /\ MatchedReply
        /\ calls \in 0 .. MaxCalls
    BY DEF IInv, TypeOK
  <1>1. PICK m \in datagrams : Handle(m) /\ datagrams' \in {datagrams, datagrams \ {m}}
    BY DEF RecvDatagram
  <1>2. /\ pc = "recv"
        /\ UNCHANGED <<setting, conn, requests, inbound, closed, stalled, executed, next_xid,
                       auto_reconnect, partial, synced, pending, xid, calls, seed, armed>>
    BY DEF RecvDatagram
  <1>3. datagrams \subseteq Message
    BY <1>0 DEF TypeOK, NetTypeOK
  <1>4. m \in Message /\ Own(m)
    BY <1>0, <1>3 DEF OwnMessages
  <1>5. Control' /\ MatchedReply'
    BY <1>1, <1>2, <1>4, HandleOwn
  <1>6. datagrams' \subseteq datagrams
    BY <1>1
  <1>7. TypeOK'
    BY ZenonT(30), <1>0, <1>2, <1>3, <1>5, <1>6 DEF TypeOK, NetTypeOK, Control
  <1>8. OwnMessages'
    BY <1>0, <1>2, <1>6 DEF OwnMessages, OwnHalves, OwnRecords, Own, XidOf
  <1>9. XidsInOrder' /\ OwnRequests'
    BY <1>0, <1>2, KeepXids, KeepRequests
  <1>10. QED
    BY <1>5, <1>7, <1>8, <1>9 DEF IInv

\* A timeout in recv_message preserves the invariant.
LEMMA RecvTimeoutStep ==
  ASSUME IInv, RecvTimeout
  PROVE  IInv'
  <1>0. /\ TypeOK /\ Control /\ XidsInOrder /\ OwnRequests /\ OwnMessages /\ MatchedReply
        /\ calls \in 0 .. MaxCalls
    BY DEF IInv, TypeOK
  <1>1. /\ pc = "recv" /\ AttemptFails("Timeout", NoMessage)
        /\ UNCHANGED <<netVars, next_xid, auto_reconnect, partial, synced, pending, xid,
                       calls, seed, armed>>
    BY DEF RecvTimeout
  <1>2. UNCHANGED <<setting, conn, requests, inbound, datagrams, closed, stalled, executed>>
    BY <1>1 DEF netVars
  <1>3. Control' /\ (result'.status = "Ok" => result' = result)
    BY <1>0, <1>1, AttemptFailsControl DEF Statuses, AnyMessage
  <1>4. TypeOK'
    BY Zenon, <1>0, <1>1, <1>2, <1>3 DEF TypeOK, NetTypeOK, Control
  <1>5. XidsInOrder' /\ OwnRequests' /\ OwnMessages' /\ MatchedReply'
    BY <1>0, <1>1, <1>2, <1>3, KeepXids, KeepRequests, KeepMessages, KeepMatched
  <1>6. QED
    BY <1>3, <1>4, <1>5 DEF IInv

\* A connection that closes or fails under recv_message preserves the invariant.
LEMMA RecvFailsStep ==
  ASSUME IInv, NEW err \in {"Io", "ConnectionClosed"}, RecvFails(err)
  PROVE  IInv'
  <1>0. /\ TypeOK /\ Control /\ XidsInOrder /\ OwnRequests /\ OwnMessages /\ MatchedReply
        /\ calls \in 0 .. MaxCalls
    BY DEF IInv, TypeOK
  <1>1. /\ pc = "recv" /\ AttemptFails(err, NoMessage)
        /\ closed' \in {closed, TRUE} /\ inbound' \in {inbound, <<>>}
        /\ UNCHANGED <<setting, conn, requests, datagrams, stalled, executed, next_xid,
                       auto_reconnect, partial, synced, pending, xid, calls, seed, armed>>
    BY Zenon DEF RecvFails
  <1>2. err \in Statuses \ {"Ok"} /\ NoMessage \in AnyMessage
    BY DEF Statuses, AnyMessage
  <1>3. Control' /\ (result'.status = "Ok" => result' = result)
    BY <1>0, <1>1, <1>2, AttemptFailsControl
  <1>4. inbound' \in Seq(Half) /\ closed' \in BOOLEAN
    <2>1. inbound \in Seq(Half) /\ closed \in BOOLEAN
      BY <1>0 DEF TypeOK, NetTypeOK
    <2>2. inbound' \in Seq(Half)
      <3>1. <<>> \in Seq(Half)
        OBVIOUS
      <3>2. inbound' = inbound \/ inbound' = <<>>
        BY <1>1
      <3>3. QED
        BY Zenon, <2>1, <3>1, <3>2
    <2>3. closed' \in BOOLEAN
      BY <1>1, <2>1, Zenon
    <2>4. QED
      BY <2>2, <2>3
  <1>5. TypeOK'
    BY <1>0, <1>1, <1>3, <1>4 DEF TypeOK, NetTypeOK, Control
  <1>6. OwnMessages'
    BY <1>0, <1>1, FewerMessages
  <1>7. XidsInOrder' /\ OwnRequests' /\ MatchedReply'
    BY <1>0, <1>1, <1>3, KeepXids, KeepRequests, KeepMatched
  <1>8. QED
    BY <1>3, <1>5, <1>6, <1>7 DEF IInv

\* What the reassembler makes of own halves are own records.
LEMMA OwnReassembly ==
  ASSUME NEW s \in Seq(Half), OwnHalves(s)
  PROVE  /\ \A i \in 1 .. Len(s) \div 2 :
              /\ Record(s, i) \in Message \union Stray
              /\ Record(s, i) \notin Stray => Own(Record(s, i))
         /\ Unfinished(s) \in Seq(Half) /\ OwnHalves(Unfinished(s))
  <1>1. ASSUME NEW i \in 1 .. Len(s) \div 2
        PROVE  /\ Record(s, i) \in Message \union Stray
               /\ Record(s, i) \notin Stray => Own(Record(s, i))
    <2>1. 2 * i \in 1 .. Len(s)
      BY <1>1, SMT
    <2>2. s[2 * i] \in Half /\ Own(s[2 * i].msg)
      BY <2>1 DEF OwnHalves
    <2>3. s[2 * i].msg \in Message
      BY <2>2 DEF Half
    <2>4. Garbage \in Stray
      BY Zenon DEF Stray
    <2>5. QED
      BY <2>2, <2>3, <2>4 DEF Record
  <1>2. CASE Len(s) % 2 = 0
    <2>1. Unfinished(s) = <<>>
      BY <1>2 DEF Unfinished
    <2>2. QED
      BY <1>1, <2>1 DEF OwnHalves
  <1>3. CASE Len(s) % 2 # 0
    <2>1. Len(s) \in 1 .. Len(s)
      BY <1>3, SMT
    <2>2. s[Len(s)] \in Half /\ Own(s[Len(s)].msg)
      BY <2>1 DEF OwnHalves
    <2>3. Unfinished(s) = <<s[Len(s)]>>
      BY <1>3 DEF Unfinished
    <2>4. Unfinished(s) \in Seq(Half)
      BY <2>2, <2>3
    <2>5. OwnHalves(<<s[Len(s)]>>)
      BY <2>2 DEF OwnHalves
    <2>6. QED
      BY <1>1, <2>3, <2>4, <2>5
  <1>4. QED
    BY <1>2, <1>3

\* The first k records, as pending takes them.
LEMMA OwnPending ==
  ASSUME NEW s \in Seq(Half), OwnHalves(s), NEW k \in Nat, k <= Len(s) \div 2
  PROVE  /\ [i \in 1 .. k |-> Record(s, i)] \in Seq(Message \union Stray)
         /\ OwnRecords([i \in 1 .. k |-> Record(s, i)])
  <1>1. \A i \in 1 .. k : i \in 1 .. Len(s) \div 2
    BY SMT
  <1>2. \A i \in 1 .. k : /\ Record(s, i) \in Message \union Stray
                          /\ Record(s, i) \notin Stray => Own(Record(s, i))
    BY <1>1, OwnReassembly
  <1>3. [i \in 1 .. k |-> Record(s, i)] \in Seq(Message \union Stray)
    BY <1>2
  <1>4. Len([i \in 1 .. k |-> Record(s, i)]) = k
    BY <1>2
  <1>5. QED
    BY <1>2, <1>3, <1>4 DEF OwnRecords

\* What comes out of a reassembler that lost its place are strays.
LEMMA StrayPending ==
  ASSUME NEW k \in Nat, NEW p \in [1 .. k -> Stray]
  PROVE  p \in Seq(Message \union Stray) /\ OwnRecords(p)
  <1>1. p \in Seq(Message \union Stray) /\ Len(p) = k
    OBVIOUS
  <1>2. QED
    BY Zenon, <1>1 DEF OwnRecords

\* A read from the stream, with what the reassembler makes of it, preserves the
\* invariant.
LEMMA ReadStep ==
  ASSUME IInv, NEW n \in 1 .. Len(inbound), Read(n)
  PROVE  IInv'
  <1>0. /\ TypeOK /\ Control /\ XidsInOrder /\ OwnRequests /\ OwnMessages /\ MatchedReply
        /\ calls \in 0 .. MaxCalls
    BY DEF IInv, TypeOK
  <1> DEFINE s == partial \o SubSeq(inbound, 1, n)
             rest == SubSeq(inbound, n + 1, Len(inbound))
  <1>1. /\ inbound' = rest /\ pc = "recv"
        /\ UNCHANGED <<setting, conn, requests, datagrams, closed, stalled, executed, next_xid,
                       auto_reconnect, xid, calls, seed, armed>>
    BY DEF Read
  <1>2. /\ inbound \in Seq(Half) /\ partial \in Seq(Half)
        /\ OwnHalves(inbound) /\ OwnHalves(partial)
    BY <1>0 DEF TypeOK, NetTypeOK, OwnMessages
  <1>3. rest \in Seq(Half) /\ OwnHalves(rest)
    <2>1. rest \in Seq(Half)
      BY Zenon, <1>2, CutAt
    <2>2. \A i \in 1 .. Len(rest) : n + i \in 1 .. Len(inbound) /\ rest[i] = inbound[n + i]
      BY Zenon, <1>2, CutAt
    <2>3. QED
      BY <1>2, <2>1, <2>2 DEF OwnHalves
  <1>4. s \in Seq(Half) /\ OwnHalves(s)
    <2>1. s \in Seq(Half)
      BY <1>2
    <2>2. \A i \in 1 .. Len(s) :
            IF i <= Len(partial) THEN i \in 1 .. Len(partial) /\ s[i] = partial[i]
            ELSE i - Len(partial) \in 1 .. Len(inbound) /\ s[i] = inbound[i - Len(partial)]
      BY <1>2
    <2>3. QED
      BY Zenon, <1>2, <2>1, <2>2 DEF OwnHalves
  <1> HIDE DEF s, rest
  <1>5. /\ pending' \in Seq(Message \union Stray) /\ OwnRecords(pending')
        /\ partial' \in Seq(Half) /\ OwnHalves(partial') /\ synced' \in BOOLEAN
        /\ Control' /\ (result'.status = "Ok" => result' = result)
    <2>0. pending \in Seq(Message \union Stray) /\ OwnRecords(pending) /\ synced \in BOOLEAN
      BY <1>0 DEF TypeOK, OwnMessages
    <2>1. CASE /\ pending' = [i \in 1 .. Len(s) \div 2 |-> Record(s, i)]
               /\ partial' = Unfinished(s)
               /\ UNCHANGED <<synced, pc, attempt, result>>
      <3>1. Len(s) \div 2 \in Nat /\ Len(s) \div 2 <= Len(s) \div 2
        <4>1. Len(s) \in Nat
          BY <1>4
        <4>2. QED
          BY <4>1
      <3>2. pending' \in Seq(Message \union Stray) /\ OwnRecords(pending')
        BY <1>4, <2>1, <3>1, OwnPending
      <3>3. partial' \in Seq(Half) /\ OwnHalves(partial')
        BY <1>4, <2>1, OwnReassembly
      <3>4. QED
        BY <1>0, <2>0, <2>1, <3>2, <3>3 DEF Control
    <2>2. CASE /\ \E k \in TooLarge(s) : pending' = [i \in 1 .. k - 1 |-> Record(s, i)]
               /\ partial' = <<>> /\ synced' = FALSE
               /\ AttemptFails("RecordTooLarge", NoMessage)
      <3>1. PICK k \in TooLarge(s) : pending' = [i \in 1 .. k - 1 |-> Record(s, i)]
        BY <2>2
      <3>2. k - 1 \in Nat /\ k - 1 <= Len(s) \div 2
        BY <1>4, SMT DEF TooLarge
      <3>3. pending' \in Seq(Message \union Stray) /\ OwnRecords(pending')
        BY <1>4, <3>1, <3>2, OwnPending
      <3>4. Control' /\ (result'.status = "Ok" => result' = result)
        BY <1>0, <2>2, AttemptFailsControl DEF Statuses, AnyMessage
      <3>5. <<>> \in Seq(Half) /\ OwnHalves(<<>>)
        BY DEF OwnHalves
      <3>6. synced' \in BOOLEAN
        BY Zenon, <2>2
      <3>7. QED
        BY <2>2, <3>3, <3>4, <3>5, <3>6
    <2>3. CASE /\ \E k \in 0 .. setting.strays : pending' \in [1 .. k -> Stray]
               /\ UNCHANGED <<partial, synced, pc, attempt, result>>
      <3>1. PICK k \in 0 .. setting.strays : pending' \in [1 .. k -> Stray]
        BY <2>3
      <3>2. k \in Nat
        BY <1>0 DEF TypeOK, NetTypeOK, Setting
      <3>3. pending' \in Seq(Message \union Stray) /\ OwnRecords(pending')
        BY Zenon, <3>1, <3>2, StrayPending
      <3>4. QED
        BY <1>0, <1>2, <2>0, <2>3, <3>3 DEF Control
    <2>4. CASE /\ AttemptFails("RecordTooLarge", NoMessage)
               /\ UNCHANGED <<pending, partial, synced>>
      <3>1. Control' /\ (result'.status = "Ok" => result' = result)
        BY <1>0, <2>4, AttemptFailsControl DEF Statuses, AnyMessage
      <3>2. QED
        BY <1>2, <2>0, <2>4, <3>1
    <2>5. QED
      BY Zenon, <2>1, <2>2, <2>3, <2>4 DEF Read, s
  <1>6. TypeOK'
    BY ZenonT(30), <1>0, <1>1, <1>3, <1>5 DEF TypeOK, NetTypeOK, Control
  <1>7. OwnMessages'
    <2>1. OwnHalves(inbound') /\ OwnHalves(partial') /\ OwnRecords(pending')
      BY <1>1, <1>3, <1>5
    <2>2. \A m \in datagrams : Own(m)
      BY <1>0 DEF OwnMessages
    <2>3. QED
      BY <1>1, <2>1, <2>2 DEF OwnMessages, OwnHalves, OwnRecords, Own, XidOf
  <1>8. XidsInOrder' /\ OwnRequests' /\ MatchedReply'
    BY <1>0, <1>1, <1>5, KeepXids, KeepRequests, KeepMatched
  <1>9. QED
    BY <1>5, <1>6, <1>7, <1>8 DEF IInv
----------------------------------------------------------------------------
(* The steps of a call: connecting. *)

\* reconnect() preserves the invariant: what was half read is dropped.
LEMMA ReconnectStep ==
  ASSUME IInv, reconnect
  PROVE  IInv'
  <1>0. /\ TypeOK /\ Control /\ XidsInOrder /\ OwnRequests /\ OwnMessages /\ MatchedReply
        /\ calls \in 0 .. MaxCalls
    BY DEF IInv, TypeOK
  <1>1. /\ pc = "reconnect" /\ pc' = "send" /\ attempt' = attempt + 1
        /\ conn' = conn + 1 /\ inbound' = <<>> /\ closed' = FALSE /\ stalled' = FALSE
        /\ partial' = <<>> /\ synced' = TRUE /\ pending' = <<>>
        /\ UNCHANGED <<setting, requests, datagrams, executed, next_xid, auto_reconnect, xid,
                       calls, result, seed, armed>>
    BY DEF reconnect, FreshBuffers
  <1>2. Control'
    BY <1>0, <1>1, AttemptsAssumption DEF Control
  <1>3. TypeOK'
    <2>1. conn' \in Nat /\ inbound' \in Seq(Half) /\ partial' \in Seq(Half)
          /\ pending' \in Seq(Message \union Stray)
      BY <1>0, <1>1 DEF TypeOK, NetTypeOK
    <2>2. closed' \in BOOLEAN /\ stalled' \in BOOLEAN /\ synced' \in BOOLEAN
      BY Zenon, <1>1
    <2>3. QED
      BY <1>0, <1>1, <1>2, <2>1, <2>2 DEF TypeOK, NetTypeOK, Control
  <1>4. OwnMessages'
    BY <1>0, <1>1, FewerMessages
  <1>5. XidsInOrder' /\ OwnRequests' /\ MatchedReply'
    BY <1>0, <1>1, KeepXids, KeepRequests, KeepMatched
  <1>6. QED
    BY <1>2, <1>3, <1>4, <1>5 DEF IInv

\* A failing reconnect() preserves the invariant.
LEMMA ReconnectFailsStep ==
  ASSUME IInv, ReconnectFails
  PROVE  IInv'
  <1>0. /\ TypeOK /\ Control /\ XidsInOrder /\ OwnRequests /\ OwnMessages /\ MatchedReply
        /\ calls \in 0 .. MaxCalls
    BY DEF IInv, TypeOK
  <1>1. /\ pc' = "idle" /\ attempt' = attempt
        /\ result' = [call |-> calls, status |-> "Io", by |-> NoMessage]
        /\ UNCHANGED <<netVars, next_xid, auto_reconnect, partial, synced, pending, xid,
                       calls, seed, armed>>
    BY DEF ReconnectFails, Return
  <1>2. UNCHANGED <<setting, conn, requests, inbound, datagrams, closed, stalled, executed>>
    BY <1>1 DEF netVars
  <1>3. result' \in [call : 0 .. MaxCalls, status : Statuses, by : AnyMessage]
    BY Zenon, <1>0, <1>1 DEF Statuses, AnyMessage
  <1>4. Control' /\ result'.status # "Ok"
    BY Zenon, <1>0, <1>1, <1>3 DEF Control
  <1>5. TypeOK'
    BY Zenon, <1>0, <1>1, <1>2, <1>4 DEF TypeOK, NetTypeOK, Control
  <1>6. XidsInOrder' /\ OwnRequests' /\ OwnMessages' /\ MatchedReply'
    BY <1>0, <1>1, <1>2, <1>4, KeepXids, KeepRequests, KeepMessages, KeepMatched
  <1>7. QED
    BY <1>4, <1>5, <1>6 DEF IInv
----------------------------------------------------------------------------
(* The steps of the network. *)

\* Own stays own when calls are executed more often.
LEMMA OwnGrows ==
  ASSUME executed \in [Calls -> Nat], executed' \in [Calls -> Nat], seed' = seed,
         \A c \in Calls : executed'[c] >= executed[c],
         NEW m \in Message, Own(m)
  PROVE  m.xid = XidOf(m.call)' /\ (m.kind = "ok" => executed'[m.call] > 0)
  <1>1. m.call \in Calls
    BY DEF Message
  <1>2. executed[m.call] \in Nat /\ executed'[m.call] \in Nat
        /\ executed'[m.call] >= executed[m.call]
    BY <1>1
  <1>3. QED
    BY <1>2 DEF Own, XidOf

\* t is s, with elements of h after it.
Extends(t, s, h) ==
  \A i \in 1 .. Len(t) : \/ i \in 1 .. Len(s) /\ t[i] = s[i]
                         \/ i - Len(s) \in 1 .. Len(h) /\ t[i] = h[i - Len(s)]

\* A sequence with perhaps another after it extends it.
LEMMA Extended ==
  ASSUME NEW S, NEW s \in Seq(S), NEW h \in Seq(S), NEW t, t = s \/ t = s \o h
  PROVE  t \in Seq(S) /\ Extends(t, s, h)
  <1>1. CASE t = s
    BY <1>1 DEF Extends
  <1>2. CASE t = s \o h
    BY <1>2 DEF Extends
  <1>3. QED
    BY <1>1, <1>2

\* The message of every half in a stream of own halves is own.
LEMMA HalfIsOwn ==
  ASSUME NEW s \in Seq(Half), OwnHalves(s), NEW i \in 1 .. Len(s)
  PROVE  s[i].msg \in Message /\ Own(s[i].msg)
  <1>1. s[i] \in Half
    OBVIOUS
  <1>2. s[i].msg \in Message
    BY <1>1 DEF Half
  <1>3. QED
    BY <1>2 DEF OwnHalves

\* A sequence of two.
LEMMA Pair ==
  ASSUME NEW S, NEW a \in S, NEW b \in S
  PROVE  /\ <<a, b>> \in Seq(S) /\ Len(<<a, b>>) = 2
         /\ \A i \in 1 .. 2 : <<a, b>>[i] = a \/ <<a, b>>[i] = b
  BY SMTT(30)

\* The server answers a request with messages that are own.
LEMMA ServeStep ==
  ASSUME IInv, NEW r \in requests, NEW kind \in setting.kinds, Serve(r, kind),
         UNCHANGED clientVars
  PROVE  IInv'
  <1>0. /\ TypeOK /\ Control /\ XidsInOrder /\ OwnRequests /\ OwnMessages /\ MatchedReply
        /\ calls \in 0 .. MaxCalls
    BY Zenon DEF IInv, TypeOK
  <1> DEFINE m == [call |-> r.call, xid |-> r.xid, conn |-> r.conn, kind |-> kind]
             h == <<[msg |-> m, part |-> 1], [msg |-> m, part |-> 2]>>
  <1>1. /\ requests' \subseteq requests
        /\ executed' = IF kind \in Executing
                       THEN [executed EXCEPT ![r.call] = @ + 1] ELSE executed
        /\ inbound' = inbound \/ inbound' = inbound \o h
        /\ datagrams' \subseteq datagrams \union {m}
        /\ UNCHANGED <<setting, conn, closed, stalled>>
    BY Zenon DEF Serve
  <1>2. UNCHANGED <<next_xid, auto_reconnect, partial, synced, pending, pc, attempt, xid,
                    calls, result, seed, armed>>
    BY Zenon DEF clientVars
  <1>3. /\ requests \subseteq Request /\ datagrams \subseteq Message /\ inbound \in Seq(Half)
        /\ executed \in [Calls -> Nat] /\ partial \in Seq(Half)
        /\ pending \in Seq(Message \union Stray)
    BY Zenon, <1>0 DEF TypeOK, NetTypeOK
  <1>4. r \in Request /\ r.call \in Calls /\ r.xid = XidOf(r.call)
    BY <1>0, <1>3 DEF Request, OwnRequests
  <1>5. kind \in AllKinds
    BY Zenon, <1>0 DEF TypeOK, NetTypeOK, Setting
  <1>6. m \in Message
    BY Zenon, <1>4, <1>5 DEF Request, Message
  <1>7. /\ executed' \in [Calls -> Nat]
        /\ \A c \in Calls : executed'[c] >= executed[c]
        /\ kind = "ok" => executed'[r.call] > 0
    <2>1. /\ executed \in [Calls -> Nat] /\ r.call \in Calls
          /\ executed' = IF kind \in Executing
                         THEN [executed EXCEPT ![r.call] = @ + 1] ELSE executed
      BY ZenonT(40), <1>1, <1>3, <1>4
    <2>2. PICK k : k = r.call
      BY Zenon
    <2>3. CASE kind \in Executing
      <3>1. k \in Calls /\ executed' = [executed EXCEPT ![k] = executed[k] + 1]
        BY Zenon, <2>1, <2>2, <2>3
      <3>2. executed' \in [Calls -> Nat] /\ executed'[k] = executed[k] + 1
        BY <2>1, <3>1
      <3>3. \A c \in Calls : executed'[c] >= executed[c]
        BY <2>1, <3>1
      <3>4. executed'[k] > 0
        BY <2>1, <3>1, <3>2
      <3> QED BY Zenon, <2>2, <3>2, <3>3, <3>4
    <2>4. CASE kind \notin Executing
      <3>1. executed' = executed /\ kind # "ok"
        BY SMTT(30), <2>1, <2>4 DEF Executing
      <3> QED BY <2>1, <3>1
    <2> QED BY SMTT(30), <2>3, <2>4
  <1>8. m.xid = XidOf(m.call)' /\ (m.kind = "ok" => executed'[m.call] > 0)
    BY ZenonT(40), <1>2, <1>4, <1>7 DEF XidOf
  <1> HIDE DEF m
  <1>9. h \in Seq(Half) /\ Len(h) = 2 /\ \A i \in 1 .. 2 : h[i].msg = m
    <2>1. [msg |-> m, part |-> 1] \in Half /\ [msg |-> m, part |-> 2] \in Half
      BY Zenon, <1>6 DEF Half
    <2>2. /\ h \in Seq(Half) /\ Len(h) = 2
          /\ \A i \in 1 .. 2 : \/ h[i] = [msg |-> m, part |-> 1]
                                \/ h[i] = [msg |-> m, part |-> 2]
      BY <2>1, Pair
    <2>3. [msg |-> m, part |-> 1].msg = m /\ [msg |-> m, part |-> 2].msg = m
      OBVIOUS
    <2> HIDE DEF h
    <2>4. QED
      BY Zenon, <2>2, <2>3
  <1> HIDE DEF h
  <1>10. inbound' \in Seq(Half)
    BY Zenon, <1>1, <1>3, <1>9, Extended
  <1>11. \A i \in 1 .. Len(inbound') :
           \/ i \in 1 .. Len(inbound) /\ inbound'[i] = inbound[i]
           \/ inbound'[i].msg = m
    <2>1. Extends(inbound', inbound, h)
      BY Zenon, <1>1, <1>3, <1>9, Extended
    <2>2. QED
      BY Zenon, <1>9, <2>1 DEF Extends
  <1>12. TypeOK'
    <2>1. requests' \subseteq Request /\ datagrams' \subseteq Message
      BY <1>1, <1>3, <1>6
    <2>2. QED
      BY Zenon, <1>0, <1>1, <1>2, <1>7, <1>10, <2>1 DEF TypeOK, NetTypeOK
  <1>13. OwnMessages'
    <2>1. \A x \in Message : Own(x) =>
            x.xid = XidOf(x.call)' /\ (x.kind = "ok" => executed'[x.call] > 0)
      BY Zenon, <1>2, <1>3, <1>7, OwnGrows
    <2>2. \A x \in Message : Own(x) => (Own(x))'
      BY <2>1 DEF Own
    <2>3. (Own(m))'
      BY Zenon, <1>8 DEF Own
    <2>4. (\A x \in datagrams : Own(x))'
      BY Zenon, <1>0, <1>1, <1>3, <2>2, <2>3 DEF OwnMessages
    <2>5. OwnHalves(inbound)'
      <3>1. \A i \in 1 .. Len(inbound) : inbound[i].msg \in Message /\ Own(inbound[i].msg)
        BY Zenon, <1>0, <1>3, HalfIsOwn DEF OwnMessages
      <3>2. \A i \in 1 .. Len(inbound) : (Own(inbound[i].msg))' \/ inbound'[i] # inbound[i]
        BY <2>2, <3>1 DEF Own
      <3>3. \A i \in 1 .. Len(inbound') : Own(inbound[i].msg)'
        BY Zenon, <1>11, <2>3, <3>2 DEF Own
      <3>4. QED
        BY <3>3 DEF OwnHalves
    <2>6. OwnHalves(partial)'
      <3>1. \A i \in 1 .. Len(partial) : partial[i].msg \in Message /\ Own(partial[i].msg)
        BY Zenon, <1>0, <1>3, HalfIsOwn DEF OwnMessages
      <3>2. QED
        BY Zenon, <1>2, <2>2, <3>1 DEF OwnHalves, Own
    <2>7. OwnRecords(pending)'
      BY SMTT(30), <1>0, <1>2, <1>3, <2>2 DEF OwnMessages, OwnRecords
    <2>8. QED
      BY Zenon, <2>4, <2>5, <2>6, <2>7 DEF OwnMessages
  <1>14. OwnRequests'
    BY ZenonT(40), <1>0, <1>1, <1>2 DEF OwnRequests, XidOf
  <1>15. MatchedReply'
    <2>1. CASE result.status = "Ok" /\ result.by \notin Stray
      <3>1. result.by.call = result.call /\ executed[result.call] > 0
        BY Zenon, <1>0, <2>1 DEF MatchedReply
      <3>2. result.call \in Calls
        BY Zenon, <1>0, <2>1 DEF Control
      <3>3. executed'[result.call] > 0
        BY <1>3, <1>7, <3>1, <3>2
      <3>4. QED
        BY <1>2, <3>1, <3>3 DEF MatchedReply
    <2>2. QED
      BY Zenon, <1>2, <2>1 DEF MatchedReply
  <1>16. Control' /\ XidsInOrder'
    BY <1>0, <1>2, KeepXids DEF Control
  <1>17. QED
    BY Zenon, <1>12, <1>13, <1>14, <1>15, <1>16 DEF IInv

\* Losing requests and datagrams preserves the invariant.
LEMMA LoseStep ==
  ASSUME IInv, Lose, UNCHANGED clientVars
  PROVE  IInv'
  <1>0. /\ TypeOK /\ Control /\ XidsInOrder /\ OwnRequests /\ OwnMessages /\ MatchedReply
    BY DEF IInv
  <1>1. /\ requests' \subseteq requests /\ datagrams' \subseteq datagrams
        /\ UNCHANGED <<setting, conn, inbound, closed, stalled, executed>>
    BY DEF Lose
  <1>2. UNCHANGED <<next_xid, auto_reconnect, partial, synced, pending, pc, attempt, xid,
                    calls, result, seed, armed>>
    BY DEF clientVars
  <1>3. TypeOK'
    BY Zenon, <1>0, <1>1, <1>2 DEF TypeOK, NetTypeOK
  <1>4. OwnMessages' /\ OwnRequests'
    BY Zenon, <1>0, <1>1, <1>2 DEF OwnMessages, OwnRequests, OwnHalves, OwnRecords, Own, XidOf
  <1>5. Control' /\ XidsInOrder' /\ MatchedReply'
    BY <1>0, <1>1, <1>2, KeepXids, KeepMatched DEF Control
  <1>6. QED
    BY <1>3, <1>4, <1>5 DEF IInv

\* A server that closes the connection, or stalls, preserves the invariant.
LEMMA PeerStep ==
  ASSUME IInv, PeerClose \/ PeerStall, UNCHANGED clientVars
  PROVE  IInv'
  <1>0. /\ TypeOK /\ Control /\ XidsInOrder /\ OwnRequests /\ OwnMessages /\ MatchedReply
    BY DEF IInv
  <1>1. /\ closed' \in {closed, TRUE} /\ stalled' \in {stalled, TRUE}
        /\ UNCHANGED <<setting, conn, requests, inbound, datagrams, executed>>
    BY Zenon DEF PeerClose, PeerStall
  <1>2. UNCHANGED <<next_xid, auto_reconnect, partial, synced, pending, pc, attempt, xid,
                    calls, result, seed, armed>>
    BY Zenon DEF clientVars
  <1>3. TypeOK'
    <2>1. closed' \in BOOLEAN /\ stalled' \in BOOLEAN
      BY <1>0, <1>1, Zenon DEF TypeOK, NetTypeOK
    <2>2. QED
      BY <1>0, <1>1, <1>2, <2>1 DEF TypeOK, NetTypeOK
  <1>4. OwnMessages' /\ OwnRequests'
    BY Zenon, <1>0, <1>1, <1>2, KeepMessages, KeepRequests
  <1>5. Control' /\ XidsInOrder' /\ MatchedReply'
    BY <1>0, <1>1, <1>2, KeepXids, KeepMatched DEF Control
  <1>6. QED
    BY <1>3, <1>4, <1>5 DEF IInv
----------------------------------------------------------------------------
\* The invariant holds of a client that has just connected.
LEMMA IInvInit ==
  ASSUME Init
  PROVE  IInv
  <1>1. /\ setting \in Setting /\ conn = 1 /\ requests = {} /\ inbound = <<>>
        /\ datagrams = {} /\ closed = FALSE /\ stalled = FALSE
        /\ executed = [c \in Calls |-> 0]
    BY SettingsAssumption DEF Init, NetInit
  <1>2. /\ next_xid \in Xid /\ seed = next_xid /\ xid = next_xid
        /\ partial = <<>> /\ pending = <<>> /\ synced = TRUE
        /\ pc = "idle" /\ attempt = 0 /\ calls = 0
        /\ result = [call |-> 0, status |-> "None", by |-> NoMessage]
        /\ armed = [c \in Calls |-> FALSE] /\ auto_reconnect \in BOOLEAN
    BY Zenon DEF Init
  <1>3. Control
    <2>1. result \in [call : 0 .. MaxCalls, status : Statuses, by : AnyMessage]
      BY <1>2, XidAssumption DEF Statuses, AnyMessage
    <2>2. QED
      BY <1>2, <2>1, AttemptsAssumption DEF Control
  <1>4. TypeOK
    <2>1. NetTypeOK
      <3>1. inbound \in Seq(Half) /\ executed \in [Calls -> Nat] /\ conn \in Nat
        BY <1>1
      <3>2. /\ setting \in Setting /\ requests \subseteq Request
            /\ datagrams \subseteq Message
            /\ closed \in BOOLEAN /\ stalled \in BOOLEAN
        BY <1>1, Zenon
      <3>3. QED
        BY <3>1, <3>2 DEF NetTypeOK
    <2>2. partial \in Seq(Half) /\ pending \in Seq(Message \union Stray)
      BY <1>2
    <2>3. calls \in 0 .. MaxCalls
      BY <1>2, XidAssumption
    <2>4. synced \in BOOLEAN /\ armed \in [Calls -> BOOLEAN]
      BY Zenon, <1>2
    <2>5. QED
      BY <1>2, <1>3, <2>1, <2>2, <2>3, <2>4 DEF TypeOK, Control
  <1>5. XidsInOrder
    <2>1. seed \in Xid /\ next_xid = seed /\ calls = 0 /\ pc = "idle"
      BY Zenon, <1>2
    <2>2. next_xid = XidOf(calls + 1)
      BY <2>1, XidAssumption DEF XidOf, Xid
    <2>3. QED
      BY Zenon, <2>1, <2>2 DEF XidsInOrder
  <1>6. OwnRequests /\ OwnMessages /\ MatchedReply
    BY <1>1, <1>2, SMTT(30) DEF OwnRequests, OwnMessages, OwnHalves, OwnRecords, MatchedReply
  <1>7. QED
    BY Zenon, <1>3, <1>4, <1>5, <1>6 DEF IInv

\* The inductive invariant: initially true, and kept by every step of the
\* client, its caller and the network (client.rs).
THEOREM Inductive == Spec => []IInv
  <1>1. Init => IInv
    BY IInvInit
  <1>2. IInv /\ [Next]_vars => IInv'
    <2> SUFFICES ASSUME IInv, [Next]_vars PROVE IInv'
      OBVIOUS
    <2>1. CASE Caller
      BY <2>1, CallStep, SetAutoReconnectStep DEF Caller
    <2>2. CASE Step
      BY Zenon, <2>2, SendStep, SendFailsStep, PopPendingStep, RecvDatagramStep, ReadStep,
         RecvFailsStep, RecvTimeoutStep, ReconnectStep, ReconnectFailsStep
         DEF Step, Writing, Reading, Connecting
    <2>3. CASE Network /\ UNCHANGED clientVars
      BY <2>3, ServeStep, LoseStep, PeerStep DEF Network
    <2>4. CASE UNCHANGED vars
      <3>1. UNCHANGED <<setting, conn, requests, inbound, datagrams, closed, stalled, executed>>
            /\ UNCHANGED <<next_xid, auto_reconnect, partial, synced, pending, pc, attempt, xid,
                           calls, result, seed, armed>>
        BY Zenon, <2>4 DEF vars, netVars, clientVars
      <3>2. TypeOK' /\ Control'
        BY Zenon, <3>1 DEF IInv, TypeOK, NetTypeOK, Control
      <3>3. XidsInOrder' /\ OwnRequests' /\ OwnMessages' /\ MatchedReply'
        BY <3>1, KeepXids, KeepRequests, KeepMessages, KeepMatched DEF IInv
      <3>4. QED
        BY Zenon, <3>2, <3>3 DEF IInv
    <2>5. QED
      BY <2>1, <2>2, <2>3, <2>4 DEF Next
  <1>3. QED
    BY <1>1, <1>2, PTL DEF Spec

\* The client's fields, its locals and the network keep their types; in
\* particular no call makes more than MAX_ATTEMPTS attempts (call, client.rs).
THEOREM TypeCorrect == Spec => []TypeOK
  <1>1. IInv => TypeOK
    BY DEF IInv
  <1>2. QED
    BY <1>1, Inductive, PTL

\* Whatever the network loses, delays, duplicates and reorders, and wherever
\* the XIDs wrap: Ok is returned with the reply to the call's own request, which
\* the server has executed (attempt_call, client.rs).
THEOREM RepliesMatch == Spec => []MatchedReply
  <1>1. IInv => MatchedReply
    BY DEF IInv
  <1>2. QED
    BY <1>1, Inductive, PTL

-----------------------------------------------------------------------------
(* Sequences. *)

\* The elements of two sequences that are joined.
LEMMA Joined ==
  ASSUME NEW S, NEW a \in Seq(S), NEW b \in Seq(S)
  PROVE  /\ a \o b \in Seq(S) /\ Len(a \o b) = Len(a) + Len(b)
         /\ \A i \in 1 .. Len(a) + Len(b) :
               (a \o b)[i] = IF i <= Len(a) THEN a[i] ELSE b[i - Len(a)]
  OBVIOUS

\* Joining nothing changes nothing.
LEMMA JoinNothing ==
  ASSUME NEW S, NEW s \in Seq(S)
  PROVE  s \o <<>> = s /\ <<>> \o s = s
  OBVIOUS

\* In which order three sequences are joined does not matter.
LEMMA JoinThree ==
  \A a, b, c \in Seq(Half) : (a \o b) \o c = a \o (b \o c)
  BY SMTT(60)

-----------------------------------------------------------------------------
(* What is read belongs to the connection. *)

\* The halves of s, two by two, are of one message each.
Paired(s) == \A i \in 1 .. Len(s) : 2 * i <= Len(s) => s[2 * i - 1].msg = s[2 * i].msg

\* What the socket still holds comes from this connection; with what the
\* reassembler keeps it is whole replies, but for the last of a closed stream.
Framed ==
  IsStream =>
    /\ \A i \in 1 .. Len(inbound) : inbound[i].msg.conn = conn
    /\ synced => /\ Len(partial) <= 1
                 /\ Paired(partial \o inbound)
                 /\ closed \/ (Len(partial) + Len(inbound)) % 2 = 0

Pure == Framed /\ ConnectionPurity

\* A step that reads nothing and stays on its connection keeps what is read pure.
LEMMA KeepPure ==
  ASSUME Pure, UNCHANGED <<setting, conn, inbound, partial, synced, pending>>,
         closed' = closed \/ closed' = TRUE
  PROVE  Pure'
  <1>1. closed => closed'
    BY Zenon
  <1>2. QED
    BY Zenon, <1>1 DEF Pure, Framed, Paired, ConnectionPurity, IsStream, Transport

\* Where the elements of a concatenation are.
LEMMA Places ==
  ASSUME NEW S, NEW s \in Seq(S), NEW t \in Seq(S)
  PROVE  /\ s \o t \in Seq(S) /\ Len(s) \in Nat /\ Len(t) \in Nat
         /\ Len(s \o t) = Len(s) + Len(t)
         /\ \A i \in 1 .. Len(s) : (s \o t)[i] = s[i]
         /\ \A i \in 1 .. Len(t) : (s \o t)[Len(s) + i] = t[i]
  <1>1. /\ s \o t \in Seq(S) /\ Len(s \o t) = Len(s) + Len(t)
        /\ \A i \in 1 .. Len(s) + Len(t) :
              (s \o t)[i] = IF i <= Len(s) THEN s[i] ELSE t[i - Len(s)]
    BY Joined, Zenon
  <1>2. Len(s) \in Nat /\ Len(t) \in Nat
    OBVIOUS
  <1>3. \A i \in 1 .. Len(t) : (s \o t)[Len(s) + i] = t[i]
    <2> TAKE i \in 1 .. Len(t)
    <2>1. /\ Len(s) + i \in 1 .. Len(s) + Len(t) /\ ~ (Len(s) + i <= Len(s))
          /\ (Len(s) + i) - Len(s) = i
      BY <1>2
    <2>2. QED
      BY <1>1, <2>1
  <1>4. \A i \in 1 .. Len(s) : (s \o t)[i] = s[i]
    BY <1>1, <1>2
  <1>5. QED
    BY Zenon, <1>1, <1>2, <1>3, <1>4

\* Taking whole records off the front leaves the rest paired.
LEMMA PairedRest ==
  ASSUME NEW w \in Seq(Half), Paired(w), NEW q \in Nat, 2 * q <= Len(w),
         NEW t \in Seq(Half), Len(t) = Len(w) - 2 * q,
         \A j \in 1 .. Len(t) : t[j] = w[2 * q + j]
  PROVE  Paired(t)
  <1> SUFFICES ASSUME NEW i \in 1 .. Len(t), 2 * i <= Len(t)
               PROVE  t[2 * i - 1].msg = t[2 * i].msg
    BY DEF Paired
  <1>1. Len(w) \in Nat /\ Len(t) \in Nat
    OBVIOUS
  <1>2. /\ 2 * i - 1 \in 1 .. Len(t) /\ 2 * i \in 1 .. Len(t)
        /\ q + i \in 1 .. Len(w) /\ 2 * (q + i) <= Len(w)
        /\ 2 * q + (2 * i - 1) = 2 * (q + i) - 1 /\ 2 * q + 2 * i = 2 * (q + i)
    BY <1>1
  <1>3. t[2 * i - 1] = w[2 * (q + i) - 1] /\ t[2 * i] = w[2 * (q + i)]
    BY Zenon, <1>2
  <1>4. QED
    BY ZenonT(30), <1>2, <1>3 DEF Paired

\* t is what w has from place k on, as far as t goes.
From(t, w, k) == \A i \in 1 .. Len(t) : t[i] = w[k + i]

\* After q whole records of w there are u and rest.
LEMMA PairedAfter ==
  ASSUME NEW w \in Seq(Half), NEW rest \in Seq(Half), NEW u \in Seq(Half),
         NEW q \in Nat, Paired(w), Len(w) = 2 * q + (Len(u) + Len(rest)),
         From(u, w, 2 * q), From(rest, w, 2 * q + Len(u))
  PROVE  Paired(u \o rest)
  <1> DEFINE t == u \o rest
  <1>1. /\ t \in Seq(Half) /\ Len(u) \in Nat /\ Len(rest) \in Nat
        /\ Len(t) = Len(u) + Len(rest)
    BY Zenon, Places
  <1>2. /\ \A i \in 1 .. Len(u) : t[i] = u[i]
        /\ \A i \in 1 .. Len(rest) : t[Len(u) + i] = rest[i]
    BY Places
  <1> HIDE DEF t
  <1>3. Len(t) = Len(w) - 2 * q /\ 2 * q <= Len(w)
    BY <1>1
  <1>4. \A j \in 1 .. Len(t) : t[j] = w[2 * q + j]
    <2> TAKE j \in 1 .. Len(t)
    <2>1. CASE j \in 1 .. Len(u)
      BY Zenon, <1>2, <2>1 DEF From
    <2>2. CASE j \notin 1 .. Len(u)
      <3>1. /\ j - Len(u) \in 1 .. Len(rest) /\ j = Len(u) + (j - Len(u))
            /\ (2 * q + Len(u)) + (j - Len(u)) = 2 * q + j
        BY <1>1, <2>2
      <3>2. t[j] = rest[j - Len(u)] /\ rest[j - Len(u)] = w[2 * q + j]
        BY Zenon, <1>2, <3>1 DEF From
      <3>3. QED
        BY <3>2
    <2>3. QED
      BY <2>1, <2>2
  <1>5. Paired(t)
    BY Zenon, <1>1, <1>3, <1>4, PairedRest
  <1>6. QED
    BY Zenon, <1>5 DEF t

\* read() and the reassembler: records come off the front two halves at a time,
\* and all of them are of this connection (recv_message, client.rs).
LEMMA ReadPure ==
  ASSUME TypeOK, Pure, NEW n \in 1 .. Len(inbound), Read(n)
  PROVE  Pure'
  <1> DEFINE w == partial \o inbound
             a == SubSeq(inbound, 1, n)
             s == partial \o a
             rest == SubSeq(inbound, n + 1, Len(inbound))
  <1>1. IsStream /\ inbound' = rest /\ setting' = setting /\ conn' = conn /\ closed' = closed
    BY DEF Read
  <1>2. inbound \in Seq(Half) /\ partial \in Seq(Half)
    BY DEF TypeOK, NetTypeOK
  <1>3. /\ a \in Seq(Half) /\ Len(a) = n /\ \A i \in 1 .. n : a[i] = inbound[i]
        /\ rest \in Seq(Half) /\ Len(rest) = Len(inbound) - n
        /\ \A i \in 1 .. Len(rest) : n + i \in 1 .. Len(inbound) /\ rest[i] = inbound[n + i]
        /\ Len(rest) \in Nat /\ Len(inbound) \in Nat
    BY Zenon, <1>2, CutAt
  <1> HIDE DEF a, rest
  <1>4. /\ s \in Seq(Half) /\ Len(s) = Len(partial) + n /\ Len(partial) \in Nat
        /\ \A i \in 1 .. Len(partial) : s[i] = partial[i]
        /\ \A i \in 1 .. n : s[Len(partial) + i] = a[i]
        /\ Len(s) \in Nat
    <2>1. /\ s \in Seq(Half) /\ Len(s) = Len(partial) + Len(a) /\ Len(partial) \in Nat
          /\ \A i \in 1 .. Len(partial) : s[i] = partial[i]
          /\ \A i \in 1 .. Len(a) : s[Len(partial) + i] = a[i]
      <3>1. a \in Seq(Half)
        BY <1>3
      <3>2. QED
        BY <1>2, <3>1, Places
    <2> HIDE DEF s
    <2>2. QED
      BY <1>3, <2>1
  <1>5. /\ w \in Seq(Half) /\ Len(w) = Len(partial) + Len(inbound)
        /\ \A i \in 1 .. Len(partial) : w[i] = partial[i]
        /\ \A i \in 1 .. Len(inbound) : w[Len(partial) + i] = inbound[i]
    BY <1>2, Places
  <1> HIDE DEF w, s
  <1>6. \A i \in 1 .. Len(inbound) : inbound[i].msg.conn = conn
    BY Zenon, <1>1 DEF Pure, Framed
  <1>7. \A i \in 1 .. Len(rest) : rest[i].msg.conn = conn
    BY <1>3, <1>6
  <1>8. \A i \in 1 .. Len(s) : i \in 1 .. Len(partial) \/ i - Len(partial) \in 1 .. n
    BY <1>4
  <1>9. \A i \in 1 .. Len(s) : i \in 1 .. Len(w) /\ s[i] = w[i]
    <2> TAKE i \in 1 .. Len(s)
    <2>1. CASE i \in 1 .. Len(partial)
      BY <1>4, <1>5, <2>1
    <2>2. CASE i - Len(partial) \in 1 .. n
      <3>1. i = Len(partial) + (i - Len(partial)) /\ i - Len(partial) \in 1 .. Len(inbound)
        BY <1>4, <2>2
      <3>2. s[i] = inbound[i - Len(partial)] /\ w[i] = inbound[i - Len(partial)]
        BY <1>3, <1>4, <1>5, <2>2, <3>1
      <3>3. QED
        BY <1>4, <1>5, <3>1, <3>2
    <2>3. QED
      BY Zenon, <1>8, <2>1, <2>2
  <1>10. \A i \in 1 .. Len(rest) : rest[i] = w[Len(s) + i]
    <2> TAKE i \in 1 .. Len(rest)
    <2>1. n + i \in 1 .. Len(inbound) /\ Len(s) + i = Len(partial) + (n + i)
      BY <1>3, <1>4
    <2>2. QED
      BY ZenonT(40), <1>3, <1>5, <2>1
  <1>11. CASE ~ synced'
    BY <1>1, <1>7, <1>11 DEF Pure, Framed, ConnectionPurity, IsStream, Transport
  <1>12. CASE synced'
    <2>1. /\ synced /\ pending' = [i \in 1 .. Len(s) \div 2 |-> Record(s, i)]
          /\ partial' = Unfinished(s)
      BY ZenonT(30), <1>12 DEF Read, s, a
    <2>2. /\ Len(partial) <= 1 /\ Paired(w)
          /\ closed \/ (Len(partial) + Len(inbound)) % 2 = 0
          /\ \A i \in 1 .. Len(partial) : partial[i].msg.conn = conn
      BY <1>1, <2>1 DEF Pure, Framed, ConnectionPurity, w
    <2>3. \A i \in 1 .. Len(s) : s[i].msg.conn = conn /\ s[i].msg \in Message
      <3> TAKE i \in 1 .. Len(s)
      <3>1. CASE i \in 1 .. Len(partial)
        <4>1. s[i] = partial[i] /\ partial[i].msg.conn = conn /\ partial[i] \in Half
          BY <1>2, <1>4, <2>2, <3>1
        <4>2. QED
          BY Zenon, <4>1 DEF Half
      <3>2. CASE i - Len(partial) \in 1 .. n
        <4>1. i - Len(partial) \in 1 .. Len(inbound) /\ s[i] = inbound[i - Len(partial)]
          <5>1. i = Len(partial) + (i - Len(partial))
            BY <1>4
          <5>2. QED
            BY <1>3, <1>4, <3>2, <5>1
        <4>2. inbound[i - Len(partial)] \in Half
          BY <1>2, <4>1
        <4>3. QED
          BY Zenon, <1>6, <4>1, <4>2 DEF Half
      <3>3. QED
        BY Zenon, <1>8, <3>1, <3>2
    <2>4. ASSUME NEW i \in 1 .. Len(s) \div 2
          PROVE  Record(s, i) \notin Stray /\ Record(s, i).conn = conn
      <3>1. Len(s) \in Nat
        BY Zenon, <1>4
      <3>2. /\ 2 * i - 1 \in 1 .. Len(s) /\ 2 * i \in 1 .. Len(s)
            /\ i \in 1 .. Len(w) /\ 2 * i <= Len(w)
        <4>1. Len(w) \in Nat /\ Len(s) <= Len(w)
          BY <1>3, <1>4, <1>5
        <4>2. QED
          BY <2>4, <3>1, <4>1
      <3>3. s[2 * i - 1].msg = s[2 * i].msg
        BY Zenon, <1>9, <2>2, <3>2 DEF Paired
      <3>4. Record(s, i) = s[2 * i].msg
        BY <3>3 DEF Record
      <3>5. s[2 * i].msg \in Message /\ s[2 * i].msg.conn = conn
        BY Zenon, <2>3, <3>2
      <3>6. s[2 * i].msg \notin Stray
        <4>1. s[2 * i].msg.call # 0
          BY <3>5 DEF Message, Calls
        <4>2. \A m \in Stray : m.call = 0
          BY DEF Stray, Garbage
        <4>3. QED
          BY Zenon, <4>1, <4>2
      <3>7. QED
        BY Zenon, <3>4, <3>5, <3>6
    <2>5. \A i \in 1 .. Len(pending') : pending'[i] \notin Stray /\ pending'[i].conn = conn
      <3>1. Len(s) \div 2 \in Nat
        BY <1>4
      <3>2. Len(pending') = Len(s) \div 2
        BY <2>1, <3>1
      <3>3. QED
        BY Zenon, <2>1, <2>4, <3>2
    <2>6. ASSUME NEW q \in Nat, NEW u \in Seq(Half), partial' = u, Len(u) <= 1,
                 2 * q + Len(u) = Len(s), From(u, s, 2 * q)
          PROVE  Pure'
      <3>1. u \in Seq(Half) /\ q \in Nat /\ Len(u) \in Nat
        BY <2>6
      <3>2. Len(w) = Len(s) + Len(rest)
        BY <1>3, <1>4, <1>5
      <3>3. w \in Seq(Half) /\ rest \in Seq(Half) /\ 2 * q + Len(u) = Len(s)
        BY Zenon, <1>3, <1>5, <2>6
      <3>a. From(u, w, 2 * q)
        <4> SUFFICES ASSUME NEW i \in 1 .. Len(u) PROVE u[i] = w[2 * q + i]
          BY DEF From
        <4>1. 2 * q + i \in 1 .. Len(s)
          BY <3>1, <3>3
        <4>2. u[i] = s[2 * q + i]
          BY <2>6 DEF From
        <4>3. QED
          BY Zenon, <1>9, <4>1, <4>2
      <3>b. From(rest, w, 2 * q + Len(u)) /\ Len(w) = 2 * q + (Len(u) + Len(rest))
        <4>1. From(rest, w, Len(s))
          BY <1>10 DEF From
        <4>2. Len(rest) \in Nat
          BY <1>3
        <4>3. Len(w) = 2 * q + (Len(u) + Len(rest))
          <5>1. (2 * q + Len(u)) + Len(rest) = 2 * q + (Len(u) + Len(rest))
            BY <3>1, <4>2
          <5>2. QED
            BY Zenon, <3>2, <3>3, <5>1
        <4>4. QED
          BY Zenon, <3>3, <4>1, <4>3
      <3>4. Paired(u \o rest)
        BY <2>2, <3>1, <3>3, <3>a, <3>b, PairedAfter
      <3>5. closed' \/ (Len(partial') + Len(inbound')) % 2 = 0
        <4>1. Len(partial') + Len(inbound') = (Len(partial) + Len(inbound)) - 2 * q
          <5>1. /\ Len(inbound') = Len(inbound) - n /\ Len(partial') = Len(u)
                /\ 2 * q + Len(u) = Len(partial) + n
            BY Zenon, <1>1, <1>3, <1>4, <2>6
          <5>2. Len(partial) \in Nat /\ Len(inbound) \in Nat
            BY <1>2
          <5>3. QED
            BY <3>1, <5>1, <5>2
        <4>2. Len(partial) + Len(inbound) \in Nat
          BY <1>2
        <4>3. QED
          BY <1>1, <2>2, <2>6, <4>1, <4>2
      <3>6. Framed'
        BY Zenon, <1>1, <1>7, <2>6, <3>4, <3>5 DEF Framed, IsStream, Transport
      <3>7. \A i \in 1 .. Len(u) : u[i].msg.conn = conn
        <4> TAKE i \in 1 .. Len(u)
        <4>1. 2 * q + i \in 1 .. Len(s)
          BY <2>6, <3>1
        <4>2. u[i] = s[2 * q + i]
          BY <2>6 DEF From
        <4>3. QED
          BY Zenon, <2>3, <4>1, <4>2
      <3>8. ConnectionPurity'
        BY Zenon, <1>1, <2>5, <2>6, <3>7 DEF ConnectionPurity
      <3>9. QED
        BY <3>6, <3>8 DEF Pure
    <2>7. CASE Len(s) % 2 = 0
      <3>1. partial' = <<>> /\ <<>> \in Seq(Half) /\ Len(<<>>) = 0
        BY <2>1, <2>7 DEF Unfinished
      <3>2. PICK q \in Nat : 2 * q = Len(s)
        <4>1. Len(s) \in Nat
          BY <1>4
        <4>2. Len(s) \div 2 \in Nat /\ 2 * (Len(s) \div 2) = Len(s)
          BY <2>7, <4>1
        <4>3. QED
          BY <4>2
      <3>3. 2 * q + Len(<<>>) = Len(s) /\ From(<<>>, s, 2 * q) /\ Len(<<>>) <= 1
        BY <3>1, <3>2 DEF From
      <3>4. QED
        BY Zenon, <2>6, <3>1, <3>2, <3>3
    <2>8. CASE Len(s) % 2 # 0
      <3>1. PICK q \in Nat : 2 * q + 1 = Len(s)
        <4>1. Len(s) \in Nat
          BY <1>4
        <4>2. Len(s) \div 2 \in Nat /\ 2 * (Len(s) \div 2) + 1 = Len(s)
          BY <2>8, <4>1
        <4>3. QED
          BY <4>2
      <3>2. Len(s) \in 1 .. Len(s)
        BY <3>1
      <3> DEFINE u == <<s[Len(s)]>>
      <3>3. partial' = u /\ u \in Seq(Half) /\ Len(u) = 1 /\ u[1] = s[Len(s)]
        BY <1>4, <2>1, <2>8, <3>2 DEF Unfinished
      <3> HIDE DEF u
      <3>4. 2 * q + Len(u) = Len(s) /\ From(u, s, 2 * q) /\ Len(u) <= 1
        BY <3>1, <3>3 DEF From
      <3>5. QED
        BY Zenon, <2>6, <3>1, <3>3, <3>4
    <2>9. QED
      BY <2>7, <2>8
  <1>13. QED
    BY Zenon, <1>11, <1>12

\* A reply is put whole on the connection its request came on, while that is open.
LEMMA ServePure ==
  ASSUME TypeOK, Pure, NEW r \in requests, NEW kind \in setting.kinds, Serve(r, kind),
         UNCHANGED clientVars
  PROVE  Pure'
  <1> DEFINE m == [call |-> r.call, xid |-> r.xid, conn |-> r.conn, kind |-> kind]
             h == <<[msg |-> m, part |-> 1], [msg |-> m, part |-> 2]>>
             w == partial \o inbound
             t == partial \o (inbound \o h)
  <1>1. /\ setting' = setting /\ conn' = conn /\ closed' = closed
        /\ inbound' = IF IsStream /\ r.conn = conn /\ ~closed THEN inbound \o h ELSE inbound
    BY Zenon DEF Serve
  <1>2. partial' = partial /\ synced' = synced /\ pending' = pending
    BY DEF clientVars
  <1>3. CASE inbound' = inbound
    BY Zenon, <1>1, <1>2, <1>3, KeepPure
  <1>4. CASE IsStream /\ r.conn = conn /\ ~closed
    <2>1. inbound \in Seq(Half) /\ partial \in Seq(Half) /\ r \in Request /\ kind \in AllKinds
      BY ZenonT(30) DEF TypeOK, NetTypeOK, Setting
    <2>2. m \in Message /\ m.conn = conn
      BY <1>4, <2>1 DEF Request, Message
    <2> HIDE DEF m
    <2>3. /\ h \in Seq(Half) /\ Len(h) = 2 /\ h[1].msg = m /\ h[2].msg = m
          /\ \A i \in 1 .. Len(h) : h[i].msg.conn = conn
      <3>1. [msg |-> m, part |-> 1] \in Half /\ [msg |-> m, part |-> 2] \in Half
        BY ZenonT(30), <2>2 DEF Half
      <3>2. /\ h \in Seq(Half) /\ Len(h) = 2
            /\ h[1] = [msg |-> m, part |-> 1] /\ h[2] = [msg |-> m, part |-> 2]
        BY <3>1
      <3> HIDE DEF h
      <3>3. h[1].msg = m /\ h[2].msg = m
        BY <3>2
      <3>4. \A i \in 1 .. Len(h) : i = 1 \/ i = 2
        BY <3>2
      <3>5. QED
        BY Zenon, <2>2, <3>2, <3>3, <3>4
    <2> HIDE DEF h
    <2>4. /\ inbound \o h \in Seq(Half) /\ Len(inbound \o h) = Len(inbound) + Len(h)
          /\ Len(inbound) \in Nat
          /\ \A i \in 1 .. Len(inbound) : (inbound \o h)[i] = inbound[i]
          /\ \A i \in 1 .. Len(h) : (inbound \o h)[Len(inbound) + i] = h[i]
      <3>1. inbound \in Seq(Half) /\ h \in Seq(Half)
        BY Zenon, <2>1, <2>3
      <3>2. QED
        BY <3>1, Places
    <2>5. \A i \in 1 .. Len(inbound') : inbound'[i].msg.conn = conn
      <3>1. \A i \in 1 .. Len(inbound) : inbound[i].msg.conn = conn
        BY Zenon, <1>4 DEF Pure, Framed
      <3>2. inbound' = inbound \o h
        BY <1>1, <1>4
      <3> TAKE i \in 1 .. Len(inbound')
      <3>3. CASE i \in 1 .. Len(inbound)
        BY Zenon, <2>4, <3>1, <3>2, <3>3
      <3>4. CASE i \notin 1 .. Len(inbound)
        <4>1. i - Len(inbound) \in 1 .. Len(h) /\ i = Len(inbound) + (i - Len(inbound))
          BY <2>3, <2>4, <3>2, <3>4
        <4>2. inbound'[i] = h[i - Len(inbound)]
          BY Zenon, <2>4, <3>2, <4>1
        <4>3. QED
          BY ZenonT(30), <2>3, <4>1, <4>2
      <3>5. QED
        BY Zenon, <3>3, <3>4
    <2>6. ASSUME synced
          PROVE  /\ Len(partial) <= 1 /\ Paired(partial \o inbound')
                 /\ (Len(partial) + Len(inbound')) % 2 = 0
      <3>1. /\ Len(partial) <= 1 /\ Paired(w) /\ (Len(partial) + Len(inbound)) % 2 = 0
        BY <1>4, <2>6 DEF Pure, Framed
      <3>2. w \in Seq(Half) /\ Len(w) = Len(partial) + Len(inbound) /\ Len(partial) \in Nat
        BY Zenon, <2>1, Places
      <3>3. t = w \o h /\ inbound' = inbound \o h
        <4>1. h \in Seq(Half)
          BY Zenon, <2>3
        <4>2. t = w \o h
          <5>1. inbound \in Seq(Half) /\ partial \in Seq(Half)
            BY Zenon, <2>1
          <5>2. (partial \o inbound) \o h = partial \o (inbound \o h)
            BY ZenonT(30), <4>1, <5>1, JoinThree
          <5>3. QED
            BY Zenon, <5>2
        <4>3. QED
          BY Zenon, <1>1, <1>4, <4>2
      <3> HIDE DEF w, t
      <3>4. /\ w \o h \in Seq(Half) /\ Len(w \o h) = Len(w) + Len(h)
            /\ \A i \in 1 .. Len(w) : (w \o h)[i] = w[i]
            /\ \A i \in 1 .. Len(h) : (w \o h)[Len(w) + i] = h[i]
        <4>1. h \in Seq(Half) /\ w \in Seq(Half)
          BY <2>3, <3>2
        <4>2. QED
          BY <4>1, Places
      <3>5. PICK q \in Nat : Len(w) = 2 * q
        <4>1. Len(w) \in Nat /\ Len(w) % 2 = 0
          BY <2>4, <3>1, <3>2
        <4>2. Len(w) \div 2 \in Nat /\ Len(w) = 2 * (Len(w) \div 2)
          BY <4>1
        <4>3. QED
          BY Zenon, <4>2
      <3>6. Len(t) = 2 * (q + 1)
        BY <2>3, <3>3, <3>4, <3>5
      <3>7. Paired(t)
        <4> SUFFICES ASSUME NEW i \in 1 .. Len(t), 2 * i <= Len(t)
                     PROVE  t[2 * i - 1].msg = t[2 * i].msg
          BY DEF Paired
        <4>1. CASE i <= q
          <5>1. /\ 2 * i - 1 \in 1 .. Len(w) /\ 2 * i \in 1 .. Len(w)
                /\ i \in 1 .. Len(w) /\ 2 * i <= Len(w)
            BY <3>5, <4>1
          <5>2. t[2 * i - 1] = w[2 * i - 1] /\ t[2 * i] = w[2 * i]
            BY Zenon, <3>3, <3>4, <5>1
          <5>3. QED
            BY Zenon, <3>1, <5>1, <5>2 DEF Paired
        <4>2. CASE ~ (i <= q)
          <5>1. i = q + 1
            BY <3>6, <4>2
          <5>2. 2 * i - 1 = Len(w) + 1 /\ 2 * i = Len(w) + 2
            BY <3>5, <5>1
          <5>3. t[Len(w) + 1] = h[1] /\ t[Len(w) + 2] = h[2]
            BY <2>3, <3>3, <3>4
          <5>4. QED
            BY Zenon, <2>3, <5>2, <5>3
        <4>3. QED
          BY Zenon, <4>1, <4>2
      <3>8. Paired(partial \o inbound')
        BY Zenon, <3>3, <3>7 DEF t
      <3>9. (Len(partial) + Len(inbound')) % 2 = 0
        <4>1. Len(partial) + Len(inbound') = (Len(partial) + Len(inbound)) + 2
          <5>1. Len(inbound') = Len(inbound) + 2 /\ Len(inbound) \in Nat
            BY Zenon, <2>3, <2>4, <3>3
          <5>2. QED
            BY <3>2, <5>1
        <4>2. Len(partial) + Len(inbound) \in Nat
          BY <2>4, <3>2
        <4>3. QED
          BY <3>1, <4>1, <4>2
      <3>10. QED
        BY Zenon, <3>1, <3>8, <3>9
    <2>7. Framed'
      BY Zenon, <1>1, <1>2, <2>5, <2>6 DEF Framed
    <2>8. ConnectionPurity'
      BY <1>1, <1>2 DEF Pure, ConnectionPurity, IsStream, Transport
    <2>9. QED
      BY Zenon, <2>7, <2>8 DEF Pure
  <1>5. QED
    BY Zenon, <1>1, <1>3, <1>4

\* The other steps that touch what is read: a record is taken from pending, the
\* stream is cut, or a new one begins with empty buffers (reconnect, client.rs).
LEMMA BufferPure ==
  ASSUME TypeOK, Pure,
         \/ PopPending
         \/ \E err \in {"Io", "ConnectionClosed"} : RecvFails(err)
         \/ reconnect
  PROVE  Pure'
  <1>0. /\ inbound \in Seq(Half) /\ partial \in Seq(Half)
        /\ pending \in Seq(Message \union Stray)
    BY DEF TypeOK, NetTypeOK
  <1>1. CASE PopPending
    <2>1. /\ pending # <<>> /\ pending' = Tail(pending)
          /\ UNCHANGED <<setting, conn, inbound, partial, synced, closed>>
      BY Zenon, <1>1 DEF PopPending, netVars
    <2>2. Framed'
      BY Zenon, <2>1 DEF Pure, Framed, Paired, IsStream, Transport
    <2>3. \A i \in 1 .. Len(Tail(pending)) :
            i + 1 \in 1 .. Len(pending) /\ Tail(pending)[i] = pending[i + 1]
      BY <1>0, <2>1
    <2>4. ConnectionPurity'
      BY <2>1, <2>3 DEF Pure, ConnectionPurity, IsStream, Transport
    <2>5. QED
      BY Zenon, <2>2, <2>4 DEF Pure
  <1>2. ASSUME NEW err \in {"Io", "ConnectionClosed"}, RecvFails(err) PROVE Pure'
    <2>1. /\ (closed' = closed /\ inbound' = inbound) \/ (closed' = TRUE /\ inbound' = <<>>)
          /\ UNCHANGED <<setting, conn, partial, synced, pending>>
      BY <1>2 DEF RecvFails
    <2>2. CASE closed' = closed /\ inbound' = inbound
      BY Zenon, <2>1, <2>2, KeepPure
    <2>3. CASE closed' = TRUE /\ inbound' = <<>>
      <3>1. partial \o <<>> = partial /\ Len(partial) \in Nat
        BY <1>0, JoinNothing
      <3>2. Len(partial) <= 1 => Paired(partial)
        BY <3>1 DEF Paired
      <3>3. Framed'
        BY SMTT(30), <2>1, <2>3, <3>1, <3>2 DEF Pure, Framed, IsStream, Transport
      <3>4. ConnectionPurity'
        BY Zenon, <2>1 DEF Pure, ConnectionPurity, IsStream, Transport
      <3>5. QED
        BY Zenon, <3>3, <3>4 DEF Pure
    <2>4. QED
      BY Zenon, <2>1, <2>2, <2>3
  <1>3. CASE reconnect
    <2>1. inbound' = <<>> /\ partial' = <<>> /\ pending' = <<>>
      BY <1>3 DEF reconnect, FreshBuffers
    <2>2. <<>> \o <<>> = <<>> /\ Len(<<>>) = 0
      OBVIOUS
    <2>3. QED
      BY <2>1, <2>2 DEF Pure, Framed, Paired, ConnectionPurity
  <1>4. QED
    BY Zenon, <1>1, <1>2, <1>3

----------------------------------------------------------------------------
(* How often a call can be executed. *)

\* There are at most n elements in S: each can be given a number of its own.
AtMost(S, n) ==
  \E f \in [S -> 1 .. n] : \A x, y \in S : f[x] = f[y] => x = y

\* d of n are used up, and each element of S may still use one.
Room(S, d, n) == d \in Nat /\ d <= n /\ AtMost(S, n - d)

\* One more element needs one more number.
LEMMA AtMostAdd ==
  ASSUME NEW S, NEW n \in Nat, AtMost(S, n), NEW x
  PROVE  AtMost(S \union {x}, n + 1)
  <1>1. PICK f \in [S -> 1 .. n] : \A y, z \in S : f[y] = f[z] => y = z
    BY DEF AtMost
  <1> DEFINE g == [y \in S \union {x} |-> IF y \in S THEN f[y] ELSE n + 1]
  <1>2. g \in [S \union {x} -> 1 .. n + 1]
    BY <1>1
  <1>3. \A y, z \in S \union {x} : g[y] = g[z] => y = z
    BY <1>1
  <1>4. QED
    BY Zenon, <1>2, <1>3 DEF AtMost

\* When an element goes, its number is free: the one that has the last number
\* may take it.
LEMMA AtMostRemove ==
  ASSUME NEW S, NEW n \in Nat, AtMost(S, n), NEW x \in S
  PROVE  n >= 1 /\ AtMost(S \ {x}, n - 1)
  <1>1. PICK f \in [S -> 1 .. n] : \A y, z \in S : f[y] = f[z] => y = z
    BY DEF AtMost
  <1>2. f[x] \in 1 .. n /\ n >= 1
    BY <1>1
  <1> DEFINE g == [y \in S \ {x} |-> IF f[y] = n THEN f[x] ELSE f[y]]
  <1>3. g \in [S \ {x} -> 1 .. n - 1]
    <2> SUFFICES ASSUME NEW y \in S \ {x} PROVE (IF f[y] = n THEN f[x] ELSE f[y]) \in 1 .. n - 1
      OBVIOUS
    <2>1. f[y] \in 1 .. n /\ f[y] # f[x]
      BY <1>1
    <2>2. QED
      BY <1>2, <2>1
  <1>4. \A y, z \in S \ {x} : g[y] = g[z] => y = z
    BY <1>1
  <1>5. QED
    BY Zenon, <1>2, <1>3, <1>4 DEF AtMost

\* More numbers do no harm.
LEMMA AtMostMore ==
  ASSUME NEW S, NEW n \in Nat, NEW m \in Nat, n <= m, AtMost(S, n)
  PROVE  AtMost(S, m)
  <1>1. 1 .. n \subseteq 1 .. m
    OBVIOUS
  <1>2. QED
    BY Zenon, <1>1 DEF AtMost

\* Nothing needs no number.
LEMMA RoomForNone ==
  ASSUME NEW d \in Nat, NEW n \in Nat, d <= n
  PROVE  Room({}, d, n)
  <1>1. [x \in {} |-> 0] \in [{} -> 1 .. n - d]
    OBVIOUS
  <1>2. QED
    BY Zenon, <1>1 DEF Room, AtMost

\* What there is room for there is room for when less is used up, or more can be.
LEMMA MoreRoom ==
  ASSUME NEW S, NEW d \in Nat, NEW e \in Nat, e <= d, NEW n \in Nat, NEW m \in Nat, n <= m,
         Room(S, d, n)
  PROVE  Room(S, e, m)
  <1>1. d <= n /\ AtMost(S, n - d)
    BY DEF Room
  <1>2. n - d \in Nat /\ m - e \in Nat /\ n - d <= m - e /\ e <= m
    BY <1>1
  <1>3. AtMost(S, m - e)
    BY Zenon, <1>1, <1>2, AtMostMore
  <1>4. QED
    BY Zenon, <1>2, <1>3 DEF Room

\* One is used up of what was added.
LEMMA RoomToUse ==
  ASSUME NEW S, NEW d \in Nat, NEW n \in Nat, Room(S, d, n)
  PROVE  Room(S, d + 1, n + 1)
  <1>1. d <= n /\ AtMost(S, n - d) /\ (n + 1) - (d + 1) = n - d /\ d + 1 <= n + 1 /\ d + 1 \in Nat
    BY DEF Room
  <1>2. QED
    BY Zenon, <1>1 DEF Room

\* One is for a new element instead of being used up.
LEMMA RoomToAdd ==
  ASSUME NEW S, NEW d \in Nat, NEW n \in Nat, Room(S, d + 1, n), NEW x
  PROVE  Room(S \union {x}, d, n)
  <1>1. d + 1 <= n /\ AtMost(S, n - (d + 1))
    BY DEF Room
  <1>2. n - (d + 1) \in Nat /\ (n - (d + 1)) + 1 = n - d /\ d <= n
    BY <1>1
  <1>3. AtMost(S \union {x}, n - d)
    BY Zenon, <1>1, <1>2, AtMostAdd
  <1>4. QED
    BY Zenon, <1>2, <1>3 DEF Room

\* An element goes, and uses up its own.
LEMMA RoomFromOne ==
  ASSUME NEW S, NEW d \in Nat, NEW n \in Nat, Room(S, d, n), NEW x \in S
  PROVE  Room(S \ {x}, d + 1, n) /\ Room(S \ {x}, d, n)
  <1>1. d <= n /\ AtMost(S, n - d) /\ n - d \in Nat
    BY DEF Room
  <1>2. n - d >= 1 /\ AtMost(S \ {x}, (n - d) - 1)
    BY Zenon, <1>1, AtMostRemove
  <1>3. (n - d) - 1 = n - (d + 1) /\ d + 1 <= n /\ d + 1 \in Nat /\ d <= d + 1 /\ n <= n
    BY <1>1, <1>2
  <1>4. Room(S \ {x}, d + 1, n)
    BY Zenon, <1>2, <1>3 DEF Room
  <1>5. QED
    BY Zenon, <1>3, <1>4, MoreRoom

\* The attempts that a call may make on a stream.
Limit(c) == IF armed[c] THEN MAX_ATTEMPTS ELSE 1

\* Executions of call c that there have been or can still be: one for each of its
\* requests on the way, and for one of which half was written.
Held(c) == {r \in requests : r.call = c}
Halved(c) == IF unsent.call = c THEN 1 ELSE 0
Done(c) == executed[c] + Halved(c)
Within(c, n) == Room(Held(c), Done(c), n)

\* At most one for each attempt, and none for the attempt that is yet to write.
Allowed(c) ==
  IF c > calls THEN 0
  ELSE IF c < calls \/ pc = "idle" THEN Limit(c)
  ELSE IF pc = "send" THEN attempt - 1 ELSE attempt

Bounded ==
  IsStream =>
    /\ \A c \in Calls : Within(c, Allowed(c))
    /\ pc # "idle" => attempt \in 1 .. Limit(calls) /\ auto_reconnect = armed[calls]
    /\ pc = "reconnect" => attempt < Limit(calls)
    /\ ~Sync => auto_reconnect

\* The numbers that are compared are natural ones.
LEMMA SentType ==
  ASSUME TypeOK, NEW c \in Calls
  PROVE  /\ executed[c] \in Nat /\ Halved(c) \in {0, 1} /\ Done(c) \in Nat
         /\ Limit(c) \in Nat /\ Limit(c) >= 1 /\ Limit(c) <= MAX_ATTEMPTS
  <1>1. executed[c] \in Nat
    BY DEF TypeOK, NetTypeOK
  <1>2. Halved(c) \in {0, 1}
    BY DEF Halved
  <1>3. Limit(c) \in Nat /\ Limit(c) >= 1 /\ Limit(c) <= MAX_ATTEMPTS
    BY AttemptsAssumption DEF Limit
  <1>4. QED
    BY <1>1, <1>2, <1>3 DEF Done

\* So are the attempts that it is compared with.
LEMMA AllowedType ==
  ASSUME TypeOK, pc # "idle" => attempt \in 1 .. Limit(calls), NEW c \in Calls
  PROVE  Allowed(c) \in Nat /\ Allowed(c) <= Limit(c)
  <1>1. calls \in Nat /\ attempt \in Nat /\ c \in Nat /\ Limit(c) \in Nat
    BY SentType DEF TypeOK, Calls
  <1>2. CASE c = calls /\ pc # "idle"
    BY <1>1, <1>2 DEF Allowed
  <1>3. CASE c # calls \/ pc = "idle"
    BY <1>1, <1>3 DEF Allowed
  <1>4. QED
    BY Zenon, <1>2, <1>3

\* What a step of a call, or of the network, may do: go on with its attempt, end
\* it, or write the request of the attempt.
Moves ==
  /\ attempt' = attempt
  /\ \/ pc' = pc
     \/ pc # "idle" /\ pc' = "idle"
     \/ /\ pc \in {"send", "recv"} /\ pc' = "reconnect"
        /\ attempt < MAX_ATTEMPTS /\ auto_reconnect
     \/ pc = "send" /\ pc' = "recv"

\* Only a step that ends the writing adds a request of the call, and only one.
Writes(c) == pc = "send" /\ pc' # "send" /\ c = calls
SendsAtMostOne ==
  \A c \in Calls, n \in Nat :
    Within(c, n) => IF Writes(c) THEN Within(c, n + 1)' ELSE Within(c, n)'

\* Such a step keeps the count of what was sent within the attempts.
LEMMA MovesBounded ==
  ASSUME IInv, Bounded, IsStream, UNCHANGED <<setting, calls, armed, auto_reconnect>>,
         Moves, SendsAtMostOne
  PROVE  Bounded'
  <1>1. /\ \A c \in Calls : Within(c, Allowed(c))
        /\ pc # "idle" => attempt \in 1 .. Limit(calls) /\ auto_reconnect = armed[calls]
        /\ pc = "reconnect" => attempt < Limit(calls)
        /\ ~Sync => auto_reconnect
    BY Zenon DEF Bounded
  <1>2. /\ TypeOK /\ calls \in Nat /\ attempt \in Nat
        /\ pc # "idle" => calls \in Calls
    BY Zenon, Numbers DEF IInv, XidsInOrder
  <1>3. \A c \in Calls : Limit(c)' = Limit(c) /\ Limit(c) \in Nat /\ Limit(c) >= 1
    BY <1>2, SentType DEF Limit
  <1>4. ASSUME NEW c \in Calls PROVE Within(c, Allowed(c))'
    <2>1. /\ c \in Nat /\ Limit(c) \in Nat /\ Limit(c)' = Limit(c)
          /\ Allowed(c) \in Nat /\ Allowed(c) <= Limit(c)
      BY <1>1, <1>2, <1>3, AllowedType DEF Calls
    <2>2. CASE Writes(c)
      <3>0. attempt \in 1 .. Limit(calls)
        BY Zenon, <1>1, <2>2 DEF Writes
      <3>1. Allowed(c)' \in Nat /\ Allowed(c) + 1 <= Allowed(c)' /\ Allowed(c) + 1 \in Nat
        BY <1>2, <2>1, <2>2, <3>0 DEF Allowed, Moves, Writes
      <3>2. Room(Held(c)', Done(c)', Allowed(c) + 1)
        BY <1>1, <2>1, <2>2 DEF SendsAtMostOne, Within
      <3>3. Done(c)' \in Nat /\ Done(c)' <= Done(c)'
        BY <3>2 DEF Room
      <3>4. QED
        BY ZenonT(30), <3>1, <3>2, <3>3, MoreRoom DEF Within
    <2>3. CASE ~Writes(c)
      <3>1. Allowed(c)' \in Nat /\ Allowed(c) <= Allowed(c)'
        <4>1. CASE c # calls
          <5>1. c < calls \/ c > calls
            BY <1>2, <2>1, <4>1
          <5>2. Allowed(c)' = Allowed(c)
            BY ZenonT(30), <1>2, <2>1, <4>1, <5>1 DEF Allowed
          <5>3. QED
            BY <2>1, <5>2
        <4>2. CASE c = calls /\ pc # "idle"
          <5>1. attempt \in 1 .. Limit(calls)
            BY Zenon, <1>1, <4>2
          <5>2. QED
            BY <1>2, <2>1, <2>3, <4>2, <5>1 DEF Allowed, Moves, Writes
        <4>3. CASE c = calls /\ pc = "idle"
          BY <1>2, <2>1, <4>3 DEF Allowed, Moves
        <4>4. QED
          BY Zenon, <4>1, <4>2, <4>3
      <3>2. Room(Held(c)', Done(c)', Allowed(c))
        BY <1>1, <2>1, <2>3 DEF SendsAtMostOne, Within
      <3>3. Done(c)' \in Nat /\ Done(c)' <= Done(c)'
        BY <3>2 DEF Room
      <3>4. QED
        BY Zenon, <2>1, <3>1, <3>2, <3>3, MoreRoom DEF Within
    <2>4. QED
      BY Zenon, <2>2, <2>3
  <1>5. pc' # "idle" => attempt' \in 1 .. Limit(calls)' /\ auto_reconnect' = armed'[calls']
    BY Zenon, <1>1, <1>2, <1>3 DEF Moves
  <1>6. pc' = "reconnect" => attempt' < Limit(calls)'
    <2>1. CASE pc' = pc
      BY Zenon, <1>1, <1>2, <1>3, <2>1 DEF Moves
    <2>2. CASE pc' = "reconnect" /\ pc' # pc
      <3>1. pc # "idle" /\ attempt' < MAX_ATTEMPTS /\ auto_reconnect
        BY <2>2 DEF Moves
      <3>2. Limit(calls)' = MAX_ATTEMPTS
        BY Zenon, <1>1, <3>1 DEF Limit
      <3>3. QED
        BY Zenon, <3>1, <3>2
    <2>3. QED
      BY Zenon, <2>1, <2>2
  <1>7. QED
    BY Zenon, <1>1, <1>4, <1>5, <1>6 DEF Bounded, IsStream, Transport, Sync

\* A step that neither sends nor executes.
LEMMA SentSame ==
  ASSUME IInv, UNCHANGED <<requests, executed, unsent>>
  PROVE  SendsAtMostOne
  <1> SUFFICES ASSUME NEW c \in Calls, NEW n \in Nat, Within(c, n)
               PROVE  Within(c, n)' /\ Within(c, n + 1)'
    BY Zenon DEF SendsAtMostOne
  <1>1. Held(c)' = Held(c) /\ Done(c)' = Done(c) /\ Done(c) \in Nat
    BY ZenonT(30), SentType DEF Held, Halved, Done, IInv
  <1>2. Room(Held(c), Done(c), n) /\ Room(Held(c), Done(c), n + 1)
    BY <1>1, MoreRoom DEF Within
  <1>3. QED
    BY Zenon, <1>1, <1>2 DEF Within

\* A step that sends the request of the call.
LEMMA SentOne ==
  ASSUME IInv, pc = "send", pc' # "send",
         requests' = requests \/ requests' = requests \union {ThisRequest},
         UNCHANGED <<executed, unsent>>
  PROVE  SendsAtMostOne
  <1>1. ThisRequest.call = calls
    BY DEF ThisRequest
  <1> SUFFICES ASSUME NEW c \in Calls, NEW n \in Nat, Within(c, n)
               PROVE  (c = calls => Within(c, n + 1)') /\ (c # calls => Within(c, n)')
    BY ZenonT(30) DEF SendsAtMostOne, Writes
  <1>2. Done(c)' = Done(c) /\ Done(c) \in Nat /\ n + 1 \in Nat /\ n <= n + 1
    BY SentType DEF Halved, Done, IInv
  <1>3. Room(Held(c), Done(c), n)
    BY Zenon DEF Within
  <1>4. CASE Held(c)' = Held(c)
    <2>1. Room(Held(c), Done(c), n + 1)
      BY <1>2, <1>3, MoreRoom
    <2>2. QED
      BY Zenon, <1>2, <1>3, <1>4, <2>1 DEF Within
  <1>5. CASE c = calls /\ Held(c)' = Held(c) \union {ThisRequest}
    <2>1. Room(Held(c), Done(c) + 1, n + 1)
      BY Zenon, <1>2, <1>3, RoomToUse
    <2>2. Room(Held(c) \union {ThisRequest}, Done(c), n + 1)
      BY Zenon, <1>2, <2>1, RoomToAdd
    <2>3. QED
      BY Zenon, <1>2, <1>5, <2>2 DEF Within
  <1>6. QED
    BY Zenon, <1>1, <1>4, <1>5 DEF Held

\* A write that is cut may leave half of the request.
LEMMA SentHalf ==
  ASSUME IInv, pc = "send", pc' # "send",
         unsent' = unsent \/ unsent' = ThisRequest, UNCHANGED <<requests, executed>>
  PROVE  SendsAtMostOne
  <1>1. ThisRequest.call = calls
    BY DEF ThisRequest
  <1> SUFFICES ASSUME NEW c \in Calls, NEW n \in Nat, Within(c, n)
               PROVE  (c = calls => Within(c, n + 1)') /\ (c # calls => Within(c, n)')
    BY Zenon DEF SendsAtMostOne, Writes
  <1>2. /\ Done(c) \in Nat /\ n + 1 \in Nat /\ n <= n + 1 /\ n <= n
        /\ Done(c)' \in Nat /\ Done(c)' <= Done(c) + 1 /\ (c # calls => Done(c)' <= Done(c))
    <2>1. executed'[c] = executed[c] /\ executed[c] \in Nat /\ Halved(c) \in {0, 1}
      BY SentType DEF IInv
    <2>2. Halved(c)' \in {0, 1} /\ (c # calls => Halved(c)' <= Halved(c))
      BY <1>1 DEF Halved
    <2>3. QED
      BY <2>1, <2>2 DEF Done
  <1>3. Room(Held(c), Done(c), n) /\ Held(c)' = Held(c)
    BY DEF Within, Held
  <1>4. CASE c # calls
    BY Zenon, <1>2, <1>3, <1>4, MoreRoom DEF Within
  <1>5. CASE c = calls
    <2>1. Room(Held(c), Done(c) + 1, n + 1)
      BY Zenon, <1>2, <1>3, RoomToUse
    <2>2. Done(c) + 1 \in Nat /\ n + 1 <= n + 1
      BY <1>2
    <2>3. Room(Held(c), Done(c)', n + 1)
      BY Zenon, <1>2, <2>1, <2>2, MoreRoom
    <2>4. QED
      BY Zenon, <1>3, <1>5, <2>3 DEF Within
  <1>6. QED
    BY Zenon, <1>4, <1>5

\* The half that was written is completed: the request is on its way instead.
LEMMA SentRest ==
  ASSUME IInv, unsent' = NoMessage,
         requests' = requests \/ requests' = requests \union {unsent}, executed' = executed
  PROVE  SendsAtMostOne
  <1> SUFFICES ASSUME NEW c \in Calls, NEW n \in Nat, Within(c, n)
               PROVE  Within(c, n)' /\ Within(c, n + 1)'
    BY Zenon DEF SendsAtMostOne
  <1>1. /\ executed'[c] = executed[c] /\ executed[c] \in Nat /\ Halved(c) \in {0, 1}
        /\ Halved(c)' = 0
    BY SentType DEF IInv, Halved, NoMessage, Calls
  <1>2. /\ Done(c)' = executed[c] /\ Done(c) \in Nat /\ executed[c] <= Done(c)
        /\ n + 1 \in Nat /\ n <= n + 1 /\ n <= n /\ executed[c] <= executed[c]
    BY <1>1 DEF Done
  <1>3. Room(Held(c), Done(c), n)
    BY Zenon DEF Within
  <1>4. Room(Held(c)', executed[c], n)
    <2>1. CASE Held(c)' = Held(c)
      BY ZenonT(30), <1>1, <1>2, <1>3, <2>1, MoreRoom
    <2>2. CASE Halved(c) = 1 /\ Held(c)' = Held(c) \union {unsent}
      <3>1. Done(c) = executed[c] + 1
        BY <2>2 DEF Done
      <3>2. Room(Held(c), executed[c] + 1, n)
        BY Zenon, <1>3, <3>1
      <3>3. Room(Held(c) \union {unsent}, executed[c], n)
        BY Zenon, <1>1, <3>2, RoomToAdd
      <3>4. QED
        BY Zenon, <2>2, <3>3
    <2>3. QED
      BY <2>1, <2>2 DEF Held, Halved
  <1>5. Room(Held(c)', executed[c], n + 1)
    BY Zenon, <1>1, <1>2, <1>4, MoreRoom
  <1>6. QED
    BY Zenon, <1>2, <1>4, <1>5 DEF Within

\* The server executes a request, and no longer holds it.
LEMMA SentServed ==
  ASSUME IInv, IsStream, NEW r \in requests, NEW kind, Serve(r, kind), unsent' = unsent
  PROVE  SendsAtMostOne
  <1>1. /\ requests' = requests \ {r} /\ executed \in [Calls -> Nat] /\ r.call \in Calls
        /\ executed' = IF kind \in Executing
                       THEN [executed EXCEPT ![r.call] = @ + 1] ELSE executed
    BY Zenon DEF Serve, IInv, TypeOK, NetTypeOK, Request
  <1> SUFFICES ASSUME NEW c \in Calls, NEW n \in Nat, Within(c, n)
               PROVE  Within(c, n)' /\ Within(c, n + 1)'
    BY Zenon DEF SendsAtMostOne
  <1>2. Done(c) \in Nat /\ executed[c] \in Nat /\ Halved(c) \in {0, 1} /\ Halved(c)' = Halved(c)
    BY SentType DEF IInv, Halved
  <1>3. Room(Held(c), Done(c), n)
    BY Zenon DEF Within
  <1>4. Room(Held(c)', Done(c)', n)
    <2>1. CASE c # r.call
      <3>1. Held(c)' = Held(c) /\ executed'[c] = executed[c]
        BY Zenon, <1>1, <2>1 DEF Held
      <3>2. QED
        BY Zenon, <1>2, <1>3, <3>1 DEF Done
    <2>2. CASE c = r.call
      <3>1. Held(c)' = Held(c) \ {r} /\ r \in Held(c)
        BY Zenon, <1>1, <2>2 DEF Held
      <3>2. executed'[c] = executed[c] \/ executed'[c] = executed[c] + 1
        BY ZenonT(30), <1>1, <2>2
      <3>3. Done(c)' = Done(c) \/ Done(c)' = Done(c) + 1
        BY <1>2, <3>2 DEF Done
      <3>4. Room(Held(c) \ {r}, Done(c) + 1, n) /\ Room(Held(c) \ {r}, Done(c), n)
        BY Zenon, <1>2, <1>3, <3>1, RoomFromOne
      <3>5. QED
        BY Zenon, <3>1, <3>3, <3>4
    <2>3. QED
      BY Zenon, <2>1, <2>2
  <1>5. Done(c)' \in Nat /\ Done(c)' <= Done(c)' /\ n + 1 \in Nat /\ n <= n + 1
    BY <1>4 DEF Room
  <1>6. Room(Held(c)', Done(c)', n + 1)
    BY Zenon, <1>4, <1>5, MoreRoom
  <1>7. QED
    BY Zenon, <1>4, <1>6 DEF Within

\* An attempt on a stream that fails is followed by another only on a new
\* connection, and only if that may be opened (the loop in call, client.rs).
LEMMA FailsMoves ==
  ASSUME IsStream, pc \in {"send", "recv"}, NEW err, NEW m, AttemptFails(err, m)
  PROVE  Moves /\ pc' # "send"
  BY Zenon DEF AttemptFails, is_retryable, Return, Moves, IsStream

\* The loop of the asynchronous client, whose auto_reconnect is always set.
LEMMA EndsMoves ==
  ASSUME IsStream, pc \in {"send", "recv"}, auto_reconnect, NEW err, AttemptEnds(err)
  PROVE  Moves /\ pc' # "send"
  BY DEF AttemptEnds, Return, Moves

\* attempt_call with a message goes on reading, or ends the attempt.
LEMMA HandleMoves ==
  ASSUME IsStream, pc = "recv", NEW m, Handle(m)
  PROVE  Moves
  <1>1. CASE UNCHANGED <<pc, attempt, result>>
    BY <1>1 DEF Moves
  <1>2. CASE Return("Ok", m)
    BY Zenon, <1>2 DEF Return, Moves
  <1>3. QED
    BY Zenon, <1>1, <1>2, FailsMoves DEF Handle

----------------------------------------------------------------------------
(* What a cut write leaves behind. *)

\* A request that was cut, and one completed by other bytes, is of a call that is
\* over and did not return Ok: its next attempt would have been on a new socket.
CutCallOver ==
  /\ unsent.call \in 0 .. calls /\ \A r \in spliced : r.call \in 0 .. calls
  /\ pc \in {"send", "recv"} => unsent.call # calls
  /\ pc # "idle" => \A r \in spliced : r.call # calls
  /\ outbound = "half" => unsent \in Request /\ unsent.xid = XidOf(unsent.call)
  /\ Sync => unsent = NoMessage
  /\ result.status = "Ok" => /\ result.call \in 0 .. calls /\ result.call # unsent.call
                             /\ pc # "idle" => result.call # calls
                             /\ \A r \in spliced : r.call # result.call

AInv == IInv /\ Pure /\ Bounded /\ CutCallOver

\* A step that cuts nothing and returns no Ok.
LEMMA KeepOver ==
  ASSUME CutCallOver, UNCHANGED <<setting, outbound, unsent, spliced, calls, seed>>,
         result'.status = "Ok" => result' = result,
         pc' # "idle" => pc # "idle", pc' \in {"send", "recv"} => pc \in {"send", "recv"}
  PROVE  CutCallOver'
  <1>1. XidOf(unsent.call)' = XidOf(unsent.call) /\ Sync' = Sync
    BY DEF XidOf, Sync
  <1>2. (unsent \in Request)' = (unsent \in Request)
    BY DEF Request, Calls, Xid
  <1>3. QED
    BY Zenon, <1>1, <1>2 DEF CutCallOver

\* attempt_call: the call that returns Ok was not cut.
LEMMA HandleOver ==
  ASSUME CutCallOver, IInv, pc = "recv", NEW m, Handle(m),
         UNCHANGED <<setting, outbound, unsent, spliced, calls, seed>>
  PROVE  CutCallOver'
  <1>0. calls \in Nat
    BY ZenonT(30), Numbers DEF IInv
  <1>1. CASE Return("Ok", m)
    <2>1. pc' = "idle" /\ result' = [call |-> calls, status |-> "Ok", by |-> m]
      BY <1>1 DEF Return
    <2>2. XidOf(unsent.call)' = XidOf(unsent.call) /\ Sync' = Sync
      BY Zenon DEF XidOf, Sync
    <2>3. result'.call = calls /\ unsent.call # calls /\ \A r \in spliced : r.call # calls
      BY <2>1 DEF CutCallOver
    <2>4. QED
      BY <1>0, <2>1, <2>2, <2>3 DEF CutCallOver, Request, Calls, Xid
  <1>2. ASSUME NEW err \in {"MalformedReply", "RpcError", "Xdr"}, AttemptFails(err, m)
        PROVE  CutCallOver'
    <2>1. result'.status = "Ok" => result' = result
      BY <1>2 DEF AttemptFails, Return
    <2>2. QED
      BY Zenon, <2>1, KeepOver
  <1>3. CASE UNCHANGED <<pc, attempt, result>>
    BY ZenonT(30), <1>3, KeepOver
  <1>4. QED
    BY Zenon, <1>1, <1>2, <1>3 DEF Handle

\* Over UDP there is no connection, and no bound: a datagram may be repeated.
LEMMA NotStream ==
  ASSUME ~IsStream, setting' = setting
  PROVE  Pure' /\ Bounded'
  BY DEF Pure, Framed, ConnectionPurity, Bounded, IsStream, Transport

\* A step that sends nothing and executes nothing.
LEMMA QuietBounded ==
  ASSUME IInv, Bounded, IsStream => Moves,
         UNCHANGED <<setting, calls, armed, auto_reconnect, requests, executed, unsent>>
  PROVE  Bounded'
  <1>1. CASE ~IsStream
    BY <1>1, NotStream
  <1>2. CASE IsStream
    <2>1. SendsAtMostOne
      BY Zenon, SentSame
    <2>2. QED
      BY Zenon, <1>2, <2>1, MovesBounded
  <1>3. QED
    BY Zenon, <1>1, <1>2

\* A call begins: nothing of it has been sent, and no call before has its number.
LEMMA CallRest ==
  ASSUME AInv, NEW outcome \in {"Ok", "Xdr", "RecordTooLarge"}, call(outcome),
         UNCHANGED writeVars
  PROVE  Pure' /\ Bounded' /\ CutCallOver'
  <1>0. IInv /\ Pure /\ Bounded /\ CutCallOver /\ calls \in Nat /\ TypeOK
    BY Zenon, Numbers DEF AInv, IInv
  <1>1. /\ pc = "idle" /\ calls' = calls + 1
        /\ armed' = [armed EXCEPT ![calls + 1] = auto_reconnect]
        /\ UNCHANGED <<setting, conn, requests, inbound, closed, executed, auto_reconnect,
                       partial, synced, pending, seed>>
        /\ UNCHANGED <<outbound, unsent, spliced>>
    BY ZenonT(30) DEF call, netVars, writeVars
  <1>2. \/ pc' = "send" /\ attempt' = 1 /\ result' = result
        \/ pc' = "idle" /\ result'.status # "Ok"
    BY <1>1 DEF call
  <1>3. Pure'
    BY ZenonT(30), <1>0, <1>1, KeepPure
  <1>4. CutCallOver'
    <2>1. XidOf(unsent.call)' = XidOf(unsent.call) /\ Sync' = Sync
      BY Zenon, <1>1 DEF XidOf, Sync
    <2>2. (unsent \in Request)' = (unsent \in Request)
      BY <1>1 DEF Request, Calls, Xid
    <2>3. QED
      BY SMTT(30), <1>0, <1>1, <1>2, <2>1, <2>2 DEF CutCallOver
  <1>5. CASE ~IsStream
    BY Zenon, <1>1, <1>3, <1>4, <1>5, NotStream
  <1>6. CASE IsStream
    <2>1. /\ \A c \in Calls : Within(c, Allowed(c))
          /\ ~Sync => auto_reconnect
      BY Zenon, <1>0, <1>6 DEF Bounded
    <2>2. calls + 1 \in Calls
      BY Zenon, <1>0, NextCall DEF call
    <2>3. ASSUME NEW c \in Calls
          PROVE  Held(c)' = Held(c) /\ Done(c)' = Done(c) /\ Done(c) \in Nat /\ c \in Nat
      BY Zenon, <1>0, <1>1, SentType, CallNumbers DEF Done, Held, Halved
    <2>4. ASSUME NEW c \in Calls, c <= calls PROVE Limit(c)' = Limit(c)
      <3>1. c # calls + 1 /\ armed \in [Calls -> BOOLEAN]
        BY Zenon, <1>0, <2>4, CallNumbers DEF TypeOK
      <3>2. QED
        BY Zenon, <1>1, <3>1 DEF Limit
    <2>5. armed'[calls'] = auto_reconnect' /\ Limit(calls)' \in Nat /\ Limit(calls)' >= 1
      BY <1>0, <1>1, <2>2, AttemptsAssumption DEF Limit, TypeOK
    <2>6. ASSUME NEW c \in Calls PROVE Within(c, Allowed(c))'
      <3>1. /\ Held(c)' = Held(c) /\ Done(c)' = Done(c) /\ Done(c) \in Nat /\ c \in Nat
            /\ Room(Held(c), Done(c), Allowed(c))
        BY Zenon, <2>1, <2>3 DEF Within
      <3>2. CASE c <= calls
        <4>1. Allowed(c) = Limit(c) /\ Allowed(c)' = Limit(c)'
          BY <1>0, <1>1, <3>1, <3>2 DEF Allowed
        <4>2. QED
          BY Zenon, <2>4, <3>1, <3>2, <4>1 DEF Within
      <3>3. CASE c > calls
        <4>0. \A d \in Nat : 0 \in Nat /\ d <= d
          OBVIOUS
        <4>1. Allowed(c) = 0 /\ 0 \in Nat /\ Done(c) <= Done(c)
          BY ZenonT(30), <3>1, <3>3, <4>0 DEF Allowed
        <4>2. Allowed(c)' \in Nat /\ 0 <= Allowed(c)'
          BY SMTT(30), <1>0, <1>1, <1>2, <2>5, <3>1, <3>3 DEF Allowed
        <4>3. Room(Held(c), Done(c), Allowed(c)')
          BY Zenon, <3>1, <4>1, <4>2, MoreRoom
        <4>4. QED
          BY Zenon, <3>1, <4>3 DEF Within
      <3>4. QED
        BY Zenon, <1>0, <3>2, <3>3, CallNumbers
    <2>7. pc' # "idle" => attempt' \in 1 .. Limit(calls)' /\ auto_reconnect' = armed'[calls']
      BY <1>2, <2>5
    <2>8. Bounded'
      BY Zenon, <1>1, <1>2, <2>1, <2>6, <2>7 DEF Bounded, Sync
    <2>9. QED
      BY Zenon, <1>3, <1>4, <2>8
  <1>7. QED
    BY Zenon, <1>5, <1>6

\* set_auto_reconnect, which only the synchronous client has, is for later calls.
LEMMA SetRest ==
  ASSUME AInv, Sync, NEW enabled \in BOOLEAN, set_auto_reconnect(enabled), UNCHANGED writeVars
  PROVE  Pure' /\ Bounded' /\ CutCallOver'
  <1>0. IInv /\ Pure /\ Bounded /\ CutCallOver
    BY Zenon DEF AInv
  <1>1. /\ pc = "idle"
        /\ UNCHANGED <<setting, conn, requests, inbound, closed, executed, partial, synced,
                       pending, pc, attempt, calls, result, seed, armed>>
        /\ UNCHANGED <<outbound, unsent, spliced>>
    BY DEF set_auto_reconnect, netVars, writeVars
  <1>2. Pure' /\ CutCallOver'
    BY Zenon, <1>0, <1>1, KeepPure, KeepOver
  <1>3. \A c \in Calls : Within(c, Allowed(c))' <=> Within(c, Allowed(c))
    BY Zenon, <1>1 DEF Within, Done, Held, Halved, Allowed, Limit
  <1>4. Bounded'
    BY Zenon, <1>0, <1>1, <1>3 DEF Bounded, IsStream, Transport, Sync
  <1>5. QED
    BY <1>2, <1>4

\* send(), and a failing send(): one request for the attempt, at most.
LEMMA WritingRest ==
  ASSUME AInv, Send \/ \E out \in BOOLEAN : SendFails(out), UNCHANGED writeVars
  PROVE  Pure' /\ Bounded' /\ CutCallOver'
  <1>0. IInv /\ Pure /\ Bounded /\ CutCallOver
    BY ZenonT(30) DEF AInv
  <1>1. /\ pc = "send"
        /\ requests' = requests \/ requests' = requests \union {ThisRequest}
        /\ UNCHANGED <<setting, conn, inbound, executed, auto_reconnect, partial, synced,
                       pending, calls, seed, armed>>
        /\ UNCHANGED <<outbound, unsent, spliced>>
    BY DEF Send, SendFails, ThisRequest, writeVars
  <1>2. closed' = closed \/ closed' = TRUE \/ ~IsStream
    BY Zenon DEF Send, SendFails
  <1>3. /\ IsStream => Moves /\ pc' # "send"
        /\ result'.status = "Ok" => result' = result
    <2>1. CASE Send
      BY Zenon, <1>1, <2>1 DEF Send, Moves
    <2>2. CASE AttemptFails("Io", NoMessage)
      <3>1. result'.status = "Ok" => result' = result
        BY <2>2 DEF AttemptFails, Return
      <3>2. QED
        BY Zenon, <1>1, <2>2, <3>1, FailsMoves
    <2>3. QED
      BY Zenon, <2>1, <2>2 DEF SendFails
  <1>4. CutCallOver'
    BY Zenon, <1>0, <1>1, <1>3, KeepOver
  <1>5. CASE ~IsStream
    BY Zenon, <1>1, <1>4, <1>5, NotStream
  <1>6. CASE IsStream
    <2>1. Pure'
      BY Zenon, <1>0, <1>1, <1>2, <1>6, KeepPure
    <2>2. SendsAtMostOne
      BY Zenon, <1>0, <1>1, <1>3, <1>6, SentOne
    <2>3. Bounded'
      BY Zenon, <1>0, <1>1, <1>3, <1>6, <2>2, MovesBounded
    <2>4. QED
      BY Zenon, <1>4, <2>1, <2>3
  <1>7. QED
    BY Zenon, <1>5, <1>6

\* recv_message, whatever it finds.
LEMMA ReadingRest ==
  ASSUME AInv,
         \/ PopPending
         \/ RecvDatagram
         \/ \E n \in 1 .. Len(inbound) : Read(n)
         \/ \E err \in {"Io", "ConnectionClosed"} : RecvFails(err)
         \/ RecvTimeout,
         UNCHANGED writeVars
  PROVE  Pure' /\ Bounded' /\ CutCallOver'
  <1>0. IInv /\ Pure /\ Bounded /\ CutCallOver /\ TypeOK
    BY DEF AInv, IInv
  <1>1. UNCHANGED <<outbound, unsent, spliced>>
    BY ZenonT(30) DEF writeVars
  <1>2. /\ pc = "recv"
        /\ UNCHANGED <<setting, conn, requests, executed, auto_reconnect, calls, seed, armed>>
    BY DEF PopPending, RecvDatagram, Read, RecvFails, RecvTimeout, netVars
  <1>3. ASSUME NEW err \in Statuses \ {"Ok"}, AttemptFails(err, NoMessage)
        PROVE  Bounded' /\ CutCallOver'
    <2>1. result'.status = "Ok" => result' = result
      BY <1>3 DEF AttemptFails, Return
    <2>2. IsStream => Moves
      BY Zenon, <1>2, <1>3, FailsMoves
    <2>3. Bounded'
      BY Zenon, <1>0, <1>1, <1>2, <2>2, QuietBounded
    <2>4. QED
      BY ZenonT(30), <1>0, <1>1, <1>2, <2>1, <2>3, KeepOver
  <1>4. ASSUME NEW m, Handle(m) PROVE Bounded' /\ CutCallOver'
    <2>1. Bounded'
      BY Zenon, <1>0, <1>1, <1>2, <1>4, HandleMoves, QuietBounded
    <2>2. CutCallOver'
      BY Zenon, <1>0, <1>1, <1>2, <1>4, HandleOver
    <2>3. QED
      BY <2>1, <2>2
  <1>5. CASE PopPending
    BY Zenon, <1>0, <1>4, <1>5, BufferPure DEF PopPending
  <1>6. CASE RecvDatagram
    BY Zenon, <1>2, <1>4, <1>6, NotStream DEF RecvDatagram
  <1>7. ASSUME NEW n \in 1 .. Len(inbound), Read(n)
        PROVE  Pure' /\ Bounded' /\ CutCallOver'
    <2>1. Pure'
      BY Zenon, <1>0, <1>7, ReadPure
    <2>2. CASE AttemptFails("RecordTooLarge", NoMessage)
      BY Zenon, <1>3, <2>1, <2>2 DEF Statuses
    <2>3. CASE UNCHANGED <<pc, attempt, result>>
      <3>1. Moves
        BY Zenon, <2>3 DEF Moves
      <3>2. Bounded' /\ CutCallOver'
        BY SMTT(30), <1>0, <1>1, <1>2, <2>3, <3>1, QuietBounded, KeepOver
      <3>3. QED
        BY <2>1, <3>2
    <2>4. QED
      BY Zenon, <1>7, <2>2, <2>3 DEF Read
  <1>8. ASSUME NEW err \in {"Io", "ConnectionClosed"}, RecvFails(err)
        PROVE  Pure' /\ Bounded' /\ CutCallOver'
    <2>1. Pure'
      BY ZenonT(30), <1>0, <1>8, BufferPure
    <2>2. err \in Statuses \ {"Ok"} /\ AttemptFails(err, NoMessage)
      BY <1>8 DEF RecvFails, Statuses
    <2>3. QED
      BY Zenon, <1>3, <2>1, <2>2
  <1>9. CASE RecvTimeout
    <2>1. /\ UNCHANGED <<setting, conn, inbound, partial, synced, pending, closed>>
          /\ AttemptFails("Timeout", NoMessage)
      BY <1>9 DEF RecvTimeout, netVars
    <2>2. Pure'
      BY Zenon, <1>0, <2>1, KeepPure
    <2>3. QED
      BY ZenonT(30), <1>3, <2>1, <2>2 DEF Statuses
  <1>10. QED
    BY Zenon, <1>5, <1>6, <1>7, <1>8, <1>9

\* A new connection: what was cut on the old one stays there.
LEMMA ReconnectRest ==
  ASSUME AInv, reconnect, spliced' = spliced,
         (outbound' = "whole" /\ unsent' = NoMessage) \/ (Sync /\ UNCHANGED <<outbound, unsent>>)
  PROVE  Pure' /\ Bounded' /\ CutCallOver'
  <1>0. IInv /\ Pure /\ Bounded /\ CutCallOver /\ TypeOK /\ calls \in Calls
        /\ calls \in Nat /\ attempt \in Nat
    BY DEF AInv, IInv, TypeOK, XidsInOrder, reconnect
  <1>1. /\ pc = "reconnect" /\ pc' = "send" /\ attempt' = attempt + 1
        /\ UNCHANGED <<setting, requests, executed, auto_reconnect, calls, result, seed, armed>>
    BY Zenon DEF reconnect
  <1>2. IsStream
    BY DEF reconnect, IsStream
  <1>3. Pure'
    BY Zenon, <1>0, BufferPure
  <1>4. unsent' = NoMessage /\ NoMessage.call = 0
    BY Zenon, <1>0 DEF CutCallOver, NoMessage
  <1>5. CutCallOver'
    <2>1. Sync' = Sync /\ XidOf(unsent.call)' = XidOf(unsent'.call)
      BY Zenon, <1>1 DEF Sync, XidOf
    <2>2. outbound' = "half" => unsent \in Request /\ unsent = NoMessage
      BY Zenon, <1>0, <1>4 DEF CutCallOver
    <2>3. NoMessage \notin Request
      BY <1>4 DEF Request, Calls
    <2>4. calls # 0 /\ 0 \in 0 .. calls
      BY <1>0 DEF Calls
    <2>5. result.status = "Ok" => result.call # calls /\ result.call \in 0 .. calls
      BY Zenon, <1>0, <1>1 DEF CutCallOver
    <2>6. result.status = "Ok" => result.call # 0
      BY <1>0 DEF IInv, Control, Calls
    <2>7. QED
      BY Zenon, <1>0, <1>1, <1>4, <2>1, <2>2, <2>3, <2>4, <2>5, <2>6 DEF CutCallOver
  <1>6. Bounded'
    <2>1. /\ \A c \in Calls : Within(c, Allowed(c))
          /\ attempt \in 1 .. Limit(calls) /\ auto_reconnect = armed[calls]
          /\ attempt < Limit(calls) /\ (~Sync => auto_reconnect)
      BY Zenon, <1>0, <1>1, <1>2 DEF Bounded
    <2>2. \A c \in Calls : /\ executed[c] \in Nat /\ Halved(c) \in {0, 1} /\ Done(c) \in Nat
                           /\ Limit(c) \in Nat
      BY Zenon, <1>0, SentType
    <2>3. \A c \in Calls : Limit(c)' = Limit(c)
      BY <1>1 DEF Limit
    <2>4. ASSUME NEW c \in Calls PROVE Within(c, Allowed(c))'
      <3>1. Held(c)' = Held(c) /\ Halved(c)' = 0 /\ c \in Nat
        BY <1>1, <1>4 DEF Held, Halved, Calls
      <3>2. Done(c)' \in Nat /\ Done(c)' <= Done(c) /\ Done(c) \in Nat
        BY <1>1, <2>2, <3>1 DEF Done
      <3>3. Allowed(c)' = Allowed(c)
        BY SMTT(30), <1>0, <1>1, <2>3, <3>1 DEF Allowed
      <3>4. Allowed(c) \in Nat /\ Allowed(c) <= Allowed(c)
        BY <1>0, <2>1, AllowedType
      <3>5. Room(Held(c), Done(c)', Allowed(c))
        BY Zenon, <2>1, <3>2, <3>4, MoreRoom DEF Within
      <3>6. QED
        BY Zenon, <3>1, <3>3, <3>5 DEF Within
    <2>5. attempt' \in 1 .. Limit(calls)' /\ auto_reconnect' = armed'[calls']
      <3>1. Limit(calls)' = Limit(calls) /\ Limit(calls) \in Nat
        BY Zenon, <1>0, <1>1, <2>2 DEF Limit
      <3>2. QED
        BY SMTT(30), <1>1, <2>1, <3>1
    <2>6. QED
      BY Zenon, <1>1, <2>1, <2>4, <2>5 DEF Bounded, Sync
  <1>7. QED
    BY ZenonT(30), <1>3, <1>5, <1>6

\* No new connection: the call is over.
LEMMA ReconnectFailsRest ==
  ASSUME AInv, ReconnectFails, UNCHANGED writeVars
  PROVE  Pure' /\ Bounded' /\ CutCallOver'
  <1>0. IInv /\ Pure /\ Bounded /\ CutCallOver
    BY Zenon DEF AInv
  <1>1. /\ pc = "reconnect" /\ pc' = "idle" /\ attempt' = attempt /\ result'.status # "Ok"
        /\ UNCHANGED <<setting, conn, requests, inbound, closed, executed, auto_reconnect,
                       partial, synced, pending, calls, seed, armed>>
        /\ UNCHANGED <<outbound, unsent, spliced>>
    BY DEF ReconnectFails, Return, netVars, writeVars
  <1>2. Moves
    BY Zenon, <1>1 DEF Moves
  <1>3. QED
    BY Zenon, <1>0, <1>1, <1>2, KeepPure, QuietBounded, KeepOver

\* The network and the server.
LEMMA NetworkRest ==
  ASSUME AInv, Network, UNCHANGED clientVars, UNCHANGED writeVars
  PROVE  Pure' /\ Bounded' /\ CutCallOver'
  <1>0. IInv /\ Pure /\ Bounded /\ CutCallOver /\ TypeOK
    BY Zenon DEF AInv, IInv
  <1>1. /\ UNCHANGED <<auto_reconnect, partial, synced, pending, pc, attempt, calls, result,
                       seed, armed>>
        /\ UNCHANGED <<outbound, unsent, spliced>>
    BY SMTT(30) DEF clientVars, writeVars
  <1>2. setting' = setting /\ conn' = conn
    BY ZenonT(40) DEF Network, Serve, Lose, PeerClose, PeerStall
  <1>3. CutCallOver'
    BY Zenon, <1>0, <1>1, <1>2, KeepOver
  <1>4. Moves
    BY <1>1 DEF Moves
  <1>5. CASE ~IsStream
    BY Zenon, <1>2, <1>3, <1>5, NotStream
  <1>6. ASSUME IsStream, NEW r \in requests, NEW kind \in setting.kinds, Serve(r, kind)
        PROVE  Pure' /\ Bounded'
    <2>1. Pure'
      BY Zenon, <1>0, <1>6, ServePure
    <2>2. SendsAtMostOne
      BY Zenon, <1>0, <1>1, <1>6, SentServed
    <2>3. QED
      BY Zenon, <1>0, <1>1, <1>2, <1>4, <1>6, <2>1, <2>2, MovesBounded
  <1>7. CASE PeerClose \/ PeerStall
    <2>1. /\ UNCHANGED <<requests, inbound, executed>>
          /\ closed' = closed \/ closed' = TRUE
      BY Zenon, <1>7 DEF PeerClose, PeerStall
    <2>2. QED
      BY Zenon, <1>0, <1>1, <1>2, <1>3, <1>4, <2>1, KeepPure, QuietBounded
  <1>8. QED
    BY Zenon, <1>3, <1>5, <1>6, <1>7 DEF Network, Lose

----------------------------------------------------------------------------
(* The steps of the asynchronous client that the synchronous one does not have. *)

\* A step that only moves the call on, and may leave a half written request,
\* keeps everything the synchronous client relies on.
LEMMA OnlyMoves ==
  ASSUME IInv, Control', result'.status = "Ok" => result' = result,
         pc' # "idle" => pc # "idle",
         UNCHANGED <<netVars, next_xid, auto_reconnect, partial, synced, pending, xid, calls,
                     seed, armed>>
  PROVE  IInv'
  <1>0. TypeOK /\ XidsInOrder /\ OwnRequests /\ OwnMessages /\ MatchedReply
    BY DEF IInv
  <1>1. /\ UNCHANGED <<setting, conn, requests, inbound, datagrams, closed, stalled, executed>>
        /\ UNCHANGED <<next_xid, auto_reconnect, partial, synced, pending, xid, calls, seed,
                       armed>>
    BY Zenon DEF netVars
  <1>2. TypeOK'
    BY ZenonT(30), <1>0, <1>1 DEF TypeOK, NetTypeOK, Control
  <1>3. XidsInOrder' /\ OwnRequests' /\ OwnMessages' /\ MatchedReply'
    BY SMTT(30), <1>0, <1>1, KeepXids, KeepRequests, KeepMessages, KeepMatched
  <1>4. QED
    BY Zenon, <1>2, <1>3 DEF IInv

\* The end of an attempt leaves call() where it may be.
LEMMA AttemptEndsControl ==
  ASSUME TypeOK, Control, AttemptEnds("Timeout")
  PROVE  Control' /\ (result'.status = "Ok" => result' = result)
  <1>1. CASE attempt < MAX_ATTEMPTS /\ is_retryable_async("Timeout")
    <2>1. /\ pc' = IF IsStream THEN "reconnect" ELSE "send"
          /\ attempt' = IF IsStream THEN attempt ELSE attempt + 1
          /\ result' = result
      BY Zenon, <1>1 DEF AttemptEnds
    <2>2. QED
      BY <1>1, <2>1, AttemptsAssumption DEF Control
  <1>2. CASE ~(attempt < MAX_ATTEMPTS /\ is_retryable_async("Timeout"))
    <2>1. /\ pc' = "idle" /\ attempt' = attempt
          /\ result' = [call |-> calls, status |-> "Timeout", by |-> NoMessage]
      BY Zenon, <1>2 DEF AttemptEnds, Return
    <2>2. result' \in [call : 0 .. MaxCalls, status : Statuses, by : AnyMessage]
      BY <2>1 DEF TypeOK, Statuses, AnyMessage
    <2>3. QED
      BY ZenonT(40), <2>1, <2>2 DEF Control
  <1>3. QED
    BY Zenon, <1>1, <1>2

\* What CutWrite leaves is the request of the call, which ends with this attempt
\* or goes on with a new socket.
LEMMA CutRest ==
  ASSUME AInv, ~Sync, pc = "send", CutWrite, pc' \in {"idle", "reconnect"},
         Moves \/ ~IsStream, result'.status = "Ok" => result' = result,
         UNCHANGED <<netVars, auto_reconnect, partial, synced, pending, calls, seed, armed>>
  PROVE  Pure' /\ Bounded' /\ CutCallOver'
  <1>0. /\ IInv /\ Pure /\ Bounded /\ CutCallOver /\ TypeOK
        /\ calls \in Calls /\ xid = XidOf(calls) /\ calls \in Nat
    BY Zenon, Numbers DEF AInv, IInv, XidsInOrder
  <1>1. /\ UNCHANGED <<setting, conn, requests, inbound, closed, executed>>
        /\ UNCHANGED <<auto_reconnect, partial, synced, pending, calls, seed, armed>>
    BY DEF netVars
  <1>2. /\ spliced' = spliced
        /\ \/ outbound' = outbound /\ unsent' = unsent
           \/ outbound' = "half" /\ unsent' = ThisRequest
    BY Zenon DEF CutWrite, writeVars
  <1>3. Pure'
    BY Zenon, <1>0, <1>1, KeepPure
  <1>4. Bounded'
    <2>1. CASE ~IsStream
      BY Zenon, <1>1, <2>1, NotStream
    <2>2. CASE IsStream
      <3>1. SendsAtMostOne
        BY Zenon, <1>0, <1>1, <1>2, SentHalf
      <3>2. QED
        BY SMTT(30), <1>0, <1>1, <2>2, <3>1, MovesBounded
    <2>3. QED
      BY Zenon, <2>1, <2>2
  <1>5. CutCallOver'
    <2>1. CASE outbound' = outbound /\ unsent' = unsent
      BY Zenon, <1>0, <1>1, <1>2, <2>1, KeepOver
    <2>2. CASE outbound' = "half" /\ unsent' = ThisRequest
      <3>1. ThisRequest \in Request /\ ThisRequest.call = calls /\ ThisRequest.xid = xid
        BY <1>0 DEF ThisRequest, Request, TypeOK, NetTypeOK
      <3>2. XidOf(calls)' = XidOf(calls) /\ ~Sync'
        BY Zenon, <1>1 DEF XidOf, Sync
      <3>3. unsent' \in Request /\ unsent'.xid = XidOf(unsent.call)'
        BY Zenon, <1>0, <1>1, <2>2, <3>1, <3>2 DEF XidOf
      <3>4. unsent'.call = calls /\ calls \in 0 .. calls
        <4>1. \A n \in Nat : n \in 0 .. n
          OBVIOUS
        <4>2. QED
          BY Zenon, <1>0, <2>2, <3>1, <4>1
      <3>5. result.status = "Ok" => result.call # calls
        BY <1>0 DEF CutCallOver
      <3>6. QED
        BY ZenonT(30), <1>0, <1>1, <1>2, <3>2, <3>3, <3>4, <3>5 DEF CutCallOver, Request, Calls, Xid
    <2>3. QED
      BY Zenon, <1>2, <2>1, <2>2
  <1>6. QED
    BY Zenon, <1>3, <1>4, <1>5

\* tokio's timeout during the write, and a future dropped there or elsewhere.
LEMMA CancelledStep ==
  ASSUME AInv, ~Sync, SendTimeout \/ ReadTimeout \/ Cancel
  PROVE  AInv'
  <1>0. /\ IInv /\ Pure /\ Bounded /\ CutCallOver /\ TypeOK /\ Control
        /\ IsStream => auto_reconnect
    BY DEF AInv, IInv, Bounded
  <1>1. CASE SendTimeout
    <2>1. /\ pc = "send" /\ IsStream /\ CutWrite /\ AttemptEnds("Timeout")
          /\ UNCHANGED <<netVars, next_xid, auto_reconnect, partial, synced, pending, xid,
                         calls, seed, armed>>
      BY <1>1 DEF SendTimeout
    <2>2. Control' /\ (result'.status = "Ok" => result' = result)
      BY Zenon, <1>0, <2>1, AttemptEndsControl
    <2>3. Moves /\ pc' \in {"idle", "reconnect"}
      BY Zenon, <1>0, <2>1, EndsMoves DEF AttemptEnds, Return
    <2>4. IInv'
      BY Zenon, <1>0, <2>1, <2>2, OnlyMoves
    <2>5. QED
      BY Zenon, <2>1, <2>2, <2>3, <2>4, CutRest DEF AInv
  <1>2. CASE ReadTimeout
    <2>1. /\ pc = "recv" /\ AttemptEnds("Timeout")
          /\ UNCHANGED <<netVars, next_xid, auto_reconnect, partial, synced, pending, xid,
                         calls, seed, armed>>
          /\ UNCHANGED <<outbound, unsent, spliced>>
      BY Zenon, <1>2 DEF ReadTimeout, writeVars
    <2>2. Control' /\ (result'.status = "Ok" => result' = result)
      BY Zenon, <1>0, <2>1, AttemptEndsControl
    <2>3. IsStream => Moves
      BY Zenon, <1>0, <2>1, EndsMoves
    <2>4. IInv'
      BY Zenon, <1>0, <2>1, <2>2, OnlyMoves
    <2>5. UNCHANGED <<setting, conn, requests, inbound, closed, executed>>
      BY Zenon, <2>1 DEF netVars
    <2>6. Pure' /\ Bounded' /\ CutCallOver'
      BY Zenon, <1>0, <2>1, <2>2, <2>3, <2>5, KeepPure, QuietBounded, KeepOver
    <2>7. QED
      BY Zenon, <2>4, <2>6 DEF AInv
  <1>3. CASE Cancel
    <2>1. /\ pc # "idle" /\ pc' = "idle" /\ attempt' = attempt /\ result' = result
          /\ UNCHANGED <<netVars, next_xid, auto_reconnect, partial, synced, pending, xid,
                         calls, seed, armed>>
          /\ IF pc = "send" THEN CutWrite ELSE UNCHANGED writeVars
      BY Zenon, <1>3 DEF Cancel
    <2>2. Control' /\ Moves
      BY Zenon, <1>0, <2>1 DEF Control, Moves
    <2>3. IInv'
      BY Zenon, <1>0, <2>1, <2>2, OnlyMoves
    <2>4. CASE pc = "send"
      BY Zenon, <2>1, <2>2, <2>3, <2>4, CutRest DEF AInv
    <2>5. CASE pc # "send"
      <3>1. UNCHANGED <<setting, conn, requests, inbound, closed, executed>>
            /\ UNCHANGED <<outbound, unsent, spliced>>
        BY Zenon, <2>1, <2>5 DEF netVars, writeVars
      <3>2. Pure' /\ Bounded' /\ CutCallOver'
        BY Zenon, <1>0, <2>1, <2>2, <3>1, KeepPure, QuietBounded, KeepOver
      <3>3. QED
        BY <2>3, <3>2 DEF AInv
    <2>6. QED
      BY Zenon, <2>4, <2>5
  <1>4. QED
    BY Zenon, <1>1, <1>2, <1>3

\* write_all after a cut write: the earlier request is completed, not this one.
LEMMA SpliceStep ==
  ASSUME AInv, ~Sync, ASend, ~(Send /\ UNCHANGED writeVars)
  PROVE  AInv'
  <1>0. /\ IInv /\ Pure /\ Bounded /\ CutCallOver /\ TypeOK /\ Control /\ XidsInOrder
        /\ OwnRequests /\ OwnMessages /\ MatchedReply /\ calls \in Nat
    BY Zenon, Numbers DEF AInv, IInv
  <1>1. /\ pc = "send" /\ pc' = "recv" /\ outbound' = "lost" /\ unsent' = NoMessage
        /\ \/ /\ outbound = "half"
              /\ requests' = requests \union {unsent} /\ spliced' = spliced \union {unsent}
           \/ requests' = requests /\ spliced' = spliced
        /\ UNCHANGED <<setting, conn, inbound, datagrams, closed, stalled, executed,
                       next_xid, auto_reconnect, partial, synced, pending, attempt,
                       xid, calls, result, seed, armed>>
    BY DEF ASend
  <1>2. outbound = "half" => unsent \in Request /\ unsent.xid = XidOf(unsent.call)
    BY Zenon, <1>0 DEF CutCallOver
  <1>3. requests' \subseteq Request
    BY Zenon, <1>0, <1>1, <1>2 DEF TypeOK, NetTypeOK
  <1>4. OwnRequests'
    <2>1. \A r \in requests' : r.xid = XidOf(r.call)
      BY Zenon, <1>0, <1>1, <1>2 DEF OwnRequests
    <2>2. QED
      BY Zenon, <1>1, <2>1 DEF OwnRequests, XidOf
  <1>5. Control'
    BY Zenon, <1>0, <1>1 DEF Control
  <1>6. TypeOK'
    BY Zenon, <1>0, <1>1, <1>3, <1>5 DEF TypeOK, NetTypeOK
  <1>7. IInv'
    BY Zenon, <1>0, <1>1, <1>4, <1>5, <1>6, KeepXids, KeepMessages, KeepMatched DEF IInv
  <1>8. Pure'
    BY Zenon, <1>0, <1>1, KeepPure
  <1>9. Bounded'
    <2>1. CASE ~IsStream
      BY Zenon, <1>1, <2>1, NotStream
    <2>2. CASE IsStream
      <3>1. SendsAtMostOne
        BY Zenon, <1>0, <1>1, SentRest
      <3>2. Moves
        BY Zenon, <1>1 DEF Moves
      <3>3. QED
        BY Zenon, <1>0, <1>1, <2>2, <3>1, <3>2, MovesBounded
    <2>3. QED
      BY Zenon, <2>1, <2>2
  <1>10. CutCallOver'
    <2>1. NoMessage.call = 0 /\ calls # 0 /\ ~Sync'
      BY <1>0, <1>1 DEF NoMessage, XidsInOrder, Calls, Sync
    <2>2. \A r \in spliced' : r.call \in 0 .. calls /\ r.call # calls
      BY ZenonT(30), <1>0, <1>1 DEF CutCallOver
    <2>3. result.status = "Ok" => /\ result.call \in 0 .. calls /\ result.call # calls
                                  /\ result.call # 0
                                  /\ \A r \in spliced' : r.call # result.call
      BY <1>0, <1>1 DEF CutCallOver, Control, Calls
    <2>4. 0 \in 0 .. calls
      BY <1>0
    <2>5. QED
      BY ZenonT(30), <1>1, <2>1, <2>2, <2>3, <2>4 DEF CutCallOver
  <1>11. QED
    BY Zenon, <1>7, <1>8, <1>9, <1>10 DEF AInv

----------------------------------------------------------------------------
(* Both clients. *)

\* The invariant holds of either client when it has just connected.
LEMMA AInvInit ==
  ASSUME AInit
  PROVE  AInv
  <1>1. /\ Init /\ IInv /\ outbound = "whole" /\ unsent = NoMessage /\ spliced = {}
    BY Zenon, IInvInit DEF AInit
  <1>2. /\ setting \in Settings /\ requests = {} /\ inbound = <<>> /\ closed = FALSE
        /\ executed = [c \in Calls |-> 0] /\ partial = <<>> /\ pending = <<>>
        /\ pc = "idle" /\ calls = 0 /\ auto_reconnect = (Transport # "Stream")
        /\ result = [call |-> 0, status |-> "None", by |-> NoMessage]
        /\ armed = [c \in Calls |-> FALSE]
    BY ZenonT(30), <1>1 DEF Init, NetInit
  <1>3. Pure
    <2>1. <<>> \o <<>> = <<>> /\ Len(<<>>) = 0
      OBVIOUS
    <2>2. QED
      BY <1>2, <2>1 DEF Pure, Framed, Paired, ConnectionPurity
  <1>4. Bounded
    <2>1. ASSUME NEW c \in Calls PROVE Within(c, Allowed(c))
      <3>0. NoMessage.call = 0 /\ c # 0
        BY DEF NoMessage, Calls
      <3>1. Held(c) = {} /\ Halved(c) = 0
        BY ZenonT(30), <1>1, <1>2, <3>0 DEF Held, Halved
      <3>2. Done(c) = 0 /\ Allowed(c) = 0
        BY <1>2, <3>1 DEF Done, Allowed, Calls
      <3>3. Room({}, 0, 0)
        BY RoomForNone
      <3>4. QED
        BY Zenon, <3>1, <3>2, <3>3 DEF Within
    <2>2. ~Sync => auto_reconnect
      <3>1. setting.client \in {"sync", "async"}
        BY ZenonT(30), <1>2, SettingsAssumption DEF Setting
      <3>2. QED
        BY Zenon, <1>2, <3>1, NoStreamClient DEF Sync, Transport
    <2>3. QED
      BY Zenon, <1>2, <2>1, <2>2 DEF Bounded
  <1>5. CutCallOver
    BY <1>1, <1>2 DEF CutCallOver, NoMessage
  <1>6. QED
    BY Zenon, <1>1, <1>3, <1>4, <1>5 DEF AInv

\* Every step of the synchronous client keeps the invariant.
LEMMA SyncStep ==
  ASSUME AInv, Sync, Next, UNCHANGED writeVars
  PROVE  AInv'
  <1>0. IInv /\ UNCHANGED <<outbound, unsent, spliced>>
    BY DEF AInv, writeVars
  <1>1. CASE Caller
    BY Zenon, <1>0, <1>1, CallStep, CallRest, SetAutoReconnectStep, SetRest DEF Caller, AInv
  <1>2. CASE Writing
    BY Zenon, <1>0, <1>2, SendStep, SendFailsStep, WritingRest DEF Writing, AInv
  <1>3. CASE \/ PopPending \/ RecvDatagram \/ Reading
             \/ \E err \in {"Io", "ConnectionClosed"} : RecvFails(err)
             \/ RecvTimeout
    BY Zenon, <1>0, <1>3, PopPendingStep, RecvDatagramStep, ReadStep, RecvFailsStep,
       RecvTimeoutStep, ReadingRest DEF Reading, AInv
  <1>4. CASE Connecting
    BY Zenon, <1>0, <1>4, ReconnectStep, ReconnectRest, ReconnectFailsStep, ReconnectFailsRest
       DEF Connecting, AInv
  <1>5. CASE Network /\ UNCHANGED clientVars
    BY Zenon, <1>0, <1>5, ServeStep, LoseStep, PeerStep, NetworkRest DEF Network, AInv
  <1>6. QED
    BY Zenon, <1>1, <1>2, <1>3, <1>4, <1>5 DEF Next, Step

\* Every step of the asynchronous client keeps the invariant.
LEMMA AsyncStep ==
  ASSUME AInv, ~Sync, ANext
  PROVE  AInv'
  <1>0. IInv
    BY DEF AInv
  <1>1. ASSUME NEW outcome \in {"Ok", "Xdr", "RecordTooLarge"}, call(outcome),
               UNCHANGED writeVars
        PROVE  AInv'
    BY Zenon, <1>0, <1>1, CallStep, CallRest DEF AInv
  <1>2. CASE AWriting
    <2>1. CASE (Send \/ SendFails(FALSE)) /\ UNCHANGED writeVars
      BY Zenon, <1>0, <2>1, SendStep, SendFailsStep, WritingRest DEF AInv
    <2>2. QED
      BY Zenon, <1>2, <2>1, SpliceStep DEF AWriting
  <1>3. CASE recv_message /\ UNCHANGED writeVars
    BY <1>0, <1>3, PopPendingStep, RecvDatagramStep, ReadStep, RecvFailsStep, ReadingRest
       DEF recv_message, Reading, AInv
  <1>4. CASE Timeouts \/ Cancel
    BY Zenon, <1>4, CancelledStep DEF Timeouts
  <1>5. CASE AReconnect
    BY Zenon, <1>0, <1>5, ReconnectStep, ReconnectRest, ReconnectFailsStep, ReconnectFailsRest
       DEF AReconnect, AInv
  <1>6. CASE Network /\ UNCHANGED <<clientVars, writeVars>>
    BY Zenon, <1>0, <1>6, ServeStep, LoseStep, PeerStep, NetworkRest DEF Network, AInv
  <1>7. QED
    BY Zenon, <1>1, <1>2, <1>3, <1>4, <1>5, <1>6 DEF ANext

\* The inductive invariant of the library with both clients.
LEMMA AInductive == ASpec => []AInv
  <1>1. AInit => AInv
    BY AInvInit
  <1>2. AInv /\ [ByClient(Next, ANext)]_asyncVars => AInv'
    <2> SUFFICES ASSUME AInv, [ByClient(Next, ANext)]_asyncVars PROVE AInv'
      OBVIOUS
    <2>1. CASE ByClient(Next, ANext)
      BY Zenon, <2>1, SyncStep, AsyncStep DEF ByClient
    <2>2. CASE UNCHANGED asyncVars
      <3>1. UNCHANGED vars /\ UNCHANGED <<outbound, unsent, spliced>>
        BY Zenon, <2>2 DEF asyncVars
      <3>2. /\ UNCHANGED netVars
            /\ UNCHANGED <<setting, conn, requests, inbound, closed, executed>>
            /\ UNCHANGED <<next_xid, auto_reconnect, partial, synced, pending, pc, attempt, xid,
                           calls, result, seed, armed>>
        BY Zenon, <3>1 DEF vars, netVars, clientVars
      <3>3. Moves /\ Control'
        BY Zenon, <3>2 DEF AInv, IInv, Moves, Control
      <3>4. IInv'
        BY Zenon, <3>2, <3>3, OnlyMoves DEF AInv
      <3>5. Pure' /\ Bounded' /\ CutCallOver'
        BY Zenon, <3>1, <3>2, <3>3, KeepPure, QuietBounded, KeepOver DEF AInv
      <3>6. QED
        BY <3>4, <3>5 DEF AInv
    <2>3. QED
      BY <2>1, <2>2
  <1>3. QED
    BY <1>1, <1>2, PTL DEF ASpec

\* reconnect of both clients leaves nothing of an older connection behind, and
\* recv_message never makes one record of two connections (client.rs,
\* client_async.rs).
THEOREM ConnectionsApart == ASpec => []ConnectionPurity
  <1>1. AInv => ConnectionPurity
    BY Zenon DEF AInv, Pure
  <1>2. QED
    BY <1>1, AInductive, PTL

\* call of both clients: the server executes a call at most once per attempt, and
\* at most once without auto_reconnect, also when writes are cut and completed by
\* other bytes.
THEOREM ExecutionsBounded == ASpec => []BoundedExecution
  <1>1. AInv => BoundedExecution
    <2> SUFFICES ASSUME AInv, IsStream, NEW c \in Calls
                 PROVE  executed[c] <= IF armed[c] THEN MAX_ATTEMPTS ELSE 1
      BY DEF BoundedExecution
    <2>1. /\ TypeOK /\ Within(c, Allowed(c))
          /\ pc # "idle" => attempt \in 1 .. Limit(calls)
      BY Zenon DEF AInv, IInv, Bounded
    <2>2. executed[c] \in Nat /\ Halved(c) \in {0, 1} /\ Limit(c) \in Nat
      BY Zenon, <2>1, SentType
    <2>3. executed[c] <= Done(c) /\ Done(c) \in Nat /\ Done(c) <= Allowed(c)
      BY <2>1, <2>2 DEF Done, Within, Room
    <2>4. Allowed(c) \in Nat /\ Allowed(c) <= Limit(c)
      BY Zenon, <2>1, AllowedType
    <2>5. executed[c] <= Limit(c)
      BY <2>2, <2>3, <2>4
    <2>6. QED
      BY Zenon, <2>5 DEF Limit
  <1>2. QED
    BY <1>1, AInductive, PTL

\* call of both clients: Ok is returned with the reply to the call's own request,
\* which the server has executed, whatever is lost, delayed, cut or cancelled.
THEOREM RepliesMatchBoth == ASpec => []MatchedReply
  <1>1. AInv => MatchedReply
    BY Zenon DEF AInv, IInv
  <1>2. QED
    BY <1>1, AInductive, PTL

\* client_async.rs: a request that was cut and then completed by the bytes of
\* another call is never the one whose reply is returned.
THEOREM CutNeverAnswered == ASpec => []OwnReply
  <1>1. AInv => OwnReply
    BY Zenon DEF AInv, IInv, MatchedReply, CutCallOver, OwnReply
  <1>2. QED
    BY <1>1, AInductive, PTL
============================================================================
