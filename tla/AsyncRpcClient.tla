--------------------------- MODULE AsyncRpcClient ---------------------------
(***************************************************************************)
(* The asynchronous RPC client, nfs-rpc/src/client_async.rs.  It works as  *)
(* the synchronous one, whose actions it shares, except that               *)
(*  - tokio's timeout covers the whole exchange, the write included, and   *)
(*    cancels it at whichever await it has come to;                        *)
(*  - a caller may drop the future of a call, which cancels it likewise;   *)
(*  - every timeout is retried, and reconnection cannot be turned off.     *)
(* A write that is cancelled half-way leaves the first part of a request   *)
(* on the connection.  ASpec is the library with both: setting.client says *)
(* which of them a program uses.                                           *)
(***************************************************************************)
EXTENDS RpcClient

VARIABLES
  outbound,  \* what the peer has got of our records: "whole" ones only, or half
             \* of one at the end, or it is "lost" and reads payload as headers
  unsent,    \* the request of which half was written
  spliced    \* history: requests completed by the bytes of another call

asyncVars == <<vars, outbound, unsent, spliced>>
writeVars == <<outbound, unsent, spliced>>

ASSUME NoStreamClient == \A s \in Settings : s.client = "async" => s.transport # "Stream"

AInit ==
  /\ Init
  /\ outbound = "whole" /\ unsent = NoMessage /\ spliced = {}

ThisRequest == [call |-> calls, xid |-> xid, conn |-> conn]

\* Io, ConnectionClosed and Timeout are tried again; the first two are also
\* what the shared actions retry, since auto_reconnect is set.
is_retryable_async(err) == err \in {"Io", "ConnectionClosed", "Timeout"}

AttemptEnds_SameSocket(err) ==
  IF attempt < MAX_ATTEMPTS /\ is_retryable_async(err)
  THEN pc' = "send" /\ attempt' = attempt + 1 /\ UNCHANGED result
  ELSE Return(err, NoMessage)
AttemptEnds(err) ==
  IF attempt < MAX_ATTEMPTS /\ is_retryable_async(err)
  THEN /\ pc' = IF IsStream THEN "reconnect" ELSE "send"
       /\ attempt' = IF IsStream THEN attempt ELSE attempt + 1
       /\ UNCHANGED result
  ELSE Return(err, NoMessage)
----------------------------------------------------------------------------
\* write_all completes.  After half a request these bytes are the rest of that
\* record, as far as it goes, and the peer no longer knows where records begin.
ASend ==
  \/ outbound = "whole" /\ Send /\ UNCHANGED writeVars
  \/ /\ outbound # "whole"
     /\ pc = "send" /\ (~stalled \/ closed)
     /\ pc' = "recv" /\ outbound' = "lost" /\ unsent' = NoMessage
     /\ \/ /\ outbound = "half" /\ ~closed
           /\ requests' = requests \union {unsent}
           /\ spliced' = spliced \union {unsent}
        \/ UNCHANGED <<requests, spliced>>
     /\ UNCHANGED <<setting, conn, inbound, datagrams, closed, stalled, executed,
                    next_xid, auto_reconnect, partial, synced, pending, attempt,
                    xid, calls, result, seed, armed>>

\* The exchange is dropped in the middle of write_all, with part of the
\* request written or none of it.
CutWrite ==
  \/ UNCHANGED writeVars
  \/ /\ IsStream /\ ~closed /\ outbound = "whole"
     /\ outbound' = "half" /\ unsent' = ThisRequest
     /\ UNCHANGED spliced

\* tokio's timeout elapses while write_all waits for the peer to read.
SendTimeout ==
  /\ pc = "send" /\ IsStream
  /\ CutWrite
  /\ AttemptEnds("Timeout")
  /\ UNCHANGED <<netVars, next_xid, auto_reconnect, partial, synced, pending, xid,
                 calls, seed, armed>>

\* ... or while recv_message waits for bytes.
ReadTimeout ==
  /\ pc = "recv" /\ pending = <<>>
  /\ AttemptEnds("Timeout")
  /\ UNCHANGED <<netVars, next_xid, auto_reconnect, partial, synced, pending, xid,
                 calls, seed, armed, writeVars>>

\* The caller drops the future of call().
Cancel ==
  /\ pc # "idle"
  /\ IF pc = "send" THEN CutWrite ELSE UNCHANGED writeVars
  /\ pc' = "idle"
  /\ UNCHANGED <<netVars, next_xid, auto_reconnect, partial, synced, pending,
                 attempt, xid, calls, result, seed, armed>>

recv_message ==
  PopPending \/ RecvDatagram \/ Reading \/ \E err \in {"Io", "ConnectionClosed"} : RecvFails(err)

AReconnect ==
  \/ reconnect /\ outbound' = "whole" /\ unsent' = NoMessage /\ UNCHANGED spliced
  \/ ReconnectFails /\ UNCHANGED writeVars

AWriting == ASend \/ (SendFails(FALSE) /\ UNCHANGED writeVars)
Timeouts == SendTimeout \/ ReadTimeout

ANext ==
  \/ (\E outcome \in {"Ok", "Xdr", "RecordTooLarge"} : call(outcome)) /\ UNCHANGED writeVars
  \/ AWriting
  \/ recv_message /\ UNCHANGED writeVars
  \/ Timeouts
  \/ AReconnect
  \/ Cancel
  \/ Network /\ UNCHANGED <<clientVars, writeVars>>

Sync == setting.client = "sync"
ByClient(syncAction, asyncAction) ==
  \/ Sync /\ syncAction /\ UNCHANGED writeVars
  \/ ~Sync /\ asyncAction

ASpec == AInit /\ [][ByClient(Next, ANext)]_asyncVars

(***************************************************************************)
(* What keeps a call going.  A write to a peer that reads, a read of bytes *)
(* that are there and connect_timeout each return.  A thread that looks at the clock again    *)
(* and again, as recv_message does before every read, finds one day that   *)
(* the deadline has passed.  Nothing makes the network fail or answer.     *)
(* For the asynchronous client, tokio polls a future that can go on, and   *)
(* its timer fires; its connect has no timeout, but the system gives up on *)
(* it one day.                                                             *)
(***************************************************************************)
AFairSpec ==
  /\ ASpec
  /\ WF_asyncVars(ByClient(Writing, AWriting))
  /\ WF_asyncVars(PopPending /\ UNCHANGED writeVars)
  /\ WF_asyncVars(ByClient(Reading, FALSE))
  /\ WF_asyncVars(ByClient(Connecting, AReconnect))
  /\ SF_asyncVars(ByClient(RecvTimeout, Timeouts))
----------------------------------------------------------------------------
(***************************************************************************)
(* Whatever is cancelled, a call that returns Ok returns the reply to its  *)
(* own request and to no spliced one, strays of a connection that is kept  *)
(* after RecordTooLarge excepted (client_async.rs 128-139).                *)
(***************************************************************************)
OwnReply ==
  result.status = "Ok" /\ result.by \notin Stray =>
    /\ result.by.call = result.call
    /\ \A r \in spliced : r.call # result.call \/ r.conn # result.by.conn
=============================================================================
