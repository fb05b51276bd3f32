---------------------------- MODULE RpcTransport ----------------------------
(***************************************************************************)
(* What the RPC clients run on, as seen from nfs-rpc: a socket and the RPC *)
(* server behind it.  Neither is code of the repository.                   *)
(*                                                                         *)
(* A stream ("Tcp", or "Stream" for a transport handed to from_stream)     *)
(* delivers the replies of the current connection in order, cut anywhere:  *)
(* every reply travels as two halves.  "Udp" may lose, duplicate and       *)
(* reorder datagrams.  The server answers the requests it holds in any     *)
(* order, and may still execute those of a connection that is gone.        *)
(*                                                                         *)
(* What a reply can be, as far as the client tells them apart: a result    *)
(* (ok), one the caller cannot decode, a denial or an accept_stat other    *)
(* than SUCCESS (rpc_error), a message that is no well-formed REPLY, and,  *)
(* on a stream, a record above the limit of the reassembler (oversize).    *)
(***************************************************************************)
EXTENDS Naturals, Sequences

CONSTANTS MaxCalls,   \* bound: calls the program makes
          XidSpace,   \* number of XIDs (2^32 in the code)
          Settings    \* the circumstances under which behaviours are explored

AllKinds == {"ok", "undecodable", "rpc_error", "malformed", "oversize"}

(***************************************************************************)
(* The circumstances of one behaviour: which client runs, the transport    *)
(* ("Tcp", "Udp" or "Stream"), the kinds of reply the server gives,        *)
(* whether the peer may stop reading for ever, and three bounds: the calls *)
(* made, how often the server executes one call, and the records that one  *)
(* read finds in bytes that are not the beginning of a record.             *)
(***************************************************************************)
Setting == [client : {"sync", "async"}, transport : {"Tcp", "Udp", "Stream"},
            kinds : SUBSET AllKinds,
            stalling : BOOLEAN, calls : 0 .. MaxCalls, executions : Nat,
            strays : Nat]

ASSUME XidAssumption ==
  MaxCalls \in Nat /\ XidSpace \in Nat /\ XidSpace > 0 /\ MaxCalls <= XidSpace
ASSUME SettingsAssumption == \A s \in Settings : s \in Setting

VARIABLES
  setting,    \* the member of Settings that holds; it never changes
  conn,       \* which connection the client's socket is on
  requests,   \* requests on their way to the server or held by it
  inbound,    \* stream: halves of replies not yet read on the connection
  datagrams,  \* Udp: replies not yet received
  closed,     \* the peer has closed the connection
  stalled,    \* the peer has stopped reading and its window is full
  executed    \* history: how often the server executed each call

netVars == <<setting, conn, requests, inbound, datagrams, closed, stalled, executed>>

Calls == 1 .. MaxCalls
Xid == 0 .. XidSpace - 1
Transport == setting.transport
IsStream == Transport # "Udp"

\* Replies that tell that the server ran the procedure.
Executing == {"ok", "undecodable", "oversize"}

Request == [call : Calls, xid : Xid, conn : Nat]
Message == [call : Calls, xid : Xid, conn : Nat, kind : AllKinds]
Half == [msg : Message, part : {1, 2}]

NetInit ==
  /\ setting \in Settings
  /\ conn = 1 /\ requests = {} /\ inbound = <<>> /\ datagrams = {}
  /\ closed = FALSE /\ stalled = FALSE
  /\ executed = [c \in Calls |-> 0]

\* The server takes up request r and answers it.  A datagram may be a copy.
Serve(r, kind) ==
  LET m == [call |-> r.call, xid |-> r.xid, conn |-> r.conn, kind |-> kind]
  IN /\ executed[r.call] < setting.executions
     /\ kind = "oversize" => IsStream
     /\ \/ requests' = requests \ {r}
        \/ ~IsStream /\ UNCHANGED requests
     /\ executed' = IF kind \in Executing
                    THEN [executed EXCEPT ![r.call] = @ + 1] ELSE executed
     /\ inbound' = IF IsStream /\ r.conn = conn /\ ~closed
                   THEN inbound \o <<[msg |-> m, part |-> 1], [msg |-> m, part |-> 2]>>
                   ELSE inbound
     /\ datagrams' = IF IsStream THEN datagrams ELSE datagrams \union {m}
     /\ UNCHANGED <<setting, conn, closed, stalled>>

\* The network drops a datagram.
Lose ==
  /\ ~IsStream
  /\ \/ \E r \in requests : requests' = requests \ {r} /\ UNCHANGED datagrams
     \/ \E m \in datagrams : datagrams' = datagrams \ {m} /\ UNCHANGED requests
  /\ UNCHANGED <<setting, conn, inbound, closed, stalled, executed>>

PeerClose ==
  /\ IsStream /\ ~closed
  /\ closed' = TRUE
  /\ UNCHANGED <<setting, conn, requests, inbound, datagrams, stalled, executed>>

PeerStall ==
  /\ setting.stalling /\ IsStream /\ ~closed /\ ~stalled
  /\ stalled' = TRUE
  /\ UNCHANGED <<setting, conn, requests, inbound, datagrams, closed, executed>>

Network ==
  \/ \E r \in requests, kind \in setting.kinds : Serve(r, kind)
  \/ Lose
  \/ PeerClose
  \/ PeerStall

NetTypeOK ==
  /\ setting \in Setting
  /\ conn \in Nat
  /\ requests \subseteq Request
  /\ inbound \in Seq(Half)
  /\ datagrams \subseteq Message
  /\ closed \in BOOLEAN /\ stalled \in BOOLEAN
  /\ executed \in [Calls -> Nat]
============================================================================
