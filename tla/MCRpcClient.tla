---------------------------- MODULE MCRpcClient ----------------------------
(***************************************************************************)
(* Instances of the RPC clients for TLC.                                   *)
(***************************************************************************)
EXTENDS AsyncRpcClient

Replies == {"ok", "undecodable", "rpc_error", "malformed", "oversize"}

\* The synchronous client: two calls over TCP with every kind of reply; three
\* with results only, so that a reply left in pending by an earlier call meets
\* a reconnection; a caller's stream, which cannot reconnect; UDP.  The
\* asynchronous one: two calls over TCP and over UDP.  With two calls the peer of a
\* connection may stop reading.
MCSettings ==
  {[client |-> "sync", transport |-> "Tcp", kinds |-> Replies, stalling |-> TRUE,
    calls |-> 2, executions |-> 3, strays |-> 1],
   [client |-> "sync", transport |-> "Tcp", kinds |-> {"ok"}, stalling |-> FALSE,
    calls |-> 3, executions |-> 2, strays |-> 0],
   [client |-> "sync", transport |-> "Stream", kinds |-> Replies, stalling |-> TRUE,
    calls |-> 2, executions |-> 2, strays |-> 2],
   [client |-> "sync", transport |-> "Udp", kinds |-> {"ok", "malformed"},
    stalling |-> FALSE, calls |-> 2, executions |-> 1, strays |-> 0],
   [client |-> "async", transport |-> "Tcp", kinds |-> {"ok", "malformed", "oversize"},
    stalling |-> TRUE, calls |-> 2, executions |-> 3, strays |-> 1],
   [client |-> "async", transport |-> "Udp", kinds |-> {"ok", "malformed"},
    stalling |-> FALSE, calls |-> 2, executions |-> 1, strays |-> 0]}
============================================================================
