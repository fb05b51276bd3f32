# A TLA+ verification of libnfs-rs

This directory specifies the parts of the NFS client in `src/` whose correctness
depends on the order of events: messages that are lost, late, duplicated or cut;
servers that restart, stall or answer less than they were asked; other clients;
calls that are retried or cancelled; tasks that share one mount; and the bytes that
every request and answer is made of. TLC checks the specifications on small
instances (`*.cfg`), and TLAPS proves, for every value of the constants, the safety
of record marking, of both RPC clients, of the NFSv4 state, of files, locks and
directory listings, of mounting, and of the shared context (`*Proofs.tla`). `PROJECT.json` maps
every definition to the lines it models and lists the runs, their mutants, the
findings, the hazards and the theorems.

## The system

```
   C interface (nfs-capi), AsyncNfs (async_context.rs)                   FrontEnds => AtomicContext
        |
   NfsContext (nfs-client/context.rs)     files, paths, locks, mount     FileIo Namespace Readdir Locks Mount Url
        |  trait Backend (backend.rs)
   V3Backend            V4Backend         one RPC or COMPOUND per call   (same modules)
        |                   |
   nfs3 mount portmap   nfs4.rs           NFSv4 state: clientid, seqids, Nfs4State on Nfs4Server
   nlm nsm rquota       (Nfs4)            session slot, retries
        |                   |             what each method sends, reads  Procedures Compound Attributes
        |                   |
   RpcClient (client.rs), AsyncRpcClient (client_async.rs)               RpcClient AsyncRpcClient
        |            XIDs, attempts, reconnection, timeouts               on RpcTransport
   nfs-xdr, message.rs, auth.rs           the bytes of a message         Xdr WireTypes RpcMessage
        |
   RecordReassembler (record.rs)          record marking                 RecordMarking => RecordChannel
        |
   TCP, UDP, TLS stream
```

The layers are composed by what each promises to the next one up:

- `RecordMarking` implements `RecordChannel` (a FIFO of whole records), by a
  refinement mapping. `RpcTransport` builds on that promise: a stream carries
  records, each in two halves so that a read may end inside one.
- `RpcClient!BoundedExecution` says that a call is executed at most once per
  attempt. Accordingly, the RPC call of `Nfs4State` may fail before or after the
  server executed it, and may execute it twice; in `Locks` a copy of a request
  may be executed late; in `FileIo` a WRITE may be executed and its reply lost.
- `RpcMessage` shows that `parse_reply` tells apart the replies that the grammar
  of ONC-RPC tells apart; `RpcClient` keeps only their kinds.
- `AsyncRpcClient` extends `RpcClient`: it shares its state and most of its
  actions, and adds cancellation. Which of the two a behaviour is about is part of
  its setting.
- `FrontEnds` implements `AtomicContext`, in which an operation takes effect in one
  step between its call and its return. So `FileIo`, `Namespace`, `Readdir` and
  `Locks` may let one operation of a context run at a time.
- `RpcMessage` takes each method's request to `Protocols`, a server that knows the
  bytes and nothing of the client, and the server's answer back to the method.
- `Nfs4State` extends `Nfs4Server`, which is the server as far as this client
  can tell.

### Inventory

| part | source (crates/) | module | state |
|---|---|---|---|
| record marking | nfs-rpc/src/record.rs | RecordMarking, RecordChannel | modelled, proved |
| synchronous RPC client | nfs-rpc/src/client.rs | RpcClient, RpcTransport | modelled, proved |
| asynchronous RPC client | nfs-rpc/src/client_async.rs | AsyncRpcClient | modelled, proved |
| RPC messages, credentials | nfs-rpc/src/message.rs, auth.rs | RpcMessage, RpcClient | modelled |
| TLS transport | nfs-rpc/src/client_tls.rs | RpcClient, Mount | the AUTH_TLS probe and the stream, no handshake |
| NFSv4 | nfs-proto/src/nfs4.rs | Nfs4State, Nfs4Server, Compound, Protocols | state (proved), requests and answers of every method |
| NFSv3 procedures | nfs-proto/src/nfs3.rs | Procedures, WireTypes, FileIo, Namespace, Readdir | modelled |
| files | nfs-client/src/context.rs, backend_v*.rs | FileIo | modelled, proved |
| paths | nfs-client/src/context.rs, backend_v*.rs | Namespace | modelled |
| byte-range locks | nfs-proto/src/nlm.rs, nfs4.rs, backend_v*.rs | Locks, Nfs4State, Procedures | modelled, proved |
| mounting | nfs-proto/src/connect.rs, portmap.rs, mount.rs, context.rs | Mount, Procedures | modelled |
| URL parser | nfs-client/src/url.rs | Url, Mount | modelled |
| directory listing | context.rs, backend_v*.rs, nfs3.rs, nfs4.rs | Readdir | modelled, proved |
| attributes, error mapping | nfs-client/src/attr.rs, error.rs, backend_v*.rs | Attributes, RpcMessage | modelled, without wording |
| shared asynchronous context | nfs-client/src/async_context.rs | FrontEnds, AtomicContext | modelled, proved |
| C interface | nfs-capi/src/lib.rs | FrontEnds, AtomicContext | modelled, without the text of the JSON; proved |
| XDR codec, derive macros | nfs-xdr/src, nfs-xdr-derive/src | Xdr, RpcMessage | modelled, without the parsing of attributes at compile time |
| quota, NSM | nfs-proto/src/rquota.rs, nsm.rs | Procedures, WireTypes | modelled; stateless |

## Conventions

- **Circumstances.** Most modules take a constant `Settings` and have a variable
  `setting`, chosen in `Init` and never changed: protocol version, transport,
  which failures may happen, bounds. One run so covers several circumstances,
  each with a bound of its own, and a property may speak of the circumstance it
  is about. Failures are listed rather than probable: a failure in the setting
  may happen at any step.
- **Steps.** A step of the client is what runs between two points where something
  else can happen: one socket operation in the RPC clients, one RPC above them.
  Everything the code does up to the next such point is in the same action.
- **History variables** record what a property compares with (for instance
  `armed`, `yielded`, `durable`, `upset`); no action reads them in a guard.
- **Mutants.** A definition `X_Something` before `X` is `X` with a plausible
  mistake in it. Substituted for `X` it violates the property listed with it in
  `PROJECT.json`; nothing else refers to it.
- **External definitions** model what is not in the repository: sockets, the RPC,
  NFS, lock, mount and portmap servers, other clients.

## The modules

**RecordMarking** (record.rs, whole). Bytes have `Base` values, and a header is
four of them, so the arithmetic of `LAST_FRAGMENT` and `LENGTH_MASK` is that of
the code on a smaller word. The peer frames payloads as fragments (`frame` is the
one-fragment case). `push` takes any number of bytes; `next_record` is one action
per arm of its `match`. `draining` is the `while let` loop of the callers.
**RecordChannel** is the promise: a queue of records, of which a prefix has been
delivered.

**RpcTransport, RpcClient** (client.rs). `pc` is the place of the calling thread
(idle, send, recv, reconnect). `Send`, `Read`, `RecvDatagram`, `PopPending`,
`RecvTimeout`, `RecvFails`, `reconnect` and their failures are the calls the
client makes on the socket, with what it then does. `AttemptFails` is the `match`
in `call`: retry, reconnect or return. `synced` tells whether the reassembler
still knows where records begin: after `RecordTooLarge` it does not, and what a
read then finds is any sequence of `Stray` records, up to a bound of the setting:
malformed ones, and ones that pass for a reply to any XID. The transport may deliver replies in any order, lose and
duplicate datagrams, close the connection, and execute a request of a connection
that is gone. XIDs are numbers modulo `XidSpace`, and start anywhere.

**AsyncRpcClient** (client_async.rs). `Timeouts` and `Cancel` (the caller drops the future)
end the exchange at any await, so also with half of a request written. `outbound`, `unsent` and
`spliced` follow what the peer makes of the bytes.

**Nfs4Server, Nfs4State** (nfs4.rs). `op` is the COMPOUND under way; `run` sends
it and treats the answer: retry after GRACE/DELAY, failure, or the update of
clientid, `open_seqid`, `sessionid` and `seq_id` that the method makes. The server
keeps the seqid and the saved answer of the open-owner (RFC 7530, 9.1.7), the
slot of the session, the opens, and restarts. `Disturbs` lists the answers after
which client and server may disagree on the next seqid; `upset` remembers that
one was received.

**FileIo** (context.rs 217-322 and the backends). One file, in the server's
memory and on its disk. The loops of `pread` and `pwrite`, with `pos` as their
variable, `open` with its GETATTR, OPEN or CREATE and SETATTR, `close` with its
COMMIT, and `read_whole` and `write_whole`, which are made of these. The server has
one open of the file for the one open-owner of the client; an OPEN, SETATTR or
CLOSE that fails may have been executed, and `stranded` remembers that one of them
left the file open at the server with no `NfsFile` for it.

**Namespace** (context.rs 150-215 and the operations on names). `cur`, `comps`
and `depth` are the variables of `resolve`; every LOOKUP and READLINK is a step,
between which other clients change the tree. The operations then act on the
handles they found.

**Readdir** (`readdir` of backend_v3.rs and backend_v4.rs, which differ only in the
record they make of an entry). `out`, `cookie` and `verf` are the locals of the
loop; a page is one step, between which other clients add and remove entries. An
entry is its cookie. A strict server refuses a cookie under an old verifier.

**Xdr, WireTypes** (nfs-xdr, nfs-xdr-derive, the types of nfs-proto). A Rust type
is a schema, and `Encode` and `Decode` interpret it: one operator for each
hand-written or generated encoder and decoder, with its errors in the order in
which the code finds them. A byte has `Base` values.

**Procedures, Compound, Attributes** (nfs3.rs, mount.rs, portmap.rs, nlm.rs, nsm.rs,
rquota.rs; nfs4.rs; attr.rs, error.rs and the conversions of the backends). One
operator per method: its program, arguments and result; for NFSv4 the operations
of its COMPOUND and what it takes from each result. `build_bitmap`,
`decode_fattr4` and `encode_setattr_fattr4` work on the bits and bytes of an
attribute list. **Protocols** is the other side: what RFC 1813 and RFC 7530/8881
make of a request, by the current and saved filehandle, and the answers allowed.

**RpcMessage** (message.rs, auth.rs, and all of the above) takes one message from
its encoder to its decoder: intact, cut, with a word replaced, or with more bytes
behind it. For the types that the client only writes, the decoder is the
server's, from the same schema, and the other way round. `CallSchema` and
`ReplySchema` are the grammar of RFC 5531, against which the hand-written
`encode_call` and `parse_reply` are compared. NFS statuses and program numbers keep
their order on a smaller word: a status above 10000 is kept less 9000, a program
number less 100000. A reply to a procedure is read from the RPC header on
("response3"). Of NFSv4 there are two kinds: "run4" is the reply as `Nfs4::run` and
`RpcClient::call` read it (run nfs4_reply); "compound4" gives the results of a
COMPOUND to `CompoundReader` as they are, and so is about the reader by itself.

**Locks** (backend_v3.rs, backend_v4.rs, nlm.rs, nfs4.rs). A server with the locks
of two programs, by byte. Over NLM the backend has one owner and finds lockd
through the portmapper, once; over NFSv4.1 every lock has an owner of its own.
`Promised` is what the program's LockHandles stand for. Over NLM one of them may
take bytes from another: `yielded` has the bytes that the program unlocked, or
locked in the other mode, under a second handle.

**Url, Mount** (url.rs; context.rs 100-148, connect.rs, portmap.rs, mount.rs,
client_tls.rs). `parse` on tokens: a digit, a separator or a word is one. One mount,
step by step: the URL, GETPORT, MNT, connection, TLS probe, handshake, LOOKUPs,
FSINFO; services are at any port, registered or not, and move meanwhile. A call
over NFSv4 (handshake, PUTROOTFH, LOOKUP) succeeds or fails, also with the server
in order: what makes it do so is in Nfs4State and run nfs4_reply. `Meant`
says option by option what a URL stands for, and is what `parse` is compared with.

**FrontEnds, AtomicContext** (async_context.rs, nfs-capi). A call of AsyncNfs is a
job: queued for the blocking pool, waiting for the mutex, then at work in the
context, one RPC per step, then done and delivered to the task, if that has not
dropped the future. `version()` waits for the mutex in a thread of the runtime. A
C program calls with good and with bad pointers, and frees what it is given. In
**AtomicContext** the whole of a call is one step of the content. The mapping
gives the content at the time the mutex was taken (`before`) until the job ends.

## Runs

Run with `tlc -config X.cfg M`. All constants are in the `.cfg` files, all
settings in the `MC` modules.

| run | config | states | shows |
|---|---|---|---|
| record_marking | MCRecordMarking.cfg | 283,347 | whole records, in order, fully drained, within `max_record`; implements RecordChannel with its liveness |
| rpc_clients | MCRpcClient.cfg | 811,092 | both clients, with peers that stop reading, the asynchronous one also under cancellation at any await: own replies only, buffers of one connection only, executions bounded; every call returns, but for a synchronous one that waits in `write_all` |
| nfs4_state | MCNfs4State.cfg | 202,508 | seqids and slot in step until an answer of `Disturbs`; opens kept apart; retries end |
| file_io | MCFileIo.cfg | 65,021 | counts and bytes exact, synced data survives, opens released unless OPEN, SETATTR or CLOSE failed |
| paths | MCNamespace.cfg | 302,642 | the loop of `resolve` computes a recursive definition; it ends, and never at a link |
| readdir | MCReaddir.cfg | 81,771 | what stays in the directory is listed once; a cookie is refused only after a change |
| xdr_messages | MCRpcMessage.cfg | 524,622 | round trips; cuts are noticed; no second spellings; `parse_reply` follows the grammar; every method asks for what it promises and returns what the answer holds (over NFSv4, from `CompoundReader` on); both versions give one `stat` |
| locks | MCLocks.cfg | 1,132,446 | what LockHandles stand for the server holds, over NLM but for what another handle took; nothing else; `test_lock` foretells `lock` |
| mount | MCMount.cfg | 1,313,144 | a URL is read as written; the root is the directory it names, the sizes are usable; only the probe in clear; no needless failure over NFSv3 |
| frontends | MCFrontEnds.cfg | 140,649 | calls of several tasks take effect one at a time, each between its call and its return; none waits for ever; C return values, last_error and memory agree |
| nfs4_reply | MCNfs4Reply.cfg | violated | a successful COMPOUND does not reach the method that sent it |
| file_fsync | MCFileFsync.cfg | violated | fsync succeeds after the data was lost in a restart |

`CHECK_DEADLOCK FALSE` is in every config but MCReaddir.cfg because the models stop
by themselves: the caller makes a bounded number of calls, a mount is made once, a
message is decoded once. That nothing gets stuck before is what `CallReturns`,
`EachEnds` and the liveness of RecordChannel say.

### Bounds, and why they are enough

For the properties that are proved (below) the bounds do not matter. For the others:

- *record_marking*: two byte values, so words of 0..15 with `LAST_FRAGMENT` = 8,
  and three fragments of at most two bytes with `max_record` = 2. A record of
  three fragments, empty fragments, a record after another, a limit passed by one
  fragment and by the sum of two all occur.
- *rpc_clients*: two calls with every kind of reply and three with results only:
  the third is needed for a reply of call 1 to stay in `pending` during a
  reconnection of call 2. As many XIDs as calls, from any seed, so they wrap. Two
  attempts instead of three: the first has a next one, and the second has none.
  One stray record per read over TCP and up to two over a caller's stream, so that
  a second one is still in `pending` when the next call begins.
  `NoStreamClient` is the one restriction of the asynchronous settings: there is
  no asynchronous client over a caller's stream.
- *nfs4_state*: two files, three calls with every failure or five without, two
  starts of the server, three passes of `run` instead of six; over NFSv4.1 also two
  calls whose COMPOUNDs the RPC layer may send twice.
- *file_io*: three bytes against transfer sizes of two, so each loop takes two
  passes or, with short answers, three; three calls; one restart. Every RPC may
  fail, COMMIT only over NFSv4.
- *paths*: every tree of one subdirectory, two names, a file and two links, with
  every assignment of three targets; a link limit of 2 instead of 40, so that the
  limit is reached; and three trees in which other clients put a link or nothing
  at any name at any time. One call, as nothing is kept from one to the next.
- *readdir*: five cookies, pages of at most two, three changes: a listing takes three
  pages or more, and entries come and go before, between and behind them.
- *xdr_messages*: bytes of eight values and four of them to a word, so words of
  0..4095, which hold every length and every scaled code that occurs; ten samples
  of each type and eight of each method's arguments, which run through the lengths
  around each limit, both presences of an option, every case of a union and every
  subset of attributes that a sample's bits give; every cut; every word replaced
  by 0, 1, 2, 3 and the greatest; a server that stops at each operation of a
  COMPOUND. A length beyond a u32 (`LengthOverflow`) does not occur.
- *locks*: two bytes and three ranges, one of them up to the end (length 0); three
  calls; two ports for lockd.
- *mount*: three ports, a port space of four so that a registered 4 or 6 is cut to
  0 or 2 as 65536 is to 0, and a port of 6 in a URL is refused as 65536 is; four
  directories; every pair of sixteen options with every form of authority.
- *frontends*: two tasks that make three calls, over a pool of one thread or two and
  a runtime of one or two, so that jobs wait for a thread, for the mutex and for
  delivery; files of two pieces, so that a write is seen half done if it can be.

### Fairness

Weak fairness of the client's own step: a thread that can go on does. Where the
step is an RPC this includes its answer or its failure, which is what `CallReturns`
of the RPC clients gives to the layers above, as long as the peer reads or closes;
nothing else is assumed of the server.
In the RPC clients fairness is per place in the code (write, read, reconnect),
and strong for the timeouts (`RecvTimeout`, `Timeouts`): the receive loop passes
the deadline even when messages keep coming, since it compares the clock before
every read (client.rs 220-223) and tokio polls the timer with the exchange. No
fairness is assumed of the network, of other clients or of the caller. In
`FrontEnds` fairness is weak for the pool, the mutex and the job that has it, and
strong for the delivery of a result: the runtime polls its ready tasks in turn,
so one of them is not passed over for ever because others block the threads in
`version()`. The mutex itself need not be fair.

## What is proved

The modules `*Proofs.tla` are checked by `tlapm`: for all values of the constants,
from the named assumptions of the modules, which TLC evaluates in every run. Each
has an inductive invariant (`IInv`; RpcClientProofs has a second one, `AInv`, for both
clients), lemmas for the actions, and a theorem for every property in the table. TLC
checked the invariants on the instances of the runs before they were proved.

| module | theorems |
|---|---|
| RecordMarkingProofs | `TypeCorrect`, `RecordsInOrder` (WholeRecordsInOrder), `DrainComplete` (DrainedCompletely), `BoundedRecord` (RecordBounded), `Refinement` (the safety part of RecordChannel) |
| RpcClientProofs | `TypeCorrect`, `RepliesMatch` (MatchedReply), for the synchronous client by itself; `RepliesMatchBoth` (MatchedReply), `ConnectionsApart` (ConnectionPurity), `ExecutionsBounded` (BoundedExecution), `CutNeverAnswered` (OwnReply), for both clients |
| Nfs4StateProofs | `OpensApart` (OpensKeptApart), `OwnersInSync` (SeqidInSync), `SlotsInSync` (SlotInSync), `LastPassAnswered` (RetriesInSession) |
| FileIoProofs | `WhatPwriteReports` (PwriteStored), `WhatPreadReturns` (ReadsExact), `FsyncLasts` (SyncedSurvives), `NoOpenLeft` (OpensReleased) |
| LocksProofs | `HandlesBacked` (HandlesActive), `NoStrayLock` (NothingStray), `TestTells` (TestPredicts) |
| ReaddirProofs | `ListsEachOnce` (EachOnce), `CookieHeld` (RefusedOnlyIfChanged) |
| MountProofs | `Encrypted` (ProbeOnlyInClear), `Mounts` (MountsIfProvided), `NamesItsRoot` (ContextAsNamed) |
| FrontEndsProofs | `CallsAreAtomic` (TakesTurns: implements AtomicContext), `AnswersTold` (CAnswers) |

**Record marking** (assumptions: `Base` even and at least 2, natural bounds).
WholeRecordsInOrder is not inductive, because it says nothing of a record in the
making. The invariant `IInv` adds:
the fragments tile the bytes of the connection and spell the records (`PeerOK`);
the stream is the part of those bytes that was read and not consumed (`StreamOK`);
and after `parsed` headers the reassembler stands where fragment `parsed` says, with
the bytes of the open record so far (`ReaderOK`). The last one holds until
`RecordTooLarge`, after which the code has lost its place.

**RPC clients** (assumptions: at least one attempt, `MaxCalls <= XidSpace`, and no
asynchronous client over a caller's stream).
MatchedReply alone is not inductive: `IInv` adds that every
request and every message, in the network, in half a record, or in `pending`,
carries the XID of the call it belongs to, and that `next_xid` counts from the seed
modulo the XID space. The assumption is where the argument rests: XIDs are unique
only while a client makes no more than 2^32 calls. MatchedReply and OwnReply except
the strays that are read after `RecordTooLarge`, of which nothing can be said. `AInv`, for
both clients, takes over the lemmas of the shared actions and adds: the halves in
`partial` and `inbound` pair up into records of the present connection (`Framed`); the
requests that can still be executed count with those that were (`Bounded`); and the
call of a request that was cut half-way is over, or connects anew before it sends
again (`CutCallOver`).

**NFSv4 state** (assumptions: an answer Ok advances the seqid; at least one pass).
The two ends count the same things: `OwnerInv` says of the open-owner, and
`SlotInv` of slot 0, that the client's number is the server's as long as the server
is the one that gave the clientid and nothing of `Disturbs` has happened. That is
not inductive without knowing how far the call has come (`Flow`): between OPEN and
OPEN_CONFIRM the owner is known and not confirmed, during the handshake nothing
was counted yet, and the clientid is never of a start of the server that is still
to come. A COMPOUND in order is carried out, and one that the RPC layer sends again
gets the first answer (4.0) or none of its own (4.1): so the stateid of an OPEN is
new (`OpensInv`). RetriesInSession is stated without such resends, since the second
answer over 4.1 may be RETRY_UNCACHED_REP. SlotsInSync and LastPassAnswered have the
hypothesis `EirSequence = 1`: `establish_session` counts the slot from `csr_sequence`, which is
the server's `eir_sequenceid`, while every slot begins at 1, so the two agree only
with a server that answers 1.

**Files** (assumptions: transfer sizes of at least 1). The properties are about a
call that has returned; `IInv` says what its loop has done so far: the first `pos`
bytes of the data are in the file at the offset (`PwriteAlong`), `out` is the slice
that was read (`PreadAlong`); which step a call can be at and with which file
(`Flow`); when the server has the file open (`Counted`); and that, with no restart
since the open, what was acknowledged is in the server's memory, so that COMMIT
stores it (`Kept`). OpensReleased holds whatever fails, and says in which cases an
open is left behind (`stranded`).

**Locks** (natural ranges, non-zero ports). An unlock under way has given up its
handle already; without a connection to lockd nothing was ever locked; a lock or
test over NFSv4 is for an owner that nothing at the server, in the program or on its
way belongs to; and no two handles over NFSv4 have one owner, so that no request
touches what another handle stands for.

**Directory listing** (cookies and page sizes of at least 1). `out` is increasing up
to `cookie`, holds of `kept` what is not beyond `cookie`, and nothing that was not
`seen`; the verifier in hand is the server's unless the directory changed.

**Mounting** (ports in use are neither 0 nor beyond a u16; limits in order). `IInv` says which way the mount has taken
(`OnePath`: NFSv4 asks neither portmapper nor mount daemon); that after the probe
every call is inside TLS (`InClear`); that the root so far and the names still to
look up make up the path (`Named`); and, of a mount over NFSv3 that has all it needs, that it
knows the port of the service it seeks, or is about to ask a portmapper that knows
it, or is connected to it (`OnItsWay`). MountsIfProvided then needs that no condition
of `Refused` holds (`NotRefused`). It is about NFSv3 only: a mount over NFSv4 may
fail with everything in place. NamesItsRoot has the hypothesis
`PathAsWritten`, that `parse` and `split_components` keep the names of a path. It is
about these two functions alone, which are folds; TLC evaluates it for every URL of
the run.

**Front ends** (at least one caller; a piece of a file is not 0, which stands for no
file). The mapping to AtomicContext gives the content at the time the mutex was
taken (`before`) until the job ends. `IInv` says that only the holder of the mutex
is at work, what it has done to the file since `before` at each stage, and that the
others are where they were; so the step that ends a job is the one step of the
abstract call, and every other is a stutter. For the C interface it says which call
`message`, `memory` and `answer` are about while one is under way.

Model-checked only:

- All liveness (`CallReturns`, `EachEnds`, that of RecordChannel): fairness and
  ENABLED are out of the prover's reach.
- What rests on recursive definitions and folds: the seven properties of RpcMessage
  (`Encode`, `Decode`, the methods' messages), ResolvesAsDefined (the recursive
  reference), UrlAsWritten, and the hypothesis of NamesItsRoot (the parser). Induction
  over data is out of its reach too.
- NeverEndsAtLink of Namespace: safety without recursion, not proved so far.

## Findings

The two violated runs; each quotes the line it contradicts in `PROJECT.json`.

1. *nfs4_reply*: `Nfs4::run` and `run_raw` take the reply from `RpcClient::call` as
   `Bytes`. `call` decodes the body by that type, that is, as an opaque with a length
   in front; but a COMPOUND's reply begins with its status. With status 0 the
   length is 0 and `CompoundReader::parse` is given nothing; with another status it is
   given that many of the bytes after the status, if there are so many. So no answer
   of a server that follows the protocol gets to the methods of `Nfs4` as it is.
   The modules about NFSv4 other than this run describe the code on both sides of
   that line. In Nfs4State, FileIo, Locks and Mount a call over NFSv4 may fail after
   the server executed it, which is what that line makes of every call, and may also
   succeed, as it would if `call` handed on the body itself; Namespace and Readdir
   over version 4, and "compound4" of RpcMessage, are about the second case.
2. *file_fsync*: write verifiers are dropped, so a restart between WRITE and COMMIT
   goes unnoticed.

## Known limits of the code, which the models show

The properties of the passing runs say exactly where they stop. What lies beyond was
found with the same models. Some of it disagrees with a line of the code's own docs:

- "aplica un timeout por llamada" (client.rs 3-4; 133-134 likewise): `write_all` of
  the synchronous client has none. A peer that neither reads nor closes holds the
  call for ever; CallReturns names that state (`WriteBlocked`).
- "reenviar el COMPOUND es seguro" after GRACE and DELAY (nfs4.rs 808-809): over
  NFSv4.0 an OPEN, CLOSE or LOCK is resent with the same seqid, which a server
  answers from its saved reply. NFSv4.1 does not have this (RetriesInSession).
- "Escribe `data` como contenido completo de `path`" (context.rs 316): `write_whole`
  drops the count of `pwrite`, and succeeds with part of the data stored.
- "Fallar si ya existe" (context.rs 28): the v4 backend drops `exclusive`.
- "Cambia el propietario/grupo de `path`" (context.rs 390) and "Crea un directorio
  (modo 0o755)" (context.rs 332): over NFSv4 `setattr` drops uid, gid and times, and
  `mkdir` the mode. `Meant4`, with which RequestAsMeant compares, takes this as the
  meaning of `Nfs4::setattr` and `Nfs4::mkdir`, which have no such arguments.
- "Testigo de un bloqueo activo" (context.rs 66): over NLM all locks of a backend are
  one owner's and merge, so that an unlock takes bytes from an overlapping handle
  (`yielded`). A late copy of LOCK or UNLOCK, and a restart, do so over both versions.
- "recurso bloqueado por otro cliente" (error.rs 48-49): over NFSv4 a program's own
  earlier lock refuses it a new one.
- "Los `nfsstat3`/`nfsstat4` comunes se traducen" (error.rs 7-8): for NFSv4 PERM,
  ISDIR, NAMETOOLONG, NOSPC and ROFS are not (`Untranslated4`).
- "sin bloquear el runtime" (async_context.rs 5-6): `AsyncNfs::version` waits for the
  mutex in a thread of the runtime.

The rest is promised nowhere:

- After `RecordTooLarge` the connection is used on, and reads payload as headers; what
  it reads may pass for a reply (`Stray`).
- In the asynchronous client a call that times out in its last attempt, or is
  dropped, while it writes keeps the connection, and the next request completes
  the half one.
- The padding of opaque data is not compared with zero. Bytes after a decoded
  result are ignored (`call` does not use `from_bytes`).
- A page of a directory without entries and without eof ends the listing as if it
  were complete.
- `parse_reply` is evaluated before the XIDs are compared, so a late malformed
  reply to another call fails the current one.
- NFSv4.0: a lost reply to OPEN, CLOSE or LOCK, a denied LOCK or an OPEN refused
  for its delegation leaves the seqids out of step for good; the next OPEN may get
  the saved answer for another file. NFSv4.1: a request that never arrived leaves
  the slot out of step. After a restart nothing establishes the clientid again.
- `open` leaves the file open at the server when its OPEN was executed and its reply
  lost or refused, and when SETATTR fails; so does a CLOSE that fails (`stranded`).
- `open` does not follow a link in the last component, `stat` does. Over NFSv4
  `rmdir` and `unlink` are the same operation.
- The port of lockd is asked for once.
- A mount over NFSv3 succeeds although nothing at the NFS port speaks NFS (the
  FSINFO error is swallowed). A failed mount leaves its MNT entry or session.
- `timeo=0` in a URL makes every connection fail. A version other than 4 mounts
  NFSv3. TLS asked for in a URL without `tls_insecure` always fails: no root
  certificates are configured.
- NFSv3 `setattr` cuts seconds to 32 bits.
- A dropped future of `AsyncNfs` does not cancel its job: the write takes effect later.

## Not modelled, and why

- The TLS handshake, the configuration of rustls, the socket library and tokio's
  scheduler are external; what the code relies on is in the models.
- The parsing of attributes by the derive macros happens at compile time. f32 and
  f64 are used by no message.
- The wording of errors and the text of the JSON of the C interface: no property
  is about them.
- Panics: no operation of the context panics in the models, so the poisoning of
  the mutex of AsyncNfs and the arms of the C interface that catch a panic are
  never reached. A C handle is used from one thread, since every function
  takes it by exclusive reference.
- The crate roots only re-export.
