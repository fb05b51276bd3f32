--------------------------- MODULE RecordMarking ---------------------------
(***************************************************************************)
(* ONC-RPC record marking over a byte stream: nfs-rpc/src/record.rs, with  *)
(* the loop of RpcClient::recv_message that feeds and drains it.           *)
(*                                                                         *)
(* The peer writes records as fragments, each with a four-byte big-endian  *)
(* header.  The client reads the stream in chunks of any size; the         *)
(* reassembler turns it back into records.  Bytes are the digits of base   *)
(* Base, so the header word ranges over 0 .. Base^4 - 1 (256 in the code). *)
(***************************************************************************)
EXTENDS Integers, Sequences

CONSTANTS Base,        \* number of values of a byte
          max_record,  \* RecordReassembler::max_record
          MaxFragments,\* bound: fragments the peer writes
          MaxPayload   \* bound: payload bytes of one fragment

ASSUME BaseAssumption == Base \in Nat /\ Base > 1 /\ Base % 2 = 0
ASSUME BoundsAssumption ==
  max_record \in Nat /\ MaxFragments \in Nat /\ MaxPayload \in Nat

VARIABLES
  bytes,          \* every byte the peer has written on the connection
  pushed,         \* how many of them the client has read from the socket
  stream,         \* RecordReassembler::stream
  record,         \* RecordReassembler::record
  frag_remaining, \* RecordReassembler::frag_remaining
  last_fragment,  \* RecordReassembler::last_fragment
  draining,       \* recv_message is inside its while-let over next_record
  delivered,      \* records returned by next_record
  failed,         \* next_record has returned RecordTooLarge
  sent,           \* history: the records the peer has finished writing
  frags,          \* history: the fragments the peer has written
  parsed          \* history: how many fragment headers were consumed

peerVars == <<bytes, sent, frags>>
vars == <<bytes, pushed, stream, record, frag_remaining, last_fragment,
          draining, delivered, failed, sent, frags, parsed>>

Byte == 0 .. Base - 1
LAST_FRAGMENT == (Base * Base * Base * Base) \div 2
None == -1    \* Option::None of frag_remaining

\* u32::from_be_bytes
FromBe(h) == h[1] * Base * Base * Base + h[2] * Base * Base + h[3] * Base + h[4]

\* header & LAST_FRAGMENT != 0 and header & LENGTH_MASK
IsLast(header) == header >= LAST_FRAGMENT
LengthOf(header) == IF IsLast(header) THEN header - LAST_FRAGMENT ELSE header

Payload == UNION {[1..n -> Byte] : n \in 0 .. MaxPayload}
----------------------------------------------------------------------------
Init ==
  /\ bytes = <<>> /\ pushed = 0
  /\ stream = <<>> /\ record = <<>>
  /\ frag_remaining = None /\ last_fragment = FALSE
  /\ draining = FALSE /\ delivered = <<>> /\ failed = FALSE
  /\ sent = <<>> /\ frags = <<>> /\ parsed = 0

\* What the fragments 1..k say: bytes they take, payload of the record still
\* open after them, and how many records they complete.
EndOf(k) == IF k = 0 THEN 0 ELSE frags[k].start + 4 + frags[k].len
OpenAfter(k) == IF k = 0 THEN <<>> ELSE IF frags[k].last THEN <<>> ELSE frags[k].acc
DoneAfter(k) == IF k = 0 THEN 0
                ELSE IF frags[k].last THEN frags[k].index ELSE frags[k].index - 1

(***************************************************************************)
(* The peer writes one fragment, the last of its record or not.  With      *)
(* last = TRUE and nothing open this is what frame() produces.             *)
(***************************************************************************)
frame(last, data) ==
  /\ Len(frags) < MaxFragments
  /\ Len(data) < LAST_FRAGMENT
  /\ \E h \in [1..4 -> Byte] :
       /\ FromBe(h) = (IF last THEN LAST_FRAGMENT ELSE 0) + Len(data)
       /\ bytes' = bytes \o h \o data
  /\ LET acc == OpenAfter(Len(frags)) \o data
     IN /\ frags' = Append(frags, [start |-> Len(bytes), len |-> Len(data),
                                   last |-> last, acc |-> acc,
                                   index |-> DoneAfter(Len(frags)) + 1])
        /\ sent' = IF last THEN Append(sent, acc) ELSE sent
  /\ UNCHANGED <<pushed, stream, record, frag_remaining, last_fragment,
                 draining, delivered, failed, parsed>>

(***************************************************************************)
(* read() returned n > 0 bytes: push them and start draining.              *)
(***************************************************************************)
push(n) ==
  /\ ~draining
  /\ pushed + n <= Len(bytes)
  /\ stream' = stream \o SubSeq(bytes, pushed + 1, pushed + n)
  /\ pushed' = pushed + n
  /\ draining' = TRUE
  /\ UNCHANGED <<peerVars, record, frag_remaining, last_fragment, delivered,
                 failed, parsed>>

\* The bytes left in the stream after the first n: advance(n), split_to(n).
\* (Advance_OffByOne and the like are mutants: the plausible slips in the code
\* that the properties below must notice.)
Advance_OffByOne(n) == SubSeq(stream, n, Len(stream))
Advance(n) == SubSeq(stream, n + 1, Len(stream))

(***************************************************************************)
(* The iterations of the loop in next_record.  Each of the returns Ok(None)*)
(* and Err leaves the drain loop; Ok(Some(record)) calls next_record again.*)
(***************************************************************************)
Starved_AnyFragment ==
  \/ frag_remaining = None /\ Len(stream) < 4
  \/ frag_remaining # None /\ stream = <<>>

\* Not enough bytes for a header, or none for the current fragment.
Starved ==
  \/ frag_remaining = None /\ Len(stream) < 4
  \/ frag_remaining > 0 /\ stream = <<>>

NeedMoreBytes ==
  /\ draining
  /\ Starved
  /\ draining' = FALSE
  /\ UNCHANGED <<peerVars, pushed, stream, record, frag_remaining,
                 last_fragment, delivered, failed, parsed>>


\* Whether a fragment of len bytes would overrun the record limit.
TooLarge_OneFragment(len) == len > max_record
TooLarge(len) == Len(record) + len > max_record

\* Consume a header.  RecordTooLarge is returned after the header was taken
\* off the stream, with frag_remaining still None and the record kept.
ReadHeader ==
  /\ draining
  /\ frag_remaining = None
  /\ Len(stream) >= 4
  /\ LET header == FromBe(SubSeq(stream, 1, 4))
         len    == LengthOf(header)
     IN /\ stream' = Advance(4)
        /\ last_fragment' = IsLast(header)
        /\ parsed' = parsed + 1
        /\ IF TooLarge(len)
           THEN /\ failed' = TRUE /\ draining' = FALSE
                /\ UNCHANGED frag_remaining
           ELSE /\ frag_remaining' = len
                /\ UNCHANGED <<failed, draining>>
  /\ UNCHANGED <<peerVars, pushed, record, delivered>>

RecordComplete_AnyFragment == TRUE
RecordComplete == last_fragment

\* A fragment was consumed: the record is complete, or another header follows.
EndFragment ==
  /\ draining
  /\ frag_remaining = 0
  /\ frag_remaining' = None
  /\ IF RecordComplete
     THEN /\ delivered' = Append(delivered, record)
          /\ record' = <<>>
          /\ last_fragment' = FALSE
     ELSE UNCHANGED <<delivered, record, last_fragment>>
  /\ UNCHANGED <<peerVars, pushed, stream, draining, failed, parsed>>

TakeLen == IF frag_remaining < Len(stream) THEN frag_remaining ELSE Len(stream)

\* Move bytes of the current fragment from the stream to the record.
TakeChunk ==
  /\ draining
  /\ frag_remaining > 0
  /\ stream # <<>>
  /\ record' = record \o SubSeq(stream, 1, TakeLen)
  /\ stream' = Advance(TakeLen)
  /\ frag_remaining' = frag_remaining - TakeLen
  /\ UNCHANGED <<peerVars, pushed, last_fragment, draining, delivered, failed,
                 parsed>>

next_record == NeedMoreBytes \/ ReadHeader \/ EndFragment \/ TakeChunk
Read == \E n \in 1 .. Len(bytes) - pushed : push(n)
Peer == \E last \in BOOLEAN, data \in Payload : frame(last, data)

Next == Peer \/ Read \/ next_record
Spec == Init /\ [][Next]_vars

\* The client keeps reading while bytes are available, and its loop runs on.
Fairness == WF_vars(Read) /\ WF_vars(next_record)
FairSpec == Spec /\ Fairness
----------------------------------------------------------------------------
Fragment == [start : Nat, len : Nat, last : BOOLEAN, acc : Seq(Byte), index : Nat \ {0}]

TypeOK ==
  /\ bytes \in Seq(Byte) /\ stream \in Seq(Byte) /\ record \in Seq(Byte)
  /\ pushed \in 0 .. Len(bytes)
  /\ frag_remaining \in Nat \union {None}
  /\ last_fragment \in BOOLEAN /\ draining \in BOOLEAN /\ failed \in BOOLEAN
  /\ delivered \in Seq(Seq(Byte)) /\ sent \in Seq(Seq(Byte))
  /\ frags \in Seq(Fragment)
  /\ parsed \in Nat

(***************************************************************************)
(* What next_record has returned is a prefix of the records the peer       *)
(* wrote, byte for byte, however the peer split them into fragments and    *)
(* read() split the stream into chunks (record.rs 29-30).                  *)
(***************************************************************************)
WholeRecordsInOrder ==
  ~failed => /\ Len(delivered) <= Len(sent)
             /\ \A i \in 1 .. Len(delivered) : delivered[i] = sent[i]

(***************************************************************************)
(* When the drain loop stops, every record whose bytes were all read has   *)
(* been returned: recv_message never waits on the socket for a reply it    *)
(* already holds (client.rs 232-238).                                      *)
(***************************************************************************)
DrainedCompletely ==
  ~draining /\ ~failed =>
     \A k \in 1 .. Len(frags) :
        frags[k].last /\ EndOf(k) <= pushed => frags[k].index <= Len(delivered)

(***************************************************************************)
(* The memory a record may come to occupy stays within max_record, also    *)
(* when it arrives in many fragments and also after an error: the limit of *)
(* record.rs 14-16.                                                        *)
(***************************************************************************)
RecordBounded ==
  Len(record) + (IF frag_remaining = None THEN 0 ELSE frag_remaining) <= max_record

Channel == INSTANCE RecordChannel WITH sent <- sent, delivered <- delivered, failed <- failed

(***************************************************************************)
(* The reassembler implements the record channel: every step is a step of  *)
(* the channel or leaves it alone, and under the client's read loop every  *)
(* record that was sent is delivered unless RecordTooLarge comes first.    *)
(***************************************************************************)
ImplementsChannel == Channel!FairSpec
============================================================================
