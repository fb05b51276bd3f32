------------------------ MODULE RecordMarkingProofs ------------------------
(***************************************************************************)
(* Proofs about RecordMarking, for every base, record limit and bound.     *)
(***************************************************************************)
EXTENDS RecordMarking, TLAPS

-----------------------------------------------------------------------------
(* Sequences. *)

\* A sequence is a function on 1 .. Len.
LEMMA Elements ==
  ASSUME NEW S, NEW s \in Seq(S)
  PROVE  DOMAIN s = 1 .. Len(s) /\ Len(s) \in Nat /\ s \in [1 .. Len(s) -> S]
  OBVIOUS

\* A function on 1 .. n is a sequence.
LEMMA Listed ==
  ASSUME NEW S, NEW n \in Nat, NEW f \in [1 .. n -> S]
  PROVE  f \in Seq(S) /\ Len(f) = n
  OBVIOUS

\* Sequences with the same elements are equal.
LEMMA SameElements ==
  ASSUME NEW S, NEW a \in Seq(S), NEW b \in Seq(S), Len(a) = Len(b),
         \A i \in 1 .. Len(a) : a[i] = b[i]
  PROVE  a = b
  OBVIOUS

\* The elements of a sequence that one was appended to.
LEMMA Appended ==
  ASSUME NEW S, NEW s \in Seq(S), NEW e \in S
  PROVE  /\ Append(s, e) \in Seq(S) /\ Append(s, e) # <<>>
         /\ Len(Append(s, e)) = Len(s) + 1 /\ Append(s, e)[Len(s) + 1] = e
         /\ \A i \in 1 .. Len(s) : Append(s, e)[i] = s[i]
  OBVIOUS

-----------------------------------------------------------------------------
\* The header word found at offset s of the connection.
HeaderAt(s) == FromBe([i \in 1 .. 4 |-> bytes[s + i]])

\* What fragment k says of the bytes and of the records.
FragmentOK(k) ==
  LET f == frags[k] IN
  /\ f.start = EndOf(k - 1)
  /\ EndOf(k) <= Len(bytes)
  /\ f.index = DoneAfter(k - 1) + 1
  /\ DoneAfter(k) <= Len(sent)
  /\ f.len < LAST_FRAGMENT
  /\ HeaderAt(f.start) = (IF f.last THEN LAST_FRAGMENT ELSE 0) + f.len
  /\ Len(f.acc) = Len(OpenAfter(k - 1)) + f.len
  /\ \A i \in 1 .. Len(OpenAfter(k - 1)) : f.acc[i] = OpenAfter(k - 1)[i]
  /\ \A i \in 1 .. f.len :
        bytes[f.start + 4 + i] = f.acc[Len(OpenAfter(k - 1)) + i]
  /\ f.last => sent[f.index] = f.acc

\* The peer's side: the fragments tile the bytes and spell the records.
PeerOK ==
  /\ EndOf(Len(frags)) = Len(bytes)
  /\ DoneAfter(Len(frags)) = Len(sent)
  /\ \A k \in 1 .. Len(frags) : FragmentOK(k)
  /\ \A j, k \in 0 .. Len(frags) :
        j < k => EndOf(j) + 4 <= EndOf(k) /\ DoneAfter(j) <= DoneAfter(k)

\* The stream holds the bytes that were read and not yet consumed.
StreamOK ==
  /\ Len(stream) <= pushed
  /\ \A i \in 1 .. Len(stream) : stream[i] = bytes[pushed - Len(stream) + i]

\* Where the reassembler stands after `parsed` headers.
ReaderOK ==
  /\ parsed <= Len(frags)
  /\ frag_remaining = None =>
       /\ pushed - Len(stream) = EndOf(parsed)
       /\ record = OpenAfter(parsed)
       /\ Len(delivered) = DoneAfter(parsed)
  /\ frag_remaining # None =>
       /\ parsed > 0
       /\ frag_remaining <= frags[parsed].len
       /\ pushed - Len(stream) = EndOf(parsed) - frag_remaining
       /\ last_fragment = frags[parsed].last
       /\ Len(record) = Len(frags[parsed].acc) - frag_remaining
       /\ \A i \in 1 .. Len(record) : record[i] = frags[parsed].acc[i]
       /\ Len(delivered) = frags[parsed].index - 1

IInv ==
  /\ TypeOK
  /\ PeerOK
  /\ StreamOK
  /\ ~failed => ReaderOK /\ WholeRecordsInOrder /\ (~draining => Starved)
----------------------------------------------------------------------------
(***************************************************************************)
(* The header word is a natural number, as u32::from_be_bytes makes it.    *)
(***************************************************************************)
LEMMA WordArithmetic ==
  /\ LAST_FRAGMENT \in Nat
  /\ \A h \in [1 .. 4 -> Byte] : FromBe(h) \in Nat
<1>1. Base \in Nat /\ Base > 1 BY BaseAssumption
<1>2. Base * Base \in Nat BY <1>1
<1>3. Base * Base * Base \in Nat BY <1>1, <1>2
<1>4. Base * Base * Base * Base \in Nat BY <1>1, <1>3
<1>5. LAST_FRAGMENT \in Nat BY <1>4 DEF LAST_FRAGMENT
<1>6. ASSUME NEW h \in [1 .. 4 -> Byte] PROVE FromBe(h) \in Nat
  <2>1. h[1] \in Nat /\ h[2] \in Nat /\ h[3] \in Nat /\ h[4] \in Nat BY <1>1 DEF Byte
  <2>2. h[1] * Base \in Nat /\ h[2] * Base \in Nat /\ h[3] * Base \in Nat BY <2>1, <1>1
  <2>3. h[1] * Base * Base \in Nat /\ h[2] * Base * Base \in Nat BY <2>2, <1>1
  <2>4. h[1] * Base * Base * Base \in Nat BY <2>3, <1>1
  <2> QED BY <2>1, <2>2, <2>3, <2>4 DEF FromBe
<1> QED BY <1>5, <1>6

(***************************************************************************)
(* A header word depends on its four bytes only.                           *)
(***************************************************************************)
LEMMA FromBeOfBytes ==
  ASSUME NEW g, NEW h, \A i \in 1 .. 4 : g[i] = h[i]
  PROVE  FromBe(g) = FromBe(h)
<1>1. g[1] = h[1] /\ g[2] = h[2] /\ g[3] = h[3] /\ g[4] = h[4] OBVIOUS
<1> QED BY <1>1 DEF FromBe
(***************************************************************************)
(* Headers and payloads are byte sequences.                                *)
(***************************************************************************)
LEMMA HeaderIsSeq ==
  ASSUME NEW h \in [1 .. 4 -> Byte]
  PROVE  h \in Seq(Byte) /\ Len(h) = 4
<1>1. h \in Seq(Byte) BY Zenon, Listed
<1>2. DOMAIN h = 1 .. 4 OBVIOUS
<1>3. Len(h) \in Nat /\ DOMAIN h = 1 .. Len(h) BY Zenon, <1>1, Elements
<1> QED BY <1>1, <1>2, <1>3

\* The bytes of a payload.
LEMMA PayloadIsSeq ==
  ASSUME NEW data \in Payload
  PROVE  data \in Seq(Byte)
<1>1. PICK n \in 0 .. MaxPayload : data \in [1 .. n -> Byte] BY DEF Payload
<1>2. n \in Nat BY BoundsAssumption
<1> QED BY <1>1, <1>2, Listed

(***************************************************************************)
(* Appending a header and a payload to the bytes of the connection.        *)
(***************************************************************************)
LEMMA Concat2 ==
  ASSUME NEW s \in Seq(Byte), NEW t \in Seq(Byte)
  PROVE  /\ s \o t \in Seq(Byte)
         /\ Len(s \o t) = Len(s) + Len(t)
         /\ \A i \in 1 .. Len(s) : (s \o t)[i] = s[i]
         /\ \A i \in 1 .. Len(t) : (s \o t)[Len(s) + i] = t[i]
<1>1. s \o t \in Seq(Byte) /\ Len(s \o t) = Len(s) + Len(t) OBVIOUS
<1>2. ASSUME NEW i \in 1 .. Len(s) PROVE (s \o t)[i] = s[i] OBVIOUS
<1>3. ASSUME NEW i \in 1 .. Len(t) PROVE (s \o t)[Len(s) + i] = t[i] OBVIOUS
<1> QED BY <1>1, <1>2, <1>3

\* b consists of the bytes s, the four of h and those of t.
Spells(b, s, h, t) ==
  /\ Len(b) = Len(s) + 4 + Len(t)
  /\ \A i \in 1 .. Len(s) : b[i] = s[i]
  /\ \A i \in 1 .. 4 : b[Len(s) + i] = h[i]
  /\ \A i \in 1 .. Len(t) : b[Len(s) + 4 + i] = t[i]

\* Indexing three concatenated sequences.
LEMMA Concat3 ==
  ASSUME NEW s \in Seq(Byte), NEW h \in Seq(Byte), NEW t \in Seq(Byte), Len(h) = 4
  PROVE  s \o h \o t \in Seq(Byte) /\ Spells(s \o h \o t, s, h, t)
<1> DEFINE u == s \o h
<1>1. /\ u \in Seq(Byte)
      /\ Len(u) = Len(s) + Len(h)
      /\ \A i \in 1 .. Len(s) : u[i] = s[i]
      /\ \A i \in 1 .. Len(h) : u[Len(s) + i] = h[i]
  BY Zenon, Concat2
<1> HIDE DEF u
<1>2. /\ u \o t \in Seq(Byte)
      /\ Len(u \o t) = Len(u) + Len(t)
      /\ \A i \in 1 .. Len(u) : (u \o t)[i] = u[i]
      /\ \A i \in 1 .. Len(t) : (u \o t)[Len(u) + i] = t[i]
  BY Zenon, <1>1, Concat2
<1>3. Len(s) \in Nat /\ Len(t) \in Nat OBVIOUS
<1>4. Len(u) = Len(s) + 4 BY <1>1
<1> DEFINE w == u \o t
<1> HIDE DEF w
<1>5. w \in Seq(Byte) /\ Len(w) = Len(s) + 4 + Len(t) BY <1>2, <1>3, <1>4 DEF w
<1>6. ASSUME NEW i \in 1 .. Len(s) PROVE w[i] = s[i]
  <2>1. i \in 1 .. Len(u) BY <1>3, <1>4
  <2>2. w[i] = u[i] BY <1>2, <2>1 DEF w
  <2> QED BY <1>1, <2>2
<1>7. ASSUME NEW i \in 1 .. 4 PROVE w[Len(s) + i] = h[i]
  <2>1. Len(s) + i \in 1 .. Len(u) BY <1>3, <1>4
  <2>2. w[Len(s) + i] = u[Len(s) + i] BY <1>2, <2>1 DEF w
  <2> QED BY <1>1, <2>2
<1>8. ASSUME NEW i \in 1 .. Len(t) PROVE w[Len(s) + 4 + i] = t[i]
  <2>1. w[Len(u) + i] = t[i] BY <1>2 DEF w
  <2> QED BY <1>4, <2>1
<1>9. Spells(w, s, h, t) BY <1>5, <1>6, <1>7, <1>8 DEF Spells
<1> QED BY <1>5, <1>9 DEF u, w

(***************************************************************************)
(* Types of what the first k fragments say.                                *)
(***************************************************************************)
LEMMA AfterTypes ==
  ASSUME TypeOK, NEW k \in 0 .. Len(frags)
  PROVE  /\ EndOf(k) \in Nat /\ OpenAfter(k) \in Seq(Byte) /\ DoneAfter(k) \in Nat
         /\ k # 0 => frags[k] \in Fragment
<1>1. CASE k = 0 BY <1>1 DEF EndOf, OpenAfter, DoneAfter
<1>2. CASE k # 0
  <2>1. frags \in Seq(Fragment) BY DEF TypeOK
  <2>2. frags[k] \in Fragment BY <1>2, <2>1
  <2> QED BY <1>2, <2>2 DEF EndOf, OpenAfter, DoneAfter, Fragment
<1> QED BY <1>1, <1>2

(***************************************************************************)
(* Every step keeps the types: in particular frag_remaining never goes     *)
(* below zero and pushed never passes the end of the bytes.                *)
(***************************************************************************)
LEMMA TypeStep == TypeOK /\ [Next]_vars => TypeOK'
<1> SUFFICES ASSUME TypeOK, [Next]_vars PROVE TypeOK' OBVIOUS
<1>0. /\ bytes \in Seq(Byte) /\ stream \in Seq(Byte) /\ record \in Seq(Byte)
      /\ pushed \in 0 .. Len(bytes) /\ frag_remaining \in Nat \union {None}
      /\ delivered \in Seq(Seq(Byte)) /\ sent \in Seq(Seq(Byte))
      /\ frags \in Seq(Fragment)
  BY DEF TypeOK
<1>1. ASSUME NEW last \in BOOLEAN, NEW data \in Payload, frame(last, data)
      PROVE  TypeOK'
  <2>1. PICK h \in [1 .. 4 -> Byte] : bytes' = bytes \o h \o data BY Zenon, <1>1 DEF frame
  <2>2. h \in Seq(Byte) /\ Len(h) = 4 /\ data \in Seq(Byte) BY HeaderIsSeq, PayloadIsSeq
  <2>3. bytes' \in Seq(Byte) /\ Len(bytes') = Len(bytes) + 4 + Len(data)
    <3>1. bytes \in Seq(Byte) BY <1>0
    <3>2. bytes' \in Seq(Byte) /\ Spells(bytes', bytes, h, data) BY <2>1, <2>2, <3>1, Concat3
    <3> QED BY <3>2 DEF Spells
  <2> DEFINE acc == OpenAfter(Len(frags)) \o data
             f == [start |-> Len(bytes), len |-> Len(data), last |-> last,
                   acc |-> acc, index |-> DoneAfter(Len(frags)) + 1]
  <2>4. Len(frags) \in 0 .. Len(frags) BY <1>0
  <2>5. OpenAfter(Len(frags)) \in Seq(Byte) /\ DoneAfter(Len(frags)) \in Nat
    BY <2>4, AfterTypes
  <2>6. acc \in Seq(Byte) BY <2>2, <2>5
  <2>7. f \in Fragment BY <1>0, <2>2, <2>5, <2>6, SMTT(30) DEF Fragment
  <2>8. frags' = Append(frags, f) /\ sent' = (IF last THEN Append(sent, acc) ELSE sent)
    BY <1>1 DEF frame
  <2> HIDE DEF acc, f
  <2>9. frags' \in Seq(Fragment) BY <1>0, <2>7, <2>8
  <2>10. sent' \in Seq(Seq(Byte)) BY <1>0, <2>6, <2>8
  <2> QED BY <1>0, <1>1, <2>2, <2>3, <2>9, <2>10 DEF TypeOK, frame
<1>2. ASSUME NEW n \in 1 .. Len(bytes) - pushed, push(n) PROVE TypeOK'
  <2>1. SubSeq(bytes, pushed + 1, pushed + n) \in Seq(Byte) BY <1>0, <1>2
  <2>2. stream' \in Seq(Byte) BY <1>0, <1>2, <2>1 DEF push
  <2> QED BY <1>0, <1>2, <2>2 DEF TypeOK, push, peerVars
<1>3. CASE NeedMoreBytes BY Zenon, <1>3 DEF TypeOK, NeedMoreBytes, peerVars
<1>4. CASE ReadHeader
  <2> DEFINE h == SubSeq(stream, 1, 4)
  <2>1. Len(stream) \in Nat /\ Len(stream) >= 4 BY <1>0, <1>4 DEF ReadHeader
  <2>2. h \in [1 .. 4 -> Byte]
    <3>1. stream \in Seq(Byte) BY <1>0
    <3>2. h \in Seq(Byte) /\ Len(h) = 4 BY <2>1, <3>1
    <3> QED BY Zenon, <3>2, Elements
  <2>3. FromBe(h) \in Nat /\ LAST_FRAGMENT \in Nat BY Zenon, <2>2, WordArithmetic
  <2>4. LengthOf(FromBe(h)) \in Nat BY <2>3 DEF LengthOf, IsLast
  <2>5. stream' \in Seq(Byte) BY <1>0, <1>4, <2>1 DEF ReadHeader, Advance
  <2>6. last_fragment' \in BOOLEAN BY <1>4 DEF ReadHeader, IsLast
  <2>7. frag_remaining' \in Nat \union {None} /\ failed' \in BOOLEAN /\ draining' \in BOOLEAN
    BY Zenon, <1>4, <2>4 DEF TypeOK, ReadHeader
  <2> QED BY <1>4, <2>5, <2>6, <2>7 DEF TypeOK, ReadHeader, peerVars
<1>5. CASE EndFragment
  <2>1. CASE RecordComplete
    <3>1. delivered' \in Seq(Seq(Byte))
      <4>1. delivered' = Append(delivered, record) BY <1>5, <2>1 DEF EndFragment
      <4>2. delivered \in Seq(Seq(Byte)) /\ record \in Seq(Byte) BY <1>0
      <4> QED BY <4>1, <4>2, Appended
    <3>2. record' \in Seq(Byte) BY <1>5, <2>1 DEF EndFragment
    <3> QED BY Zenon, <1>5, <2>1, <3>1, <3>2 DEF TypeOK, EndFragment, peerVars
  <2>2. CASE ~RecordComplete BY <1>5, <2>2 DEF TypeOK, EndFragment, peerVars
  <2> QED BY <2>1, <2>2
<1>6. CASE TakeChunk
  <2>1. TakeLen \in 0 .. Len(stream) /\ frag_remaining - TakeLen \in Nat
    BY <1>0, <1>6 DEF TakeChunk, TakeLen, None
  <2>2. SubSeq(stream, 1, TakeLen) \in Seq(Byte) /\ Advance(TakeLen) \in Seq(Byte)
    BY <1>0, <2>1 DEF Advance
  <2>3. record' \in Seq(Byte) BY <1>0, <1>6, <2>2 DEF TakeChunk
  <2> QED BY <1>6, <2>1, <2>2, <2>3 DEF TypeOK, TakeChunk, peerVars
<1>7. CASE UNCHANGED vars BY <1>7 DEF TypeOK, vars
<1> QED BY <1>1, <1>2, <1>3, <1>4, <1>5, <1>6, <1>7 DEF Next, Peer, Read, next_record

\* The types hold initially.
LEMMA TypeInit == Init => TypeOK
<1> SUFFICES ASSUME Init PROVE TypeOK OBVIOUS
<1>1. <<>> \in Seq(Byte) /\ <<>> \in Seq(Seq(Byte)) /\ <<>> \in Seq(Fragment) OBVIOUS
<1>2. pushed \in 0 .. Len(bytes) BY DEF Init
<1> QED BY Zenon, <1>1, <1>2 DEF Init, TypeOK
----------------------------------------------------------------------------
(***************************************************************************)
(* The facts about one state that the step lemmas use.                     *)
(***************************************************************************)
LEMMA StateTypes ==
  ASSUME TypeOK
  PROVE  /\ bytes \in Seq(Byte) /\ Len(bytes) \in Nat
         /\ stream \in Seq(Byte) /\ Len(stream) \in Nat
         /\ record \in Seq(Byte) /\ Len(record) \in Nat
         /\ delivered \in Seq(Seq(Byte)) /\ Len(delivered) \in Nat
         /\ sent \in Seq(Seq(Byte)) /\ Len(sent) \in Nat
         /\ frags \in Seq(Fragment) /\ Len(frags) \in Nat
         /\ pushed \in 0 .. Len(bytes) /\ pushed \in Nat
         /\ parsed \in Nat
         /\ frag_remaining \in Nat \union {None}
<1>1. /\ bytes \in Seq(Byte) /\ stream \in Seq(Byte) /\ record \in Seq(Byte)
      /\ delivered \in Seq(Seq(Byte)) /\ sent \in Seq(Seq(Byte))
      /\ frags \in Seq(Fragment) /\ pushed \in 0 .. Len(bytes) /\ parsed \in Nat
      /\ frag_remaining \in Nat \union {None}
  BY DEF TypeOK
<1>2. Len(bytes) \in Nat /\ Len(stream) \in Nat /\ Len(record) \in Nat BY <1>1
<1>3. Len(delivered) \in Nat /\ Len(sent) \in Nat /\ Len(frags) \in Nat BY <1>1
<1> QED BY <1>1, <1>2, <1>3

(***************************************************************************)
(* Taking n bytes off the stream leaves the unconsumed bytes in place.     *)
(***************************************************************************)
LEMMA AdvanceOK ==
  ASSUME TypeOK, StreamOK, NEW n \in Nat, n <= Len(stream),
         stream' = Advance(n), pushed' = pushed, bytes' = bytes
  PROVE  StreamOK' /\ Len(stream') = Len(stream) - n
<1>1. stream \in Seq(Byte) /\ Len(stream) \in Nat /\ pushed \in Nat BY StateTypes
<1>2. Len(stream') = Len(stream) - n BY <1>1 DEF Advance
<1>3. \A i \in 1 .. Len(stream') : stream'[i] = stream[n + i] BY <1>1, <1>2 DEF Advance
<1> QED BY <1>1, <1>2, <1>3 DEF StreamOK

(***************************************************************************)
(* The peer's side does not change in a step of the client.                *)
(***************************************************************************)
LEMMA PeerUnchanged ==
  ASSUME PeerOK, UNCHANGED peerVars
  PROVE  /\ PeerOK'
         /\ \A k : EndOf(k)' = EndOf(k) /\ OpenAfter(k)' = OpenAfter(k)
                   /\ DoneAfter(k)' = DoneAfter(k) /\ FragmentOK(k)' = FragmentOK(k)
<1>1. bytes' = bytes /\ sent' = sent /\ frags' = frags BY DEF peerVars
<1>2. ASSUME NEW k
      PROVE  EndOf(k)' = EndOf(k) /\ OpenAfter(k)' = OpenAfter(k) /\ DoneAfter(k)' = DoneAfter(k)
  BY <1>1 DEF EndOf, OpenAfter, DoneAfter
<1>3. ASSUME NEW k PROVE HeaderAt(k)' = HeaderAt(k) BY <1>1 DEF HeaderAt
<1>4. ASSUME NEW k PROVE FragmentOK(k)' = FragmentOK(k)
  BY <1>1 DEF FragmentOK, EndOf, OpenAfter, DoneAfter, HeaderAt
<1>5. PeerOK' BY <1>1, <1>2, <1>4 DEF PeerOK
<1> QED BY <1>2, <1>4, <1>5
(***************************************************************************)
(* One lemma per action: what it does to the stream and to the reader.     *)
(***************************************************************************)
ClientOK == StreamOK /\ (~failed => ReaderOK /\ WholeRecordsInOrder /\ (~draining => Starved))

\* push() adds to the stream what was read from the socket, in order.
LEMMA PushStep ==
  ASSUME IInv, NEW n \in 1 .. Len(bytes) - pushed, push(n)
  PROVE  ClientOK'
<1>1. TypeOK /\ PeerOK /\ StreamOK BY DEF IInv
<1>2. /\ bytes \in Seq(Byte) /\ Len(bytes) \in Nat /\ pushed \in 0 .. Len(bytes)
      /\ stream \in Seq(Byte) /\ Len(stream) \in Nat
  BY <1>1, StateTypes
<1> DEFINE chunk == SubSeq(bytes, pushed + 1, pushed + n)
<1>3. chunk \in Seq(Byte) /\ Len(chunk) = n BY <1>2
<1>4. \A i \in 1 .. n : chunk[i] = bytes[pushed + i] BY <1>2
<1>5. stream' = stream \o chunk /\ pushed' = pushed + n /\ draining' = TRUE
      /\ UNCHANGED peerVars /\ bytes' = bytes
  BY DEF push, peerVars
<1> HIDE DEF chunk
<1>6. /\ Len(stream') = Len(stream) + n
      /\ \A i \in 1 .. Len(stream) : stream'[i] = stream[i]
      /\ \A i \in 1 .. n : stream'[Len(stream) + i] = chunk[i]
  BY ZenonT(40), <1>2, <1>3, <1>5, Concat2
<1>7. StreamOK'
  <2>1. Len(stream') <= pushed' BY <1>1, <1>2, <1>5, <1>6 DEF StreamOK
  <2>2. ASSUME NEW i \in 1 .. Len(stream')
        PROVE  stream'[i] = bytes'[pushed' - Len(stream') + i]
    <3>1. CASE i <= Len(stream) BY <1>1, <1>2, <1>5, <1>6, <3>1 DEF StreamOK
    <3>2. CASE i > Len(stream)
      <4>1. i - Len(stream) \in 1 .. n BY <1>2, <1>6, <3>2
      <4>2. stream'[Len(stream) + (i - Len(stream))] = bytes[pushed + (i - Len(stream))]
        BY <1>4, <1>6, <4>1
      <4> QED BY <1>2, <1>5, <1>6, <4>2
    <3> QED BY <1>2, <3>1, <3>2
  <2> QED BY <2>1, <2>2 DEF StreamOK
<1>8. ASSUME ~failed PROVE ReaderOK' /\ WholeRecordsInOrder'
  <2>1. ReaderOK /\ WholeRecordsInOrder BY <1>8 DEF IInv
  <2>2. pushed' - Len(stream') = pushed - Len(stream) BY <1>2, <1>5, <1>6
  <2>3. UNCHANGED <<parsed, frag_remaining, record, delivered, last_fragment, frags, sent, failed>>
    BY DEF push, peerVars
  <2>4. ReaderOK' BY <2>1, <2>2, <2>3 DEF ReaderOK, EndOf, OpenAfter, DoneAfter
  <2>5. WholeRecordsInOrder' BY <2>1, <2>3 DEF WholeRecordsInOrder
  <2> QED BY <2>4, <2>5
<1> QED BY <1>5, <1>7, <1>8 DEF ClientOK, push

\* Returning None changes nothing but the position in the drain loop.
LEMMA NeedMoreBytesStep == ASSUME IInv, NeedMoreBytes PROVE ClientOK'
<1>1. /\ Starved
      /\ UNCHANGED <<bytes, sent, frags, pushed, stream, record, frag_remaining,
                     last_fragment, delivered, failed, parsed>>
  BY DEF NeedMoreBytes, peerVars
<1>2. StreamOK' BY <1>1 DEF IInv, StreamOK
<1>3. Starved' BY <1>1 DEF Starved
<1>4. ASSUME ~failed PROVE ReaderOK' /\ WholeRecordsInOrder'
  <2>1. ReaderOK /\ WholeRecordsInOrder BY <1>4 DEF IInv
  <2>2. ReaderOK' BY <1>1, <2>1 DEF ReaderOK, EndOf, OpenAfter, DoneAfter
  <2>3. WholeRecordsInOrder' BY <1>1, <2>1 DEF WholeRecordsInOrder
  <2> QED BY <2>2, <2>3
<1> QED BY <1>1, <1>2, <1>3, <1>4 DEF ClientOK

\* The header read is the one the peer wrote for fragment parsed + 1.
LEMMA ReadHeaderStep == ASSUME IInv, ReadHeader PROVE ClientOK'
<1>1. TypeOK /\ PeerOK /\ StreamOK BY DEF IInv
<1>2. /\ bytes \in Seq(Byte) /\ Len(bytes) \in Nat /\ pushed \in 0 .. Len(bytes)
      /\ stream \in Seq(Byte) /\ Len(stream) \in Nat /\ Len(stream) >= 4
      /\ Len(frags) \in Nat /\ parsed \in Nat /\ Len(record) \in Nat
  BY <1>1, StateTypes DEF ReadHeader
<1>3. /\ stream' = Advance(4) /\ frag_remaining = None /\ parsed' = parsed + 1
      /\ UNCHANGED <<bytes, sent, frags, pushed, record, delivered>>
  BY DEF ReadHeader, peerVars
<1>4. StreamOK' /\ Len(stream') = Len(stream) - 4 BY <1>1, <1>2, <1>3, AdvanceOK
<1>5. ASSUME ~failed'
      PROVE  ReaderOK' /\ WholeRecordsInOrder' /\ (~draining' => Starved')
  <2> DEFINE h == SubSeq(stream, 1, 4)
  <2>0. PICK k \in Nat : k = parsed + 1 BY <1>2
  <2>1. ~failed BY Zenon, <1>5 DEF ReadHeader, IInv, TypeOK
  <2>2. ReaderOK /\ WholeRecordsInOrder BY <2>1 DEF IInv
  <2>3. pushed - Len(stream) = EndOf(parsed) /\ record = OpenAfter(parsed)
        /\ Len(delivered) = DoneAfter(parsed) /\ parsed <= Len(frags)
    BY <1>3, <2>2 DEF ReaderOK
  <2>4. parsed # Len(frags) BY <1>1, <1>2, <2>3 DEF PeerOK
  <2>5. k \in 1 .. Len(frags) BY <1>2, <2>0, <2>3, <2>4
  <2>6. FragmentOK(k) /\ frags[k] \in Fragment BY <1>1, <2>5, AfterTypes DEF PeerOK
  <2>7. k - 1 = parsed BY <1>2, <2>0
  <2>8. frags[k].start = pushed - Len(stream) BY <2>3, <2>6, <2>7 DEF FragmentOK
  <2>9. FromBe(h) = HeaderAt(frags[k].start)
    <3>1. \A i \in 1 .. 4 : h[i] = stream[i] BY <1>2
    <3>2. \A i \in 1 .. 4 : h[i] = bytes[frags[k].start + i]
      BY <1>1, <1>2, <2>8, <3>1 DEF StreamOK
    <3> HIDE DEF h
    <3>3. \A i \in 1 .. 4 : h[i] = [j \in 1 .. 4 |-> bytes[frags[k].start + j]][i] BY <3>2
    <3> QED BY <3>3, FromBeOfBytes DEF HeaderAt
  <2>10. FromBe(h) = (IF frags[k].last THEN LAST_FRAGMENT ELSE 0) + frags[k].len
         /\ frags[k].len < LAST_FRAGMENT
    BY <2>6, <2>9 DEF FragmentOK
  <2>11. LAST_FRAGMENT \in Nat /\ frags[k].len \in Nat /\ frags[k].last \in BOOLEAN
         /\ frags[k].start \in Nat
    BY <2>6, WordArithmetic DEF Fragment
  <2>12. IsLast(FromBe(h)) = frags[k].last BY <2>10, <2>11 DEF IsLast
  <2>13. LengthOf(FromBe(h)) = frags[k].len BY <2>10, <2>11, <2>12 DEF LengthOf
  <2>14. last_fragment' = frags[k].last BY <2>12 DEF ReadHeader
  <2>15. frag_remaining' = frags[k].len /\ draining' BY Zenon, <1>5, <2>13 DEF ReadHeader
  <2> HIDE DEF h
  <2>16. EndOf(k) = frags[k].start + 4 + frags[k].len BY <2>5 DEF EndOf
  <2>17. pushed' - Len(stream') = EndOf(k) - frag_remaining'
    BY <1>2, <1>3, <1>4, <2>8, <2>11, <2>15, <2>16
  <2>18. /\ Len(record) = Len(frags[k].acc) - frags[k].len
         /\ \A i \in 1 .. Len(record) : record[i] = frags[k].acc[i]
         /\ Len(delivered) = frags[k].index - 1
    <3>1. Len(frags[k].acc) = Len(record) + frags[k].len BY <2>3, <2>6, <2>7 DEF FragmentOK
    <3>2. \A i \in 1 .. Len(record) : record[i] = frags[k].acc[i]
      BY <2>3, <2>6, <2>7 DEF FragmentOK
    <3>3. frags[k].index = Len(delivered) + 1 BY <2>3, <2>6, <2>7 DEF FragmentOK
    <3>4. Len(delivered) \in Nat BY <1>1, StateTypes
    <3>5. Len(record) = Len(frags[k].acc) - frags[k].len
      <4>1. Len(record) \in Nat /\ frags[k].len \in Nat BY <1>2, <2>11
      <4> QED BY <3>1, <4>1
    <3>6. Len(delivered) = frags[k].index - 1 BY <3>3, <3>4
    <3> QED BY <3>2, <3>5, <3>6
  <2>19. ReaderOK'
    <3>1. frag_remaining' # None BY <2>11, <2>15 DEF None
    <3>2. EndOf(k)' = EndOf(k) BY <1>3 DEF EndOf
    <3> QED BY <1>2, <1>3, <2>0, <2>5, <2>11, <2>14, <2>15, <2>17, <2>18, <3>1, <3>2 DEF ReaderOK
  <2>20. WholeRecordsInOrder' BY <1>3, <2>1, <2>2 DEF WholeRecordsInOrder
  <2> QED BY <2>15, <2>19, <2>20
<1> QED BY <1>4, <1>5 DEF ClientOK
\* A consumed last fragment completes exactly the record the peer sent.
LEMMA EndFragmentStep == ASSUME IInv, EndFragment PROVE ClientOK'
<1>1. TypeOK /\ PeerOK /\ StreamOK BY DEF IInv
<1>2. /\ Len(frags) \in Nat /\ parsed \in Nat
      /\ record \in Seq(Byte) /\ Len(record) \in Nat
      /\ delivered \in Seq(Seq(Byte)) /\ Len(delivered) \in Nat
      /\ pushed \in Nat /\ Len(stream) \in Nat
  BY <1>1, StateTypes
<1>3. /\ frag_remaining = 0 /\ frag_remaining' = None /\ draining'
      /\ UNCHANGED <<bytes, sent, frags, pushed, stream, draining, failed, parsed>>
  BY DEF EndFragment, peerVars
<1>4. StreamOK' BY <1>1, <1>3 DEF StreamOK
<1>5. ASSUME ~failed PROVE ReaderOK' /\ WholeRecordsInOrder'
  <2>1. ReaderOK /\ WholeRecordsInOrder BY <1>5 DEF IInv
  <2>2. PICK k \in Nat : k = parsed BY <1>2
  <2>3. /\ k > 0 /\ k <= Len(frags) /\ last_fragment = frags[k].last
        /\ pushed - Len(stream) = EndOf(k) - 0
        /\ Len(record) = Len(frags[k].acc) - 0
        /\ \A i \in 1 .. Len(record) : record[i] = frags[k].acc[i]
        /\ Len(delivered) = frags[k].index - 1
    BY <1>3, <2>1, <2>2 DEF ReaderOK, None
  <2>4. k \in 1 .. Len(frags) BY <1>2, <2>2, <2>3
  <2>5. FragmentOK(k) /\ frags[k] \in Fragment /\ EndOf(k) \in Nat
    BY <1>1, <2>4, AfterTypes DEF PeerOK
  <2>6. frags[k].acc \in Seq(Byte) /\ frags[k].index \in Nat BY <2>5 DEF Fragment
  <2>7. record = frags[k].acc
    <3>1. Len(record) = Len(frags[k].acc) BY <2>3, <2>6
    <3> QED BY <1>2, <2>3, <2>6, <3>1, SameElements
  <2>8. EndOf(k)' = EndOf(k) /\ OpenAfter(k)' = OpenAfter(k) /\ DoneAfter(k)' = DoneAfter(k)
    BY <1>3 DEF EndOf, OpenAfter, DoneAfter
  <2>9. pushed' - Len(stream') = EndOf(k) BY <1>2, <1>3, <2>3, <2>5
  <2>10. CASE last_fragment
    <3>1. delivered' = Append(delivered, record) /\ record' = <<>>
      BY <2>10 DEF EndFragment, RecordComplete
    <3>2. OpenAfter(k) = <<>> /\ DoneAfter(k) = frags[k].index
      BY <2>3, <2>10 DEF OpenAfter, DoneAfter
    <3>3. /\ Len(delivered') = Len(delivered) + 1
          /\ \A i \in 1 .. Len(delivered) : delivered'[i] = delivered[i]
          /\ delivered'[Len(delivered) + 1] = record
      BY <1>2, <3>1, Appended
    <3>4. Len(delivered') = frags[k].index BY <1>2, <2>3, <2>6, <3>3
    <3>5. ReaderOK' BY <1>3, <2>2, <2>3, <2>8, <2>9, <3>1, <3>2, <3>4 DEF ReaderOK
    <3>6. frags[k].index <= Len(sent) /\ sent[frags[k].index] = record
      BY <2>3, <2>5, <2>7, <2>10, <3>2 DEF FragmentOK
    <3>7. ASSUME NEW i \in 1 .. Len(delivered') PROVE delivered'[i] = sent[i]
      <4>1. CASE i <= Len(delivered)
        BY <1>2, <1>5, <2>1, <3>3, <4>1 DEF WholeRecordsInOrder
      <4>2. CASE i > Len(delivered)
        <5>1. i = Len(delivered) + 1 /\ i = frags[k].index BY <1>2, <3>3, <3>4, <4>2
        <5> QED BY <3>3, <3>6, <5>1
      <4> QED BY <1>2, <4>1, <4>2
    <3>8. WholeRecordsInOrder' BY <1>3, <3>4, <3>6, <3>7 DEF WholeRecordsInOrder
    <3> QED BY <3>5, <3>8
  <2>11. CASE ~last_fragment
    <3>1. delivered' = delivered /\ record' = record
      BY <2>11 DEF EndFragment, RecordComplete
    <3>2. OpenAfter(k) = frags[k].acc /\ DoneAfter(k) = frags[k].index - 1
      BY <2>3, <2>11 DEF OpenAfter, DoneAfter
    <3>3. ReaderOK' BY <1>3, <2>2, <2>3, <2>7, <2>8, <2>9, <3>1, <3>2 DEF ReaderOK
    <3>4. WholeRecordsInOrder' BY <1>3, <2>1, <3>1 DEF WholeRecordsInOrder
    <3> QED BY <3>3, <3>4
  <2> QED BY <2>10, <2>11
<1> QED BY <1>3, <1>4, <1>5 DEF ClientOK

\* The bytes moved to the record are the next ones of the open fragment.
LEMMA TakeChunkStep == ASSUME IInv, TakeChunk PROVE ClientOK'
<1>1. TypeOK /\ PeerOK /\ StreamOK BY DEF IInv
<1>2. /\ Len(frags) \in Nat /\ parsed \in Nat /\ pushed \in Nat
      /\ record \in Seq(Byte) /\ Len(record) \in Nat
      /\ stream \in Seq(Byte) /\ Len(stream) \in Nat
      /\ frag_remaining \in Nat
  BY <1>1, StateTypes DEF TakeChunk, None
<1>3. PICK t \in Nat : t = TakeLen BY <1>2 DEF TakeLen
<1>4. t <= Len(stream) /\ t <= frag_remaining BY <1>2, <1>3 DEF TakeLen
<1> DEFINE chunk == SubSeq(stream, 1, t)
<1>5. /\ record' = record \o chunk /\ stream' = Advance(t)
      /\ frag_remaining' = frag_remaining - t /\ draining'
      /\ UNCHANGED <<bytes, sent, frags, pushed, last_fragment, draining, delivered, failed, parsed>>
  BY <1>3 DEF TakeChunk, peerVars
<1>6. StreamOK' /\ Len(stream') = Len(stream) - t BY <1>1, <1>4, <1>5, AdvanceOK
<1>7. chunk \in Seq(Byte) /\ Len(chunk) = t /\ \A i \in 1 .. t : chunk[i] = stream[i]
  BY <1>2, <1>4
<1> HIDE DEF chunk
<1>8. /\ Len(record') = Len(record) + t
      /\ \A i \in 1 .. Len(record) : record'[i] = record[i]
      /\ \A i \in 1 .. t : record'[Len(record) + i] = chunk[i]
  BY Zenon, <1>2, <1>5, <1>7, Concat2
<1>9. ASSUME ~failed PROVE ReaderOK' /\ WholeRecordsInOrder'
  <2>1. ReaderOK /\ WholeRecordsInOrder BY <1>9 DEF IInv
  <2>2. PICK k \in Nat : k = parsed BY <1>2
  <2>3. /\ k > 0 /\ k <= Len(frags) /\ last_fragment = frags[k].last
        /\ frag_remaining <= frags[k].len
        /\ pushed - Len(stream) = EndOf(k) - frag_remaining
        /\ Len(record) = Len(frags[k].acc) - frag_remaining
        /\ \A i \in 1 .. Len(record) : record[i] = frags[k].acc[i]
        /\ Len(delivered) = frags[k].index - 1
    BY <1>2, <2>1, <2>2 DEF ReaderOK, None
  <2>4. k \in 1 .. Len(frags) /\ k - 1 \in 0 .. Len(frags) BY <1>2, <2>2, <2>3
  <2>5. FragmentOK(k) /\ frags[k] \in Fragment /\ EndOf(k) \in Nat
        /\ OpenAfter(k - 1) \in Seq(Byte)
    BY <1>1, <2>4, AfterTypes DEF PeerOK
  <2>6. /\ frags[k].acc \in Seq(Byte) /\ frags[k].len \in Nat /\ frags[k].start \in Nat
        /\ Len(frags[k].acc) \in Nat /\ Len(OpenAfter(k - 1)) \in Nat
    BY <2>5 DEF Fragment
  <2>7. EndOf(k) = frags[k].start + 4 + frags[k].len BY <2>3 DEF EndOf
  <2>a. frag_remaining \in Nat /\ frags[k].len \in Nat /\ frag_remaining <= frags[k].len
    BY <1>2, <2>3, <2>6
  <2>b. /\ Len(record) \in Nat /\ Len(frags[k].acc) \in Nat
        /\ Len(record) = Len(frags[k].acc) - frag_remaining
    BY <1>2, <2>3, <2>6
  <2>c. /\ pushed \in Nat /\ Len(stream) \in Nat /\ EndOf(k) \in Nat
        /\ pushed - Len(stream) = EndOf(k) - frag_remaining
    BY <1>2, <2>3, <2>5
  <2>8. ASSUME NEW i \in 1 .. Len(record') PROVE record'[i] = frags[k].acc[i]
    <3>1. CASE i <= Len(record) BY <1>2, <1>8, <2>3, <3>1
    <3>2. CASE i > Len(record)
      <4>1. PICK j \in 1 .. t : i = Len(record) + j
        <5>1. i - Len(record) \in 1 .. t BY <1>2, <1>8, <3>2
        <5> QED BY <1>2, <5>1
      <4>2. record'[i] = stream[j] BY <1>7, <1>8, <4>1
      <4>3. stream[j] = bytes[pushed - Len(stream) + j] BY <1>1, <1>2, <1>4 DEF StreamOK
      <4>4. PICK m \in Nat : m = frags[k].len - frag_remaining + j BY <2>a
      <4>5. m \in 1 .. frags[k].len BY <1>4, <2>a, <4>4, SMTT(30)
      <4>6. bytes[frags[k].start + 4 + m] = frags[k].acc[Len(OpenAfter(k - 1)) + m]
        BY Zenon, <2>5, <4>5 DEF FragmentOK
      <4>7. Len(frags[k].acc) = Len(OpenAfter(k - 1)) + frags[k].len BY <2>5 DEF FragmentOK
      <4>10. frags[k].start \in Nat /\ Len(OpenAfter(k - 1)) \in Nat BY <2>6
      <4>11. j \in Nat /\ m = frags[k].len - frag_remaining + j /\ i = Len(record) + j
        BY <1>3, <4>1, <4>4
      <4>8. /\ pushed - Len(stream) + j = frags[k].start + 4 + m
            /\ Len(OpenAfter(k - 1)) + m = i
        <5>1. PICK st \in Nat, op \in Nat : st = frags[k].start /\ op = Len(OpenAfter(k - 1)) BY <4>10
        <5>2. PICK ln \in Nat, rem \in Nat : ln = frags[k].len /\ rem = frag_remaining BY <2>a
        <5>3. PICK e \in Nat, ac \in Nat : e = EndOf(k) /\ ac = Len(frags[k].acc) BY <2>b, <2>c
        <5>4. e = st + 4 + ln BY <2>7, <5>1, <5>2, <5>3
        <5>5. ac = op + ln BY <4>7, <5>1, <5>2, <5>3
        <5>6. m = ln - rem + j BY <4>11, <5>2
        <5>7. pushed - Len(stream) = e - rem BY <2>c, <5>2, <5>3
        <5>8. Len(record) = ac - rem BY <2>b, <5>2, <5>3
        <5>9. pushed - Len(stream) + j = st + 4 + m BY <5>4, <5>6, <5>7, <4>11
        <5>10. op + m = i BY <5>5, <5>6, <5>8, <4>11, SMTT(30)
        <5> QED BY <5>1, <5>9, <5>10
      <4> QED BY <4>2, <4>3, <4>6, <4>8
    <3> QED BY <1>2, <3>1, <3>2
  <2>9. pushed' - Len(stream') = EndOf(k) - frag_remaining'
    <3>1. pushed' = pushed /\ Len(stream') = Len(stream) - t /\ frag_remaining' = frag_remaining - t
      BY <1>5, <1>6
    <3> QED BY <1>3, <2>a, <2>c, <3>1
  <2>10. Len(record') = Len(frags[k].acc) - frag_remaining'
    <3>1. Len(record') = Len(record) + t /\ frag_remaining' = frag_remaining - t BY <1>5, <1>8
    <3> QED BY <2>a, <2>b, <3>1
  <2>11. frag_remaining' # None /\ frag_remaining' <= frags[k].len
    BY <1>3, <1>4, <1>5, <2>a DEF None
  <2>12. EndOf(k)' = EndOf(k) BY <1>5 DEF EndOf
  <2>13. ReaderOK'
    BY Zenon, <1>5, <2>2, <2>3, <2>8, <2>9, <2>10, <2>11, <2>12 DEF ReaderOK
  <2>14. WholeRecordsInOrder' BY <1>5, <2>1 DEF WholeRecordsInOrder
  <2> QED BY <2>13, <2>14
<1> QED BY <1>5, <1>6, <1>9 DEF ClientOK
(***************************************************************************)
(* A fragment keeps its meaning when bytes and records are only added.     *)
(***************************************************************************)
LEMMA OldFragment ==
  ASSUME TypeOK, PeerOK, NEW k \in 1 .. Len(frags), frags'[k] = frags[k],
         EndOf(k - 1)' = EndOf(k - 1), OpenAfter(k - 1)' = OpenAfter(k - 1),
         DoneAfter(k - 1)' = DoneAfter(k - 1),
         EndOf(k)' = EndOf(k), DoneAfter(k)' = DoneAfter(k),
         Len(bytes') \in Nat, Len(bytes') >= Len(bytes),
         \A i \in 1 .. Len(bytes) : bytes'[i] = bytes[i],
         Len(sent') \in Nat, Len(sent') >= Len(sent),
         \A i \in 1 .. Len(sent) : sent'[i] = sent[i]
  PROVE  FragmentOK(k)'
<1>1. PICK L \in Nat, M \in Nat : L = Len(bytes) /\ M = Len(sent) BY StateTypes
<1>2. FragmentOK(k) /\ frags[k] \in Fragment /\ EndOf(k) \in Nat /\ DoneAfter(k) \in Nat
  BY AfterTypes, SMTT(30) DEF PeerOK
<1>3. PICK st \in Nat, ln \in Nat, ix \in Nat :
        ix # 0 /\ st = frags[k].start /\ ln = frags[k].len /\ ix = frags[k].index
  BY Zenon, <1>2 DEF Fragment
<1>4. PICK e \in Nat, d \in Nat : e = EndOf(k) /\ d = DoneAfter(k) BY <1>2
<1>5. e = st + 4 + ln BY <1>3, <1>4 DEF EndOf
<1>6. e <= L /\ d <= M BY <1>1, <1>2, <1>4 DEF FragmentOK
<1>7. frags[k].last => d = ix BY <1>3, <1>4 DEF DoneAfter
<1>8. ASSUME NEW i \in 1 .. 4 PROVE bytes'[st + i] = bytes[st + i]
  <2>1. st + i \in 1 .. L BY <1>5, <1>6
  <2> QED BY <1>1, <2>1
<1>9. ASSUME NEW i \in 1 .. ln PROVE bytes'[st + 4 + i] = bytes[st + 4 + i]
  <2>1. st + 4 + i \in 1 .. L BY <1>5, <1>6
  <2> QED BY <1>1, <2>1
<1>10. HeaderAt(frags[k].start)' = HeaderAt(frags[k].start)
  <2> DEFINE g == [j \in 1 .. 4 |-> bytes[st + j]]
             h == [j \in 1 .. 4 |-> bytes'[st + j]]
  <2>1. \A i \in 1 .. 4 : h[i] = g[i] BY Zenon, <1>8
  <2>2. FromBe(h) = FromBe(g)
    <3> HIDE DEF g, h
    <3> QED BY <2>1, FromBeOfBytes
  <2> QED BY <1>3, <2>2 DEF HeaderAt
<1>11. frags[k].last => sent'[ix] = sent[ix]
  <2>1. frags[k].last => ix \in 1 .. M
    <3>1. ix # 0 BY <1>3
    <3>2. d = ix => ix \in 1 .. M BY <1>6, <3>1
    <3> QED BY <1>7, <3>2
  <2> QED BY <1>1, <2>1
<1>12. EndOf(k) <= Len(bytes') /\ DoneAfter(k) <= Len(sent')
  <2>1. PICK L1 \in Nat, M1 \in Nat : L1 = Len(bytes') /\ M1 = Len(sent') OBVIOUS
  <2>2. L1 >= L /\ M1 >= M BY <1>1, <2>1
  <2>3. e <= L1 /\ d <= M1 BY <1>6, <2>2
  <2> QED BY <1>4, <2>1, <2>3
<1>13. \A i \in 1 .. frags[k].len :
         bytes'[frags[k].start + 4 + i] = frags[k].acc[Len(OpenAfter(k - 1)) + i]
  <2>1. \A i \in 1 .. frags[k].len :
          bytes[frags[k].start + 4 + i] = frags[k].acc[Len(OpenAfter(k - 1)) + i]
    BY Zenon, <1>2 DEF FragmentOK
  <2> QED BY <1>3, <1>9, <2>1
<1>14. frags[k].last => sent'[frags[k].index] = frags[k].acc
  <2>1. frags[k].last => sent[frags[k].index] = frags[k].acc BY <1>2 DEF FragmentOK
  <2> QED BY <1>3, <1>11, <2>1
<1>15. HeaderAt(frags[k].start)'
         = (IF frags[k].last THEN LAST_FRAGMENT ELSE 0) + frags[k].len
  BY <1>2, <1>10 DEF FragmentOK
<1>16. /\ frags[k].start = EndOf(k - 1) /\ frags[k].index = DoneAfter(k - 1) + 1
       /\ frags[k].len < LAST_FRAGMENT
       /\ Len(frags[k].acc) = Len(OpenAfter(k - 1)) + frags[k].len
       /\ \A i \in 1 .. Len(OpenAfter(k - 1)) : frags[k].acc[i] = OpenAfter(k - 1)[i]
  BY <1>2 DEF FragmentOK
<1> QED BY Zenon, <1>12, <1>13, <1>14, <1>15, <1>16 DEF FragmentOK

(***************************************************************************)
(* The peer writes a fragment: the earlier ones keep their meaning, and    *)
(* the new one gets the bytes and the record contents it stands for.       *)
(***************************************************************************)
LEMMA FrameStep ==
  ASSUME IInv, NEW last \in BOOLEAN, NEW data \in Payload, frame(last, data)
  PROVE  PeerOK' /\ ClientOK'
<1>1. TypeOK /\ PeerOK /\ StreamOK BY DEF IInv
<1>2. /\ bytes \in Seq(Byte) /\ Len(bytes) \in Nat /\ pushed \in 0 .. Len(bytes)
      /\ Len(stream) \in Nat /\ frags \in Seq(Fragment) /\ parsed \in Nat
      /\ sent \in Seq(Seq(Byte)) /\ Len(sent) \in Nat
  BY <1>1, StateTypes
<1>3. PICK n \in Nat : n = Len(frags) BY <1>1, StateTypes
<1>4. PICK h \in Seq(Byte) :
        /\ Len(h) = 4
        /\ FromBe(h) = (IF last THEN LAST_FRAGMENT ELSE 0) + Len(data)
        /\ bytes' = bytes \o h \o data
  BY Zenon, HeaderIsSeq DEF frame
<1>5. h \in Seq(Byte) /\ Len(h) = 4 /\ data \in Seq(Byte) /\ Len(data) \in Nat
  BY <1>4, PayloadIsSeq
<1>6. /\ Len(bytes') = Len(bytes) + 4 + Len(data)
      /\ \A i \in 1 .. Len(bytes) : bytes'[i] = bytes[i]
      /\ \A i \in 1 .. 4 : bytes'[Len(bytes) + i] = h[i]
      /\ \A i \in 1 .. Len(data) : bytes'[Len(bytes) + 4 + i] = data[i]
  <2>1. bytes \in Seq(Byte) BY <1>2
  <2>2. bytes' = bytes \o h \o data BY <1>4
  <2>3. data \in Seq(Byte) /\ Len(h) = 4 BY <1>5
  <2>4. Spells(bytes', bytes, h, data) BY <2>1, <2>2, <2>3, Concat3
  <2> QED BY Zenon, <2>4 DEF Spells
<1>a. Len(bytes) \in Nat /\ Len(sent) \in Nat /\ Len(data) \in Nat BY <1>2, <1>5
<1>b. Len(bytes') = Len(bytes) + 4 + Len(data) BY <1>6
<1>c. ASSUME NEW i \in 1 .. Len(bytes) PROVE bytes'[i] = bytes[i] BY <1>6
<1> DEFINE open == OpenAfter(n)
           acc == open \o data
           f == [start |-> Len(bytes), len |-> Len(data), last |-> last,
                 acc |-> acc, index |-> DoneAfter(n) + 1]
<1>7. /\ open \in Seq(Byte) /\ Len(open) \in Nat /\ DoneAfter(n) \in Nat
      /\ EndOf(n) = Len(bytes) /\ DoneAfter(n) = Len(sent)
  <2>1. n \in 0 .. Len(frags) BY <1>3
  <2>2. open \in Seq(Byte) /\ DoneAfter(n) \in Nat BY <1>1, <2>1, AfterTypes
  <2>3. Len(open) \in Nat BY <2>2
  <2> QED BY <1>1, <1>3, <2>2, <2>3 DEF PeerOK
<1>8. /\ acc \in Seq(Byte) /\ Len(acc) = Len(open) + Len(data)
      /\ \A i \in 1 .. Len(open) : acc[i] = open[i]
      /\ \A i \in 1 .. Len(data) : acc[Len(open) + i] = data[i]
  BY <1>5, <1>7, Concat2
<1>9. /\ Len(data) < LAST_FRAGMENT
      /\ frags' = Append(frags, f)
      /\ sent' = (IF last THEN Append(sent, acc) ELSE sent)
      /\ UNCHANGED <<pushed, stream, record, frag_remaining, last_fragment, draining,
                     delivered, failed, parsed>>
  BY <1>3 DEF frame
<1>10. /\ f.start = Len(bytes) /\ f.len = Len(data) /\ f.last = last /\ f.acc = acc
       /\ f.index = DoneAfter(n) + 1
  OBVIOUS
<1>11. f \in Fragment BY <1>2, <1>5, <1>7, <1>8 DEF Fragment
<1> HIDE DEF f, acc
<1>12. /\ Len(frags') = n + 1 /\ frags'[n + 1] = f
       /\ \A k \in 1 .. n : frags'[k] = frags[k]
  BY <1>2, <1>3, <1>9, <1>11, Appended
<1>13. /\ Len(sent') = Len(sent) + (IF last THEN 1 ELSE 0)
       /\ last => sent'[Len(sent) + 1] = acc
       /\ \A i \in 1 .. Len(sent) : sent'[i] = sent[i]
  <2>1. CASE last BY <1>2, <1>8, <1>9, <2>1, Appended
  <2>2. CASE ~last BY <1>2, <1>9, <2>2
  <2> QED BY <2>1, <2>2
<1>14. ASSUME NEW k \in 0 .. n
       PROVE  EndOf(k)' = EndOf(k) /\ OpenAfter(k)' = OpenAfter(k) /\ DoneAfter(k)' = DoneAfter(k)
  <2>1. CASE k = 0 BY <2>1 DEF EndOf, OpenAfter, DoneAfter
  <2>2. CASE k # 0
    <3>1. frags'[k] = frags[k] BY <1>12, <2>2
    <3> QED BY <3>1 DEF EndOf, OpenAfter, DoneAfter
  <2> QED BY <2>1, <2>2
<1>15. EndOf(n + 1)' = Len(bytes') /\ DoneAfter(n + 1)' = Len(sent')
  <2>1. EndOf(n + 1)' = Len(bytes) + 4 + Len(data)
    <3>1. n + 1 # 0 BY <1>3
    <3> QED BY Zenon, <1>10, <1>12, <3>1 DEF EndOf
  <2>2. DoneAfter(n + 1)' = IF last THEN DoneAfter(n) + 1 ELSE DoneAfter(n)
    BY <1>3, <1>7, <1>10, <1>12 DEF DoneAfter
  <2> QED BY <1>2, <1>6, <1>7, <1>13, <2>1, <2>2
<1>16. ASSUME NEW k \in 1 .. n PROVE FragmentOK(k)'
  <2>1. /\ k \in 1 .. Len(frags) /\ frags'[k] = frags[k]
        /\ EndOf(k - 1)' = EndOf(k - 1) /\ OpenAfter(k - 1)' = OpenAfter(k - 1)
        /\ DoneAfter(k - 1)' = DoneAfter(k - 1)
        /\ EndOf(k)' = EndOf(k) /\ DoneAfter(k)' = DoneAfter(k)
    <3>1. k - 1 \in 0 .. n /\ k \in 0 .. n BY <1>3
    <3> QED BY <1>3, <1>12, <1>14, <3>1
  <2>2. Len(bytes') \in Nat /\ Len(bytes') >= Len(bytes) BY <1>a, <1>b
  <2>3. Len(sent') \in Nat /\ Len(sent') >= Len(sent) BY <1>a, <1>13
  <2>4. \A i \in 1 .. Len(sent) : sent'[i] = sent[i] BY <1>13
  <2> QED BY Zenon, <1>1, <1>c, <2>1, <2>2, <2>3, <2>4, OldFragment
<1>17. FragmentOK(n + 1)'
  <2>1. n + 1 - 1 = n /\ n \in 0 .. n BY <1>3
  <2>2. EndOf(n)' = EndOf(n) /\ OpenAfter(n)' = OpenAfter(n) /\ DoneAfter(n)' = DoneAfter(n)
    BY <1>14, <2>1
  <2>3. HeaderAt(frags[n + 1].start)' = (IF last THEN LAST_FRAGMENT ELSE 0) + Len(data)
    <3>1. \A i \in 1 .. 4 : [j \in 1 .. 4 |-> bytes'[Len(bytes) + j]][i] = h[i] BY <1>6
    <3>2. FromBe([j \in 1 .. 4 |-> bytes'[Len(bytes) + j]]) = FromBe(h)
      BY Zenon, <3>1, FromBeOfBytes
    <3> QED BY Zenon, <1>4, <1>10, <1>12, <3>2 DEF HeaderAt
  <2>4. \A i \in 1 .. Len(data) : bytes'[Len(bytes) + 4 + i] = acc[Len(open) + i]
    BY Zenon, <1>6, <1>8
  <2>5. last => sent'[DoneAfter(n) + 1] = acc BY <1>7, <1>13
  <2>6. /\ frags'[n + 1].start = Len(bytes) /\ frags'[n + 1].len = Len(data)
        /\ frags'[n + 1].last = last /\ frags'[n + 1].acc = acc
        /\ frags'[n + 1].index = DoneAfter(n) + 1
    BY <1>10, <1>12
  <2>7. EndOf(n + 1)' <= Len(bytes') /\ DoneAfter(n + 1)' <= Len(sent')
    <3>1. Len(bytes') \in Nat /\ Len(sent') \in Nat BY <1>a, <1>b, <1>13
    <3> QED BY <1>15, <3>1
  <2>8. EndOf(n) = Len(bytes) /\ Len(data) < LAST_FRAGMENT /\ Len(acc) = Len(open) + Len(data)
    BY <1>7, <1>8, <1>9
  <2>9. \A i \in 1 .. Len(open) : acc[i] = open[i] BY <1>8
  <2> QED BY <2>1, <2>2, <2>3, <2>4, <2>5, <2>6, <2>7, <2>8, <2>9 DEF FragmentOK
<1>18. ASSUME NEW j \in 0 .. n + 1, NEW k \in 0 .. n + 1, j < k
       PROVE  EndOf(j)' + 4 <= EndOf(k)' /\ DoneAfter(j)' <= DoneAfter(k)'
  <2>1. j \in 0 .. n BY <1>3, <1>18
  <2>2. CASE k \in 0 .. n BY <1>1, <1>3, <1>14, <1>18, <2>1, <2>2 DEF PeerOK
  <2>3. CASE k = n + 1
    <3>1. EndOf(j) <= Len(bytes) /\ DoneAfter(j) <= Len(sent)
          /\ EndOf(j) \in Nat /\ DoneAfter(j) \in Nat
      <4>1. EndOf(j) \in Nat /\ DoneAfter(j) \in Nat BY <1>1, <1>3, <2>1, AfterTypes
      <4>2. CASE j = 0 BY <1>2, <4>1, <4>2 DEF EndOf, DoneAfter
      <4>3. CASE j # 0
        <5>1. FragmentOK(j) BY <1>1, <1>3, <2>1, <4>3 DEF PeerOK
        <5> QED BY <4>1, <5>1 DEF FragmentOK
      <4> QED BY <4>2, <4>3
    <3>2. EndOf(j)' = EndOf(j) /\ DoneAfter(j)' = DoneAfter(j) BY <1>14, <2>1
    <3>3. EndOf(k)' = Len(bytes') /\ DoneAfter(k)' = Len(sent') BY <1>15, <2>3
    <3>4. Len(sent') >= Len(sent) /\ Len(sent') \in Nat BY <1>a, <1>13
    <3>5. EndOf(j) + 4 <= Len(bytes') BY <1>a, <1>b, <3>1
    <3>6. DoneAfter(j) <= Len(sent') BY <1>a, <3>1, <3>4
    <3> QED BY <3>2, <3>3, <3>5, <3>6
  <2> QED BY <1>3, <2>2, <2>3
<1>19. PeerOK'
  <2>1. \A k \in 1 .. n + 1 : FragmentOK(k)' BY <1>3, <1>16, <1>17
  <2> QED BY <1>12, <1>15, <1>18, <2>1 DEF PeerOK
<1>20. StreamOK'
  <2>1. stream' = stream /\ pushed' = pushed BY <1>9
  <2>2. Len(stream) <= pushed BY <1>1 DEF StreamOK
  <2>3. ASSUME NEW i \in 1 .. Len(stream)
        PROVE  stream[i] = bytes'[pushed - Len(stream) + i]
    <3>1. pushed - Len(stream) + i \in 1 .. Len(bytes) BY <1>2, <2>2
    <3> QED BY <1>1, <1>c, <3>1 DEF StreamOK
  <2> QED BY <2>1, <2>2, <2>3 DEF StreamOK
<1>21. ASSUME ~failed PROVE ReaderOK' /\ WholeRecordsInOrder' /\ (~draining => Starved)'
  <2>1. ReaderOK /\ WholeRecordsInOrder /\ (~draining => Starved) BY <1>21 DEF IInv
  <2>2. PICK p \in Nat : p = parsed BY <1>2
  <2>3. p \in 0 .. n BY <1>3, <2>1, <2>2 DEF ReaderOK
  <2>4. EndOf(p)' = EndOf(p) /\ OpenAfter(p)' = OpenAfter(p) /\ DoneAfter(p)' = DoneAfter(p)
    BY <1>14, <2>3
  <2>5. p > 0 => frags'[p] = frags[p] BY <1>12, <2>3
  <2>6. ReaderOK' BY <1>3, <1>9, <1>12, <2>1, <2>2, <2>3, <2>4, <2>5, SMTT(30) DEF ReaderOK
  <2>7. Len(delivered) \in Nat BY <1>1, StateTypes
  <2>8. WholeRecordsInOrder'
    <3>1. Len(delivered) <= Len(sent) /\ \A i \in 1 .. Len(delivered) : delivered[i] = sent[i]
      BY <1>21, <2>1 DEF WholeRecordsInOrder
    <3>2. Len(sent') >= Len(sent) /\ Len(sent') \in Nat BY <1>a, <1>13
    <3>3. Len(delivered) <= Len(sent') BY <1>a, <2>7, <3>1, <3>2
    <3>4. ASSUME NEW i \in 1 .. Len(delivered) PROVE delivered[i] = sent'[i]
      <4>1. i \in 1 .. Len(sent) BY <1>a, <2>7, <3>1
      <4> QED BY <1>13, <3>1, <4>1
    <3>5. delivered' = delivered BY <1>9
    <3> QED BY <3>3, <3>4, <3>5 DEF WholeRecordsInOrder
  <2>9. (~draining => Starved)' BY <1>9, <2>1 DEF Starved
  <2> QED BY <2>6, <2>8, <2>9
<1> QED BY <1>9, <1>19, <1>20, <1>21 DEF ClientOK
----------------------------------------------------------------------------
\* The inductive invariant holds initially.
LEMMA IInvInit == Init => IInv
<1> SUFFICES ASSUME Init PROVE IInv OBVIOUS
<1>1. TypeOK BY TypeInit
<1>2. Len(bytes) = 0 /\ Len(stream) = 0 /\ Len(sent) = 0 /\ Len(frags) = 0 /\ Len(delivered) = 0
  BY DEF Init
<1>3. EndOf(0) = 0 /\ DoneAfter(0) = 0 /\ OpenAfter(0) = <<>>
  BY DEF EndOf, DoneAfter, OpenAfter
<1>4. PeerOK BY <1>2, <1>3 DEF PeerOK
<1>5. StreamOK BY <1>2 DEF StreamOK, Init
<1>6. ReaderOK BY <1>2, <1>3 DEF ReaderOK, Init, None
<1>7. WholeRecordsInOrder BY <1>2 DEF WholeRecordsInOrder
<1>8. Starved BY <1>2 DEF Starved, Init
<1> QED BY <1>1, <1>4, <1>5, <1>6, <1>7, <1>8 DEF IInv

\* Every step of the peer and of the reassembler preserves the inductive invariant.
LEMMA IInvStep == IInv /\ [Next]_vars => IInv'
<1> SUFFICES ASSUME IInv, [Next]_vars PROVE IInv' OBVIOUS
<1>1. TypeOK' BY TypeStep DEF IInv
<1>2. SUFFICES PeerOK' /\ ClientOK' BY <1>1 DEF IInv, ClientOK
<1>3. ASSUME UNCHANGED peerVars PROVE PeerOK' BY <1>3, PeerUnchanged DEF IInv
<1>4. CASE Peer BY <1>4, FrameStep DEF Peer
<1>5. CASE Read
  <2>1. PICK n \in 1 .. Len(bytes) - pushed : push(n) BY <1>5 DEF Read
  <2>2. UNCHANGED peerVars BY <2>1 DEF push
  <2> QED BY <1>3, <2>1, <2>2, PushStep
<1>6. CASE NeedMoreBytes
  BY Zenon, <1>3, <1>6, NeedMoreBytesStep DEF NeedMoreBytes
<1>7. CASE ReadHeader
  BY Zenon, <1>3, <1>7, ReadHeaderStep DEF ReadHeader
<1>8. CASE EndFragment
  BY Zenon, <1>3, <1>8, EndFragmentStep DEF EndFragment
<1>9. CASE TakeChunk
  BY <1>3, <1>9, TakeChunkStep DEF TakeChunk
<1>10. CASE UNCHANGED vars
  <2>1. /\ UNCHANGED peerVars
        /\ UNCHANGED <<bytes, sent, frags, pushed, stream, record, frag_remaining,
                       last_fragment, delivered, failed, parsed, draining>>
    BY <1>10 DEF vars, peerVars
  <2>2. StreamOK' BY <2>1 DEF IInv, StreamOK
  <2>3. Starved' = Starved BY <2>1 DEF Starved
  <2>4. WholeRecordsInOrder' = WholeRecordsInOrder BY <2>1 DEF WholeRecordsInOrder
  <2>5. ReaderOK' = ReaderOK BY <2>1 DEF ReaderOK, EndOf, OpenAfter, DoneAfter
  <2> QED BY <1>3, <2>1, <2>2, <2>3, <2>4, <2>5 DEF IInv, ClientOK
<1> QED BY <1>4, <1>5, <1>6, <1>7, <1>8, <1>9, <1>10 DEF Next, next_record

(***************************************************************************)
(* The inductive invariant holds in every reachable state.                 *)
(***************************************************************************)
THEOREM Inductive == Spec => []IInv
<1> QED BY IInvInit, IInvStep, PTL DEF Spec

(***************************************************************************)
(* Every variable keeps its type; frag_remaining - take never wraps below  *)
(* zero (record.rs 105-108), whatever the peer writes and read() returns.  *)
(***************************************************************************)
THEOREM TypeCorrect == Spec => []TypeOK
<1> QED BY TypeInit, TypeStep, PTL DEF Spec

(***************************************************************************)
(* Records come out whole, once and in order (record.rs 70-112), for every *)
(* byte size, record limit, fragmentation and chunking.                    *)
(***************************************************************************)
THEOREM RecordsInOrder == Spec => []WholeRecordsInOrder
<1>1. IInv => WholeRecordsInOrder BY DEF IInv, WholeRecordsInOrder
<1> QED BY <1>1, Inductive, PTL

(***************************************************************************)
(* A drain loop that stops has returned every record that is in memory     *)
(* (client.rs 232-238).                                                    *)
(***************************************************************************)
THEOREM DrainComplete == Spec => []DrainedCompletely
<1>1. ASSUME IInv PROVE DrainedCompletely
  <2> SUFFICES ASSUME ~draining, ~failed, NEW k \in 1 .. Len(frags),
                      frags[k].last, EndOf(k) <= pushed
               PROVE  frags[k].index <= Len(delivered)
    BY DEF DrainedCompletely
  <2>1. TypeOK /\ PeerOK /\ StreamOK /\ ReaderOK /\ Starved BY <1>1 DEF IInv
  <2>2. /\ Len(frags) \in Nat /\ parsed \in Nat /\ pushed \in Nat /\ Len(stream) \in Nat
        /\ Len(delivered) \in Nat
    BY <2>1, StateTypes
  <2>3. parsed <= Len(frags) BY <2>1 DEF ReaderOK
  <2>4. PICK p \in Nat : p = parsed BY <2>2
  <2>5. /\ EndOf(k) \in Nat /\ DoneAfter(k) \in Nat /\ EndOf(p) \in Nat /\ DoneAfter(p) \in Nat
        /\ frags[k] \in Fragment
    BY <2>1, <2>2, <2>3, <2>4, AfterTypes
  <2>6. PICK ek \in Nat, ep \in Nat, dk \in Nat, dp \in Nat :
          ek = EndOf(k) /\ ep = EndOf(p) /\ dk = DoneAfter(k) /\ dp = DoneAfter(p)
    BY <2>5
  <2>7. frags[k].index = dk BY <2>6 DEF DoneAfter
  <2>8. k > p => ep + 4 <= ek BY <2>1, <2>2, <2>3, <2>4, <2>6 DEF PeerOK
  <2>9. k <= p => dk <= dp
    <3>1. \A j, l \in 0 .. Len(frags) : j < l => DoneAfter(j) <= DoneAfter(l)
      BY <2>1 DEF PeerOK
    <3>2. k \in 0 .. Len(frags) /\ p \in 0 .. Len(frags) BY <2>2, <2>3, <2>4
    <3>3. k < p => dk <= dp BY <2>6, <3>1, <3>2
    <3>4. k = p => dk <= dp BY <2>6
    <3> QED BY <3>2, <3>3, <3>4
  <2>10. CASE frag_remaining = None
    <3>1. pushed - Len(stream) = ep /\ Len(delivered) = dp /\ Len(stream) < 4
      BY <2>1, <2>4, <2>6, <2>10 DEF ReaderOK, Starved, None
    <3>2. ek <= pushed BY <2>6
    <3>3. k <= p BY <2>2, <2>8, <3>1, <3>2
    <3> QED BY <2>7, <2>9, <3>1, <3>3
  <2>11. CASE frag_remaining # None
    <3>1. frag_remaining > 0 /\ stream = <<>> BY <2>1, <2>11 DEF Starved
    <3>2. Len(stream) = 0 BY <3>1
    <3>3. PICK r \in Nat : r = frag_remaining BY <2>1, <2>11, StateTypes
    <3>4. p > 0 /\ pushed - Len(stream) = ep - r /\ Len(delivered) = frags[p].index - 1
      BY Zenon, <2>1, <2>4, <2>6, <2>11, <3>3 DEF ReaderOK
    <3>5. r > 0 /\ pushed = ep - r BY <2>2, <3>1, <3>2, <3>3, <3>4
    <3>6. ek <= pushed BY <2>6
    <3>7. ek < ep BY <2>2, <3>5, <3>6
    <3>a. k # p BY <2>6, <3>7
    <3>b. k <= p BY <2>8, <3>7
    <3>8. k < p BY <3>a, <3>b
    <3>9. PICK q \in Nat : q = p - 1 BY <3>4
    <3>10. k <= q /\ q \in 0 .. Len(frags) /\ p \in 1 .. Len(frags)
      BY <2>2, <2>3, <2>4, <3>4, <3>8, <3>9
    <3>11. DoneAfter(q) \in Nat BY <2>1, <3>10, AfterTypes
    <3>12. PICK dq \in Nat : dq = DoneAfter(q) BY <3>11
    <3>13. dk <= dq
      <4>1. CASE k = q BY <2>6, <3>12, <4>1
      <4>2. CASE k # q
        <5>1. k \in 0 .. Len(frags) /\ k < q BY <2>2, <3>10, <4>2
        <5> QED BY <2>1, <2>6, <3>10, <3>12, <5>1 DEF PeerOK
      <4> QED BY <4>1, <4>2
    <3>14. FragmentOK(p) BY <2>1, <3>10 DEF PeerOK
    <3>15. frags[p].index = DoneAfter(p - 1) + 1 BY <3>14 DEF FragmentOK
    <3>16. Len(delivered) = dq BY <3>4, <3>9, <3>12, <3>15
    <3> QED BY <2>7, <3>13, <3>16
  <2> QED BY <2>10, <2>11
<1> QED BY <1>1, Inductive, PTL

(***************************************************************************)
(* A record in the making, with the bytes still announced for it, never    *)
(* exceeds max_record (record.rs 86-88), also after an error.              *)
(***************************************************************************)
THEOREM BoundedRecord == Spec => []RecordBounded
<1>1. Init => RecordBounded BY BoundsAssumption DEF Init, RecordBounded
<1>2. ASSUME TypeOK, RecordBounded, [Next]_vars PROVE RecordBounded'
  <2>1. /\ Len(record) \in Nat /\ record \in Seq(Byte) /\ stream \in Seq(Byte)
        /\ Len(stream) \in Nat /\ frag_remaining \in Nat \union {None} /\ max_record \in Nat
    BY <1>2, StateTypes, BoundsAssumption
  <2>2. ASSUME UNCHANGED <<record, frag_remaining>> PROVE RecordBounded'
    BY <1>2, <2>2 DEF RecordBounded
  <2>3. CASE Peer BY <2>2, <2>3 DEF Peer, frame
  <2>4. CASE Read BY <2>2, <2>4 DEF Read, push
  <2>5. CASE NeedMoreBytes BY <2>2, <2>5 DEF NeedMoreBytes
  <2>6. CASE ReadHeader
    <3> DEFINE len == LengthOf(FromBe(SubSeq(stream, 1, 4)))
    <3>1. record' = record BY <2>6 DEF ReadHeader
    <3>2. TooLarge(len) => frag_remaining' = frag_remaining BY <2>6 DEF ReadHeader
    <3>3. ~TooLarge(len) => frag_remaining' = len BY <2>6 DEF ReadHeader
    <3>4. len \in Nat
      <4>1. SubSeq(stream, 1, 4) \in [1 .. 4 -> Byte]
        <5>1. Len(stream) \in Nat /\ Len(stream) >= 4 /\ stream \in Seq(Byte)
          BY <2>1, <2>6 DEF ReadHeader
        <5>2. SubSeq(stream, 1, 4) \in Seq(Byte) /\ Len(SubSeq(stream, 1, 4)) = 4 BY <5>1
        <5> QED BY Zenon, <5>2, Elements
      <4>2. LAST_FRAGMENT \in Nat /\ FromBe(SubSeq(stream, 1, 4)) \in Nat
        BY Zenon, <4>1, WordArithmetic
      <4> QED BY <4>2 DEF LengthOf, IsLast
    <3> HIDE DEF len
    <3>5. CASE TooLarge(len) BY <2>2, <3>1, <3>2, <3>5
    <3>6. CASE ~TooLarge(len) BY <2>1, <3>1, <3>3, <3>4, <3>6 DEF TooLarge, RecordBounded, None
    <3> QED BY <3>5, <3>6
  <2>7. CASE EndFragment
    <3>1. frag_remaining = 0 /\ frag_remaining' = None /\ (record' = <<>> \/ record' = record)
      BY <2>7 DEF EndFragment
    <3> QED BY <1>2, <2>1, <3>1 DEF RecordBounded, None
  <2>8. CASE TakeChunk
    <3>1. PICK t \in Nat : t = TakeLen BY <2>1, <2>8 DEF TakeLen, TakeChunk, None
    <3>2. t <= Len(stream) /\ t <= frag_remaining BY <2>1, <2>8, <3>1 DEF TakeLen, TakeChunk, None
    <3>3. record' = record \o SubSeq(stream, 1, t) /\ frag_remaining' = frag_remaining - t
      BY <2>8, <3>1 DEF TakeChunk
    <3>4. SubSeq(stream, 1, t) \in Seq(Byte) /\ Len(SubSeq(stream, 1, t)) = t BY <2>1, <3>2
    <3>5. Len(record') = Len(record) + t BY <2>1, <3>3, <3>4
    <3>6. frag_remaining \in Nat BY <2>1, <2>8 DEF TakeChunk, None
    <3>7. Len(record) + frag_remaining <= max_record BY <1>2, <3>6 DEF RecordBounded, None
    <3>8. frag_remaining' \in Nat BY <3>2, <3>3, <3>6
    <3>9. Len(record') + frag_remaining' <= max_record BY <2>1, <3>3, <3>5, <3>6, <3>7
    <3> QED BY <3>8, <3>9 DEF RecordBounded, None
  <2>9. CASE UNCHANGED vars BY <2>2, <2>9 DEF vars
  <2> QED BY <1>2, <2>3, <2>4, <2>5, <2>6, <2>7, <2>8, <2>9 DEF Next, next_record
<1> QED BY <1>1, <1>2, TypeCorrect, PTL DEF Spec

(***************************************************************************)
(* Record marking implements the abstract record channel: whatever the     *)
(* code does between two reads, the RPC layer sees records sent, delivered *)
(* in order, or one failure (the safety part of ImplementsChannel).        *)
(***************************************************************************)
THEOREM Refinement == Spec => Channel!Spec
<1>1. Init => Channel!Init BY DEF Init, Channel!Init
<1>2. ASSUME IInv, IInv', [Next]_vars PROVE [Channel!Next]_(Channel!vars)
  <2>0. TypeOK /\ TypeOK' BY <1>2 DEF IInv
  <2>1. ASSUME UNCHANGED <<sent, delivered, failed>> PROVE [Channel!Next]_(Channel!vars)
    BY <2>1 DEF Channel!vars
  <2>2. CASE Peer
    <3>1. PICK last \in BOOLEAN, data \in Payload : frame(last, data) BY <2>2 DEF Peer
    <3>2. UNCHANGED <<delivered, failed>> BY <3>1 DEF frame
    <3>3. CASE ~last BY <2>1, <3>1, <3>2, <3>3 DEF frame
    <3>4. CASE last
      <4> DEFINE acc == OpenAfter(Len(frags)) \o data
      <4>1. sent' = Append(sent, acc) BY <3>1, <3>4 DEF frame
      <4>2. sent \in Seq(Seq(Byte)) /\ Len(frags) \in Nat BY <2>0, StateTypes
      <4>3. acc \in Seq(Byte)
        BY <2>0, <4>2, AfterTypes, PayloadIsSeq
      <4> HIDE DEF acc
      <4>4. Len(sent') = Len(sent) + 1 /\ \A i \in 1 .. Len(sent) : sent'[i] = sent[i]
        BY <4>1, <4>2, <4>3
      <4> QED BY <3>2, <4>4 DEF Channel!Next, Channel!Send
    <3> QED BY <3>3, <3>4
  <2>3. CASE Read BY <2>1, <2>3 DEF Read, push, peerVars
  <2>4. CASE NeedMoreBytes BY <2>1, <2>4 DEF NeedMoreBytes, peerVars
  <2>5. CASE ReadHeader
    <3>1. UNCHANGED <<sent, delivered>> /\ (failed' = TRUE \/ failed' = failed)
      BY Zenon, <2>5 DEF ReadHeader, peerVars
    <3> QED BY Zenon, <2>1, <3>1 DEF Channel!Next, Channel!Fail
  <2>6. CASE EndFragment
    <3>1. UNCHANGED <<sent, failed>> BY <2>6 DEF EndFragment, peerVars
    <3>2. CASE failed BY <3>1, <3>2 DEF Channel!Next, Channel!Afterwards
    <3>3. CASE ~failed
      <4>1. WholeRecordsInOrder' BY <1>2, <3>1, <3>3 DEF IInv
      <4>2. CASE ~RecordComplete BY <2>1, <2>6, <3>1, <4>2 DEF EndFragment
      <4>3. CASE RecordComplete
        <5>1. delivered' = Append(delivered, record) BY <2>6, <4>3 DEF EndFragment
        <5>2. delivered \in Seq(Seq(Byte)) /\ record \in Seq(Byte) /\ Len(delivered) \in Nat
              /\ Len(sent) \in Nat
          BY <2>0, StateTypes
        <5>3. Len(delivered') = Len(delivered) + 1 /\ delivered'[Len(delivered) + 1] = record
          BY <5>1, <5>2
        <5>4. Len(delivered') <= Len(sent) /\ record = sent[Len(delivered) + 1]
          BY <3>1, <3>3, <4>1, <5>2, <5>3 DEF WholeRecordsInOrder
        <5>5. Len(delivered) < Len(sent) BY <5>2, <5>3, <5>4
        <5> QED BY <3>1, <3>3, <5>1, <5>4, <5>5 DEF Channel!Next, Channel!Deliver
      <4> QED BY <4>2, <4>3
    <3> QED BY <3>2, <3>3
  <2>7. CASE TakeChunk BY <2>1, <2>7 DEF TakeChunk, peerVars
  <2>8. CASE UNCHANGED vars BY <2>1, <2>8 DEF vars
  <2> QED BY <1>2, <2>2, <2>3, <2>4, <2>5, <2>6, <2>7, <2>8 DEF Next, next_record
<1> QED BY <1>1, <1>2, Inductive, PTL DEF Spec, Channel!Spec
============================================================================
