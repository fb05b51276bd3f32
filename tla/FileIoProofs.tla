---------------------------- MODULE FileIoProofs ----------------------------
(***************************************************************************)
(* The four properties of FileIo, for every transfer size, every data,     *)
(* offsets and counts, any number of calls and restarts, and any RPCs that *)
(* may fail.                                                               *)
(*                                                                         *)
(* What a call reports rests on what it has done so far: PreadAlong and    *)
(* PwriteAlong tie the position of the loop, the bytes that it has read or *)
(* sent and the file, as long as nobody else touches it.  What survives a  *)
(* restart rests on acked: with no restart since the open it is in the     *)
(* server's memory, so COMMIT stores it, and a later WRITE touches only    *)
(* positions that its call had given up (Apart).                           *)
(***************************************************************************)
EXTENDS FileIo, Integers, TLAPS

-----------------------------------------------------------------------------
(* Sequences. *)

\* The empty sequence is the one of length 0.
LEMMA Nothing ==
  ASSUME NEW S
  PROVE  /\ <<>> \in Seq(S) /\ Len(<<>>) = 0
         /\ \A s \in Seq(S) : s # <<>> => Len(s) \in Nat \ {0}
  OBVIOUS

\* A sequence is a function on 1 .. Len.
LEMMA Elements ==
  ASSUME NEW S, NEW s \in Seq(S)
  PROVE  DOMAIN s = 1 .. Len(s) /\ Len(s) \in Nat /\ s \in [1 .. Len(s) -> S]
  OBVIOUS

\* A function on 1 .. n is a sequence.
LEMMA Listed ==
  ASSUME NEW S, NEW n \in Nat, NEW f \in [1 .. n -> S]
  PROVE  f \in Seq(S) /\ Len(f) = n
  OBVIOUS

\* Sequences with the same elements are equal.
LEMMA SameElements ==
  ASSUME NEW S, NEW a \in Seq(S), NEW b \in Seq(S), Len(a) = Len(b),
         \A i \in 1 .. Len(a) : a[i] = b[i]
  PROVE  a = b
  OBVIOUS

\* The elements of two sequences that are joined.
LEMMA Joined ==
  ASSUME NEW S, NEW a \in Seq(S), NEW b \in Seq(S)
  PROVE  /\ a \o b \in Seq(S) /\ Len(a \o b) = Len(a) + Len(b)
         /\ \A i \in 1 .. Len(a) + Len(b) :
               (a \o b)[i] = IF i <= Len(a) THEN a[i] ELSE b[i - Len(a)]
  OBVIOUS

\* Joining nothing changes nothing.
LEMMA JoinNothing ==
  ASSUME NEW S, NEW s \in Seq(S)
  PROVE  s \o <<>> = s /\ <<>> \o s = s
  OBVIOUS

\* A slice that ends before it begins is empty.
LEMMA EmptySlice ==
  ASSUME NEW s, NEW i \in Int, NEW j \in Int, j < i
  PROVE  SubSeq(s, i, j) = <<>>
  OBVIOUS

\* The slice from the first to the last element is the sequence.
LEMMA WholeSlice ==
  ASSUME NEW S, NEW s \in Seq(S)
  PROVE  SubSeq(s, 1, Len(s)) = s
  OBVIOUS

\* Two slices, the second of which begins where the first ends.
LEMMA SlicesJoin ==
  ASSUME NEW S, NEW s \in Seq(S), NEW i \in 1 .. Len(s) + 1,
         NEW j \in i - 1 .. Len(s), NEW k \in j .. Len(s)
  PROVE  SubSeq(s, i, j) \o SubSeq(s, j + 1, k) = SubSeq(s, i, k)
  OBVIOUS

-----------------------------------------------------------------------------
Bytes == Seq(Nat)
CallNames == {"none", "open", "pread", "pwrite", "fsync", "close", "read_whole", "write_whole"}
OpType == [call : CallNames, write : BOOLEAN, create : BOOLEAN, exclusive : BOOLEAN,
           truncate : BOOLEAN, off : Nat, count : Nat, data : Bytes, sent : Nat,
           failed : BOOLEAN]

ServerType ==
  /\ setting \in Settings /\ mem \in Bytes /\ disk \in Bytes
  /\ exists \in BOOLEAN
  /\ file \in [open : BOOLEAN, writable : BOOLEAN, stale : BOOLEAN]
ClientType ==
  /\ pc \in Steps /\ op \in OpType /\ pos \in Nat /\ out \in Bytes
  /\ result \in [call : CallNames, ok : BOOLEAN, op : OpType, n : Nat, data : Bytes]
HistoryType ==
  /\ DOMAIN acked \subseteq Nat \ {0} /\ DOMAIN durable \subseteq Nat \ {0}
  /\ crashed \in BOOLEAN /\ quiet \in BOOLEAN
TypeOK == ServerType /\ ClientType /\ HistoryType

\* Which call is at which step, with the file open or not, and what it has done
\* before its loop.
CallsAt(step) ==
  CASE step = "idle" -> {"none"}
    [] step = "getattr" -> {"read_whole"}
    [] step = "open" -> {"open", "read_whole", "write_whole"}
    [] step = "setattr" -> {"open", "write_whole"}
    [] step = "pread" -> {"pread", "read_whole"}
    [] step = "pwrite" -> {"pwrite", "write_whole"}
    [] step = "commit" -> {"fsync", "close", "read_whole", "write_whole"}
    [] step = "close" -> {"close", "read_whole", "write_whole"}
Flow ==
  /\ op.call \in CallsAt(pc)
  /\ pc \in {"getattr", "open"} => ~file.open
  /\ pc \in {"setattr", "pread", "pwrite", "commit", "close"} => file.open
  /\ pc \in {"getattr", "open", "setattr"} => pos = op.off /\ op.sent = 0 /\ out = <<>>
  /\ op.call = "read_whole" => ~op.write /\ op.off = 0
  /\ pc # "idle" => result = NoResult

\* The positions that pwrite may write.
Positions(o) == o.off + 1 .. o.off + Len(o.data)
Apart == DOMAIN acked \cap Positions(op) = {} /\ DOMAIN durable \cap Positions(op) = {}

PreadAlong ==
  /\ pc = "pread" => op.off <= pos /\ pos <= op.off + op.count
  /\ pc = "pread" /\ quiet => /\ out = SubSeq(mem, op.off + 1, pos)
                              /\ pos = op.off \/ pos <= Len(mem)
  /\ op.call = "read_whole" /\ pc \in {"open", "pread"} /\ quiet => op.count = Len(mem)
  /\ op.call = "read_whole" /\ pc \in {"commit", "close"} /\ quiet /\ ~op.failed => out = mem
Stored(o, n) == \A i \in 1 .. n : o.off + i <= Len(mem) /\ mem[o.off + i] = o.data[i]
PwriteAlong ==
  pc = "pwrite" => /\ pos = op.off + op.sent /\ op.sent <= Len(op.data) /\ Apart
                   /\ quiet => Stored(op, op.sent)
Kept ==
  /\ ~crashed => Holds(mem, acked)
  /\ pc \in {"getattr", "open", "setattr"} => DOMAIN acked = {}
  /\ op.call \in {"open", "read_whole", "write_whole"} => DOMAIN durable = {}
  /\ SyncedSurvives

IInv ==
  /\ TypeOK /\ Flow /\ PreadAlong /\ PwriteAlong /\ Kept
  /\ PwriteStored /\ ReadsExact /\ OpensReleased

-----------------------------------------------------------------------------
(* Bytes. *)

\* A WRITE stores its bytes where it says, and touches nothing else.
LEMMA PutStores ==
  ASSUME NEW c \in Bytes, NEW off \in Nat, NEW d \in Bytes
  PROVE  LET p == Put(c, off, d) IN
           /\ p \in Bytes /\ Len(p) \in Nat /\ Len(c) <= Len(p)
           /\ \A i \in 1 .. Len(d) : off + i <= Len(p) /\ p[off + i] = d[i]
           /\ \A i \in 1 .. Len(c) : i \notin off + 1 .. off + Len(d) => p[i] = c[i]
  <1> DEFINE end == off + Len(d)
             size == IF end > Len(c) /\ d # <<>> THEN end ELSE Len(c)
             p == Put(c, off, d)
             at(i) == IF i > off /\ i <= end THEN d[i - off]
                      ELSE IF i <= Len(c) THEN c[i] ELSE Zero
  <1>1. /\ Len(c) \in Nat /\ Len(d) \in Nat /\ end \in Nat /\ size \in Nat /\ Len(c) <= size
        /\ \A i \in 1 .. Len(d) : d[i] \in Nat
        /\ \A i \in 1 .. Len(c) : c[i] \in Nat
    BY DEF Bytes
  <1>2. \A i \in 1 .. size : at(i) \in Nat
    BY <1>1 DEF Zero
  <1>3. p = [i \in 1 .. size |-> at(i)]
    BY DEF Put
  <1> HIDE DEF p, at
  <1>4. p \in Bytes /\ Len(p) = size
    <2>1. p \in [1 .. size -> Nat]
      BY <1>2, <1>3
    <2> HIDE DEF size
    <2> QED BY <1>1, <2>1, Listed, Elements DEF Bytes
  <1>5. \A i \in 1 .. size : p[i] = at(i)
    BY <1>3
  <1>6. ASSUME NEW i \in 1 .. Len(d) PROVE off + i <= size /\ p[off + i] = d[i]
    <2>1. d # <<>> /\ off + i \in 1 .. size /\ off + i > off /\ off + i <= end /\ (off + i) - off = i
      BY <1>1
    <2>2. p[off + i] = at(off + i)
      BY <1>5, <2>1
    <2> QED BY <2>1, <2>2 DEF at
  <1>7. ASSUME NEW i \in 1 .. Len(c), i \notin off + 1 .. end PROVE p[i] = c[i]
    <2>1. i \in 1 .. size /\ ~(i > off /\ i <= end) /\ i <= Len(c)
      BY <1>1, <1>7
    <2>2. p[i] = at(i)
      BY <1>5, <2>1
    <2> QED BY <2>1, <2>2 DEF at
  <1> QED BY <1>1, <1>4, <1>6, <1>7 DEF p

\* ... so what the file held elsewhere it still holds.
LEMMA PutHolds ==
  ASSUME NEW c \in Bytes, NEW off \in Nat, NEW d \in Bytes, NEW m,
         DOMAIN m \subseteq Nat \ {0}, DOMAIN m \cap (off + 1 .. off + Len(d)) = {}, Holds(c, m)
  PROVE  Holds(Put(c, off, d), m)
  <1> DEFINE p == Put(c, off, d)
  <1>1. /\ Len(p) \in Nat /\ Len(c) <= Len(p) /\ Len(c) \in Nat
        /\ \A i \in 1 .. Len(c) : i \notin off + 1 .. off + Len(d) => p[i] = c[i]
    BY PutStores DEF Bytes
  <1> HIDE DEF p
  <1>2. ASSUME NEW i \in DOMAIN m PROVE i <= Len(p) /\ p[i] = m[i]
    <2>1. i \in Nat \ {0} /\ i <= Len(c) /\ c[i] = m[i] /\ i \notin off + 1 .. off + Len(d)
      BY DEF Holds
    <2> QED BY <1>1, <2>1
  <1> QED BY <1>2 DEF Holds, p

\* The bytes of a SubSeq that is within the sequence.
LEMMA Within ==
  ASSUME NEW s \in Bytes, NEW a \in Nat, NEW b \in Nat, a <= b, b <= Len(s)
  PROVE  /\ SubSeq(s, a + 1, b) \in Bytes /\ Len(SubSeq(s, a + 1, b)) = b - a
         /\ \A i \in 1 .. b - a : SubSeq(s, a + 1, b)[i] = s[a + i]
  <1> DEFINE t == SubSeq(s, a + 1, b)
  <1>1. Len(s) \in Nat /\ b - a \in Nat /\ \A i \in 1 .. Len(s) : s[i] \in Nat
    BY DEF Bytes
  <1>2. t = [i \in 1 .. b - a |-> s[a + i]]
    BY <1>1
  <1> HIDE DEF t
  <1>3. \A i \in 1 .. b - a : a + i \in 1 .. Len(s)
    BY <1>1
  <1>4. t \in [1 .. b - a -> Nat]
    BY <1>1, <1>2, <1>3
  <1>5. t \in Seq(Nat) /\ Len(t) = b - a
    BY SMTT(30), <1>1, <1>4, Listed, Elements
  <1>6. \A i \in 1 .. b - a : t[i] = s[a + i]
    BY <1>2
  <1> QED BY <1>5, <1>6 DEF t, Bytes

\* Bytes that are in the file at an offset are what a Slice there gives.
LEMMA SliceStored ==
  ASSUME NEW c \in Bytes, NEW off \in Nat, NEW n \in Nat, NEW d \in Bytes, n <= Len(d),
         \A i \in 1 .. n : off + i <= Len(c) /\ c[off + i] = d[i]
  PROVE  Slice(c, off, n) = SubSeq(d, 1, n)
  <1>1. Len(c) \in Nat /\ Len(d) \in Nat
    BY DEF Bytes
  <1>2. CASE n = 0
    <2>1. SubSeq(d, 1, n) = <<>>
      BY <1>2, EmptySlice
    <2>2. Smaller(off + n, Len(c)) < off + 1 /\ Smaller(off + n, Len(c)) \in Int
      BY <1>1, <1>2 DEF Smaller
    <2>3. Slice(c, off, n) = <<>>
      BY <2>2, EmptySlice DEF Slice
    <2> QED BY <2>1, <2>3
  <1>3. CASE n > 0
    <2>1. off + n <= Len(c)
      BY <1>3
    <2>2. Slice(c, off, n) = SubSeq(c, off + 1, off + n)
      BY <1>1, <2>1 DEF Slice, Smaller
    <2>3. /\ SubSeq(c, off + 1, off + n) \in Bytes /\ Len(SubSeq(c, off + 1, off + n)) = n
          /\ \A i \in 1 .. n : SubSeq(c, off + 1, off + n)[i] = c[off + i]
      <3>1. off + n \in Nat /\ off <= off + n /\ (off + n) - off = n
        OBVIOUS
      <3> QED BY <2>1, <3>1, Within
    <2>4. /\ SubSeq(d, 1, n) \in Bytes /\ Len(SubSeq(d, 1, n)) = n
          /\ \A i \in 1 .. n : SubSeq(d, 1, n)[i] = d[i]
      <3>1. 0 \in Nat /\ 0 <= n /\ n - 0 = n /\ 0 + 1 = 1 /\ \A i \in 1 .. n : 0 + i = i
        OBVIOUS
      <3>2. \A i \in 1 .. n : SubSeq(d, 0 + 1, n)[i] = d[0 + i]
        BY <3>1, Within
      <3>3. SubSeq(d, 0 + 1, n) \in Bytes /\ Len(SubSeq(d, 0 + 1, n)) = n - 0
        BY Zenon, <3>1, Within
      <3>4. SubSeq(d, 0 + 1, n) = SubSeq(d, 1, n)
        BY <3>1
      <3> QED BY <3>1, <3>2, <3>3, <3>4
    <2> DEFINE x == SubSeq(c, off + 1, off + n)
               y == SubSeq(d, 1, n)
    <2>5. Len(x) = Len(y) /\ \A i \in 1 .. Len(x) : x[i] = y[i]
      BY <2>3, <2>4
    <2> HIDE DEF x, y
    <2>6. x = y
      BY <2>3, <2>4, <2>5, SameElements DEF Bytes, x, y
    <2> QED BY <2>2, <2>6 DEF x, y
  <1> QED BY <1>2, <1>3

\* One more READ of the loop.
LEMMA ReadMore ==
  ASSUME NEW c \in Bytes, NEW off \in Nat, NEW p \in Nat, NEW got \in Nat, off <= p,
         p = off \/ p <= Len(c), got = 0 \/ p + got <= Len(c)
  PROVE  SubSeq(c, off + 1, p) \o Slice(c, p, got) = SubSeq(c, off + 1, p + got)
  <1>1. Len(c) \in Nat
    BY DEF Bytes
  <1>2. CASE got = 0
    <2>1. Smaller(p + got, Len(c)) < p + 1 /\ Smaller(p + got, Len(c)) \in Int
      BY <1>1, <1>2 DEF Smaller
    <2>2. Slice(c, p, got) = <<>>
      BY <2>1, EmptySlice DEF Slice
    <2>3. SubSeq(c, off + 1, p) \in Bytes
      <3>1. CASE p = off
        <4>1. SubSeq(c, off + 1, p) = <<>>
          BY <3>1, EmptySlice
        <4> QED BY <4>1, Nothing DEF Bytes
      <3>2. CASE p <= Len(c)
        BY <3>2, Within
      <3> QED BY <3>1, <3>2
    <2>4. p + got = p
      BY <1>2
    <2> QED BY <2>2, <2>3, <2>4, JoinNothing DEF Bytes
  <1>3. CASE got > 0
    <2>1. p + got <= Len(c)
      BY <1>3
    <2>2. Slice(c, p, got) = SubSeq(c, p + 1, p + got)
      BY <1>1, <2>1 DEF Slice, Smaller
    <2>3. SubSeq(c, off + 1, p) \o SubSeq(c, p + 1, p + got) = SubSeq(c, off + 1, p + got)
      BY <1>1, <1>3, <2>1, SlicesJoin DEF Bytes
    <2> QED BY <2>2, <2>3
  <1> QED BY <1>2, <1>3

\* READ gives what the range has at the position, and where the loop stops it
\* has all of it.
LEMMA ReadStops ==
  ASSUME NEW c \in Bytes, NEW off \in Nat, NEW count \in Nat, NEW p \in Nat, NEW got \in Nat,
         off <= p, p < off + count, p = off \/ p <= Len(c),
         p >= Len(c) => got = 0,
         p < Len(c) => got \in 1 .. Len(Slice(c, p, Smaller(off + count - p, PrefRead)))
  PROVE  /\ got = 0 \/ p + got <= Len(c)
         /\ p + got <= off + count
         /\ p + got >= Len(c) \/ got = 0 \/ off + count - p <= got
              => SubSeq(c, off + 1, p + got) = Slice(c, off, count)
  <1>1. Len(c) \in Nat /\ PrefRead \in Nat \ {0}
    BY FileAssumption DEF Bytes
  <1>2. CASE p >= Len(c)
    <2>1. got = 0 /\ p + got = p
      BY <1>2
    <2>2. CASE p = off
      <3>1. Smaller(off + count, Len(c)) \in Int /\ Smaller(off + count, Len(c)) < off + 1
        BY <1>1, <1>2, <2>2 DEF Smaller
      <3>2. Slice(c, off, count) = <<>>
        BY <3>1, EmptySlice DEF Slice
      <3>3. SubSeq(c, off + 1, p + got) = <<>>
        BY <2>1, <2>2, EmptySlice
      <3> QED BY <2>1, <3>2, <3>3
    <2>3. CASE p <= Len(c)
      <3>1. Smaller(off + count, Len(c)) = p
        BY <1>1, <1>2, <2>3 DEF Smaller
      <3> QED BY <2>1, <3>1 DEF Slice
    <2> QED BY <2>2, <2>3
  <1>3. CASE p < Len(c)
    <2> DEFINE most == Smaller(off + count - p, PrefRead)
               end == Smaller(p + most, Len(c))
    <2>1. most \in Nat /\ most <= off + count - p /\ end \in Nat /\ p <= end /\ end <= Len(c)
          /\ end <= p + most
      BY <1>1, <1>3 DEF Smaller
    <2>2. Slice(c, p, most) = SubSeq(c, p + 1, end)
      BY DEF Slice
    <2> HIDE DEF most, end
    <2>3. Len(Slice(c, p, most)) = end - p
      BY <2>1, <2>2, Within
    <2>4. got \in 1 .. Len(Slice(c, p, most))
      BY <1>1, <1>3 DEF most
    <2>5. got <= end - p /\ got >= 1
      BY <2>1, <2>3, <2>4
    <2>6. p + got <= Len(c) /\ p + got <= off + count
      BY <1>1, <2>1, <2>5
    <2>7. p + got >= Len(c) \/ off + count - p <= got => Smaller(off + count, Len(c)) = p + got
      BY <1>1, <2>6 DEF Smaller
    <2> QED BY <2>5, <2>6, <2>7 DEF Slice
  <1> QED BY <1>1, <1>2, <1>3

\* ... and so it has when nothing is left to ask for.
LEMMA ReadAll ==
  ASSUME NEW c \in Bytes, NEW off \in Nat, NEW count \in Nat, count = 0 \/ off + count <= Len(c)
  PROVE  SubSeq(c, off + 1, off + count) = Slice(c, off, count)
  <1>1. Len(c) \in Nat
    BY DEF Bytes
  <1>2. CASE off + count <= Len(c)
    BY <1>1, <1>2 DEF Slice, Smaller
  <1>3. CASE count = 0
    <2>1. Smaller(off + count, Len(c)) \in Int /\ Smaller(off + count, Len(c)) < off + 1
      BY <1>1, <1>3 DEF Smaller
    <2>2. Slice(c, off, count) = <<>>
      BY <2>1, EmptySlice DEF Slice
    <2>3. SubSeq(c, off + 1, off + count) = <<>>
      BY <1>3, EmptySlice
    <2> QED BY <2>2, <2>3
  <1> QED BY <1>2, <1>3

\* A range as long as the file is the file.
LEMMA ReadWhole ==
  ASSUME NEW c \in Bytes
  PROVE  Slice(c, 0, Len(c)) = c
  <1>1. Len(c) \in Nat /\ 0 + 1 = 1 /\ Smaller(0 + Len(c), Len(c)) = Len(c)
    BY DEF Bytes, Smaller
  <1>2. SubSeq(c, 1, Len(c)) = c
    BY WholeSlice DEF Bytes
  <1> QED BY <1>1, <1>2 DEF Slice

\* A slice is a sequence of bytes.
LEMMA SliceType ==
  ASSUME NEW c \in Bytes, NEW off \in Nat, NEW n \in Nat
  PROVE  Slice(c, off, n) \in Bytes
  <1> DEFINE end == Smaller(off + n, Len(c))
  <1>1. end \in Nat /\ end <= Len(c)
    BY DEF Bytes, Smaller
  <1>2. Slice(c, off, n) = SubSeq(c, off + 1, end)
    BY DEF Slice
  <1> HIDE DEF end
  <1>3. CASE off <= end
    BY <1>1, <1>2, <1>3, Within
  <1>4. CASE end < off
    <2>1. SubSeq(c, off + 1, end) = <<>>
      BY <1>1, <1>4, EmptySlice
    <2> QED BY Zenon, <1>2, <2>1, Nothing DEF Bytes
  <1> QED BY <1>1, <1>3, <1>4

\* The piece that a WRITE sends.
LEMMA PieceOfData ==
  ASSUME op \in OpType, op.sent <= Len(op.data)
  PROVE  /\ Piece \in Bytes /\ Len(Piece) \in Nat /\ op.sent + Len(Piece) <= Len(op.data)
         /\ \A i \in 1 .. Len(Piece) : Piece[i] = op.data[op.sent + i]
  <1>1. op.data \in Bytes /\ op.sent \in Nat /\ Len(op.data) \in Nat /\ PrefWrite \in Nat
    BY FileAssumption DEF OpType, Bytes
  <1> DEFINE end == Smaller(op.sent + PrefWrite, Len(op.data))
  <1>2. end \in Nat /\ end <= Len(op.data) /\ op.sent <= end
    BY <1>1 DEF Smaller
  <1>3. Piece = SubSeq(op.data, op.sent + 1, end)
    BY DEF Piece, Slice
  <1> HIDE DEF end
  <1>4. /\ Piece \in Bytes /\ Len(Piece) = end - op.sent
        /\ \A i \in 1 .. end - op.sent : Piece[i] = op.data[op.sent + i]
    BY SMTT(30), <1>1, <1>2, <1>3, Within
  <1> QED BY <1>1, <1>2, <1>4

\* ... and what is taken of it.
LEMMA Taken ==
  ASSUME NEW s \in Bytes, NEW n \in 0 .. Len(s)
  PROVE  /\ SubSeq(s, 1, n) \in Bytes /\ Len(SubSeq(s, 1, n)) = n
         /\ \A i \in 1 .. n : SubSeq(s, 1, n)[i] = s[i]
  <1>1. Len(s) \in Nat /\ n \in Nat /\ n <= Len(s) /\ n - 0 = n /\ 0 + 1 = 1
        /\ \A i \in 1 .. n : 0 + i = i
    BY DEF Bytes
  <1>2. /\ SubSeq(s, 0 + 1, n) \in Bytes /\ Len(SubSeq(s, 0 + 1, n)) = n - 0
        /\ \A i \in 1 .. n - 0 : SubSeq(s, 0 + 1, n)[i] = s[0 + i]
    BY <1>1, Within
  <1>3. SubSeq(s, 0 + 1, n) = SubSeq(s, 1, n)
    BY <1>1
  <1>4. ASSUME NEW i \in 1 .. n PROVE SubSeq(s, 1, n)[i] = s[i]
    BY <1>1, <1>2, <1>3
  <1> QED BY <1>1, <1>2, <1>3, <1>4

\* What pwrite adds to the history is in the file if both parts are.
LEMMA AddHolds ==
  ASSUME NEW c \in Bytes, NEW m, NEW off \in Nat, NEW d \in Bytes, NEW n \in 0 .. Len(d),
         DOMAIN m \subseteq Nat \ {0}
  PROVE  LET a == Add(m, off, SubSeq(d, 1, n)) IN
           /\ DOMAIN a \subseteq Nat \ {0}
           /\ Holds(c, m) /\ (\A i \in 1 .. n : off + i <= Len(c) /\ c[off + i] = d[i])
                => Holds(c, a)
  <1> DEFINE t == SubSeq(d, 1, n)
             a == Add(m, off, t)
  <1>1. t \in Bytes /\ Len(t) = n /\ \A i \in 1 .. n : t[i] = d[i]
    BY Taken
  <1>2. n \in Nat
    BY DEF Bytes
  <1> HIDE DEF t
  <1>3. DOMAIN a = DOMAIN m \union (off + 1 .. off + n)
    BY <1>1 DEF Add
  <1>4. DOMAIN a \subseteq Nat \ {0}
    BY <1>2, <1>3
  <1>5. \A i \in DOMAIN a : a[i] = IF i > off /\ i <= off + n THEN t[i - off] ELSE m[i]
    BY <1>1, <1>3 DEF Add
  <1> HIDE DEF a
  <1>6. ASSUME Holds(c, m), \A i \in 1 .. n : off + i <= Len(c) /\ c[off + i] = d[i],
               NEW i \in DOMAIN a
        PROVE  i <= Len(c) /\ c[i] = a[i]
    <2>1. i \in Nat /\ off + (i - off) = i
      BY <1>4
    <2>2. CASE i > off /\ i <= off + n
      <3>1. i - off \in 1 .. n
        BY <1>2, <2>1, <2>2
      <3>2. a[i] = d[i - off]
        BY <1>1, <1>5, <2>2, <3>1
      <3> QED BY <1>6, <2>1, <3>1, <3>2
    <2>3. CASE ~(i > off /\ i <= off + n)
      <3>1. i \in DOMAIN m
        BY <1>2, <1>3, <2>1, <2>3
      <3> QED BY <1>5, <1>6, <2>3, <3>1 DEF Holds
    <2> QED BY <2>2, <2>3
  <1> QED BY <1>4, <1>6 DEF Holds, a, t

-----------------------------------------------------------------------------
(* Calls. *)

\* No call and no result.
LEMMA IdleType ==
  /\ Idle \in OpType /\ Idle.call = "none" /\ Idle.off = 0 /\ Idle.sent = 0
  /\ Idle.data = <<>> /\ Idle.write = FALSE
  <1>1. <<>> \in Bytes
    BY Nothing DEF Bytes
  <1> QED BY <1>1 DEF Idle, OpType, CallNames

LEMMA NoResultType ==
  /\ NoResult \in [call : CallNames, ok : BOOLEAN, op : OpType, n : Nat, data : Bytes]
  /\ NoResult.call = "none"
  <1>1. <<>> \in Bytes
    BY Nothing DEF Bytes
  <1> QED BY <1>1, IdleType DEF NoResult, CallNames

\* The flags of open.
LEMMA FlagsType ==
  ASSUME NEW w \in BOOLEAN, NEW c \in BOOLEAN, NEW e \in BOOLEAN, NEW t \in BOOLEAN
  PROVE  LET o == OpenFlags(w, c, e, t) IN
           o \in OpType /\ o.call = "open" /\ o.off = 0 /\ o.sent = 0 /\ o.write = w
  BY ZenonT(40), IdleType DEF OpenFlags, OpType, CallNames

\* The calls with a file in hand.
LEMMA PreadType ==
  ASSUME NEW off \in Nat, NEW count \in Nat
  PROVE  LET o == [Idle EXCEPT !.call = "pread", !.off = off, !.count = count] IN
           o \in OpType /\ o.call = "pread" /\ o.off = off /\ o.sent = 0
  BY Zenon, IdleType DEF OpType, CallNames

LEMMA PwriteType ==
  ASSUME NEW off \in Nat, NEW d \in Bytes
  PROVE  LET o == [Idle EXCEPT !.call = "pwrite", !.off = off, !.data = d] IN
           o \in OpType /\ o.call = "pwrite" /\ o.off = off /\ o.sent = 0 /\ o.data = d
  BY Zenon, IdleType DEF OpType, CallNames

LEMMA FsyncType ==
  LET o == [Idle EXCEPT !.call = "fsync"] IN
    o \in OpType /\ o.call = "fsync" /\ o.off = 0 /\ o.sent = 0
  BY IdleType DEF OpType, CallNames

LEMMA CloseType ==
  ASSUME NEW w \in BOOLEAN
  PROVE  LET o == [Idle EXCEPT !.call = "close", !.write = w] IN
           o \in OpType /\ o.call = "close" /\ o.off = 0 /\ o.sent = 0
  BY Zenon, IdleType DEF OpType, CallNames

\* ... and those that open it themselves.
LEMMA ReadWholeType ==
  LET o == [read_only EXCEPT !.call = "read_whole"] IN
    o \in OpType /\ o.call = "read_whole" /\ o.off = 0 /\ o.sent = 0 /\ o.write = FALSE
  <1>1. read_only \in OpType /\ read_only.off = 0 /\ read_only.sent = 0 /\ read_only.write = FALSE
    BY Zenon, FlagsType DEF read_only
  <1> QED BY <1>1 DEF OpType, CallNames

LEMMA WriteWholeType ==
  ASSUME NEW d \in Bytes
  PROVE  LET o == [create_write EXCEPT !.call = "write_whole", !.data = d] IN
           o \in OpType /\ o.call = "write_whole" /\ o.off = 0 /\ o.sent = 0
  <1>1. create_write \in OpType /\ create_write.off = 0 /\ create_write.sent = 0
    BY Zenon, FlagsType DEF create_write
  <1> QED BY Zenon, <1>1 DEF OpType, CallNames

\* A call that begins: what it will read or write is untouched.
LEMMA BeginStep ==
  ASSUME IInv, NEW call \in OpType, NEW start \in Steps \ {"idle"}, Begin(call, start),
         call.call \in CallsAt(start), call.sent = 0,
         start \in {"getattr", "open"} => ~file.open,
         start \in {"setattr", "pread", "pwrite", "commit", "close"} => file.open,
         call.call = "read_whole" => start = "getattr" /\ ~call.write /\ call.off = 0
  PROVE  /\ ServerType' /\ ClientType' /\ Flow' /\ PreadAlong'
         /\ PwriteStored' /\ ReadsExact' /\ OpensReleased'
         /\ op' = call /\ pc' = start /\ pos' = call.off /\ mem' = mem /\ disk' = disk
  <1>1. /\ op' = call /\ pc' = start /\ pos' = call.off /\ out' = <<>> /\ result' = NoResult
        /\ setting' = setting /\ mem' = mem /\ disk' = disk /\ exists' = exists
        /\ opens' = opens /\ file' = file /\ stranded' = stranded
    BY DEF Begin, server
  <1>2. call.off \in Nat /\ call.count \in Nat /\ mem \in Bytes
    BY DEF IInv, TypeOK, ServerType, OpType
  <1>3. <<>> \in Bytes
    BY Nothing DEF Bytes
  <1>4. ServerType'
    BY <1>1 DEF IInv, TypeOK, ServerType
  <1>5. ClientType'
    BY <1>1, <1>2, <1>3, NoResultType DEF ClientType
  <1>6. Flow'
    BY <1>1 DEF Flow
  <1>7. PreadAlong'
    <2>1. SubSeq(mem, call.off + 1, call.off) = <<>>
      BY <1>2, EmptySlice
    <2>2. call.off <= call.off /\ call.off <= call.off + call.count
      BY <1>2
    <2> QED BY Zenon, <1>1, <2>1, <2>2 DEF PreadAlong
  <1>8. PwriteStored' /\ ReadsExact'
    BY <1>1, NoResultType DEF PwriteStored, ReadsExact
  <1>9. OpensReleased'
    BY <1>1 DEF IInv, OpensReleased, Stateful
  <1> QED BY <1>1, <1>4, <1>5, <1>6, <1>7, <1>8, <1>9

\* The calls that have no file in hand begin without a history.
LEMMA FreshHistory ==
  ASSUME acked' = NoBytes, durable' = NoBytes, crashed' = FALSE, quiet' = TRUE, pc' # "pwrite"
  PROVE  HistoryType' /\ Kept' /\ PwriteAlong'
  <1>1. DOMAIN acked' = {} /\ DOMAIN durable' = {}
    BY DEF NoBytes
  <1> QED BY Zenon, <1>1 DEF HistoryType, Kept, SyncedSurvives, Holds, PwriteAlong

\* Where neither the file nor the history of it changes, what is kept is kept.
LEMMA SameHistory ==
  ASSUME IInv, mem' = mem, disk' = disk, UNCHANGED ledger,
         op'.call \in {"open", "read_whole", "write_whole"} =>
           op.call \in {"open", "read_whole", "write_whole"},
         pc' \in {"getattr", "open", "setattr"} => pc \in {"getattr", "open", "setattr"}
  PROVE  HistoryType' /\ Kept'
  BY DEF IInv, TypeOK, HistoryType, Kept, SyncedSurvives, Holds, ledger

\* open, read_whole and write_whole begin.
LEMMA OpenStep ==
  ASSUME IInv, NEW w \in BOOLEAN, NEW c \in BOOLEAN, NEW e \in BOOLEAN, NEW t \in BOOLEAN,
         open(OpenFlags(w, c, e, t))
  PROVE  IInv'
  <1>1. PICK o \in OpType : o = OpenFlags(w, c, e, t)
    BY FlagsType
  <1>2. o.call = "open" /\ o.off = 0 /\ o.sent = 0
    BY <1>1, FlagsType
  <1>3. /\ ~file.open /\ Begin(o, "open") /\ acked' = NoBytes /\ durable' = NoBytes
        /\ crashed' = FALSE /\ quiet' = TRUE
    BY <1>1 DEF open, Begin
  <1>4. "open" \in Steps \ {"idle"} /\ o.call \in CallsAt("open")
    BY <1>2 DEF Steps, CallsAt
  <1>5. /\ ServerType' /\ ClientType' /\ Flow' /\ PreadAlong' /\ PwriteStored'
        /\ ReadsExact' /\ OpensReleased' /\ pc' = "open"
    BY <1>2, <1>3, <1>4, BeginStep
  <1>6. HistoryType' /\ Kept' /\ PwriteAlong'
    BY Zenon, <1>3, <1>5, FreshHistory
  <1> QED BY <1>5, <1>6 DEF IInv, TypeOK

LEMMA ReadWholeStep ==
  ASSUME IInv, read_whole
  PROVE  IInv'
  <1>1. PICK o \in OpType : o = [read_only EXCEPT !.call = "read_whole"]
    BY ReadWholeType
  <1>2. o.call = "read_whole" /\ o.off = 0 /\ o.sent = 0 /\ o.write = FALSE
    BY <1>1, ReadWholeType
  <1>3. /\ ~file.open /\ Begin(o, "getattr") /\ acked' = NoBytes /\ durable' = NoBytes
        /\ crashed' = FALSE /\ quiet' = TRUE
    BY <1>1 DEF read_whole, Begin
  <1>4. "getattr" \in Steps \ {"idle"} /\ o.call \in CallsAt("getattr")
    BY <1>2 DEF Steps, CallsAt
  <1>5. /\ ServerType' /\ ClientType' /\ Flow' /\ PreadAlong' /\ PwriteStored'
        /\ ReadsExact' /\ OpensReleased' /\ pc' = "getattr"
    BY <1>2, <1>3, <1>4, BeginStep
  <1>6. HistoryType' /\ Kept' /\ PwriteAlong'
    BY ZenonT(40), <1>3, <1>5, FreshHistory
  <1> QED BY <1>5, <1>6 DEF IInv, TypeOK

LEMMA WriteWholeStep ==
  ASSUME IInv, NEW d \in Bytes, write_whole(d)
  PROVE  IInv'
  <1>1. PICK o \in OpType : o = [create_write EXCEPT !.call = "write_whole", !.data = d]
    BY Zenon, WriteWholeType
  <1>2. o.call = "write_whole" /\ o.off = 0 /\ o.sent = 0
    BY Zenon, <1>1, WriteWholeType
  <1>3. /\ ~file.open /\ Begin(o, "open") /\ acked' = NoBytes /\ durable' = NoBytes
        /\ crashed' = FALSE /\ quiet' = TRUE
    BY <1>1 DEF write_whole, Begin
  <1>4. "open" \in Steps \ {"idle"} /\ o.call \in CallsAt("open")
    BY <1>2 DEF Steps, CallsAt
  <1>5. /\ ServerType' /\ ClientType' /\ Flow' /\ PreadAlong' /\ PwriteStored'
        /\ ReadsExact' /\ OpensReleased' /\ pc' = "open"
    BY <1>2, <1>3, <1>4, BeginStep
  <1>6. HistoryType' /\ Kept' /\ PwriteAlong'
    BY Zenon, <1>3, <1>5, FreshHistory
  <1> QED BY <1>5, <1>6 DEF IInv, TypeOK

\* Calls that leave the history alone when they begin.
LEMMA BeginKeeps ==
  ASSUME IInv, NEW o \in OpType, NEW start \in {"pread", "commit"}, file.open, Begin(o, start),
         o.call \in CallsAt(start), o.call \in {"pread", "fsync", "close"}, o.sent = 0,
         UNCHANGED <<acked, durable, crashed>>
  PROVE  IInv'
  <1>1. start \in Steps \ {"idle"} /\ quiet' = TRUE
    BY DEF Steps, Begin
  <1>2. /\ ServerType' /\ ClientType' /\ Flow' /\ PreadAlong' /\ PwriteStored'
        /\ ReadsExact' /\ OpensReleased' /\ pc' = start /\ op' = o /\ mem' = mem /\ disk' = disk
    BY <1>1, BeginStep
  <1>3. HistoryType'
    BY Zenon, <1>1 DEF IInv, TypeOK, HistoryType
  <1>4. Kept'
    BY <1>2 DEF IInv, Kept, SyncedSurvives, Holds
  <1>5. PwriteAlong'
    BY <1>2 DEF PwriteAlong
  <1> QED BY <1>2, <1>3, <1>4, <1>5 DEF IInv, TypeOK

LEMMA PreadStep ==
  ASSUME IInv, NEW off \in Nat, NEW count \in Nat, pread(off, count)
  PROVE  IInv'
  <1>1. PICK o \in OpType : o = [Idle EXCEPT !.call = "pread", !.off = off, !.count = count]
    BY ZenonT(40), PreadType
  <1>2. o.call = "pread" /\ o.sent = 0
    BY Zenon, <1>1, PreadType
  <1>3. file.open /\ Begin(o, "pread") /\ UNCHANGED <<acked, durable, crashed>>
    BY <1>1 DEF pread
  <1>4. o.call \in CallsAt("pread")
    BY <1>2 DEF CallsAt
  <1> QED BY SMTT(30), <1>2, <1>3, <1>4, BeginKeeps

LEMMA FsyncStep ==
  ASSUME IInv, fsync
  PROVE  IInv'
  <1>1. PICK o \in OpType : o = [Idle EXCEPT !.call = "fsync"]
    BY FsyncType
  <1>2. o.call = "fsync" /\ o.sent = 0
    BY <1>1, FsyncType
  <1>3. file.open /\ Begin(o, "commit") /\ UNCHANGED <<acked, durable, crashed>>
    BY <1>1 DEF fsync
  <1>4. o.call \in CallsAt("commit")
    BY <1>2 DEF CallsAt
  <1> QED BY <1>2, <1>3, <1>4, BeginKeeps

LEMMA CloseStep ==
  ASSUME IInv, close
  PROVE  IInv'
  <1>0. file.writable \in BOOLEAN
    BY SMTT(30) DEF IInv, TypeOK, ServerType
  <1>1. PICK o \in OpType : o = [Idle EXCEPT !.call = "close", !.write = file.writable]
    BY ZenonT(40), <1>0, CloseType
  <1>2. o.call = "close" /\ o.sent = 0
    BY Zenon, <1>0, <1>1, CloseType
  <1>3. file.open /\ Begin(o, "commit") /\ UNCHANGED <<acked, durable, crashed>>
    BY <1>1 DEF close
  <1>4. o.call \in CallsAt("commit")
    BY <1>2 DEF CallsAt
  <1> QED BY <1>2, <1>3, <1>4, BeginKeeps

\* pwrite begins: nothing is claimed any more of the positions that it writes.
LEMMA PwriteStep ==
  ASSUME IInv, NEW off \in Nat, NEW d \in Bytes, pwrite(off, d)
  PROVE  IInv'
  <1>1. PICK o \in OpType : o = [Idle EXCEPT !.call = "pwrite", !.off = off, !.data = d]
    BY ZenonT(40), PwriteType
  <1>2. o.call = "pwrite" /\ o.sent = 0 /\ o.off = off /\ o.data = d
    BY ZenonT(40), <1>1, PwriteType
  <1>3. /\ file.open /\ Begin(o, "pwrite") /\ crashed' = crashed /\ quiet' = TRUE
        /\ acked' = Forget(acked, off + 1 .. off + Len(d))
        /\ durable' = Forget(durable, off + 1 .. off + Len(d))
    BY <1>1 DEF pwrite, Begin
  <1>4. "pwrite" \in Steps \ {"idle"} /\ o.call \in CallsAt("pwrite")
    BY <1>2 DEF Steps, CallsAt
  <1>5. /\ ServerType' /\ ClientType' /\ Flow' /\ PreadAlong' /\ PwriteStored'
        /\ ReadsExact' /\ OpensReleased' /\ pc' = "pwrite" /\ op' = o /\ pos' = off
        /\ mem' = mem /\ disk' = disk
    BY <1>2, <1>3, <1>4, BeginStep
  <1>6. /\ DOMAIN acked' = DOMAIN acked \ (off + 1 .. off + Len(d))
        /\ DOMAIN durable' = DOMAIN durable \ (off + 1 .. off + Len(d))
        /\ \A i \in DOMAIN acked' : acked'[i] = acked[i]
        /\ \A i \in DOMAIN durable' : durable'[i] = durable[i]
    BY <1>3 DEF Forget
  <1>7. HistoryType'
    BY <1>3, <1>6 DEF IInv, TypeOK, HistoryType
  <1>8. Kept'
    <2>1. ~crashed' => Holds(mem', acked')
      BY Zenon, <1>3, <1>5, <1>6 DEF IInv, Kept, Holds
    <2>2. Holds(mem', durable') /\ Holds(disk', durable')
      BY Zenon, <1>5, <1>6 DEF IInv, Kept, SyncedSurvives, Holds
    <2> QED BY <1>2, <1>5, <2>1, <2>2 DEF Kept, SyncedSurvives
  <1>9. PwriteAlong'
    <2>1. Apart'
      BY <1>2, <1>5, <1>6 DEF Apart, Positions
    <2>2. off + 0 = off /\ 0 <= Len(d) /\ 1 .. 0 = {}
      BY DEF Bytes
    <2> QED BY Zenon, <1>2, <1>5, <2>1, <2>2 DEF PwriteAlong, Stored
  <1> QED BY SMTT(30), <1>5, <1>7, <1>8, <1>9 DEF IInv, TypeOK

-----------------------------------------------------------------------------
(* Steps of a call. *)

\* A call that ends leaves no loop behind.
LEMMA Returned ==
  ASSUME IInv, NEW ok \in BOOLEAN, NEW n \in Nat, NEW data \in Bytes, Return(ok, n, data)
  PROVE  /\ ClientType' /\ Flow' /\ PreadAlong' /\ PwriteAlong'
         /\ pc' = "idle" /\ op' = Idle /\ op'.call = "none"
         /\ result'.call = op.call /\ result'.ok = ok /\ result'.op = op
         /\ result'.n = n /\ result'.data = data
  <1>1. /\ pc' = "idle" /\ op' = Idle /\ pos' = 0 /\ out' = <<>>
        /\ result' = [call |-> op.call, ok |-> ok, op |-> op, n |-> n, data |-> data]
    BY DEF Return
  <1>2. op \in OpType /\ op.call \in CallNames
    BY DEF IInv, TypeOK, ClientType, OpType
  <1>3. <<>> \in Bytes /\ "idle" \in Steps
    BY Zenon, Nothing DEF Bytes, Steps
  <1>4. ClientType'
    BY <1>1, <1>2, <1>3, IdleType DEF ClientType
  <1>5. Flow' /\ PreadAlong' /\ PwriteAlong'
    BY <1>1, IdleType DEF Flow, PreadAlong, PwriteAlong, CallsAt
  <1> QED BY Zenon, <1>1, <1>4, <1>5, IdleType

\* A call that goes on has no result yet, and one that fails reports nothing.
LEMMA NothingReported ==
  ASSUME result'.call \in {"none", "open", "fsync", "close", "write_whole"} \/ ~result'.ok
  PROVE  PwriteStored' /\ ReadsExact'
  BY DEF PwriteStored, ReadsExact

LEMMA StillNoResult ==
  ASSUME IInv, pc # "idle", UNCHANGED result
  PROVE  PwriteStored' /\ ReadsExact' /\ result' = NoResult
  BY Zenon, NoResultType DEF IInv, Flow, PwriteStored, ReadsExact

\* A step that leaves the server, the file and the history alone.
LEMMA SameServer ==
  ASSUME IInv, UNCHANGED <<server, file, history>>
  PROVE  /\ ServerType' /\ OpensReleased' /\ mem' = mem /\ disk' = disk /\ setting' = setting
         /\ UNCHANGED ledger
  <1>1. /\ setting' = setting /\ mem' = mem /\ disk' = disk /\ exists' = exists
        /\ opens' = opens /\ file' = file /\ stranded' = stranded /\ UNCHANGED ledger
    BY DEF server, history, ledger
  <1> QED BY <1>1 DEF IInv, TypeOK, ServerType, OpensReleased, Stateful

\* A call that fails without having touched anything.
LEMMA FailsAlone ==
  ASSUME IInv, Return(FALSE, 0, <<>>), UNCHANGED <<server, file, history>>
  PROVE  IInv'
  <1>1. <<>> \in Bytes /\ 0 \in Nat /\ FALSE \in BOOLEAN
    BY Nothing DEF Bytes
  <1>2. /\ ClientType' /\ Flow' /\ PreadAlong' /\ PwriteAlong' /\ op'.call = "none"
        /\ pc' = "idle" /\ ~result'.ok
    BY Zenon, <1>1, Returned
  <1>3. PwriteStored' /\ ReadsExact'
    BY <1>2, NothingReported
  <1>4. ServerType' /\ OpensReleased' /\ mem' = mem /\ disk' = disk /\ UNCHANGED ledger
    BY SameServer
  <1>5. HistoryType' /\ Kept'
    BY Zenon, <1>2, <1>4, SameHistory
  <1> QED BY <1>2, <1>3, <1>4, <1>5 DEF IInv, TypeOK

\* Once the file is open, the call returns or its loop begins.
LEMMA Opened ==
  ASSUME IInv, pc \in {"open", "setattr"}, AfterOpen, file'.open, UNCHANGED ledger,
         mem' \in Bytes, op.call = "read_whole" => mem' = mem
  PROVE  /\ ClientType' /\ Flow' /\ PreadAlong' /\ PwriteAlong' /\ Kept'
         /\ PwriteStored' /\ ReadsExact' /\ HistoryType'
  <1>1. /\ op.call \in {"open", "read_whole", "write_whole"}
        /\ pos = op.off /\ op.sent = 0 /\ out = <<>>
        /\ DOMAIN acked = {} /\ DOMAIN durable = {}
        /\ acked' = acked /\ durable' = durable /\ crashed' = crashed /\ quiet' = quiet
    BY Zenon DEF IInv, Flow, CallsAt, Kept, ledger
  <1>2. HistoryType' /\ SyncedSurvives' /\ Holds(mem', acked') /\ DOMAIN acked' = {}
        /\ DOMAIN durable' = {}
    BY <1>1 DEF IInv, TypeOK, HistoryType, SyncedSurvives, Holds
  <1>3. Kept'
    BY <1>2 DEF Kept
  <1>4. op \in OpType /\ op.off \in Nat /\ op.count \in Nat /\ op.data \in Bytes
    BY DEF IInv, TypeOK, ClientType, OpType
  <1>5. CASE op.call = "open"
    <2>1. Return(TRUE, 0, <<>>)
      BY Zenon, <1>5 DEF AfterOpen
    <2>2. <<>> \in Bytes /\ 0 \in Nat /\ TRUE \in BOOLEAN
      BY Nothing DEF Bytes
    <2>3. ClientType' /\ Flow' /\ PreadAlong' /\ PwriteAlong' /\ result'.call = "open"
      BY Zenon, <1>5, <2>1, <2>2, Returned
    <2>4. PwriteStored' /\ ReadsExact'
      BY <2>3, NothingReported
    <2> QED BY <1>2, <1>3, <2>3, <2>4
  <1>6. CASE op.call = "read_whole"
    <2>1. pc' = "pread" /\ op' = op /\ pos' = pos /\ out' = out /\ UNCHANGED result
      BY <1>6 DEF AfterOpen, Goto
    <2>2. PwriteStored' /\ ReadsExact' /\ result' = NoResult
      BY <2>1, StillNoResult
    <2>3. ClientType'
      BY <2>1 DEF IInv, TypeOK, ClientType, Steps
    <2>4. Flow'
      BY <1>6, <2>1, <2>2 DEF IInv, Flow, CallsAt
    <2>5. pc = "open" /\ (quiet => op.count = Len(mem))
      BY <1>6 DEF IInv, Flow, CallsAt, PreadAlong
    <2>6. PreadAlong'
      <3>1. SubSeq(mem, op.off + 1, op.off) = <<>> /\ op.off <= op.off /\ op.off <= op.off + op.count
        BY <1>4, EmptySlice
      <3> QED BY Zenon, <1>1, <1>6, <2>1, <2>5, <3>1 DEF PreadAlong
    <2>7. PwriteAlong'
      BY Zenon, <2>1 DEF PwriteAlong
    <2> QED BY Zenon, <1>2, <1>3, <2>2, <2>3, <2>4, <2>6, <2>7
  <1>7. CASE op.call = "write_whole"
    <2>1. pc' = "pwrite" /\ op' = op /\ pos' = pos /\ out' = out /\ UNCHANGED result
      BY <1>7 DEF AfterOpen, Goto
    <2>2. PwriteStored' /\ ReadsExact' /\ result' = NoResult
      BY <2>1, StillNoResult
    <2>3. ClientType'
      BY <2>1 DEF IInv, TypeOK, ClientType, Steps
    <2>4. Flow'
      BY <1>7, <2>1, <2>2 DEF IInv, Flow, CallsAt
    <2>5. PreadAlong'
      BY Zenon, <1>7, <2>1 DEF PreadAlong
    <2>6. PwriteAlong'
      <3>1. op.off + 0 = op.off /\ 0 <= Len(op.data) /\ 1 .. 0 = {}
        BY <1>4 DEF Bytes
      <3>2. Apart'
        BY <1>2 DEF Apart
      <3> QED BY <1>1, <2>1, <3>1, <3>2 DEF PwriteAlong, Stored
    <2> QED BY <1>2, <1>3, <2>2, <2>3, <2>4, <2>5, <2>6
  <1> QED BY <1>1, <1>5, <1>6, <1>7

\* OPEN is answered.
LEMMA BackendOpenStep ==
  ASSUME IInv, BackendOpen
  PROVE  IInv'
  <1>1. /\ pc = "open" /\ exists' = TRUE
        /\ opens' = (IF Stateful THEN opens \union ShareAccess ELSE opens) /\ stranded' = FALSE
        /\ file' = [open |-> TRUE, writable |-> op.write, stale |-> FALSE]
        /\ setting' = setting /\ mem' = mem /\ disk' = disk /\ UNCHANGED ledger
    BY Zenon DEF BackendOpen, ServerOpens, ledger
  <1>2. /\ op \in OpType /\ op.write \in BOOLEAN /\ op.create \in BOOLEAN /\ ~file.open
        /\ setting \in Settings /\ mem \in Bytes /\ disk \in Bytes
    BY <1>1 DEF IInv, TypeOK, ServerType, ClientType, OpType, Flow
  <1>3. ShareAccess # {}
    BY Zenon DEF ShareAccess
  <1>4. file'.open /\ ~file'.stale
    BY Zenon, <1>1
  <1>5. ServerType'
    BY Zenon, <1>1, <1>2 DEF ServerType
  <1>6. OpensReleased'
    BY Zenon, <1>1, <1>3, <1>4 DEF OpensReleased, Stateful
  <1>7. CASE op.truncate /\ op.write
    <2>1. pc' = "setattr" /\ op' = op /\ pos' = pos /\ out' = out /\ UNCHANGED result
      BY <1>7 DEF BackendOpen, Goto
    <2>2. PwriteStored' /\ ReadsExact' /\ result' = NoResult
      BY <1>1, <2>1, StillNoResult
    <2>3. ClientType'
      BY <2>1 DEF IInv, TypeOK, ClientType, Steps
    <2>4. op.call \in {"open", "write_whole"}
      BY <1>1, <1>7 DEF IInv, Flow, CallsAt
    <2>5. Flow'
      BY Zenon, <1>1, <1>4, <2>1, <2>2, <2>4 DEF IInv, Flow, CallsAt
    <2>6. PreadAlong' /\ PwriteAlong'
      BY Zenon, <2>1, <2>4 DEF PreadAlong, PwriteAlong
    <2>7. HistoryType' /\ Kept'
      BY <1>1, <2>1, SameHistory
    <2> QED BY Zenon, <1>5, <1>6, <2>2, <2>3, <2>5, <2>6, <2>7 DEF IInv, TypeOK
  <1>8. CASE ~(op.truncate /\ op.write)
    <2>1. AfterOpen
      BY Zenon, <1>8 DEF BackendOpen
    <2>2. /\ ClientType' /\ Flow' /\ PreadAlong' /\ PwriteAlong' /\ Kept'
          /\ PwriteStored' /\ ReadsExact' /\ HistoryType'
      BY Zenon, <1>1, <1>2, <1>4, <2>1, Opened
    <2> QED BY Zenon, <1>5, <1>6, <2>2 DEF IInv, TypeOK
  <1> QED BY <1>7, <1>8

LEMMA OpenFailsStep ==
  ASSUME IInv, OpenFails
  PROVE  IInv'
  <1>1. /\ pc = "open" /\ Return(FALSE, 0, <<>>) /\ exists' \in {exists, TRUE}
        /\ setting' = setting /\ mem' = mem /\ disk' = disk /\ file' = file /\ UNCHANGED ledger
    BY Zenon DEF OpenFails, ServerOpens, ledger
  <1>2. <<>> \in Bytes /\ 0 \in Nat /\ FALSE \in BOOLEAN
    BY Nothing DEF Bytes
  <1>3. /\ ClientType' /\ Flow' /\ PreadAlong' /\ PwriteAlong' /\ op'.call = "none"
        /\ pc' = "idle" /\ ~result'.ok
    BY Zenon, <1>1, <1>2, Returned
  <1>4. PwriteStored' /\ ReadsExact'
    BY <1>3, NothingReported
  <1>5. ServerType'
    BY Zenon, <1>1 DEF IInv, TypeOK, ServerType
  <1>6. OpensReleased'
    <2>1. CASE UNCHANGED <<exists, opens, stranded>>
      BY Zenon, <1>1, <2>1 DEF IInv, OpensReleased, Stateful
    <2>2. CASE ServerOpens /\ stranded' = Stateful
      <3>1. ShareAccess # {}
        BY Zenon DEF ShareAccess
      <3> QED BY Zenon, <1>1, <2>2, <3>1 DEF ServerOpens, OpensReleased, Stateful
    <2> QED BY Zenon, <2>1, <2>2 DEF OpenFails
  <1>7. HistoryType' /\ Kept'
    BY Zenon, <1>1, <1>3, SameHistory
  <1> QED BY Zenon, <1>3, <1>4, <1>5, <1>6, <1>7 DEF IInv, TypeOK

\* SETATTR of size 0 is answered: nothing was claimed of the file before.
LEMMA TruncateStep ==
  ASSUME IInv, Truncate
  PROVE  IInv'
  <1>1. /\ pc = "setattr" /\ mem' = <<>> /\ disk' = <<>> /\ AfterOpen
        /\ setting' = setting /\ exists' = exists /\ opens' = opens /\ file' = file
        /\ stranded' = stranded /\ UNCHANGED ledger
    BY DEF Truncate, history, ledger
  <1>2. mem' \in Bytes /\ disk' \in Bytes
    BY <1>1, Nothing DEF Bytes
  <1>3. file.open /\ op.call # "read_whole"
    BY <1>1 DEF IInv, Flow, CallsAt
  <1>4. ServerType' /\ OpensReleased'
    BY <1>1, <1>2 DEF IInv, TypeOK, ServerType, OpensReleased, Stateful
  <1>5. /\ ClientType' /\ Flow' /\ PreadAlong' /\ PwriteAlong' /\ Kept'
        /\ PwriteStored' /\ ReadsExact' /\ HistoryType'
    BY <1>1, <1>2, <1>3, Opened
  <1> QED BY <1>4, <1>5 DEF IInv, TypeOK

\* SETATTR fails, and the NfsFile is dropped with its open.
LEMMA TruncateFailsStep ==
  ASSUME IInv, TruncateFails
  PROVE  IInv'
  <1>1. /\ pc = "setattr" /\ file' = NoFile /\ Return(FALSE, 0, <<>>)
        /\ mem' \in {mem, <<>>} /\ disk' \in {disk, <<>>}
        /\ setting' = setting /\ exists' = exists /\ opens' = opens
        /\ stranded' = (opens # {}) /\ UNCHANGED ledger
    BY Zenon DEF TruncateFails
  <1>2. <<>> \in Bytes /\ 0 \in Nat /\ FALSE \in BOOLEAN
    BY Nothing DEF Bytes
  <1>3. /\ ClientType' /\ Flow' /\ PreadAlong' /\ PwriteAlong' /\ op'.call = "none"
        /\ pc' = "idle" /\ ~result'.ok
    BY Zenon, <1>1, <1>2, Returned
  <1>4. PwriteStored' /\ ReadsExact'
    BY <1>3, NothingReported
  <1>5. ServerType'
    BY Zenon, <1>1, <1>2 DEF IInv, TypeOK, ServerType, NoFile
  <1>6. OpensReleased'
    BY Zenon, <1>1 DEF OpensReleased, NoFile
  <1>7. HistoryType' /\ Kept'
    <2>1. DOMAIN acked = {} /\ DOMAIN durable = {} /\ acked' = acked /\ durable' = durable
      BY Zenon, <1>1 DEF IInv, Flow, CallsAt, Kept, ledger
    <2>2. HistoryType'
      BY Zenon, <1>1 DEF IInv, TypeOK, HistoryType, ledger
    <2> QED BY Zenon, <2>1, <2>2 DEF Kept, SyncedSurvives, Holds
  <1> QED BY <1>3, <1>4, <1>5, <1>6, <1>7 DEF IInv, TypeOK

\* The READ loop ends.
LEMMA PreadEnded ==
  ASSUME IInv, pc = "pread", NEW ok \in BOOLEAN, NEW data \in Bytes, PreadEnds(ok, data),
         ok /\ quiet => data = Slice(mem, op.off, op.count),
         UNCHANGED <<server, file, history>>
  PROVE  IInv'
  <1>1. ServerType' /\ OpensReleased' /\ mem' = mem /\ disk' = disk
    BY SameServer
  <1>2. quiet' = quiet /\ file' = file /\ file.open
    BY DEF history, ledger, IInv, Flow
  <1>3. CASE op.call = "pread"
    <2>1. Return(ok, Len(data), data) /\ Len(data) \in Nat
      BY <1>3 DEF PreadEnds, Bytes
    <2>2. /\ ClientType' /\ Flow' /\ PreadAlong' /\ PwriteAlong' /\ op'.call = "none"
          /\ pc' = "idle" /\ result'.call = "pread" /\ result'.ok = ok /\ result'.op = op
          /\ result'.data = data
      BY Zenon, <1>3, <2>1, Returned
    <2>3. PwriteStored' /\ ReadsExact'
      BY Zenon, <1>1, <1>2, <2>2 DEF PwriteStored, ReadsExact
    <2>4. HistoryType' /\ Kept'
      BY Zenon, <1>1, <2>2, SameHistory DEF history
    <2> QED BY <1>1, <2>2, <2>3, <2>4 DEF IInv, TypeOK
  <1>4. CASE op.call = "read_whole"
    <2>1. /\ pc' = "commit" /\ op' = [op EXCEPT !.failed = ~ok] /\ out' = data /\ pos' = pos
          /\ UNCHANGED result
      BY <1>4 DEF PreadEnds, Goto
    <2>2. PwriteStored' /\ ReadsExact' /\ result' = NoResult
      BY <2>1, StillNoResult
    <2>3. op \in OpType
      BY DEF IInv, TypeOK, ClientType
    <2>4. /\ op' \in OpType /\ op'.call = op.call /\ op'.failed = ~ok /\ op'.off = op.off
          /\ op'.write = op.write
      BY Zenon, <2>1, <2>3 DEF OpType
    <2>5. ClientType'
      BY <2>1, <2>4 DEF IInv, TypeOK, ClientType, Steps
    <2>6. Flow'
      BY <1>2, <1>4, <2>1, <2>2, <2>4 DEF IInv, Flow, CallsAt
    <2>7. PreadAlong'
      <3>1. quiet => op.count = Len(mem) /\ op.off = 0
        BY <1>4 DEF IInv, PreadAlong, Flow
      <3>2. Slice(mem, 0, Len(mem)) = mem
        BY ReadWhole DEF IInv, TypeOK, ServerType
      <3>3. ok /\ quiet => data = mem
        BY <3>1, <3>2
      <3> QED BY Zenon, <1>1, <1>2, <2>1, <2>4, <3>3 DEF PreadAlong
    <2>8. PwriteAlong'
      BY <2>1 DEF PwriteAlong
    <2>9. HistoryType' /\ Kept'
      BY Zenon, <1>1, <2>1, <2>4, SameHistory DEF history
    <2> QED BY Zenon, <1>1, <2>2, <2>5, <2>6, <2>7, <2>8, <2>9 DEF IInv, TypeOK
  <1> QED BY Zenon, <1>3, <1>4 DEF IInv, Flow, CallsAt

\* What the READ loop knows, whoever else is about.
LEMMA PreadFacts ==
  ASSUME IInv, pc = "pread"
  PROVE  /\ mem \in Bytes /\ op \in OpType /\ op.off \in Nat /\ op.count \in Nat /\ pos \in Nat
         /\ out \in Bytes /\ op.off <= pos /\ pos <= op.off + op.count
         /\ quiet => out = SubSeq(mem, op.off + 1, pos) /\ (pos = op.off \/ pos <= Len(mem))
  BY DEF IInv, TypeOK, ServerType, ClientType, OpType, PreadAlong

LEMMA ReadStep ==
  ASSUME IInv, NEW got \in 0 .. PrefRead, Read(got)
  PROVE  IInv'
  <1> DEFINE data == out \o Slice(mem, pos, got)
  <1>1. /\ pc = "pread" /\ Left > 0 /\ UNCHANGED <<server, file, history>>
        /\ got \in (IF pos >= Len(mem) THEN {0}
                    ELSE 1 .. Len(Slice(mem, pos, Smaller(Left, PrefRead))))
        /\ IF StopsReading(got, pos + got >= Len(mem)) THEN PreadEnds(TRUE, data)
           ELSE Goto("pread", op) /\ out' = data /\ pos' = pos + got
    BY Zenon DEF Read
  <1>2. /\ mem \in Bytes /\ op \in OpType /\ op.off \in Nat /\ op.count \in Nat /\ pos \in Nat
        /\ out \in Bytes /\ op.off <= pos /\ pos <= op.off + op.count
        /\ quiet => out = SubSeq(mem, op.off + 1, pos) /\ (pos = op.off \/ pos <= Len(mem))
    BY <1>1, PreadFacts
  <1>3. got \in Nat /\ Len(mem) \in Nat /\ PrefRead \in Nat
    BY <1>2, FileAssumption DEF Bytes
  <1>4. data \in Bytes
    <2>1. Slice(mem, pos, got) \in Bytes
      BY <1>2, <1>3, SliceType
    <2> QED BY <1>2, <2>1, Joined DEF Bytes
  <1> HIDE DEF data
  <1>5. pos < op.off + op.count
    BY <1>1, <1>2 DEF Left
  <1>6. ASSUME quiet
        PROVE  /\ data = SubSeq(mem, op.off + 1, pos + got)
               /\ got = 0 \/ pos + got <= Len(mem)
               /\ pos + got >= Len(mem) \/ got = 0 \/ op.off + op.count - pos <= got
                    => SubSeq(mem, op.off + 1, pos + got) = Slice(mem, op.off, op.count)
    <2>0. PICK off \in Nat, count \in Nat, p \in Nat, c \in Bytes :
             off = op.off /\ count = op.count /\ p = pos /\ c = mem
      BY <1>2
    <2>1. off <= p /\ p < off + count /\ (p = off \/ p <= Len(c))
      BY Zenon, <1>2, <1>5, <1>6, <2>0
    <2>2. /\ p >= Len(c) => got = 0
          /\ p < Len(c) => got \in 1 .. Len(Slice(c, p, Smaller(off + count - p, PrefRead)))
      BY <1>1, <1>3, <2>0 DEF Left
    <2>3. got \in Nat
      BY <1>3
    <2>4. /\ got = 0 \/ p + got <= Len(c)
          /\ p + got >= Len(c) \/ got = 0 \/ off + count - p <= got
                    => SubSeq(c, off + 1, p + got) = Slice(c, off, count)
      BY <2>1, <2>2, <2>3, ReadStops, ZenonT(40)
    <2>5. got = 0 \/ p + got <= Len(c)
      BY <2>4
    <2>6. SubSeq(c, off + 1, p) \o Slice(c, p, got) = SubSeq(c, off + 1, p + got)
      BY ZenonT(40), <2>1, <2>3, <2>5, ReadMore
    <2> QED BY Zenon, <1>2, <1>6, <2>0, <2>4, <2>6 DEF data
  <1>7. CASE StopsReading(got, pos + got >= Len(mem))
    <2>1. PreadEnds(TRUE, data)
      BY Zenon, <1>1, <1>7
    <2>2. quiet => data = Slice(mem, op.off, op.count)
      BY Zenon, <1>6, <1>7 DEF StopsReading, Left
    <2>3. TRUE \in BOOLEAN
      OBVIOUS
    <2> QED BY Zenon, <1>1, <1>4, <2>1, <2>2, <2>3, PreadEnded
  <1>8. CASE ~StopsReading(got, pos + got >= Len(mem))
    <2>1. pc' = "pread" /\ op' = op /\ out' = data /\ pos' = pos + got /\ UNCHANGED result
      BY <1>1, <1>8 DEF Goto
    <2>2. PwriteStored' /\ ReadsExact' /\ result' = NoResult
      BY <1>1, <2>1, StillNoResult
    <2>3. ServerType' /\ OpensReleased' /\ mem' = mem /\ disk' = disk
      BY <1>1, SameServer
    <2>4. quiet' = quiet /\ file' = file
      BY <1>1 DEF history, ledger
    <2>5. ClientType'
      <3>1. pos + got \in Nat
        BY <1>2, <1>3
      <3> QED BY Zenon, <1>1, <1>4, <2>1, <3>1 DEF IInv, TypeOK, ClientType
    <2>6. Flow'
      BY <1>1, <2>1, <2>2, <2>4 DEF IInv, Flow
    <2>7. got # 0 /\ got <= op.off + op.count - pos
      BY <1>2, <1>3, <1>8 DEF StopsReading, Left
    <2>8. op.off <= pos + got /\ pos + got <= op.off + op.count
      BY SMTT(30), <1>2, <1>3, <2>7
    <2>9. PreadAlong'
      <3>1. op'.call = "read_whole" /\ quiet' => op'.count = Len(mem')
        BY <1>1, <2>1, <2>3, <2>4 DEF IInv, PreadAlong
      <3>2. quiet => data = SubSeq(mem, op.off + 1, pos + got) /\ pos + got <= Len(mem)
        BY <1>6, <2>7
      <3> QED BY Zenon, <2>1, <2>3, <2>4, <2>8, <3>1, <3>2 DEF PreadAlong
    <2>10. PwriteAlong'
      BY <2>1 DEF PwriteAlong
    <2>11. HistoryType' /\ Kept'
      BY <1>1, <2>1, <2>3, SameHistory DEF history
    <2> QED BY <2>2, <2>3, <2>5, <2>6, <2>9, <2>10, <2>11 DEF IInv, TypeOK
  <1> QED BY <1>7, <1>8

LEMMA ReadNothingStep ==
  ASSUME IInv, ReadNothing
  PROVE  IInv'
  <1>1. pc = "pread" /\ Left = 0 /\ PreadEnds(TRUE, out) /\ UNCHANGED <<server, file, history>>
    BY Zenon DEF ReadNothing
  <1>2. /\ mem \in Bytes /\ op \in OpType /\ op.off \in Nat /\ op.count \in Nat /\ pos \in Nat
        /\ out \in Bytes /\ op.off <= pos /\ pos <= op.off + op.count
        /\ quiet => out = SubSeq(mem, op.off + 1, pos) /\ (pos = op.off \/ pos <= Len(mem))
    BY <1>1, PreadFacts
  <1>3. pos = op.off + op.count /\ (pos = op.off => op.count = 0)
    BY <1>1, <1>2 DEF Left
  <1>4. quiet => out = Slice(mem, op.off, op.count)
    BY Zenon, <1>2, <1>3, ReadAll
  <1>5. TRUE \in BOOLEAN
    OBVIOUS
  <1> QED BY Zenon, <1>1, <1>2, <1>4, <1>5, PreadEnded

LEMMA ReadFailsStep ==
  ASSUME IInv, ReadFails
  PROVE  IInv'
  <1>1. pc = "pread" /\ PreadEnds(FALSE, <<>>) /\ UNCHANGED <<server, file, history>>
    BY Zenon DEF ReadFails
  <1>2. <<>> \in Bytes /\ FALSE \in BOOLEAN
    BY Zenon, Nothing DEF Bytes
  <1> QED BY Zenon, <1>1, <1>2, PreadEnded

\* The WRITE loop ends.
LEMMA PwriteEnded ==
  ASSUME IInv, pc = "pwrite", NEW ok \in BOOLEAN, NEW n \in 0 .. Len(op.data), PwriteEnds(ok, n),
         mem' \in Bytes, UNCHANGED <<setting, disk, exists, opens, file, durable, crashed, quiet, stranded>>,
         ok /\ quiet => \A i \in 1 .. n : op.off + i <= Len(mem') /\ mem'[op.off + i] = op.data[i],
         ~crashed => Holds(mem', acked), Holds(mem', durable)
  PROVE  IInv'
  <1>1. /\ op \in OpType /\ op.off \in Nat /\ op.data \in Bytes /\ Len(op.data) \in Nat
        /\ n \in Nat /\ n <= Len(op.data) /\ op.call \in {"pwrite", "write_whole"} /\ file.open
    BY DEF IInv, TypeOK, ClientType, OpType, Bytes, Flow, CallsAt
  <1>2. ServerType'
    BY DEF IInv, TypeOK, ServerType
  <1>3. OpensReleased'
    BY DEF IInv, OpensReleased, Stateful
  <1>4. acked' = IF ok /\ quiet THEN Add(acked, op.off, SubSeq(op.data, 1, n)) ELSE acked
    BY DEF PwriteEnds
  <1>5. DOMAIN acked \subseteq Nat \ {0} /\ DOMAIN durable \subseteq Nat \ {0}
        /\ crashed \in BOOLEAN /\ quiet \in BOOLEAN
    BY Zenon DEF IInv, TypeOK, HistoryType
  <1>6. DOMAIN acked' \subseteq Nat \ {0} /\ (~crashed => Holds(mem', acked'))
    <2>1. CASE ok /\ quiet
      <3>1. acked' = Add(acked, op.off, SubSeq(op.data, 1, n))
        BY <1>4, <2>1
      <3>2. \A i \in 1 .. n : op.off + i <= Len(mem') /\ mem'[op.off + i] = op.data[i]
        BY Zenon, <2>1
      <3> QED BY Zenon, <1>1, <1>5, <3>1, <3>2, AddHolds
    <2>2. CASE ~(ok /\ quiet)
      BY Zenon, <1>4, <1>5, <2>2
    <2> QED BY <2>1, <2>2
  <1>7. HistoryType'
    BY Zenon, <1>5, <1>6 DEF HistoryType
  <1>8. SyncedSurvives'
    BY Zenon DEF IInv, Kept, SyncedSurvives
  <1>9. CASE op.call = "pwrite"
    <2>1. Return(ok, n, <<>>) /\ <<>> \in Bytes
      BY Zenon, <1>9, Nothing DEF PwriteEnds, Bytes
    <2>2. /\ ClientType' /\ Flow' /\ PreadAlong' /\ PwriteAlong' /\ op'.call = "none"
          /\ pc' = "idle" /\ result'.call = "pwrite" /\ result'.ok = ok /\ result'.op = op
          /\ result'.n = n
      BY Zenon, <1>1, <1>9, <2>1, Returned
    <2>3. ReadsExact'
      BY Zenon, <2>2 DEF ReadsExact
    <2>4. PwriteStored'
      <3>1. ok /\ quiet => Slice(mem', op.off, n) = SubSeq(op.data, 1, n)
        BY ZenonT(40), <1>1, SliceStored
      <3> QED BY <2>2, <3>1 DEF PwriteStored
    <2>5. Kept'
      BY <1>6, <1>8, <2>2 DEF Kept
    <2> QED BY Zenon, <1>2, <1>3, <1>7, <2>2, <2>3, <2>4, <2>5 DEF IInv, TypeOK
  <1>10. CASE op.call = "write_whole"
    <2>1. /\ pc' = "commit" /\ op' = [op EXCEPT !.failed = ~ok] /\ out' = out /\ pos' = pos
          /\ UNCHANGED result
      BY <1>10 DEF PwriteEnds, Goto
    <2>2. PwriteStored' /\ ReadsExact' /\ result' = NoResult
      BY <2>1, StillNoResult
    <2>3. op' \in OpType /\ op'.call = "write_whole"
      BY ZenonT(40), <1>1, <1>10, <2>1 DEF OpType
    <2>4. ClientType'
      BY <2>1, <2>3 DEF IInv, TypeOK, ClientType, Steps
    <2>5. Flow'
      BY <1>1, <2>1, <2>2, <2>3 DEF Flow, CallsAt
    <2>6. PreadAlong' /\ PwriteAlong'
      BY <2>1, <2>3 DEF PreadAlong, PwriteAlong
    <2>7. Kept'
      BY Zenon, <1>6, <1>8, <1>10, <2>1, <2>3 DEF IInv, Kept
    <2> QED BY Zenon, <1>2, <1>3, <1>7, <2>2, <2>4, <2>5, <2>6, <2>7 DEF IInv, TypeOK
  <1> QED BY <1>1, <1>9, <1>10

\* What the WRITE loop knows.
LEMMA PwriteFacts ==
  ASSUME IInv, pc = "pwrite"
  PROVE  /\ mem \in Bytes /\ op \in OpType /\ op.off \in Nat /\ op.sent \in Nat
         /\ op.data \in Bytes /\ Len(op.data) \in Nat /\ pos = op.off + op.sent
         /\ op.sent <= Len(op.data) /\ Apart
         /\ quiet => Stored(op, op.sent)
         /\ DOMAIN acked \subseteq Nat \ {0} /\ DOMAIN durable \subseteq Nat \ {0}
         /\ ~crashed => Holds(mem, acked)
         /\ Holds(mem, durable)
         /\ Piece \in Bytes /\ Len(Piece) \in Nat /\ op.sent + Len(Piece) <= Len(op.data)
         /\ \A i \in 1 .. Len(Piece) : Piece[i] = op.data[op.sent + i]
  <1>1. /\ mem \in Bytes /\ op \in OpType /\ op.off \in Nat /\ op.sent \in Nat
        /\ op.data \in Bytes /\ Len(op.data) \in Nat
    BY DEF IInv, TypeOK, ServerType, ClientType, OpType, Bytes
  <1>2. /\ pos = op.off + op.sent /\ op.sent <= Len(op.data) /\ Apart
        /\ quiet => Stored(op, op.sent)
        /\ DOMAIN acked \subseteq Nat \ {0} /\ DOMAIN durable \subseteq Nat \ {0}
        /\ ~crashed => Holds(mem, acked)
        /\ Holds(mem, durable)
    BY DEF IInv, TypeOK, HistoryType, PwriteAlong, Kept, SyncedSurvives
  <1> QED BY Zenon, <1>1, <1>2, PieceOfData

\* A WRITE of the first n bytes of the piece: it stores them after the ones it has
\* stored, and reaches no position that something is claimed of.
LEMMA WriteStores ==
  ASSUME IInv, pc = "pwrite", NEW n \in 0 .. Len(Piece)
  PROVE  LET m == Put(mem, pos, SubSeq(Piece, 1, n)) IN
           /\ m \in Bytes
           /\ quiet => \A i \in 1 .. op.sent + n : op.off + i <= Len(m) /\ m[op.off + i] = op.data[i]
           /\ ~crashed => Holds(m, acked)
           /\ Holds(m, durable)
  <1> DEFINE d == SubSeq(Piece, 1, n)
             m == Put(mem, pos, d)
  <1>1. /\ mem \in Bytes /\ op.off \in Nat /\ op.sent \in Nat
        /\ op.data \in Bytes /\ Len(op.data) \in Nat /\ pos = op.off + op.sent
        /\ op.sent <= Len(op.data) /\ Apart
        /\ quiet => Stored(op, op.sent)
        /\ DOMAIN acked \subseteq Nat \ {0} /\ DOMAIN durable \subseteq Nat \ {0}
        /\ ~crashed => Holds(mem, acked)
        /\ Holds(mem, durable)
    BY Zenon, PwriteFacts
  <1>2. /\ Piece \in Bytes /\ Len(Piece) \in Nat /\ op.sent + Len(Piece) <= Len(op.data)
        /\ \A i \in 1 .. Len(Piece) : Piece[i] = op.data[op.sent + i]
    BY Zenon, PwriteFacts
  <1>3. d \in Bytes /\ Len(d) = n /\ \A i \in 1 .. n : d[i] = Piece[i]
    BY Zenon, <1>2, Taken
  <1> HIDE DEF d
  <1>4. n \in Nat /\ n <= Len(Piece) /\ pos \in Nat /\ Len(mem) \in Nat
    BY SMTT(30), <1>1, <1>2 DEF Bytes
  <1>5. /\ m \in Bytes /\ Len(m) \in Nat /\ Len(mem) <= Len(m)
        /\ \A i \in 1 .. n : pos + i <= Len(m) /\ m[pos + i] = d[i]
        /\ \A i \in 1 .. Len(mem) : i \notin pos + 1 .. pos + n => m[i] = mem[i]
    BY SMTT(30), <1>1, <1>3, <1>4, PutStores
  <1>6. pos + 1 .. pos + Len(d) \subseteq Positions(op)
    <2>0. /\ pos = op.off + op.sent /\ op.sent + Len(Piece) <= Len(op.data) /\ n <= Len(Piece)
          /\ op.off \in Nat /\ op.sent \in Nat /\ Len(op.data) \in Nat /\ Len(Piece) \in Nat
          /\ n \in Nat
      BY Zenon, <1>1, <1>2, <1>4
    <2>1. op.off + 1 <= pos + 1 /\ pos + n <= op.off + Len(op.data)
      BY SMTT(30), <2>0
    <2>2. ASSUME NEW i \in pos + 1 .. pos + n PROVE i \in op.off + 1 .. op.off + Len(op.data)
      BY SMTT(30), <1>1, <1>4, <2>1
    <2> QED BY <1>3, <2>2 DEF Positions
  <1>7. ~crashed => Holds(m, acked)
    <2>1. DOMAIN acked \cap (pos + 1 .. pos + Len(d)) = {}
      BY <1>1, <1>6 DEF Apart
    <2> QED BY Zenon, <1>1, <1>3, <1>4, <2>1, PutHolds
  <1>8. Holds(m, durable)
    <2>1. DOMAIN durable \cap (pos + 1 .. pos + Len(d)) = {}
      BY Zenon, <1>1, <1>6 DEF Apart
    <2> QED BY Zenon, <1>1, <1>3, <1>4, <2>1, PutHolds
  <1> HIDE DEF m
  <1>9. ASSUME quiet, NEW i \in 1 .. op.sent + n
        PROVE  op.off + i <= Len(m) /\ m[op.off + i] = op.data[i]
    <2>1. CASE i <= op.sent
      <3>1. i \in 1 .. op.sent
        BY <1>1, <1>4, <2>1
      <3>2. op.off + i <= Len(mem) /\ mem[op.off + i] = op.data[i]
        BY Zenon, <1>1, <1>9, <3>1 DEF Stored
      <3>3. op.off + i \in 1 .. Len(mem) /\ op.off + i \notin pos + 1 .. pos + n
        BY SMTT(30), <1>1, <1>4, <3>1, <3>2
      <3>4. m[op.off + i] = mem[op.off + i]
        BY <1>5, <3>3
      <3> QED BY <1>1, <1>4, <1>5, <3>2, <3>4
    <2>2. CASE i > op.sent
      <3>1. PICK k \in 1 .. n : i = op.sent + k
        <4>1. i - op.sent \in 1 .. n /\ i = op.sent + (i - op.sent)
          BY SMTT(30), <1>1, <1>4, <2>2
        <4> QED BY Zenon, <4>1
      <3>2. op.off + i = pos + k /\ k \in 1 .. Len(Piece)
        BY SMTT(30), <1>1, <1>4, <3>1
      <3>3. m[pos + k] = op.data[op.sent + k] /\ pos + k <= Len(m)
        BY Zenon, <1>2, <1>3, <1>5, <3>1, <3>2
      <3> QED BY Zenon, <3>1, <3>2, <3>3
    <2> QED BY SMTT(30), <1>1, <1>4, <2>1, <2>2
  <1> QED BY Zenon, <1>5, <1>7, <1>8, <1>9 DEF m, d

LEMMA WriteStep ==
  ASSUME IInv, NEW n \in 0 .. PrefWrite, Write(n)
  PROVE  IInv'
  <1>1. /\ pc = "pwrite" /\ mem' = Put(mem, pos, SubSeq(Piece, 1, n))
        /\ n \in (IF setting.short THEN 0 ELSE Len(Piece)) .. Len(Piece)
        /\ UNCHANGED <<setting, disk, exists, opens, file, durable, crashed, quiet, stranded>>
        /\ IF StopsWriting(n) THEN PwriteEnds(TRUE, pos + n - op.off)
           ELSE /\ Goto("pwrite", [op EXCEPT !.sent = @ + Len(Piece)])
                /\ pos' = pos + n /\ UNCHANGED <<out, acked>>
    BY Zenon DEF Write
  <1>2. /\ op \in OpType /\ op.off \in Nat /\ op.sent \in Nat /\ Len(op.data) \in Nat
        /\ pos = op.off + op.sent /\ Len(Piece) \in Nat /\ op.sent + Len(Piece) <= Len(op.data)
        /\ Apart
    BY <1>1, PwriteFacts
  <1>3. n \in 0 .. Len(Piece) /\ n \in Nat /\ n <= Len(Piece)
    BY <1>1, <1>2, FileAssumption
  <1>4. /\ mem' \in Bytes
        /\ quiet => \A i \in 1 .. op.sent + n :
                      op.off + i <= Len(mem') /\ mem'[op.off + i] = op.data[i]
        /\ ~crashed => Holds(mem', acked)
        /\ Holds(mem', durable)
    BY <1>1, <1>3, WriteStores
  <1>5. pos + n - op.off = op.sent + n /\ op.sent + n \in 0 .. Len(op.data)
    BY SMTT(30), <1>2, <1>3
  <1>6. CASE StopsWriting(n)
    <2>1. PwriteEnds(TRUE, op.sent + n) /\ TRUE \in BOOLEAN
      BY Zenon, <1>1, <1>5, <1>6
    <2> QED BY Zenon, <1>1, <1>4, <1>5, <2>1, PwriteEnded
  <1>7. CASE ~StopsWriting(n)
    <2>1. n = Len(Piece)
      BY <1>2, <1>3, <1>7 DEF StopsWriting
    <2>2. /\ pc' = "pwrite" /\ op' = [op EXCEPT !.sent = op.sent + Len(Piece)]
          /\ pos' = pos + n /\ out' = out /\ acked' = acked /\ UNCHANGED result
      BY <1>1, <1>7 DEF Goto
    <2>3. op.sent + Len(Piece) \in Nat /\ pos + n \in Nat
      BY SMTT(30), <1>2, <1>3
    <2>4. /\ op' \in OpType /\ op'.call = op.call /\ op'.off = op.off /\ op'.data = op.data
          /\ op'.sent = op.sent + Len(Piece)
      BY Zenon, <1>2, <2>2, <2>3 DEF OpType
    <2>5. PwriteStored' /\ ReadsExact' /\ result' = NoResult
      BY <1>1, <2>2, StillNoResult
    <2>6. ServerType'
      BY <1>1, <1>4 DEF IInv, TypeOK, ServerType
    <2>7. OpensReleased'
      BY <1>1 DEF IInv, OpensReleased, Stateful
    <2>8. ClientType'
      BY Zenon, <1>1, <2>2, <2>3, <2>4 DEF IInv, TypeOK, ClientType
    <2>9. op.call \in {"pwrite", "write_whole"} /\ file.open
      BY <1>1 DEF IInv, Flow, CallsAt
    <2>10. Flow'
      BY Zenon, <1>1, <2>2, <2>4, <2>5, <2>9 DEF Flow, CallsAt
    <2>11. PreadAlong'
      BY Zenon, <2>2, <2>4, <2>9 DEF PreadAlong
    <2>12. PwriteAlong'
      <3>1. Apart'
        BY Zenon, <1>1, <1>2, <2>2, <2>4 DEF Apart, Positions
      <3>2. pos' = op'.off + op'.sent /\ op'.sent <= Len(op'.data)
        BY <1>2, <2>1, <2>2, <2>4
      <3>3. quiet' => Stored(op, op.sent)'
        BY Zenon, <1>1, <1>4, <2>1, <2>4 DEF Stored
      <3> QED BY <3>1, <3>2, <3>3 DEF PwriteAlong
    <2>13. HistoryType'
      BY <1>1, <2>2 DEF IInv, TypeOK, HistoryType
    <2>14. Kept'
      BY <1>1, <1>4, <2>2, <2>4 DEF IInv, Kept, SyncedSurvives
    <2> QED BY <2>5, <2>6, <2>7, <2>8, <2>10, <2>11, <2>12, <2>13, <2>14 DEF IInv, TypeOK
  <1> QED BY <1>6, <1>7

LEMMA WriteNothingStep ==
  ASSUME IInv, WriteNothing
  PROVE  IInv'
  <1>1. /\ pc = "pwrite" /\ PwriteEnds(TRUE, 0) /\ mem' = mem
        /\ UNCHANGED <<setting, disk, exists, opens, file, durable, crashed, quiet, stranded>>
    BY Zenon DEF WriteNothing, server
  <1>2. mem \in Bytes /\ Len(op.data) \in Nat /\ (~crashed => Holds(mem, acked)) /\ Holds(mem, durable)
    BY <1>1, PwriteFacts
  <1>3. 0 \in 0 .. Len(op.data) /\ 1 .. 0 = {} /\ TRUE \in BOOLEAN
    BY <1>2
  <1> QED BY Zenon, <1>1, <1>2, <1>3, PwriteEnded

LEMMA WriteFailsStep ==
  ASSUME IInv, WriteFails
  PROVE  IInv'
  <1>1. /\ pc = "pwrite" /\ PwriteEnds(FALSE, 0) /\ (mem' = mem \/ mem' = Put(mem, pos, Piece))
        /\ UNCHANGED <<setting, disk, exists, opens, file, durable, crashed, quiet, stranded>>
    BY Zenon DEF WriteFails
  <1>2. /\ mem \in Bytes /\ Len(op.data) \in Nat /\ (~crashed => Holds(mem, acked))
        /\ Holds(mem, durable) /\ Piece \in Bytes /\ Len(Piece) \in Nat
    BY <1>1, PwriteFacts
  <1>3. 0 \in 0 .. Len(op.data) /\ FALSE \in BOOLEAN /\ Len(Piece) \in 0 .. Len(Piece)
    BY <1>2
  <1>4. mem' \in Bytes /\ (~crashed => Holds(mem', acked)) /\ Holds(mem', durable)
    <2>1. CASE mem' = mem
      BY Zenon, <1>2, <2>1
    <2>2. CASE mem' = Put(mem, pos, Piece)
      <3>1. SubSeq(Piece, 1, Len(Piece)) = Piece
        BY <1>2, WholeSlice DEF Bytes
      <3>2. PICK n \in 0 .. Len(Piece) : n = Len(Piece)
        BY <1>3
      <3>3. mem' = Put(mem, pos, SubSeq(Piece, 1, n))
        BY Zenon, <2>2, <3>1, <3>2
      <3> QED BY <1>1, <3>3, WriteStores
    <2> QED BY <1>1, <2>1, <2>2
  <1> QED BY Zenon, <1>1, <1>3, <1>4, PwriteEnded

\* COMMIT is answered: with no restart since the open, memory has what pwrite reported.
LEMMA CommitStep ==
  ASSUME IInv, commit
  PROVE  IInv'
  <1>1. /\ pc = "commit" /\ disk' = mem
        /\ durable' = (IF op.call = "fsync" /\ ~crashed THEN acked ELSE durable)
        /\ setting' = setting /\ mem' = mem /\ exists' = exists /\ opens' = opens /\ file' = file
        /\ acked' = acked /\ crashed' = crashed /\ quiet' = quiet /\ stranded' = stranded
    BY Zenon DEF commit
  <1>2. ServerType' /\ OpensReleased'
    BY <1>1 DEF IInv, TypeOK, ServerType, OpensReleased, Stateful
  <1>3. HistoryType'
    BY <1>1 DEF IInv, TypeOK, HistoryType
  <1>4. SyncedSurvives' /\ (~crashed' => Holds(mem', acked'))
    <2>1. (~crashed => Holds(mem, acked)) /\ Holds(mem, durable)
      BY DEF IInv, Kept, SyncedSurvives
    <2>2. Holds(mem, durable')
      BY Zenon, <1>1, <2>1
    <2> QED BY Zenon, <1>1, <2>1, <2>2 DEF SyncedSurvives
  <1>5. CASE op.call = "fsync"
    <2>1. Return(TRUE, 0, <<>>) /\ <<>> \in Bytes /\ 0 \in Nat /\ TRUE \in BOOLEAN
      BY Zenon, <1>5, Nothing DEF commit, Bytes
    <2>2. /\ ClientType' /\ Flow' /\ PreadAlong' /\ PwriteAlong' /\ op'.call = "none"
          /\ pc' = "idle" /\ result'.call = "fsync"
      BY Zenon, <1>5, <2>1, Returned
    <2>3. PwriteStored' /\ ReadsExact'
      BY <2>2, NothingReported
    <2>4. Kept'
      BY Zenon, <1>4, <2>2 DEF Kept
    <2> QED BY Zenon, <1>2, <1>3, <2>2, <2>3, <2>4 DEF IInv, TypeOK
  <1>6. CASE op.call # "fsync"
    <2>1. pc' = "close" /\ op' = op /\ pos' = pos /\ out' = out /\ UNCHANGED result
      BY <1>6 DEF commit, Goto
    <2>2. PwriteStored' /\ ReadsExact' /\ result' = NoResult
      BY Zenon, <1>1, <2>1, StillNoResult
    <2>3. ClientType'
      BY <2>1 DEF IInv, TypeOK, ClientType, Steps
    <2>4. Flow'
      BY Zenon, <1>1, <1>6, <2>1, <2>2 DEF IInv, Flow, CallsAt
    <2>5. PreadAlong' /\ PwriteAlong'
      BY Zenon, <1>1, <2>1 DEF IInv, PreadAlong, PwriteAlong
    <2>6. Kept'
      BY Zenon, <1>1, <1>4, <1>6, <2>1 DEF IInv, Kept
    <2> QED BY Zenon, <1>2, <1>3, <2>2, <2>3, <2>4, <2>5, <2>6 DEF IInv, TypeOK
  <1> QED BY Zenon, <1>5, <1>6

\* On to CLOSE without a COMMIT.
LEMMA ToClose ==
  ASSUME IInv, pc = "commit", op.call # "fsync", Goto("close", op),
         UNCHANGED <<server, file, pos, out, history>>
  PROVE  IInv'
  <1>1. pc' = "close" /\ op' = op /\ pos' = pos /\ out' = out /\ UNCHANGED result
    BY DEF Goto
  <1>2. PwriteStored' /\ ReadsExact' /\ result' = NoResult
    BY <1>1, StillNoResult
  <1>3. ServerType' /\ OpensReleased' /\ mem' = mem /\ disk' = disk
    BY SameServer
  <1>4. ClientType'
    BY <1>1 DEF IInv, TypeOK, ClientType, Steps
  <1>5. Flow'
    BY Zenon, <1>1, <1>2 DEF IInv, Flow, CallsAt
  <1>6. PreadAlong' /\ PwriteAlong'
    BY Zenon, <1>1, <1>3 DEF IInv, PreadAlong, PwriteAlong, history, ledger
  <1>7. HistoryType' /\ Kept'
    BY Zenon, <1>1, <1>3, SameHistory DEF history
  <1> QED BY Zenon, <1>2, <1>3, <1>4, <1>5, <1>6, <1>7 DEF IInv, TypeOK

LEMMA CommitFailsStep ==
  ASSUME IInv, CommitFails
  PROVE  IInv'
  <1>1. pc = "commit" /\ UNCHANGED <<server, file, history>>
    BY DEF CommitFails
  <1>2. CASE op.call = "fsync"
    BY <1>1, <1>2, FailsAlone DEF CommitFails
  <1>3. CASE op.call # "fsync"
    BY <1>1, <1>3, ToClose DEF CommitFails
  <1> QED BY <1>2, <1>3

LEMMA CommitSkippedStep ==
  ASSUME IInv, CommitSkipped
  PROVE  IInv'
  BY Zenon, ToClose DEF CommitSkipped

\* CLOSE ends the call, and with it the open unless the server refuses it.
LEMMA BackendCloseStep ==
  ASSUME IInv, NEW ok \in BOOLEAN, BackendClose(ok)
  PROVE  IInv'
  <1> DEFINE good == ~op.failed /\ (ok \/ op.call = "read_whole")
  <1>1. /\ pc = "close" /\ file' = NoFile /\ stranded' = (opens' # {})
        /\ Return(good, Len(out), out)
        /\ setting' = setting /\ mem' = mem /\ disk' = disk /\ exists' = exists
        /\ UNCHANGED ledger
    BY Zenon DEF BackendClose
  <1>2. /\ file.open /\ op.call \in {"close", "read_whole", "write_whole"}
        /\ out \in Bytes /\ Len(out) \in Nat /\ op.failed \in BOOLEAN
    BY <1>1 DEF IInv, TypeOK, ServerType, ClientType, OpType, Bytes, Flow, CallsAt
  <1>3. good \in BOOLEAN
    OBVIOUS
  <1>4. good => ~op.failed
    BY Zenon
  <1> HIDE DEF good
  <1>5. /\ ClientType' /\ Flow' /\ PreadAlong' /\ PwriteAlong' /\ op'.call = "none"
        /\ pc' = "idle" /\ result'.call = op.call /\ result'.ok = good /\ result'.data = out
    BY <1>1, <1>2, <1>3, Returned
  <1>6. PwriteStored'
    BY Zenon, <1>2, <1>5 DEF PwriteStored
  <1>7. ReadsExact'
    <2>1. quiet' = quiet
      BY Zenon, <1>1 DEF ledger
    <2>2. op.call = "read_whole" /\ quiet /\ ~op.failed => out = mem
      BY Zenon, <1>1 DEF IInv, PreadAlong
    <2> QED BY Zenon, <1>1, <1>2, <1>4, <1>5, <2>1, <2>2 DEF ReadsExact
  <1>8. ServerType'
    BY Zenon, <1>1 DEF IInv, TypeOK, ServerType, NoFile
  <1>9. OpensReleased'
    BY Zenon, <1>1 DEF OpensReleased, NoFile
  <1>10. HistoryType' /\ Kept'
    BY Zenon, <1>1, <1>5, SameHistory
  <1> QED BY Zenon, <1>5, <1>6, <1>7, <1>8, <1>9, <1>10 DEF IInv, TypeOK

\* GETATTR gives the size that read_whole will ask for.
LEMMA StatStep ==
  ASSUME IInv, Stat
  PROVE  IInv'
  <1>1. /\ pc = "getattr" /\ pc' = "open" /\ op' = [op EXCEPT !.count = Len(mem)]
        /\ pos' = pos /\ out' = out /\ UNCHANGED result /\ UNCHANGED <<server, file, history>>
    BY DEF Stat, Goto
  <1>2. PwriteStored' /\ ReadsExact' /\ result' = NoResult
    BY <1>1, StillNoResult
  <1>3. ServerType' /\ OpensReleased' /\ mem' = mem /\ disk' = disk
    BY <1>1, SameServer
  <1>4. op \in OpType /\ Len(mem) \in Nat
    BY DEF IInv, TypeOK, ServerType, ClientType, Bytes
  <1>5. /\ op' \in OpType /\ op'.call = op.call /\ op'.off = op.off /\ op'.sent = op.sent
        /\ op'.write = op.write /\ op'.count = Len(mem)
    BY <1>1, <1>4 DEF OpType
  <1>6. ClientType'
    BY <1>1, <1>5 DEF IInv, TypeOK, ClientType, Steps
  <1>7. Flow'
    BY <1>1, <1>2, <1>5 DEF IInv, Flow, CallsAt
  <1>8. PreadAlong' /\ PwriteAlong'
    BY <1>1, <1>3, <1>5 DEF PreadAlong, PwriteAlong
  <1>9. HistoryType' /\ Kept'
    BY Zenon, <1>1, <1>3, <1>5, SameHistory DEF history
  <1> QED BY Zenon, <1>2, <1>3, <1>6, <1>7, <1>8, <1>9 DEF IInv, TypeOK

LEMMA StatFailsStep ==
  ASSUME IInv, StatFails
  PROVE  IInv'
  BY FailsAlone DEF StatFails

-----------------------------------------------------------------------------
(* The server and the other clients. *)

LEMMA FlushStep ==
  ASSUME IInv, Flush
  PROVE  IInv'
  <1>1. disk' = mem /\ UNCHANGED <<setting, mem, exists, opens, restarts, file, pc, op, pos, out,
                                   ops, result, history>>
    BY DEF Flush
  <1>2. TypeOK'
    BY Zenon, <1>1 DEF IInv, TypeOK, ServerType, ClientType, HistoryType, history, ledger
  <1>3. Flow' /\ OpensReleased'
    BY Zenon, <1>1 DEF IInv, Flow, OpensReleased, Stateful, history
  <1>4. PreadAlong' /\ PwriteStored' /\ ReadsExact'
    BY Zenon, <1>1 DEF IInv, PreadAlong, PwriteStored, ReadsExact, history, ledger
  <1>5. PwriteAlong'
    BY Zenon, <1>1 DEF IInv, PwriteAlong, Apart, Stored, history, ledger
  <1>6. Kept'
    BY <1>1 DEF IInv, Kept, SyncedSurvives, history, ledger
  <1> QED BY Zenon, <1>2, <1>3, <1>4, <1>5, <1>6 DEF IInv

\* A restart: memory is what the disk had, and no open is left.
LEMMA RestartStep ==
  ASSUME IInv, Restart
  PROVE  IInv'
  <1>1. /\ mem' = disk /\ opens' = {} /\ stranded' = FALSE
        /\ file' = [file EXCEPT !.stale = file.stale \/ file.open]
        /\ crashed' = TRUE /\ quiet' = FALSE
        /\ UNCHANGED <<setting, disk, exists, pc, op, pos, out, ops, result, acked, durable>>
    BY DEF Restart
  <1>2. file \in [open : BOOLEAN, writable : BOOLEAN, stale : BOOLEAN]
    BY DEF IInv, TypeOK, ServerType
  <1>3. /\ file' \in [open : BOOLEAN, writable : BOOLEAN, stale : BOOLEAN]
        /\ file'.open = file.open /\ (file.open => file'.stale)
    BY <1>1, <1>2
  <1>4. TypeOK'
    <2>1. ServerType'
      BY <1>1, <1>3 DEF IInv, TypeOK, ServerType
    <2>2. ClientType' /\ HistoryType'
      BY Zenon, <1>1 DEF IInv, TypeOK, ClientType, HistoryType
    <2> QED BY <2>1, <2>2 DEF TypeOK
  <1>5. Flow'
    BY <1>1, <1>3 DEF IInv, Flow
  <1>6. OpensReleased'
    BY Zenon, <1>1, <1>3 DEF OpensReleased
  <1>7. PreadAlong' /\ PwriteStored' /\ ReadsExact'
    BY <1>1 DEF IInv, PreadAlong, PwriteStored, ReadsExact
  <1>8. PwriteAlong'
    BY <1>1 DEF IInv, PwriteAlong, Apart
  <1>9. Kept'
    BY <1>1 DEF IInv, Kept, SyncedSurvives
  <1> QED BY Zenon, <1>4, <1>5, <1>6, <1>7, <1>8, <1>9 DEF IInv

\* Another client stores the file anew: nothing is claimed of it any more.
LEMMA OtherStep ==
  ASSUME IInv, NEW c \in Others, Other(c)
  PROVE  IInv'
  <1>1. /\ mem' = c /\ disk' = c /\ acked' = NoBytes /\ durable' = NoBytes /\ quiet' = FALSE
        /\ UNCHANGED <<setting, exists, opens, restarts, file, pc, op, pos, out, ops, result,
                       crashed, stranded>>
    BY DEF Other
  <1>2. c \in Bytes /\ DOMAIN acked' = {} /\ DOMAIN durable' = {}
    BY SMTT(30), <1>1, FileAssumption DEF Bytes, NoBytes
  <1>3. TypeOK'
    BY ZenonT(40), <1>1, <1>2 DEF IInv, TypeOK, ServerType, ClientType, HistoryType
  <1>4. Flow' /\ OpensReleased'
    BY Zenon, <1>1 DEF IInv, Flow, OpensReleased, Stateful, history
  <1>5. PreadAlong' /\ PwriteStored' /\ ReadsExact'
    BY SMTT(30), <1>1 DEF IInv, PreadAlong, PwriteStored, ReadsExact
  <1>6. PwriteAlong'
    BY ZenonT(40), <1>1, <1>2 DEF IInv, PwriteAlong, Apart
  <1>7. Kept'
    BY Zenon, <1>1, <1>2 DEF Kept, SyncedSurvives, Holds
  <1> QED BY Zenon, <1>3, <1>4, <1>5, <1>6, <1>7 DEF IInv

-----------------------------------------------------------------------------
LEMMA InitInv ==
  ASSUME Init
  PROVE  IInv
  <1>1. /\ setting \in Settings /\ mem \in Others \union {<<>>} /\ disk = mem
        /\ exists \in BOOLEAN /\ opens = {} /\ stranded = FALSE /\ file = NoFile /\ pc = "idle" /\ op = Idle
        /\ pos = 0 /\ out = <<>> /\ result = NoResult /\ acked = NoBytes /\ durable = NoBytes
        /\ crashed = FALSE /\ quiet = TRUE
    BY DEF Init
  <1>2. <<>> \in Bytes /\ mem \in Bytes /\ DOMAIN acked = {} /\ DOMAIN durable = {}
    <2>1. <<>> \in Bytes /\ Others \subseteq Bytes
      BY FileAssumption, Nothing DEF Bytes
    <2>2. mem \in Bytes
      BY <1>1, <2>1
    <2>3. DOMAIN acked = {} /\ DOMAIN durable = {}
      BY <1>1 DEF NoBytes
    <2> QED BY <2>1, <2>2, <2>3
  <1>3. ServerType
    BY <1>1, <1>2 DEF ServerType, NoFile
  <1>4. ClientType
    BY <1>1, <1>2, IdleType, NoResultType DEF ClientType, Steps
  <1>5. HistoryType
    BY Zenon, <1>1, <1>2 DEF HistoryType
  <1>6. Flow /\ PreadAlong /\ PwriteAlong
    BY Zenon, <1>1, IdleType DEF Flow, CallsAt, PreadAlong, PwriteAlong
  <1>7. Kept
    BY Zenon, <1>1, <1>2, IdleType DEF Kept, SyncedSurvives, Holds
  <1>8. PwriteStored /\ ReadsExact
    BY Zenon, <1>1, NoResultType DEF PwriteStored, ReadsExact
  <1>9. OpensReleased
    BY Zenon, <1>1 DEF OpensReleased, NoFile
  <1> QED BY Zenon, <1>3, <1>4, <1>5, <1>6, <1>7, <1>8, <1>9 DEF IInv, TypeOK

LEMMA StepInv ==
  ASSUME IInv, [Next]_vars
  PROVE  IInv'
  <1>1. CASE Caller
    <2>1. ASSUME NEW w \in BOOLEAN, NEW c \in BOOLEAN, NEW e \in BOOLEAN, NEW t \in BOOLEAN,
                 open(OpenFlags(w, c, e, t))
          PROVE  IInv'
      BY <2>1, OpenStep
    <2>2. ASSUME NEW o \in Offsets, NEW n \in Counts, pread(o, n) PROVE IInv'
      BY <2>2, PreadStep, FileAssumption
    <2>3. ASSUME NEW o \in Offsets, NEW d \in Data, pwrite(o, d) PROVE IInv'
      BY <2>3, PwriteStep, FileAssumption DEF Bytes
    <2>4. ASSUME NEW d \in Data, write_whole(d) PROVE IInv'
      BY <2>4, WriteWholeStep, FileAssumption DEF Bytes
    <2>5. CASE fsync \/ close \/ read_whole
      BY <2>5, FsyncStep, CloseStep, ReadWholeStep
    <2> QED BY Zenon, <1>1, <2>1, <2>2, <2>3, <2>4, <2>5 DEF Caller
  <1>2. CASE Rpc
    <2>1. CASE BackendOpen \/ OpenFails \/ Truncate \/ TruncateFails
      BY Zenon, <2>1, BackendOpenStep, OpenFailsStep, TruncateStep, TruncateFailsStep
    <2>2. CASE (\E got \in 0 .. PrefRead : Read(got)) \/ ReadNothing \/ ReadFails
      BY <2>2, ReadStep, ReadNothingStep, ReadFailsStep
    <2>3. CASE (\E n \in 0 .. PrefWrite : Write(n)) \/ WriteNothing \/ WriteFails
      BY Zenon, <2>3, WriteStep, WriteNothingStep, WriteFailsStep
    <2>4. CASE commit \/ CommitFails \/ CommitSkipped \/ \E ok \in BOOLEAN : BackendClose(ok)
      BY Zenon, <2>4, CommitStep, CommitFailsStep, CommitSkippedStep, BackendCloseStep
    <2>5. CASE Stat \/ StatFails
      BY <2>5, StatStep, StatFailsStep
    <2> QED BY Zenon, <1>2, <2>1, <2>2, <2>3, <2>4, <2>5 DEF Rpc
  <1>3. CASE Environment
    BY <1>3, FlushStep, RestartStep, OtherStep DEF Environment
  <1>4. CASE UNCHANGED vars
    <2>1. UNCHANGED <<setting, mem, disk, exists, opens, restarts, file, pc, op, pos, out, ops,
                      result, acked, durable, crashed, quiet, stranded>>
      BY Zenon, <1>4 DEF vars, server, history, ledger
    <2>5. TypeOK'
      BY SMTT(30), <2>1 DEF IInv, TypeOK, ServerType, ClientType, HistoryType
    <2>2. Flow' /\ OpensReleased'
      BY ZenonT(40), <2>1 DEF IInv, Flow, OpensReleased, Stateful
    <2>3. PreadAlong' /\ PwriteStored' /\ ReadsExact'
      BY Zenon, <2>1 DEF IInv, PreadAlong, PwriteStored, ReadsExact
    <2>4. PwriteAlong' /\ Kept'
      BY Zenon, <2>1 DEF IInv, PwriteAlong, Apart, Stored, Kept, SyncedSurvives
    <2> QED BY Zenon, <2>2, <2>3, <2>4, <2>5 DEF IInv
  <1> QED BY Zenon, <1>1, <1>2, <1>3, <1>4 DEF Next

(***************************************************************************)
(* The invariant: what the loops of pread and pwrite have done so far, and *)
(* where what they reported is.                                            *)
(***************************************************************************)
THEOREM Inductive == Spec => []IInv
  <1>1. Init => IInv
    BY InitInv
  <1>2. IInv /\ [Next]_vars => IInv'
    BY StepInv
  <1> QED BY <1>1, <1>2, PTL DEF Spec

(***************************************************************************)
(* However the server cuts the WRITEs, what pwrite reports as written is   *)
(* in the file at the offset (context.rs pwrite).                          *)
(***************************************************************************)
THEOREM WhatPwriteReports == Spec => []PwriteStored
  <1>1. IInv => PwriteStored
    BY DEF IInv
  <1> QED BY <1>1, Inductive, PTL

(***************************************************************************)
(* However the server cuts the READs, pread returns the range and          *)
(* read_whole the file (context.rs pread, read_whole).                     *)
(***************************************************************************)
THEOREM WhatPreadReturns == Spec => []ReadsExact
  <1>1. IInv => ReadsExact
    BY DEF IInv
  <1> QED BY <1>1, Inductive, PTL

(***************************************************************************)
(* What pwrite reported and fsync covered, with no restart in between,     *)
(* survives every restart of the server (context.rs fsync).                *)
(***************************************************************************)
THEOREM FsyncLasts == Spec => []SyncedSurvives
  <1>1. IInv => SyncedSurvives
    BY DEF IInv, Kept
  <1> QED BY <1>1, Inductive, PTL

(***************************************************************************)
(* Over NFSv4 the server holds the file open exactly while somebody has    *)
(* the NfsFile, or after a failed OPEN, SETATTR or CLOSE left it open with *)
(* none: no other failure does (context.rs open, close).                   *)
(***************************************************************************)
THEOREM NoOpenLeft == Spec => []OpensReleased
  <1>1. IInv => OpensReleased
    BY DEF IInv
  <1> QED BY <1>1, Inductive, PTL
=============================================================================
