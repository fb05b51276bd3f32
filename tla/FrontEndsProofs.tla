-------------------------- MODULE FrontEndsProofs ---------------------------
(***************************************************************************)
(* FrontEnds implements AtomicContext, for any number of callers, calls    *)
(* and threads and whatever is written, and the C functions answer for the *)
(* call that was made.                                                     *)
(*                                                                         *)
(* What makes the calls atomic is more than the mutex: what the job that   *)
(* has it left on the server, together with what the job remembers, must   *)
(* say at every step how the call will have ended when it ends there.      *)
(* Along is that relation between the file, the file as the job found it   *)
(* and the job's own progress.                                             *)
(***************************************************************************)
EXTENDS FrontEnds, TLAPS

-----------------------------------------------------------------------------
(* Sequences. *)

\* A sequence has its elements in its set.
LEMMA AnElement ==
  ASSUME NEW S, NEW s \in Seq(S), NEW i \in 1 .. Len(s)
  PROVE  s[i] \in S
  OBVIOUS

\* The empty sequence is the one of length 0.
LEMMA Nothing ==
  ASSUME NEW S
  PROVE  /\ <<>> \in Seq(S) /\ Len(<<>>) = 0
         /\ \A s \in Seq(S) : s # <<>> => Len(s) \in Nat \ {0}
  OBVIOUS

\* A sequence is a function on 1 .. Len.
LEMMA Elements ==
  ASSUME NEW S, NEW s \in Seq(S)
  PROVE  DOMAIN s = 1 .. Len(s) /\ Len(s) \in Nat /\ s \in [1 .. Len(s) -> S]
  OBVIOUS

\* A function on 1 .. n is a sequence.
LEMMA Listed ==
  ASSUME NEW S, NEW n \in Nat, NEW f \in [1 .. n -> S]
  PROVE  f \in Seq(S) /\ Len(f) = n
  OBVIOUS

\* Sequences with the same elements are equal.
LEMMA SameElements ==
  ASSUME NEW S, NEW a \in Seq(S), NEW b \in Seq(S), Len(a) = Len(b),
         \A i \in 1 .. Len(a) : a[i] = b[i]
  PROVE  a = b
  OBVIOUS

\* A slice is the one that ends an element earlier, and that element.
LEMMA SliceGrows ==
  ASSUME NEW S, NEW s \in Seq(S), NEW i \in 1 .. Len(s), NEW j \in i .. Len(s)
  PROVE  SubSeq(s, i, j) = SubSeq(s, i, j - 1) \o <<s[j]>>
  OBVIOUS

-----------------------------------------------------------------------------
Stages == {"queued", "locking", "refused", "first", "open", "more", "close", "ending", "done"}
AtWork == {"refused", "first", "open", "more", "close", "ending"}
Midway == {"open", "more", "close"}
Outcome == {Pending, Error} \cup {Ok(v) : v \in Seq(Nat)}
JobType == [op : Ops, data : Seq(Nat \ {0}), stage : Stages, size : Nat, buf : Seq(Nat),
            res : {Ok(<<>>), Error}, out : Outcome]

TypeOK ==
  /\ setting \in Settings
  /\ file \in Seq(Nat) /\ before \in Seq(Nat)
  /\ jobs \in Seq(JobType)
  /\ queue \in Seq(Nat) /\ holder \in Nat
  /\ waits \in [Callers -> Nat] /\ \A c \in Callers : waits[c] <= Len(jobs)

\* A call is pending until it ends, and the job at work is the one that has the
\* context.
Excluded ==
  /\ holder <= Len(jobs)
  /\ \A i \in 1 .. Len(jobs) : jobs[i].stage \in AtWork <=> holder = i
  /\ \A i \in 1 .. Len(jobs) : jobs[i].out = Pending <=> jobs[i].stage \notin {"ending", "done"}
  /\ ~Async => holder = waits[C]

Queued ==
  /\ \A n \in 1 .. Len(queue) :
        queue[n] \in 1 .. Len(jobs) /\ jobs[queue[n]].stage = "queued"
  /\ \A m, n \in 1 .. Len(queue) : queue[m] = queue[n] => m = n

\* The file f, which was b when the job j took the context, and how far j is.
WritingAlong(j, f) ==
  /\ j.stage # "open"
  /\ \E n \in 0 .. Len(j.data) : f = SubSeq(j.data, 1, n)
  /\ j.stage = "more" => j.size < Len(j.data) /\ f = SubSeq(j.data, 1, j.size)
  /\ j.stage = "close" /\ j.res = Ok(<<>>) => f = j.data
ReadingAlong(j, f, b) ==
  /\ f = b /\ b # Absent
  /\ j.stage = "open" => j.size = Len(b) /\ j.buf = <<>> /\ j.res = Ok(<<>>)
  /\ j.stage = "more" => /\ j.size = Len(b) /\ Len(j.buf) < Len(b)
                         /\ j.buf = SubSeq(b, 1, Len(j.buf)) /\ j.res = Ok(<<>>)
  /\ j.stage = "close" => j.res = Error \/ j.buf = b
Along(j, f, b) ==
  /\ j.stage \in {"refused", "first"} => f = b /\ j.res = Ok(<<>>) /\ j.buf = <<>>
  /\ j.stage \in Midway => \/ j.op = "write" /\ WritingAlong(j, f)
                           \/ j.op = "read" /\ ReadingAlong(j, f, b)

Progress == holder # 0 => Along(jobs[holder], file, before)

\* A job that waits for the context has done nothing yet.
Fresh == \A i \in 1 .. Len(jobs) :
           jobs[i].stage \in {"queued", "locking"} => jobs[i].buf = <<>> /\ jobs[i].res = Ok(<<>>)

IInv == TypeOK /\ Excluded /\ Queued /\ Progress /\ Fresh

-----------------------------------------------------------------------------
(* One step of the job that has the context. *)

\* How a call that ends leaves the file and what it returns (AtomicContext).
Ends(j, f, out) ==
  LET call == [op |-> j.op, data |-> j.data, out |-> Pending]
  IN \/ <<f, out>> = Atomic!Effect(call, before)
     \/ out = Error /\ f \in Atomic!Left(call, before)

\* The job j becomes k and the file f.
Advances(j, k, f) ==
  /\ k \in JobType /\ k.op = j.op /\ k.data = j.data
  /\ f \in Seq(Nat)
  /\ \/ k.out = Pending /\ k.stage \in Midway /\ Along(k, f, before)
     \/ k.out # Pending /\ k.stage = "ending" /\ Ends(j, f, k.out)

\* Outcomes are of their type, and no outcome of a call is Pending.
LEMMA Outcomes ==
  /\ Pending \in Outcome /\ Error \in Outcome /\ Error # Pending
  /\ \A v \in Seq(Nat) : Ok(v) \in Outcome /\ Ok(v) # Pending /\ Ok(v) # Error
  /\ <<>> \in Seq(Nat)
  /\ Pending.is = "pending" /\ Error.is = "error" /\ \A v : Ok(v).is = "ok"
  <1>1. <<>> \in Seq(Nat)
    BY Nothing
  <1>2. Pending.is = "pending" /\ Error.is = "error" /\ \A v : Ok(v).is = "ok"
    BY DEF Pending, Error, Ok
  <1>3. Error # Pending /\ \A v : Ok(v) # Pending /\ Ok(v) # Error
    BY <1>2
  <1>4. Pending \in Outcome /\ Error \in Outcome /\ \A v \in Seq(Nat) : Ok(v) \in Outcome
    BY DEF Outcome
  <1> QED BY <1>1, <1>2, <1>3, <1>4

\* Finish ends the job and changes nothing else of it.
LEMMA Finishes ==
  ASSUME NEW j \in JobType, NEW out \in Outcome
  PROVE  /\ Finish(j, out) \in JobType
         /\ Finish(j, out).op = j.op /\ Finish(j, out).data = j.data
         /\ Finish(j, out).out = out /\ Finish(j, out).stage = "ending"
  BY Zenon DEF Finish, JobType, Stages

\* The pieces of d so far, and one more.
LEMMA OnePiece ==
  ASSUME NEW d \in Seq(Nat), NEW n \in Nat, n < Len(d)
  PROVE  /\ SubSeq(d, 1, n) \in Seq(Nat) /\ Len(SubSeq(d, 1, n)) = n
         /\ Append(SubSeq(d, 1, n), d[n + 1]) = SubSeq(d, 1, n + 1)
  <1>1. SubSeq(d, 1, n) \in Seq(Nat) /\ Len(SubSeq(d, 1, n)) = n
    OBVIOUS
  <1>2. SubSeq(d, 1, n + 1) = Append(SubSeq(d, 1, n), d[n + 1])
    <2>1. 1 \in 1 .. Len(d) /\ n + 1 \in 1 .. Len(d) /\ n = (n + 1) - 1 /\ 1 <= n + 1
      OBVIOUS
    <2> QED BY <2>1, SliceGrows
  <1> QED BY <1>1, <1>2

\* All the pieces of d, and none.
LEMMA AllPieces ==
  ASSUME NEW d \in Seq(Nat)
  PROVE  /\ SubSeq(d, 1, Len(d)) = d /\ SubSeq(d, 1, 0) = <<>> /\ Len(d) \in Nat
         /\ \A n \in 0 .. Len(d) : SubSeq(d, 1, n) \in Seq(Nat)
  OBVIOUS

\* A piece that write_whole writes is the next of what it was given: when it
\* closes, the file is all of it, unless a piece failed.
LEMMA WriteAdvances ==
  ASSUME NEW i \in 1 .. Len(jobs), TypeOK, jobs[i].out = Pending, Along(jobs[i], file, before),
         jobs[i].stage \in {"first", "open", "more", "close"}, WriteStep(i)
  PROVE  \E k : jobs' = [jobs EXCEPT ![i] = k] /\ Advances(jobs[i], k, file')
  <1> DEFINE j == jobs[i]
             n == IF j.stage = "first" THEN 0 ELSE j.size + 1
             k == [j EXCEPT !.stage = IF n = Len(j.data) THEN "close" ELSE "more", !.size = n]
  <1>1. /\ j \in JobType /\ j.op = "write" /\ j.data \in Seq(Nat) /\ j.size \in Nat
        /\ j.res \in {Ok(<<>>), Error} /\ Len(j.data) \in Nat
    <2>1. j \in JobType
      BY DEF TypeOK
    <2> QED BY <2>1 DEF WriteStep, JobType
  <1>2. CASE j.stage = "close"
    <2>1. jobs' = [jobs EXCEPT ![i] = Finish(j, j.res)] /\ file' = file
      BY <1>2 DEF WriteStep, Written
    <2>2. j.res \in Outcome /\ j.res # Pending
      BY Zenon, <1>1, Outcomes
    <2>3. WritingAlong(j, file)
      BY <1>1, <1>2 DEF Along, Midway
    <2>4. Ends(j, file, j.res)
      <3>1. CASE j.res = Ok(<<>>)
        BY Zenon, <1>1, <1>2, <2>3, <3>1 DEF Ends, WritingAlong, Atomic!Effect, Ok, Atomic!Ok
      <3>2. CASE j.res = Error
        <4>1. PICK m \in 0 .. Len(j.data) : file = SubSeq(j.data, 1, m)
          BY <2>3 DEF WritingAlong
        <4> QED BY <1>1, <3>2, <4>1 DEF Ends, Atomic!Left, Atomic!Prefixes
      <3> QED BY <1>1, <3>1, <3>2
    <2>5. Advances(j, Finish(j, j.res), file')
      BY <1>1, <2>1, <2>2, <2>4, Finishes DEF Advances, TypeOK
    <2> QED BY Zenon, <2>1, <2>5
  <1>3. CASE j.stage # "close"
    <2>1. jobs' = [jobs EXCEPT ![i] = k] /\ file' = Written(j)
      BY <1>3 DEF WriteStep
    <2>2. j.stage \in {"first", "more"}
      BY <1>1, <1>3 DEF Along, Midway, WritingAlong
    <2>3. j.stage = "more" => j.size < Len(j.data) /\ file = SubSeq(j.data, 1, j.size)
      BY <1>1 DEF Along, Midway, WritingAlong
    <2>4. /\ n \in Nat /\ n <= Len(j.data)
          /\ file' = SubSeq(j.data, 1, n) /\ file' \in Seq(Nat)
      <3>1. CASE j.stage = "first"
        BY <1>1, <2>1, <3>1, AllPieces DEF Written
      <3>2. CASE j.stage = "more"
        <4>1. Written(j) = Append(file, j.data[j.size + 1]) /\ n = j.size + 1
          BY <3>2 DEF Written
        <4>2. Written(j) = SubSeq(j.data, 1, j.size + 1)
          BY Zenon, <1>1, <2>3, <3>2, <4>1, OnePiece
        <4>3. SubSeq(j.data, 1, j.size + 1) \in Seq(Nat)
          <5>1. j.data[j.size + 1] \in Nat /\ SubSeq(j.data, 1, j.size) \in Seq(Nat)
            <6> HIDE DEF j
            <6>1. j.size + 1 \in 1 .. Len(j.data)
              BY <1>1, <2>3, <3>2
            <6> QED BY Zenon, <1>1, <2>3, <3>2, <6>1, OnePiece, AnElement
          <5> QED BY <4>1, <4>2, <5>1, <2>3, <3>2
        <4> QED BY SMTT(30), <1>1, <2>1, <2>3, <3>2, <4>1, <4>2, <4>3
      <3> QED BY <2>2, <3>1, <3>2
    <2>5. /\ k \in JobType /\ k.op = j.op /\ k.data = j.data /\ k.out = j.out /\ k.size = n
          /\ k.stage = IF n = Len(j.data) THEN "close" ELSE "more"
      <3>1. (IF n = Len(j.data) THEN "close" ELSE "more") \in Stages
        BY DEF Stages
      <3> HIDE DEF j, n
      <3> QED BY Zenon, <1>1, <2>4, <3>1 DEF JobType
    <2>6. WritingAlong(k, file')
      <3> HIDE DEF n, k
      <3> QED BY <1>1, <2>4, <2>5, AllPieces DEF WritingAlong
    <2>7. Advances(j, k, file')
      <3> HIDE DEF n, k
      <3> QED BY <1>1, <2>4, <2>5, <2>6 DEF Advances, Along, Midway
    <2> QED BY Zenon, <2>1, <2>7
  <1> QED BY <1>2, <1>3

\* read_whole returns the file as it found it, or an error.
LEMMA ReadAdvances ==
  ASSUME NEW i \in 1 .. Len(jobs), TypeOK, jobs[i].out = Pending, Along(jobs[i], file, before),
         jobs[i].stage \in {"first", "open", "more", "close"}, ReadStep(i)
  PROVE  \E k : jobs' = [jobs EXCEPT ![i] = k] /\ Advances(jobs[i], k, file')
  <1> DEFINE j == jobs[i]
             n == Len(j.buf) + 1
             got == IF n <= Len(file) THEN Append(j.buf, file[n]) ELSE j.buf
  <1>1. /\ j \in JobType /\ j.op = "read" /\ j.buf \in Seq(Nat) /\ j.size \in Nat
        /\ j.res \in {Ok(<<>>), Error} /\ Len(j.buf) \in Nat
        /\ file \in Seq(Nat) /\ Len(file) \in Nat /\ before \in Seq(Nat) /\ file' = file
    <2>1. j \in JobType
      BY DEF TypeOK
    <2> QED BY SMTT(30), <2>1 DEF ReadStep, JobType, TypeOK
  <1>2. file = before /\ (j.stage # "first" => before # Absent /\ ReadingAlong(j, file, before))
    BY <1>1 DEF Along, Midway, ReadingAlong
  <1>3. CASE j.stage = "close"
    <2> DEFINE out == IF j.res.is = "error" THEN Error ELSE Ok(j.buf)
    <2>1. jobs' = [jobs EXCEPT ![i] = Finish(j, out)]
      BY <1>3 DEF ReadStep
    <2>2. out \in Outcome /\ out # Pending
      BY Zenon, <1>1, Outcomes
    <2>3. Ends(j, file, out)
      <3>1. CASE j.res = Error
        BY <1>1, <1>2, <3>1, Outcomes DEF Ends, Atomic!Left
      <3>2. CASE j.res # Error
        <4>1. out = Ok(before) /\ file = before /\ before # Absent
          BY <1>1, <1>2, <1>3, <3>2, Outcomes DEF ReadingAlong
        <4> HIDE DEF out
        <4> QED BY <1>1, <4>1 DEF Ends, Atomic!Effect, Atomic!Absent, Absent, Ok, Atomic!Ok
      <3> QED BY <3>1, <3>2
    <2> HIDE DEF out
    <2>4. Advances(j, Finish(j, out), file')
      BY <1>1, <2>2, <2>3, Finishes DEF Advances
    <2> QED BY Zenon, <2>1, <2>4
  <1>4. CASE j.stage # "close" /\ file = Absent
    <2>1. j.stage = "first"
      BY <1>2, <1>4
    <2>2. jobs' = [jobs EXCEPT ![i] = Finish(j, Error)]
      BY <1>4, <2>1 DEF ReadStep, Fails
    <2>3. Ends(j, file, Error)
      BY <1>1, <1>2 DEF Ends, Atomic!Left
    <2>4. Advances(j, Finish(j, Error), file')
      BY Zenon, <1>1, <2>3, Outcomes, Finishes DEF Advances
    <2> QED BY Zenon, <2>2, <2>4
  <1>5. CASE j.stage = "first" /\ file # Absent
    <2> DEFINE k == [j EXCEPT !.stage = "open", !.size = Len(file)]
    <2>1. jobs' = [jobs EXCEPT ![i] = k]
      BY <1>5 DEF ReadStep
    <2>2. /\ k \in JobType /\ k.op = j.op /\ k.data = j.data /\ k.out = j.out
          /\ k.stage = "open" /\ k.size = Len(file) /\ k.buf = j.buf /\ k.res = j.res
      <3>1. "open" \in Stages
        BY DEF Stages
      <3> HIDE DEF j
      <3> QED BY Zenon, <1>1, <3>1 DEF JobType
    <2> HIDE DEF k
    <2>3. j.buf = <<>> /\ j.res = Ok(<<>>)
      BY <1>5 DEF Along
    <2>4. Along(k, file', before)
      BY <1>1, <1>2, <1>5, <2>2, <2>3 DEF Along, Midway, ReadingAlong
    <2>5. Advances(j, k, file')
      BY <1>1, <2>2, <2>4 DEF Advances, Midway
    <2> QED BY Zenon, <2>1, <2>5
  <1>6. CASE j.stage = "open" /\ file # Absent
    <2> DEFINE s == IF j.size = 0 THEN "close" ELSE "more"
               k == [j EXCEPT !.stage = s]
    <2>1. jobs' = [jobs EXCEPT ![i] = k]
      BY <1>6 DEF ReadStep
    <2>2. /\ k \in JobType /\ k.op = j.op /\ k.data = j.data /\ k.out = j.out
          /\ k.stage = s /\ k.size = j.size /\ k.buf = j.buf /\ k.res = j.res
      <3>1. s \in Stages
        BY DEF Stages
      <3> HIDE DEF j, s
      <3> QED BY Zenon, <1>1, <3>1 DEF JobType
    <2> HIDE DEF k
    <2>3. j.buf = <<>> /\ j.res = Ok(<<>>) /\ j.size = Len(before)
      BY <1>2, <1>6 DEF ReadingAlong
    <2>4. j.size = 0 => before = <<>>
      BY Zenon, <1>1, <2>3, Nothing
    <2>5. Len(before) \in Nat /\ Len(<<>>) = 0 /\ SubSeq(before, 1, 0) = <<>>
      BY <1>1, AllPieces
    <2>6. Along(k, file', before)
      BY <1>1, <1>2, <1>6, <2>2, <2>3, <2>4, <2>5 DEF Along, Midway, ReadingAlong
    <2>7. Advances(j, k, file')
      BY <1>1, <2>2, <2>6 DEF Advances, Midway
    <2> QED BY Zenon, <2>1, <2>7
  <1>7. CASE j.stage = "more" /\ file # Absent
    <2> DEFINE s == IF Len(got) = j.size \/ got = j.buf THEN "close" ELSE "more"
               k == [j EXCEPT !.buf = got, !.stage = s]
    <2>1. jobs' = [jobs EXCEPT ![i] = k]
      BY <1>7 DEF ReadStep
    <2>2. /\ j.size = Len(before) /\ Len(j.buf) < Len(before)
          /\ j.buf = SubSeq(before, 1, Len(j.buf)) /\ j.res = Ok(<<>>)
      BY <1>2, <1>7 DEF ReadingAlong
    <2>3. got = Append(j.buf, before[Len(j.buf) + 1])
      BY <1>1, <1>2, <2>2
    <2>4. got = SubSeq(before, 1, Len(j.buf) + 1)
      <3> HIDE DEF got
      <3> QED BY Zenon, <1>1, <2>2, <2>3, OnePiece
    <2>5. got \in Seq(Nat) /\ Len(got) = Len(j.buf) + 1 /\ got # j.buf
      <3>1. before[Len(j.buf) + 1] \in Nat
        BY <1>1, <2>2
      <3> HIDE DEF got
      <3> QED BY <1>1, <2>3, <3>1
    <2> HIDE DEF got
    <2>6. /\ k \in JobType /\ k.op = j.op /\ k.data = j.data /\ k.out = j.out
          /\ k.stage = s /\ k.size = j.size /\ k.buf = got /\ k.res = j.res
      <3>1. s \in Stages
        BY DEF Stages
      <3> HIDE DEF j, s
      <3> QED BY Zenon, <1>1, <2>5, <3>1 DEF JobType
    <2> HIDE DEF k
    <2>7. Len(got) = j.size => got = before
      BY <1>1, <2>2, <2>4, <2>5, AllPieces
    <2>8. Along(k, file', before)
      <3>1. s = "close" => got = before
        BY <2>5, <2>7
      <3>2. s = "more" => Len(got) < Len(before) /\ got = SubSeq(before, 1, Len(got))
        BY <1>1, <2>2, <2>4, <2>5
      <3>3. s \in {"close", "more"}
        OBVIOUS
      <3> HIDE DEF s
      <3> QED BY <1>1, <1>2, <1>7, <2>2, <2>6, <3>1, <3>2, <3>3 DEF Along, Midway, ReadingAlong
    <2>9. Advances(j, k, file')
      BY <1>1, <2>6, <2>8 DEF Advances, Midway
    <2> QED BY Zenon, <2>1, <2>9
  <1> QED BY <1>3, <1>4, <1>5, <1>6, <1>7

\* A call that looks once or changes a name is over after one step.
LEMMA NameAdvances ==
  ASSUME NEW i \in 1 .. Len(jobs), TypeOK, jobs[i].out = Pending, Along(jobs[i], file, before),
         jobs[i].stage \in {"first", "open", "more", "close"}, NameStep(i)
  PROVE  \E k : jobs' = [jobs EXCEPT ![i] = k] /\ Advances(jobs[i], k, file')
  <1> DEFINE j == jobs[i]
             out == IF file = Absent THEN Error
                    ELSE IF j.op = "stat" THEN Ok(<<Len(file)>>) ELSE Ok(<<>>)
  <1>1. j \in JobType /\ file \in Seq(Nat) /\ j.op \in {"stat", "unlink"}
    BY DEF TypeOK, NameStep
  <1>2. /\ jobs' = [jobs EXCEPT ![i] = Finish(j, out)]
        /\ file' = IF j.op = "unlink" THEN Absent ELSE file
    BY DEF NameStep
  <1>3. file = before
    BY <1>1 DEF Along, Midway
  <1>4. out \in Outcome /\ out # Pending
    <2>1. <<Len(file)>> \in Seq(Nat)
      BY <1>1
    <2> QED BY Zenon, <2>1, Outcomes
  <1>5. Ends(j, file', out)
    BY <1>1, <1>2, <1>3 DEF Ends, Atomic!Effect, Atomic!Absent, Absent, Ok, Atomic!Ok,
                            Error, Atomic!Error
  <1>6. file' \in Seq(Nat)
    BY <1>1, <1>2 DEF Absent
  <1> HIDE DEF out
  <1>7. Advances(j, Finish(j, out), file')
    BY <1>1, <1>4, <1>5, <1>6, Finishes DEF Advances
  <1> QED BY Zenon, <1>2, <1>7

\* A call that fails at one of its steps leaves part of its effect at most; a
\* failing piece is followed by close.
LEMMA FailureAdvances ==
  ASSUME NEW i \in 1 .. Len(jobs), TypeOK, jobs[i].out = Pending, Along(jobs[i], file, before),
         jobs[i].stage \in {"first", "open", "more", "close"}, StepFails(i)
  PROVE  \E k : jobs' = [jobs EXCEPT ![i] = k] /\ Advances(jobs[i], k, file')
  <1> DEFINE j == jobs[i]
  <1>1. /\ j \in JobType /\ file \in Seq(Nat) /\ before \in Seq(Nat) /\ j.op \in Ops
        /\ j.data \in Seq(Nat) /\ j.size \in Nat /\ Len(j.data) \in Nat
    <2>1. j \in JobType /\ file \in Seq(Nat) /\ before \in Seq(Nat)
      BY DEF TypeOK
    <2> QED BY SMTT(30), <2>1 DEF JobType
  <1>2. jobs' = [jobs EXCEPT ![i] = Fails(j)] /\ ~(j.op = "read" /\ j.stage = "close")
    BY DEF StepFails
  <1>3. j.op = "read" \/ j.op = "stat" => file' = file /\ file' = before
    BY <1>1 DEF StepFails, Along, Midway, ReadingAlong
  <1>4. j.op = "unlink" => file' \in {before, Absent} /\ j.stage = "first"
    BY <1>1 DEF StepFails, Along, Midway
  <1>5. j.op = "stat" => j.stage = "first"
    BY <1>1 DEF Along, Midway
  <1>6. j.op = "write" => \/ file' = before /\ j.stage = "first"
                          \/ \E n \in 0 .. Len(j.data) : file' = SubSeq(j.data, 1, n)
    <2> SUFFICES ASSUME j.op = "write" PROVE \/ file' = before /\ j.stage = "first"
                                             \/ \E n \in 0 .. Len(j.data) : file' = SubSeq(j.data, 1, n)
      OBVIOUS
    <2>1. file' \in {file, Written(j)}
      BY DEF StepFails
    <2>2. CASE j.stage = "first"
      <3>1. file = before /\ Written(j) = SubSeq(j.data, 1, 0) /\ 0 \in 0 .. Len(j.data)
        BY <1>1, <2>2, AllPieces DEF Along, Written
      <3> QED BY <2>1, <2>2, <3>1
    <2>3. CASE j.stage # "first"
      <3>1. WritingAlong(j, file)
        BY <2>3 DEF Along, Midway
      <3>2. PICK m \in 0 .. Len(j.data) : file = SubSeq(j.data, 1, m)
        BY <3>1 DEF WritingAlong
      <3>3. CASE j.stage = "more"
        <4>1. Written(j) = SubSeq(j.data, 1, j.size + 1)
          BY Zenon, <1>1, <3>1, <3>3, OnePiece DEF Written, WritingAlong
        <4>2. j.size + 1 \in 0 .. Len(j.data)
          BY <1>1, <3>1, <3>3 DEF WritingAlong
        <4> QED BY <2>1, <3>2, <4>1, <4>2
      <3>4. CASE j.stage # "more"
        BY <2>1, <2>3, <3>2, <3>4 DEF Written
      <3> QED BY <3>3, <3>4
    <2> QED BY <2>2, <2>3
  <1>7. file' \in Seq(Nat)
    <2>1. CASE j.op = "write"
      <3>1. ASSUME NEW n \in 0 .. Len(j.data) PROVE SubSeq(j.data, 1, n) \in Seq(Nat)
        <4> HIDE DEF j
        <4> QED BY <1>1, AllPieces
      <3> QED BY Zenon, <1>1, <1>6, <2>1, <3>1
    <2>2. CASE j.op # "write"
      <3>1. Absent \in Seq(Nat)
        BY DEF Absent
      <3> QED BY <1>1, <1>3, <1>4, <2>2, <3>1 DEF Ops
    <2> QED BY <2>1, <2>2
  <1>8. CASE j.stage = "more"
    <2> DEFINE k == [j EXCEPT !.res = Error, !.stage = "close"]
    <2>1. Fails(j) = k
      BY <1>8 DEF Fails
    <2>2. /\ k \in JobType /\ k.op = j.op /\ k.data = j.data /\ k.out = j.out
          /\ k.stage = "close" /\ k.res = Error
      <3>1. "close" \in Stages
        BY DEF Stages
      <3> HIDE DEF j
      <3> QED BY Zenon, <1>1, <3>1 DEF JobType
    <2> HIDE DEF k
    <2>3. Along(k, file', before)
      <3>1. CASE j.op = "write"
        BY <1>6, <1>8, <2>2, <3>1, Outcomes DEF Along, Midway, WritingAlong
      <3>2. CASE j.op = "read"
        <4>1. before # Absent
          BY <1>8, <3>2 DEF Along, Midway, ReadingAlong
        <4> QED BY <1>3, <2>2, <3>2, <4>1 DEF Along, Midway, ReadingAlong
      <3> QED BY <1>1, <1>4, <1>5, <1>8, <3>1, <3>2 DEF Ops
    <2>4. Advances(j, k, file')
      BY <1>7, <2>2, <2>3 DEF Advances, Midway
    <2> QED BY Zenon, <1>2, <2>1, <2>4
  <1>9. CASE j.stage # "more"
    <2>1. Fails(j) = Finish(j, Error)
      BY <1>9 DEF Fails
    <2>2. Ends(j, file', Error)
      <3>1. CASE j.op = "write"
        BY <1>6, <3>1 DEF Ends, Atomic!Left, Atomic!Prefixes
      <3>2. CASE j.op # "write"
        BY <1>1, <1>3, <1>4, <3>2 DEF Ends, Atomic!Left, Ops, Absent, Atomic!Absent
      <3> QED BY <3>1, <3>2
    <2>3. Advances(j, Finish(j, Error), file')
      BY Zenon, <1>1, <1>7, <2>2, Outcomes, Finishes DEF Advances
    <2> QED BY Zenon, <1>2, <2>1, <2>3
  <1> QED BY <1>8, <1>9

\* Every step of the job that has the context either brings it along or ends
\* the call with an effect that the call may have.
LEMMA RunAdvances ==
  ASSUME NEW i \in 1 .. Len(jobs), TypeOK, Excluded, Progress, RunJob(i)
  PROVE  \E k : jobs' = [jobs EXCEPT ![i] = k] /\ Advances(jobs[i], k, file')
  <1>1. holder = i /\ holder # 0 /\ jobs[i].stage \in {"first", "open", "more", "close"}
    BY DEF RunJob, Has
  <1>2. Along(jobs[i], file, before)
    BY <1>1 DEF Progress
  <1>3. jobs[i].out = Pending
    BY <1>1 DEF Excluded
  <1>4. WriteStep(i) \/ ReadStep(i) \/ NameStep(i) \/ StepFails(i)
    BY DEF RunJob
  <1> QED BY <1>1, <1>2, <1>3, <1>4, WriteAdvances, ReadAdvances, NameAdvances, FailureAdvances

-----------------------------------------------------------------------------
(* The inductive invariant. *)

\* One job changes: the others are as they were.
LEMMA OneJob ==
  ASSUME NEW s \in Seq(JobType), NEW i \in 1 .. Len(s), NEW k \in JobType
  PROVE  LET t == [s EXCEPT ![i] = k] IN
           /\ t \in Seq(JobType) /\ Len(t) = Len(s) /\ t[i] = k
           /\ \A x \in 1 .. Len(s) : x # i => t[x] = s[x]
  OBVIOUS

\* A job that goes from stage to stage keeps everything else.
LEMMA Staged ==
  ASSUME TypeOK, NEW i \in 1 .. Len(jobs), NEW stage \in Stages
  PROVE  \E k \in JobType :
           /\ To(i, stage) = [jobs EXCEPT ![i] = k]
           /\ k.op = jobs[i].op /\ k.data = jobs[i].data /\ k.out = jobs[i].out
           /\ k.stage = stage /\ k.buf = jobs[i].buf /\ k.res = jobs[i].res
  <1> DEFINE j == jobs[i]
             k == [j EXCEPT !.stage = stage]
  <1>1. To(i, stage) = [jobs EXCEPT ![i] = k]
    BY DEF To, TypeOK
  <1>2. /\ k \in JobType
        /\ k.op = j.op /\ k.data = j.data /\ k.out = j.out /\ k.stage = stage
        /\ k.size = j.size /\ k.buf = j.buf /\ k.res = j.res
    <2>1. j \in JobType
      BY DEF TypeOK
    <2> HIDE DEF j
    <2> QED BY Zenon, <2>1 DEF JobType
  <1> HIDE DEF k
  <1> QED BY Zenon, <1>1, <1>2

\* A call begins: its job comes last.
LEMMA OneMore ==
  ASSUME NEW s \in Seq(JobType), NEW op \in Ops, NEW d \in Data, NEW stage \in Stages
  PROVE  LET t == Append(s, Job(op, d, stage)) IN
           /\ t \in Seq(JobType) /\ Len(t) = Len(s) + 1 /\ Len(s) \in Nat
           /\ t[Len(s) + 1] = Job(op, d, stage)
           /\ \A x \in 1 .. Len(s) : t[x] = s[x]
  <1>1. d \in Seq(Nat \ {0})
    BY FrontEndsAssumption
  <1>2. Job(op, d, stage) \in JobType
    BY <1>1, Outcomes DEF Job, JobType
  <1> QED BY <1>2

\* The caller of the C functions is one of the callers.
LEMMA CIsCaller == C \in Callers
  BY FrontEndsAssumption DEF C

\* The invariant holds at first.
LEMMA InitInv == Init => IInv
  <1> SUFFICES ASSUME Init PROVE IInv
    OBVIOUS
  <1>1. TypeOK
    <2>1. <<>> \in Seq(JobType) /\ <<>> \in Seq(Nat) /\ Absent \in Seq(Nat) /\ Len(<<>>) = 0
      BY DEF Absent
    <2> QED BY <2>1 DEF Init, TypeOK
  <1>2. Excluded /\ Queued /\ Progress /\ Fresh
    BY CIsCaller DEF Init, Excluded, Queued, Progress, Fresh
  <1> QED BY <1>1, <1>2 DEF IInv

\* A step of the job at work.
LEMMA RunStep ==
  ASSUME IInv, NEW i \in 1 .. Len(jobs), RunJob(i)
  PROVE  IInv'
  <1>1. PICK k : jobs' = [jobs EXCEPT ![i] = k] /\ Advances(jobs[i], k, file')
    BY RunAdvances DEF IInv
  <1>2. k \in JobType /\ file' \in Seq(Nat)
    BY <1>1 DEF Advances
  <1>3. /\ jobs' \in Seq(JobType) /\ Len(jobs') = Len(jobs) /\ jobs'[i] = k
        /\ \A x \in 1 .. Len(jobs) : x # i => jobs'[x] = jobs[x]
    BY <1>1, <1>2, OneJob DEF IInv, TypeOK
  <1>4. /\ holder = i /\ jobs[i].stage \in {"first", "open", "more", "close"}
        /\ UNCHANGED <<setting, waits, queue, holder, before>>
    BY DEF RunJob, Has, shared
  <1>5. TypeOK'
    BY <1>2, <1>3, <1>4 DEF IInv, TypeOK
  <1>6. /\ k.stage \in AtWork
        /\ k.out = Pending <=> k.stage \notin {"ending", "done"}
        /\ Along(k, file', before)
    BY <1>1 DEF Advances, AtWork, Midway, Along
  <1>7. Excluded'
    BY <1>3, <1>4, <1>6 DEF IInv, Excluded, Async
  <1>8. Queued'
    BY <1>3, <1>4 DEF IInv, Queued
  <1>9. Progress'
    BY <1>3, <1>4, <1>6 DEF Progress
  <1>10. Fresh'
    BY <1>3, <1>6 DEF IInv, Fresh, AtWork
  <1> QED BY <1>5, <1>7, <1>8, <1>9, <1>10 DEF IInv

\* A thread of the pool takes a job from the queue.
LEMMA StartStep ==
  ASSUME IInv, Start
  PROVE  IInv'
  <1> DEFINE i == Head(queue)
  <1>1. /\ queue \in Seq(Nat) /\ queue # <<>> /\ queue' = Tail(queue)
        /\ UNCHANGED <<setting, file, waits, holder, before>>
    BY DEF Start, IInv, TypeOK
  <1>2. /\ Len(queue) \in Nat /\ 1 \in 1 .. Len(queue) /\ i = queue[1]
        /\ queue' \in Seq(Nat) /\ Len(queue') = Len(queue) - 1
        /\ \A n \in 1 .. Len(queue') : queue'[n] = queue[n + 1] /\ n + 1 \in 1 .. Len(queue)
    BY <1>1
  <1>3. i \in 1 .. Len(jobs) /\ jobs[i].stage = "queued"
    BY <1>2 DEF IInv, Queued
  <1>4. "locking" \in Stages
    BY DEF Stages
  <1>5. PICK k \in JobType :
          /\ To(i, "locking") = [jobs EXCEPT ![i] = k]
          /\ k.op = jobs[i].op /\ k.data = jobs[i].data /\ k.out = jobs[i].out
          /\ k.stage = "locking" /\ k.buf = jobs[i].buf /\ k.res = jobs[i].res
    <2> HIDE DEF i
    <2> QED BY <1>3, <1>4, Staged DEF IInv
  <1>6. jobs' = [jobs EXCEPT ![i] = k]
    BY <1>5 DEF Start
  <1>7. /\ jobs' \in Seq(JobType) /\ Len(jobs') = Len(jobs) /\ jobs'[i] = k
        /\ \A x \in 1 .. Len(jobs) : x # i => jobs'[x] = jobs[x]
    <2> HIDE DEF i
    <2> QED BY <1>3, <1>6, OneJob DEF IInv, TypeOK
  <1> HIDE DEF i
  <1>8. TypeOK'
    BY <1>1, <1>2, <1>7 DEF IInv, TypeOK
  <1>9. /\ jobs[i].stage \notin AtWork /\ k.stage \notin AtWork /\ holder # i
        /\ k.out = Pending /\ k.stage \notin {"ending", "done"}
    BY <1>3, <1>5 DEF AtWork, IInv, Excluded
  <1>10. Excluded'
    <2>1. \A x \in 1 .. Len(jobs') : jobs'[x].stage \in AtWork <=> holder' = x
      BY <1>1, <1>7, <1>9 DEF IInv, Excluded
    <2>2. \A x \in 1 .. Len(jobs') :
            jobs'[x].out = Pending <=> jobs'[x].stage \notin {"ending", "done"}
      BY <1>7, <1>9 DEF IInv, Excluded
    <2>3. holder' <= Len(jobs') /\ (~Async => holder = waits[C])'
      BY <1>1, <1>7 DEF IInv, Excluded, Async
    <2> QED BY <2>1, <2>2, <2>3 DEF Excluded
  <1>11. Queued'
    <2>1. ASSUME NEW n \in 1 .. Len(queue')
          PROVE  queue'[n] \in 1 .. Len(jobs') /\ jobs'[queue'[n]].stage = "queued"
      <3>1. n + 1 \in 1 .. Len(queue) /\ queue'[n] = queue[n + 1] /\ n + 1 # 1
        BY <1>2
      <3>2. queue[n + 1] # i
        BY <1>2, <3>1 DEF IInv, Queued
      <3> QED BY <1>7, <3>1, <3>2 DEF IInv, Queued
    <2>2. \A m, n \in 1 .. Len(queue') : queue'[m] = queue'[n] => m = n
      <3> SUFFICES ASSUME NEW m \in 1 .. Len(queue'), NEW n \in 1 .. Len(queue'),
                          queue'[m] = queue'[n]
                   PROVE  m = n
        OBVIOUS
      <3>1. m + 1 \in 1 .. Len(queue) /\ n + 1 \in 1 .. Len(queue) /\ queue[m + 1] = queue[n + 1]
        BY Zenon, <1>2
      <3>2. m + 1 = n + 1
        BY <3>1 DEF IInv, Queued
      <3> QED BY <3>2
    <2> QED BY <2>1, <2>2 DEF Queued
  <1>12. Progress'
    <2>1. holder # 0 => holder \in 1 .. Len(jobs)
      BY DEF IInv, TypeOK, Excluded
    <2> QED BY <1>1, <1>7, <1>9, <2>1 DEF IInv, Progress
  <1>13. Fresh'
    BY <1>3, <1>5, <1>7 DEF IInv, Fresh
  <1> QED BY <1>8, <1>10, <1>11, <1>12, <1>13 DEF IInv

\* A job gets the context.
LEMMA LockStep ==
  ASSUME IInv, NEW i \in 1 .. Len(jobs), Lock(i)
  PROVE  IInv'
  <1>1. /\ jobs[i].stage = "locking" /\ holder = 0 /\ holder' = i /\ before' = file
        /\ jobs' = To(i, "first") /\ UNCHANGED <<setting, file, waits, queue>> /\ Async
    BY DEF Lock
  <1>2. "first" \in Stages
    BY DEF Stages
  <1>3. PICK k \in JobType :
          /\ To(i, "first") = [jobs EXCEPT ![i] = k]
          /\ k.op = jobs[i].op /\ k.data = jobs[i].data /\ k.out = jobs[i].out
          /\ k.stage = "first" /\ k.buf = jobs[i].buf /\ k.res = jobs[i].res
    BY <1>2, Staged DEF IInv
  <1>4. /\ jobs' \in Seq(JobType) /\ Len(jobs') = Len(jobs) /\ jobs'[i] = k
        /\ \A x \in 1 .. Len(jobs) : x # i => jobs'[x] = jobs[x]
    <2>1. jobs \in Seq(JobType) /\ jobs' = [jobs EXCEPT ![i] = k]
      BY <1>1, <1>3 DEF IInv, TypeOK
    <2> QED BY <2>1, OneJob
  <1>5. /\ k.stage \in AtWork /\ k.out = Pending /\ k.stage \notin {"ending", "done"}
        /\ k.buf = <<>> /\ k.res = Ok(<<>>)
    BY <1>1, <1>3 DEF AtWork, IInv, Excluded, Fresh
  <1>6. TypeOK'
    BY <1>1, <1>4 DEF IInv, TypeOK
  <1>7. Excluded'
    <2>1. \A x \in 1 .. Len(jobs') : jobs'[x].stage \in AtWork <=> holder' = x
      BY <1>1, <1>4, <1>5 DEF IInv, Excluded
    <2>2. \A x \in 1 .. Len(jobs') :
            jobs'[x].out = Pending <=> jobs'[x].stage \notin {"ending", "done"}
      BY <1>4, <1>5 DEF IInv, Excluded
    <2>3. holder' <= Len(jobs') /\ (~Async => holder = waits[C])'
      BY <1>1, <1>4 DEF Async
    <2> QED BY Zenon, <2>1, <2>2, <2>3 DEF Excluded
  <1>8. Queued'
    BY Zenon, <1>1, <1>4 DEF IInv, Queued
  <1>9. Progress'
    BY Zenon, <1>1, <1>3, <1>4, <1>5 DEF Progress, Along, Midway
  <1>10. Fresh'
    BY <1>3, <1>4 DEF IInv, Fresh
  <1> QED BY <1>6, <1>7, <1>8, <1>9, <1>10 DEF IInv

\* A job whose call has ended gives the context back.
LEMMA Released ==
  ASSUME IInv, NEW i \in 1 .. Len(jobs), holder = i, jobs[i].stage = "ending",
         jobs' = To(i, "done"), holder' = 0, UNCHANGED <<setting, file, queue, before>>,
         waits' \in [Callers -> Nat], \A c \in Callers : waits'[c] <= waits[c],
         ~Async => waits'[C] = 0
  PROVE  IInv'
  <1>1. "done" \in Stages
    BY DEF Stages
  <1>2. PICK k \in JobType :
          /\ To(i, "done") = [jobs EXCEPT ![i] = k]
          /\ k.op = jobs[i].op /\ k.data = jobs[i].data /\ k.out = jobs[i].out
          /\ k.stage = "done"
    BY <1>1, Staged DEF IInv
  <1>3. /\ jobs' \in Seq(JobType) /\ Len(jobs') = Len(jobs) /\ jobs'[i] = k
        /\ \A x \in 1 .. Len(jobs) : x # i => jobs'[x] = jobs[x]
    <2>1. jobs \in Seq(JobType) /\ jobs' = [jobs EXCEPT ![i] = k]
      BY <1>2 DEF IInv, TypeOK
    <2> QED BY <2>1, OneJob
  <1>4. k.stage \notin AtWork /\ k.out # Pending /\ Len(jobs) \in Nat
    BY <1>2 DEF AtWork, IInv, Excluded, TypeOK
  <1>5. TypeOK'
    <2>1. \A c \in Callers : waits'[c] <= Len(jobs')
      BY <1>3, <1>4 DEF IInv, TypeOK
    <2> QED BY <1>3, <2>1 DEF IInv, TypeOK
  <1>6. Excluded'
    <2>1. \A x \in 1 .. Len(jobs') : jobs'[x].stage \in AtWork <=> holder' = x
      BY <1>3, <1>4 DEF IInv, Excluded
    <2>2. \A x \in 1 .. Len(jobs') :
            jobs'[x].out = Pending <=> jobs'[x].stage \notin {"ending", "done"}
      BY <1>2, <1>3, <1>4 DEF IInv, Excluded
    <2>3. holder' <= Len(jobs') /\ (~Async => holder = waits[C])'
      BY <1>3, <1>4 DEF Async
    <2> QED BY <2>1, <2>2, <2>3 DEF Excluded
  <1>7. Queued'
    BY <1>3 DEF IInv, Queued
  <1>8. Progress'
    BY DEF Progress
  <1>9. Fresh'
    BY <1>2, <1>3 DEF IInv, Fresh
  <1> QED BY Zenon, <1>5, <1>6, <1>7, <1>8, <1>9 DEF IInv

\* The guard of an AsyncNfs job is dropped; a C function returns.
LEMMA UnlockStep ==
  ASSUME IInv, NEW i \in 1 .. Len(jobs), Unlock(i)
  PROVE  IInv'
  <1>1. /\ holder = i /\ jobs[i].stage = "ending" /\ jobs' = To(i, "done") /\ holder' = 0
        /\ UNCHANGED <<setting, file, queue, before, waits>> /\ Async
    BY DEF Unlock, Has
  <1>2. waits' \in [Callers -> Nat] /\ \A c \in Callers : waits'[c] <= waits[c]
    BY <1>1 DEF IInv, TypeOK
  <1>3. UNCHANGED <<setting, file, queue, before>>
    BY <1>1
  <1> QED BY <1>1, <1>2, <1>3, Released
LEMMA ReturnStep ==
  ASSUME IInv, CReturn
  PROVE  /\ IInv'
         /\ waits[C] \in 1 .. Len(jobs) /\ holder = waits[C]
  <1> DEFINE i == waits[C]
  <1>1. /\ ~Async /\ i # 0 /\ jobs[i].stage = "ending" /\ jobs' = To(i, "done") /\ holder' = 0
        /\ UNCHANGED <<setting, file, queue, before>> /\ waits' = [waits EXCEPT ![C] = 0]
    BY DEF CReturn, CEnds
  <1>2. i \in 1 .. Len(jobs) /\ holder = i
    BY <1>1, CIsCaller DEF IInv, TypeOK, Excluded
  <1>3. /\ waits' \in [Callers -> Nat] /\ \A c \in Callers : waits'[c] <= waits[c]
        /\ waits'[C] = 0
    BY <1>1, CIsCaller DEF IInv, TypeOK
  <1> HIDE DEF i
  <1>4. IInv'
    BY <1>1, <1>2, <1>3, Released
  <1> QED BY <1>2, <1>4 DEF i

\* A task makes a call.
LEMMA SubmitStep ==
  ASSUME IInv, NEW c \in Callers, NEW op \in Ops, NEW d \in Data, Submit(c, op, d)
  PROVE  IInv'
  <1> DEFINE n == Len(jobs) + 1
  <1>1. /\ jobs' = Append(jobs, Job(op, d, "queued")) /\ queue' = Append(queue, Len(jobs'))
        /\ waits' = [waits EXCEPT ![c] = Len(jobs')]
        /\ UNCHANGED <<setting, file, holder, before>> /\ Async
    BY DEF Submit, Runs
  <1>2. "queued" \in Stages
    BY Zenon DEF Stages
  <1>3. /\ jobs' \in Seq(JobType) /\ Len(jobs') = n /\ Len(jobs) \in Nat
        /\ jobs'[n] = Job(op, d, "queued") /\ \A x \in 1 .. Len(jobs) : jobs'[x] = jobs[x]
    BY <1>1, <1>2, OneMore DEF IInv, TypeOK
  <1>4. /\ Job(op, d, "queued").stage = "queued" /\ Job(op, d, "queued").out = Pending
        /\ Job(op, d, "queued").buf = <<>> /\ Job(op, d, "queued").res = Ok(<<>>)
    BY Zenon DEF Job
  <1>5. /\ queue \in Seq(Nat) /\ Len(queue) \in Nat /\ queue' \in Seq(Nat)
        /\ Len(queue') = Len(queue) + 1 /\ queue'[Len(queue) + 1] = n
        /\ \A x \in 1 .. Len(queue) : queue'[x] = queue[x]
    BY <1>1, <1>3 DEF IInv, TypeOK
  <1>6. TypeOK'
    BY <1>1, <1>3, <1>5 DEF IInv, TypeOK
  <1>7. Excluded'
    <2>1. holder # n /\ holder' <= Len(jobs') /\ (~Async => holder = waits[C])'
      BY <1>1, <1>3 DEF IInv, TypeOK, Excluded, Async
    <2>2. \A x \in 1 .. Len(jobs') : jobs'[x].stage \in AtWork <=> holder' = x
      BY <1>1, <1>3, <1>4, <2>1 DEF IInv, Excluded, AtWork
    <2>3. \A x \in 1 .. Len(jobs') :
            jobs'[x].out = Pending <=> jobs'[x].stage \notin {"ending", "done"}
      BY <1>3, <1>4 DEF IInv, Excluded
    <2> QED BY Zenon, <2>1, <2>2, <2>3 DEF Excluded
  <1>8. Queued'
    <2>1. \A x \in 1 .. Len(queue') :
            queue'[x] \in 1 .. Len(jobs') /\ jobs'[queue'[x]].stage = "queued"
      <3> SUFFICES ASSUME NEW x \in 1 .. Len(queue')
                   PROVE  queue'[x] \in 1 .. Len(jobs') /\ jobs'[queue'[x]].stage = "queued"
        OBVIOUS
      <3>1. CASE x = Len(queue) + 1
        BY <1>3, <1>4, <1>5, <3>1
      <3>2. CASE x \in 1 .. Len(queue)
        <4>1. queue[x] \in 1 .. Len(jobs) /\ jobs[queue[x]].stage = "queued"
          BY <3>2 DEF IInv, Queued
        <4> QED BY SMTT(30), <1>3, <1>5, <3>2, <4>1
      <3> QED BY <1>5, <3>1, <3>2
    <2>2. \A x \in 1 .. Len(queue) : queue[x] # n
      BY <1>3 DEF IInv, Queued
    <2>3. \A x, y \in 1 .. Len(queue') : queue'[x] = queue'[y] => x = y
      <3>1. \A x, y \in 1 .. Len(queue) : queue[x] = queue[y] => x = y
        BY DEF IInv, Queued
      <3> SUFFICES ASSUME NEW x \in 1 .. Len(queue'), NEW y \in 1 .. Len(queue'),
                          queue'[x] = queue'[y]
                   PROVE  x = y
        OBVIOUS
      <3>2. x \in 1 .. Len(queue) \/ x = Len(queue) + 1
        BY <1>5
      <3>3. y \in 1 .. Len(queue) \/ y = Len(queue) + 1
        BY <1>5
      <3> HIDE DEF n
      <3> QED BY Zenon, <1>5, <2>2, <3>1, <3>2, <3>3
    <2> QED BY <2>1, <2>3 DEF Queued
  <1>9. Progress'
    <2>1. holder # 0 => holder \in 1 .. Len(jobs)
      BY DEF IInv, TypeOK, Excluded
    <2> QED BY Zenon, <1>1, <1>3, <2>1 DEF IInv, Progress
  <1>10. Fresh'
    BY <1>3, <1>4 DEF IInv, Fresh
  <1> QED BY <1>6, <1>7, <1>8, <1>9, <1>10 DEF IInv

\* A C function is called: it has the context at once.
LEMMA CCallStep ==
  ASSUME IInv, NEW op \in Ops, NEW d \in Data, NEW good \in BOOLEAN, CCall(op, d, good)
  PROVE  IInv'
  <1> DEFINE n == Len(jobs) + 1
             s == IF good THEN "first" ELSE "refused"
  <1>1. /\ jobs' = Append(jobs, Job(op, d, s)) /\ holder' = Len(jobs') /\ before' = file
        /\ waits' = [waits EXCEPT ![C] = Len(jobs')] /\ waits[C] = 0 /\ ~Async
        /\ UNCHANGED <<setting, file, queue>>
    BY DEF CCall, Free
  <1>2. s \in Stages /\ s \in AtWork /\ s \notin {"ending", "done", "queued", "locking"}
        /\ s \in {"refused", "first"} /\ s \notin Midway
    BY Zenon DEF Stages, AtWork, Midway
  <1> HIDE DEF s
  <1>3. /\ jobs' \in Seq(JobType) /\ Len(jobs') = n /\ Len(jobs) \in Nat
        /\ jobs'[n] = Job(op, d, s) /\ \A x \in 1 .. Len(jobs) : jobs'[x] = jobs[x]
    BY <1>1, <1>2, OneMore DEF IInv, TypeOK
  <1>4. /\ Job(op, d, s).stage = s /\ Job(op, d, s).out = Pending
        /\ Job(op, d, s).buf = <<>> /\ Job(op, d, s).res = Ok(<<>>)
    BY DEF Job
  <1>5. holder = 0
    BY <1>1 DEF IInv, Excluded
  <1>6. TypeOK'
    BY <1>1, <1>3, CIsCaller DEF IInv, TypeOK
  <1>7. Excluded'
    <2>1. holder' <= Len(jobs') /\ (~Async => holder = waits[C])'
      BY <1>1, <1>3, CIsCaller DEF IInv, TypeOK
    <2>2. \A x \in 1 .. Len(jobs') : jobs'[x].stage \in AtWork <=> holder' = x
      BY <1>1, <1>2, <1>3, <1>4, <1>5 DEF IInv, Excluded
    <2>3. \A x \in 1 .. Len(jobs') :
            jobs'[x].out = Pending <=> jobs'[x].stage \notin {"ending", "done"}
      BY <1>2, <1>3, <1>4 DEF IInv, Excluded
    <2> QED BY <2>1, <2>2, <2>3 DEF Excluded
  <1>8. Queued'
    BY <1>1, <1>3 DEF IInv, Queued
  <1>9. Progress'
    BY Zenon, <1>1, <1>2, <1>3, <1>4 DEF Progress, Along
  <1>10. Fresh'
    BY <1>2, <1>3, <1>4 DEF IInv, Fresh
  <1> QED BY <1>6, <1>7, <1>8, <1>9, <1>10 DEF IInv

\* A call that is refused ends without being made.
LEMMA RefuseStep ==
  ASSUME IInv, CRefuse
  PROVE  /\ IInv'
         /\ waits[C] \in 1 .. Len(jobs) /\ holder = waits[C] /\ jobs[holder].out = Pending
         /\ jobs' = [jobs EXCEPT ![holder] = Finish(jobs[holder], Error)]
         /\ file = before
  <1> DEFINE i == waits[C]
             k == Finish(jobs[i], Error)
  <1>1. /\ ~Async /\ i # 0 /\ jobs[i].stage = "refused" /\ jobs' = [jobs EXCEPT ![i] = k]
        /\ UNCHANGED <<setting, file, waits, queue, holder, before>>
    BY DEF CRefuse, shared
  <1>2. i \in 1 .. Len(jobs) /\ holder = i
    BY <1>1, CIsCaller DEF IInv, TypeOK, Excluded
  <1>3. /\ k \in JobType /\ k.op = jobs[i].op /\ k.data = jobs[i].data /\ k.out = Error
        /\ k.stage = "ending"
    <2>1. jobs[i] \in JobType
      BY <1>2 DEF IInv, TypeOK
    <2> QED BY <2>1, Outcomes, Finishes
  <1> HIDE DEF i, k
  <1>4. /\ jobs' \in Seq(JobType) /\ Len(jobs') = Len(jobs) /\ jobs'[i] = k
        /\ \A x \in 1 .. Len(jobs) : x # i => jobs'[x] = jobs[x]
    <2>1. jobs \in Seq(JobType)
      BY DEF IInv, TypeOK
    <2> QED BY <1>1, <1>2, <1>3, <2>1, OneJob
  <1>5. k.stage \in AtWork /\ k.out # Pending /\ k.stage \notin Midway
    BY <1>3, Outcomes DEF AtWork, Midway
  <1>6. TypeOK'
    BY <1>1, <1>4 DEF IInv, TypeOK
  <1>7. Excluded'
    <2>1. holder' <= Len(jobs') /\ (~Async => holder = waits[C])'
      BY <1>1, <1>4 DEF IInv, Excluded, Async
    <2>2. \A x \in 1 .. Len(jobs') : jobs'[x].stage \in AtWork <=> holder' = x
      BY Zenon, <1>1, <1>2, <1>4, <1>5 DEF IInv, Excluded
    <2>3. \A x \in 1 .. Len(jobs') :
            jobs'[x].out = Pending <=> jobs'[x].stage \notin {"ending", "done"}
      BY <1>3, <1>4, <1>5 DEF IInv, Excluded
    <2> QED BY <2>1, <2>2, <2>3 DEF Excluded
  <1>8. Queued'
    BY <1>1, <1>4 DEF IInv, Queued
  <1>9. Progress'
    BY Zenon, <1>1, <1>2, <1>3, <1>4, <1>5 DEF Progress, Along
  <1>10. Fresh'
    BY <1>3, <1>4 DEF IInv, Fresh
  <1>11. jobs[i].out = Pending
    BY <1>1, <1>2 DEF IInv, Excluded
  <1>12. file = before
    BY <1>1, <1>2 DEF IInv, Progress, Along
  <1> QED BY Zenon, <1>1, <1>2, <1>6, <1>7, <1>8, <1>9, <1>10, <1>11, <1>12 DEF IInv, i, k

\* The other steps change no job.
LEMMA OtherStep ==
  ASSUME IInv, UNCHANGED <<setting, file, jobs, queue, holder, before>>,
         waits' = waits \/ (Async /\ \E c \in Callers : waits' = [waits EXCEPT ![c] = 0])
  PROVE  IInv'
  <1>1. TypeOK'
    <2>1. waits' \in [Callers -> Nat] /\ \A c \in Callers : waits'[c] <= waits[c]
      <3>1. waits \in [Callers -> Nat]
        BY DEF IInv, TypeOK
      <3>2. ASSUME NEW c \in Callers, waits' = [waits EXCEPT ![c] = 0]
            PROVE  waits' \in [Callers -> Nat] /\ \A e \in Callers : waits'[e] <= waits[e]
        BY <3>1, <3>2
      <3>3. CASE waits' = waits
        BY <3>1, <3>3
      <3> QED BY <3>2, <3>3
    <2>2. Len(jobs) \in Nat /\ \A c \in Callers : waits'[c] <= Len(jobs)
      BY <2>1 DEF IInv, TypeOK
    <2> QED BY <2>1, <2>2 DEF IInv, TypeOK
  <1>2. Excluded'
    BY Zenon DEF IInv, Excluded, Async
  <1>3. Queued' /\ Progress' /\ Fresh'
    BY DEF IInv, Queued, Progress, Fresh
  <1> QED BY <1>1, <1>2, <1>3 DEF IInv

\* The steps that change no job and leave the callers where they are.
Aside ==
  \/ \E c \in Callers : Ask(c) \/ version(c)
  \/ \E ok \in BOOLEAN : nfs_rs_mount(ok)
  \/ NullHandle \/ nfs_rs_unmount
  \/ \E i \in DOMAIN jobs : FreeResult(i)

\* Every step keeps the invariant.
LEMMA StepInv == IInv /\ [Next]_vars => IInv'
  <1> SUFFICES ASSUME IInv, [Next]_vars PROVE IInv'
    OBVIOUS
  <1>0. DOMAIN jobs = 1 .. Len(jobs)
    BY DEF IInv, TypeOK
  <1>1. CASE Start
    BY <1>1, StartStep
  <1>2. ASSUME NEW i \in DOMAIN jobs, Lock(i) PROVE IInv'
    BY <1>0, <1>2, LockStep
  <1>3. ASSUME NEW i \in DOMAIN jobs, RunJob(i) PROVE IInv'
    BY <1>0, <1>3, RunStep
  <1>4. ASSUME NEW i \in DOMAIN jobs, Unlock(i) PROVE IInv'
    BY <1>0, <1>4, UnlockStep
  <1>5. ASSUME NEW c \in Callers, Deliver(c) \/ Abandon(c) PROVE IInv'
    <2>1. /\ UNCHANGED <<setting, file, jobs, queue, holder, before>>
          /\ Async /\ waits' = [waits EXCEPT ![c] = 0]
      BY <1>5 DEF Deliver, Abandon, Runs, shared
    <2> QED BY Zenon, <2>1, OtherStep
  <1>6. ASSUME NEW c \in Callers, NEW op \in Ops, NEW d \in Data, Submit(c, op, d) PROVE IInv'
    BY <1>6, SubmitStep
  <1>7. CASE CRefuse
    BY <1>7, RefuseStep
  <1>8. CASE CReturn
    BY <1>8, ReturnStep
  <1>9. ASSUME NEW op \in Ops, NEW d \in Data, NEW good \in BOOLEAN, CCall(op, d, good)
        PROVE  IInv'
    BY <1>9, CCallStep
  <1>10. CASE Aside
    <2>1. UNCHANGED <<setting, file, jobs, queue, holder, before>> /\ waits' = waits
      BY <1>10 DEF Aside, Ask, version, nfs_rs_mount, NullHandle, nfs_rs_unmount, FreeResult, shared
    <2> QED BY <2>1, OtherStep
  <1>11. CASE UNCHANGED vars
    <2>1. UNCHANGED <<setting, file, jobs, queue, holder, before>> /\ waits' = waits
      BY <1>11 DEF vars, shared
    <2> QED BY <2>1, OtherStep
  <1> QED
    BY Zenon, <1>1, <1>2, <1>3, <1>4, <1>5, <1>6, <1>7, <1>8, <1>9, <1>10, <1>11
       DEF Next, Pool, Task, Aside

\* While a job is at work only that job has the context, and what it has done
\* so far says how its call will have ended: the invariant of the simulation.
THEOREM Inductive == Spec => []IInv
  BY InitInv, StepInv, PTL DEF Spec

-----------------------------------------------------------------------------
(* The simulation. *)

\* What AtomicContext sees: the calls, and the file but for what the call under
\* way has done to it.
Calls(s) == [i \in DOMAIN s |-> [op |-> s[i].op, data |-> s[i].data, out |-> s[i].out]]
Content == IF Middle THEN before ELSE file
WithOut(cs, i, out) == [cs EXCEPT ![i].out = out]

\* The three actions of AtomicContext and its stuttering, in these terms.
LEMMA SimulatesBegin ==
  ASSUME NEW c \in Callers, NEW op \in Ops, NEW d \in Data, waits[c] = 0,
         Calls(jobs') = Append(Calls(jobs), [op |-> op, data |-> d, out |-> Pending]),
         waits' = [waits EXCEPT ![c] = Len(Calls(jobs'))], Content' = Content
  PROVE  Atomic!Begin
  BY Zenon DEF Atomic!Begin, Calls, Content, Ops, Atomic!Ops, Pending, Atomic!Pending
LEMMA SimulatesEffect ==
  ASSUME NEW i \in DOMAIN jobs, Calls(jobs)[i].out = Pending, NEW f, NEW out,
         \/ <<f, out>> = Atomic!Effect(Calls(jobs)[i], Content)
         \/ out = Error /\ f \in Atomic!Left(Calls(jobs)[i], Content),
         Content' = f, Calls(jobs') = WithOut(Calls(jobs), i, out), waits' = waits
  PROVE  Atomic!TakeEffect
  <1> DEFINE e == <<f, out>>
             All == {Atomic!Effect(Calls(jobs)[i], Content)}
                      \cup (Atomic!Left(Calls(jobs)[i], Content) \X {Error})
  <1>1. e \in All /\ e[1] = f /\ e[2] = out
    OBVIOUS
  <1>2. i \in DOMAIN Calls(jobs)
    BY DEF Calls
  <1>3. \E x \in All : Content' = x[1] /\ Calls(jobs') = [Calls(jobs) EXCEPT ![i].out = x[2]]
    BY Zenon, <1>1 DEF WithOut
  <1>4. \E n \in DOMAIN Calls(jobs) :
          /\ Calls(jobs)[n].out = Pending
          /\ \E x \in {Atomic!Effect(Calls(jobs)[n], Content)}
                        \cup (Atomic!Left(Calls(jobs)[n], Content) \X {Error}) :
                /\ Content' = x[1]
                /\ Calls(jobs') = [Calls(jobs) EXCEPT ![n].out = x[2]]
          /\ waits' = waits
    BY Zenon, <1>2, <1>3
  <1> QED BY Zenon, <1>4
            DEF Atomic!TakeEffect, Calls, Content, Pending, Atomic!Pending, Error, Atomic!Error
LEMMA SimulatesEnd ==
  ASSUME NEW c \in Callers, waits[c] # 0, waits' = [waits EXCEPT ![c] = 0],
         Content' = Content, Calls(jobs') = Calls(jobs)
  PROVE  Atomic!End
  BY Zenon DEF Atomic!End, Calls, Content
LEMMA SimulatesNothing ==
  ASSUME Content' = Content, Calls(jobs') = Calls(jobs), waits' = waits
  PROVE  UNCHANGED Atomic!vars
  BY DEF Atomic!vars, Calls, Content

\* How the calls change when a job does.
LEMMA CallsKept ==
  ASSUME NEW s \in Seq(JobType), NEW i \in 1 .. Len(s), NEW k \in JobType,
         k.op = s[i].op, k.data = s[i].data, k.out = s[i].out
  PROVE  Calls([s EXCEPT ![i] = k]) = Calls(s)
  BY DEF Calls
LEMMA CallsEnded ==
  ASSUME NEW s \in Seq(JobType), NEW i \in 1 .. Len(s), NEW k \in JobType,
         k.op = s[i].op, k.data = s[i].data
  PROVE  Calls([s EXCEPT ![i] = k]) = WithOut(Calls(s), i, k.out)
  <1> DEFINE t == [s EXCEPT ![i] = k]
             u == [Calls(s) EXCEPT ![i].out = k.out]
  <1>1. /\ DOMAIN t = DOMAIN s /\ t[i] = k /\ \A x \in DOMAIN s : x # i => t[x] = s[x]
        /\ i \in DOMAIN s
    OBVIOUS
  <1>2. DOMAIN Calls(t) = DOMAIN s /\ DOMAIN u = DOMAIN s
    BY <1>1 DEF Calls
  <1>3. ASSUME NEW x \in DOMAIN s PROVE Calls(t)[x] = u[x]
    <2>1. CASE x = i
      <3>1. Calls(t)[x] = [op |-> k.op, data |-> k.data, out |-> k.out]
        BY <1>1, <2>1 DEF Calls
      <3>2. Calls(s)[i] = [op |-> k.op, data |-> k.data, out |-> s[i].out]
        BY <1>1 DEF Calls
      <3>3. u[x] = [op |-> k.op, data |-> k.data, out |-> k.out]
        BY <1>1, <2>1, <3>2 DEF Calls
      <3> QED BY <3>1, <3>3
    <2>2. CASE x # i
      BY <1>1, <2>2 DEF Calls
    <2> QED BY <2>1, <2>2
  <1>4. Calls(t) = [x \in DOMAIN s |-> Calls(t)[x]] /\ u = [x \in DOMAIN s |-> u[x]]
    BY ZenonT(40), <1>1, <1>2 DEF Calls
  <1> QED BY Zenon, <1>3, <1>4 DEF WithOut
LEMMA CallsBegun ==
  ASSUME NEW s \in Seq(JobType), NEW op \in Ops, NEW d \in Data, NEW stage \in Stages
  PROVE  LET t == Append(s, Job(op, d, stage)) IN
           /\ Calls(t) = Append(Calls(s), [op |-> op, data |-> d, out |-> Pending])
           /\ Len(Calls(t)) = Len(t)
  <1> DEFINE j == Job(op, d, stage)
             call == [op |-> op, data |-> d, out |-> Pending]
             t == Append(s, j)
             R == [op : Ops, data : Seq(Nat \ {0}), out : Outcome]
  <1>1. /\ t \in Seq(JobType) /\ Len(t) = Len(s) + 1 /\ Len(s) \in Nat /\ t[Len(s) + 1] = j
        /\ \A x \in 1 .. Len(s) : t[x] = s[x]
    BY OneMore
  <1>2. j.op = op /\ j.data = d /\ j.out = Pending
    BY DEF Job
  <1>3. ASSUME NEW w \in Seq(JobType)
        PROVE  /\ Calls(w) \in Seq(R) /\ Len(Calls(w)) = Len(w)
               /\ \A x \in 1 .. Len(w) :
                     Calls(w)[x] = [op |-> w[x].op, data |-> w[x].data, out |-> w[x].out]
    <2>1. DOMAIN w = 1 .. Len(w) /\ Len(w) \in Nat /\ \A x \in 1 .. Len(w) : w[x] \in JobType
      OBVIOUS
    <2>2. \A x \in 1 .. Len(w) : [op |-> w[x].op, data |-> w[x].data, out |-> w[x].out] \in R
      BY Zenon, <2>1 DEF JobType
    <2>3. Calls(w) \in [1 .. Len(w) -> R]
      BY <2>1, <2>2 DEF Calls
    <2>4. Calls(w) \in Seq(R) /\ Len(Calls(w)) = Len(w)
      <3> HIDE DEF R
      <3> QED BY <2>1, <2>3, Elements, Listed
    <2> QED BY <2>1, <2>4 DEF Calls
  <1>4. call \in R
    <2>1. d \in Seq(Nat \ {0})
      BY FrontEndsAssumption
    <2> QED BY <2>1, Outcomes
  <1> HIDE DEF R, j, t
  <1>5. /\ Calls(t) \in Seq(R) /\ Len(Calls(t)) = Len(s) + 1
        /\ Calls(s) \in Seq(R) /\ Len(Calls(s)) = Len(s)
        /\ Append(Calls(s), call) \in Seq(R) /\ Len(Append(Calls(s), call)) = Len(s) + 1
    <2>1. /\ Calls(t) \in Seq(R) /\ Len(Calls(t)) = Len(s) + 1
          /\ Calls(s) \in Seq(R) /\ Len(Calls(s)) = Len(s)
      BY <1>1, <1>3
    <2> HIDE DEF call
    <2> QED BY <1>4, <2>1
  <1>6. ASSUME NEW x \in 1 .. Len(s) + 1 PROVE Calls(t)[x] = Append(Calls(s), call)[x]
    <2>1. CASE x = Len(s) + 1
      <3>1. Calls(t)[x] = call
        BY Zenon, <1>1, <1>2, <1>3, <2>1
      <3>2. Append(Calls(s), call)[x] = call
        <4> HIDE DEF call
        <4> QED BY <1>1, <1>4, <1>5, <2>1
      <3> QED BY Zenon, <3>1, <3>2
    <2>2. CASE x \in 1 .. Len(s)
      <3>1. Calls(t)[x] = Calls(s)[x]
        <4>1. t[x] = s[x] /\ x \in 1 .. Len(t)
          BY Zenon, <1>1, <2>2
        <4>2. Calls(t)[x] = [op |-> t[x].op, data |-> t[x].data, out |-> t[x].out]
          BY Zenon, <1>1, <1>3, <4>1
        <4>3. Calls(s)[x] = [op |-> s[x].op, data |-> s[x].data, out |-> s[x].out]
          BY <1>3, <2>2
        <4> QED BY <4>1, <4>2, <4>3
      <3>2. Append(Calls(s), call)[x] = Calls(s)[x]
        <4> HIDE DEF call
        <4> QED BY <1>1, <1>4, <1>5, <2>2
      <3> QED BY Zenon, <3>1, <3>2
    <2>3. x = Len(s) + 1 \/ x \in 1 .. Len(s)
      OBVIOUS
    <2> QED BY Zenon, <2>1, <2>2, <2>3
  <1>7. Calls(t) = Append(Calls(s), call)
    <2> HIDE DEF call
    <2> QED BY <1>5, <1>6, SameElements
  <1> QED BY Zenon, <1>1, <1>5, <1>7 DEF t, j

\* A step of the job at work goes unseen, or it is the instant at which its
\* call takes effect.
LEMMA RunSimulated ==
  ASSUME IInv, NEW i \in 1 .. Len(jobs), RunJob(i)
  PROVE  Atomic!TakeEffect \/ UNCHANGED Atomic!vars
  <1>1. PICK k : jobs' = [jobs EXCEPT ![i] = k] /\ Advances(jobs[i], k, file')
    BY RunAdvances DEF IInv
  <1>2. k \in JobType /\ k.op = jobs[i].op /\ k.data = jobs[i].data /\ jobs \in Seq(JobType)
    BY <1>1 DEF Advances, IInv, TypeOK
  <1>3. holder = i /\ holder # 0 /\ UNCHANGED <<waits, holder, before>>
    BY SMTT(30) DEF RunJob, Has, shared
  <1>4. jobs[i].out = Pending
    BY <1>3 DEF IInv, Excluded, RunJob
  <1>5. Content = before
    BY <1>3, <1>4 DEF Content, Middle
  <1>6. jobs'[i] = k
    BY <1>1, <1>2
  <1>7. CASE k.out = Pending
    <2>1. Content' = before
      BY <1>3, <1>6, <1>7 DEF Content, Middle
    <2>2. Calls(jobs') = Calls(jobs)
      BY Zenon, <1>1, <1>2, <1>4, <1>7, CallsKept
    <2> QED BY <1>3, <1>5, <2>1, <2>2, SimulatesNothing
  <1>8. CASE k.out # Pending
    <2>1. Ends(jobs[i], file', k.out)
      BY <1>1, <1>8 DEF Advances
    <2>2. Content' = file'
      BY <1>3, <1>6, <1>8 DEF Content, Middle
    <2>3. Calls(jobs') = WithOut(Calls(jobs), i, k.out)
      BY Zenon, <1>1, <1>2, CallsEnded
    <2>4. /\ i \in DOMAIN jobs
          /\ Calls(jobs)[i] = [op |-> jobs[i].op, data |-> jobs[i].data, out |-> Pending]
      BY <1>2, <1>4 DEF Calls
    <2>5. Calls(jobs)[i].out = Pending
      BY <2>4
    <2>6. \/ <<file', k.out>> = Atomic!Effect(Calls(jobs)[i], Content)
          \/ k.out = Error /\ file' \in Atomic!Left(Calls(jobs)[i], Content)
      BY <1>5, <2>1, <2>4 DEF Ends
    <2>7. waits' = waits
      BY <1>3
    <2> QED BY Zenon, <2>2, <2>3, <2>4, <2>5, <2>6, <2>7, SimulatesEffect
  <1> QED BY Zenon, <1>7, <1>8

\* The queue and the mutex are not seen.
LEMMA PoolSimulated ==
  ASSUME IInv, Start \/ \E i \in 1 .. Len(jobs) : Lock(i) \/ Unlock(i)
  PROVE  UNCHANGED Atomic!vars
  <1>1. \E i \in 1 .. Len(jobs), s \in {"locking", "first", "done"} :
          /\ jobs' = To(i, s) /\ UNCHANGED <<waits, file>>
          /\ \/ holder' = holder /\ before' = before /\ holder # i
             \/ holder = 0 /\ before' = file
             \/ holder' = 0 /\ holder = i /\ jobs[i].out # Pending
    <2>1. CASE Start
      <3>1. queue \in Seq(Nat) /\ queue # <<>>
        BY <2>1 DEF Start, IInv, TypeOK
      <3>2. 1 \in 1 .. Len(queue) /\ Head(queue) = queue[1]
        BY <3>1
      <3>3. Head(queue) \in 1 .. Len(jobs) /\ jobs[Head(queue)].stage = "queued"
        BY <3>2 DEF IInv, Queued
      <3>4. holder # Head(queue)
        BY <3>3 DEF IInv, Excluded, AtWork
      <3> QED BY Zenon, <2>1, <3>3, <3>4 DEF Start
    <2>2. ASSUME NEW i \in 1 .. Len(jobs), Lock(i)
          PROVE  /\ jobs' = To(i, "first") /\ UNCHANGED <<waits, file>>
                 /\ holder = 0 /\ before' = file
      BY Zenon, <2>2 DEF Lock
    <2>3. ASSUME NEW i \in 1 .. Len(jobs), Unlock(i)
          PROVE  /\ jobs' = To(i, "done") /\ UNCHANGED <<waits, file>>
                 /\ holder' = 0 /\ holder = i /\ jobs[i].out # Pending
      BY <2>3 DEF Unlock, Has, IInv, Excluded
    <2> QED BY Zenon, <2>1, <2>2, <2>3
  <1>2. PICK i \in 1 .. Len(jobs), s \in {"locking", "first", "done"} :
          /\ jobs' = To(i, s) /\ UNCHANGED <<waits, file>>
          /\ \/ holder' = holder /\ before' = before /\ holder # i
             \/ holder = 0 /\ before' = file
             \/ holder' = 0 /\ holder = i /\ jobs[i].out # Pending
    BY <1>1
  <1>3. s \in Stages
    BY DEF Stages
  <1>4. PICK k \in JobType :
           /\ To(i, s) = [jobs EXCEPT ![i] = k]
           /\ k.op = jobs[i].op /\ k.data = jobs[i].data /\ k.out = jobs[i].out
    BY <1>3, Staged DEF IInv
  <1>5. jobs \in Seq(JobType) /\ jobs' = [jobs EXCEPT ![i] = k]
    BY <1>2, <1>4 DEF IInv, TypeOK
  <1>6. Calls(jobs') = Calls(jobs)
    BY Zenon, <1>4, <1>5, CallsKept
  <1>7. Content' = Content
    <2>1. holder # 0 => holder \in 1 .. Len(jobs)
      BY DEF IInv, TypeOK, Excluded
    <2>2. \A x \in 1 .. Len(jobs) : x # i => jobs'[x] = jobs[x]
      BY <1>5
    <2>3. CASE holder' = holder /\ before' = before /\ holder # i
      BY Zenon, <1>2, <2>1, <2>2, <2>3 DEF Content, Middle
    <2>4. CASE holder = 0 /\ before' = file
      BY Zenon, <1>2, <2>4 DEF Content, Middle
    <2>5. CASE holder' = 0 /\ holder = i /\ jobs[i].out # Pending
      BY <1>2, <2>5 DEF Content, Middle
    <2> QED BY Zenon, <1>2, <2>3, <2>4, <2>5
  <1> QED BY Zenon, <1>2, <1>6, <1>7, SimulatesNothing

\* A call begins when it is made.
LEMMA BeginSimulated ==
  ASSUME IInv, NEW op \in Ops, NEW d \in Data,
         (\E c \in Callers : Submit(c, op, d)) \/ \E good \in BOOLEAN : CCall(op, d, good)
  PROVE  Atomic!Begin
  <1>1. \E c \in Callers, s \in {"queued", "first", "refused"} :
          /\ waits[c] = 0 /\ jobs' = Append(jobs, Job(op, d, s))
          /\ waits' = [waits EXCEPT ![c] = Len(jobs')] /\ file' = file
          /\ \/ holder' = holder /\ before' = before
             \/ holder = 0 /\ before' = file
    <2>1. ASSUME NEW c \in Callers, Submit(c, op, d)
          PROVE  /\ waits[c] = 0 /\ jobs' = Append(jobs, Job(op, d, "queued"))
                 /\ waits' = [waits EXCEPT ![c] = Len(jobs')] /\ file' = file
                 /\ holder' = holder /\ before' = before
      BY Zenon, <2>1 DEF Submit
    <2>2. ASSUME NEW good \in BOOLEAN, CCall(op, d, good)
          PROVE  /\ waits[C] = 0
                 /\ jobs' = Append(jobs, Job(op, d, IF good THEN "first" ELSE "refused"))
                 /\ waits' = [waits EXCEPT ![C] = Len(jobs')] /\ file' = file
                 /\ holder = 0 /\ before' = file
      BY <2>2 DEF CCall, Free, IInv, Excluded
    <2> QED BY Zenon, <2>1, <2>2, CIsCaller
  <1>2. PICK c \in Callers, s \in {"queued", "first", "refused"} :
          /\ waits[c] = 0 /\ jobs' = Append(jobs, Job(op, d, s))
          /\ waits' = [waits EXCEPT ![c] = Len(jobs')] /\ file' = file
          /\ \/ holder' = holder /\ before' = before
             \/ holder = 0 /\ before' = file
    BY Zenon, <1>1
  <1>3. s \in Stages /\ jobs \in Seq(JobType)
    BY DEF Stages, IInv, TypeOK
  <1>4. /\ Calls(jobs') = Append(Calls(jobs), [op |-> op, data |-> d, out |-> Pending])
        /\ Len(Calls(jobs')) = Len(jobs')
    BY Zenon, <1>2, <1>3, CallsBegun
  <1>5. \A x \in 1 .. Len(jobs) : jobs'[x] = jobs[x]
    BY Zenon, <1>2, <1>3, OneMore
  <1>6. Content' = Content
    <2>1. holder # 0 => holder \in 1 .. Len(jobs)
      BY DEF IInv, TypeOK, Excluded
    <2> QED BY Zenon, <1>2, <1>5, <2>1 DEF Content, Middle
  <1> QED BY Zenon, <1>2, <1>4, <1>6, SimulatesBegin

\* A refused call fails without effect.
LEMMA RefuseSimulated ==
  ASSUME IInv, CRefuse
  PROVE  Atomic!TakeEffect
  <1> DEFINE i == holder
             k == Finish(jobs[i], Error)
  <1>1. /\ i \in 1 .. Len(jobs) /\ jobs[i].out = Pending /\ jobs' = [jobs EXCEPT ![i] = k]
        /\ file = before /\ UNCHANGED <<file, waits, holder>> /\ jobs \in Seq(JobType)
    BY Zenon, RefuseStep DEF CRefuse, shared, IInv, TypeOK
  <1>2. k \in JobType /\ k.op = jobs[i].op /\ k.data = jobs[i].data /\ k.out = Error
    <2>1. jobs[i] \in JobType
      BY <1>1
    <2> QED BY <2>1, Outcomes, Finishes
  <1> HIDE DEF k
  <1>3. Content = file /\ Content' = file
    <2>1. jobs'[i] = k /\ k.out # Pending
      BY <1>1, <1>2, Outcomes
    <2> QED BY <1>1, <2>1 DEF Content, Middle
  <1>4. Calls(jobs') = WithOut(Calls(jobs), i, Error)
    BY Zenon, <1>1, <1>2, CallsEnded
  <1>5. i \in DOMAIN jobs /\ Calls(jobs)[i].out = Pending
    BY <1>1 DEF Calls
  <1>6. Content \in Atomic!Left(Calls(jobs)[i], Content)
    BY DEF Atomic!Left
  <1>7. Content' = Content /\ waits' = waits
    BY <1>1, <1>3
  <1> QED BY Zenon, <1>4, <1>5, <1>6, <1>7, SimulatesEffect

\* A call ends when its caller has the outcome or no longer waits for it.
LEMMA EndSimulated ==
  ASSUME IInv, CReturn \/ \E c \in Callers : Deliver(c) \/ Abandon(c)
  PROVE  Atomic!End
  <1>1. ASSUME NEW c \in Callers, Deliver(c) \/ Abandon(c) PROVE Atomic!End
    <2>1. waits[c] # 0 /\ waits' = [waits EXCEPT ![c] = 0] /\ UNCHANGED <<file, jobs, holder, before>>
      BY <1>1 DEF Deliver, Abandon, shared
    <2>2. Content' = Content /\ Calls(jobs') = Calls(jobs)
      BY <2>1 DEF Content, Middle
    <2> QED BY Zenon, <2>1, <2>2, SimulatesEnd
  <1>2. CASE CReturn
    <2>1. PICK i \in 1 .. Len(jobs) : i = holder /\ i = waits[C] /\ jobs \in Seq(JobType)
      BY Zenon, <1>2, ReturnStep DEF IInv, TypeOK
    <2>2. /\ i # 0 /\ jobs[i].stage = "ending" /\ jobs' = To(i, "done") /\ holder' = 0
          /\ waits' = [waits EXCEPT ![C] = 0] /\ file' = file
      BY <1>2, <2>1 DEF CReturn, CEnds
    <2>3. jobs[i].out # Pending
      BY Zenon, <2>1, <2>2 DEF IInv, Excluded
    <2>4. Content' = Content
      BY <2>1, <2>2, <2>3 DEF Content, Middle
    <2>5. "done" \in Stages
      BY DEF Stages
    <2>6. PICK k \in JobType :
             /\ To(i, "done") = [jobs EXCEPT ![i] = k]
             /\ k.op = jobs[i].op /\ k.data = jobs[i].data /\ k.out = jobs[i].out
      BY <2>5, Staged DEF IInv
    <2>7. Calls(jobs') = Calls(jobs)
      <3>1. jobs' = [jobs EXCEPT ![i] = k]
        BY <2>2, <2>6
      <3> QED BY Zenon, <2>1, <2>6, <3>1, CallsKept
    <2> QED BY ZenonT(40), <2>1, <2>2, <2>4, <2>7, CIsCaller, SimulatesEnd
  <1> QED BY <1>1, <1>2

\* TakesTurns: however the steps of the calls alternate, each call takes effect
\* at one instant between its beginning and its end (async_context.rs blocking,
\* lib.rs guard_int).
THEOREM CallsAreAtomic == Spec => TakesTurns
  <1>1. Init => Atomic!Init
    BY DEF Init, Atomic!Init, Middle, Absent, Atomic!Absent
  <1>2. IInv /\ [Next]_vars => [Atomic!Next]_(Atomic!vars)
    <2> SUFFICES ASSUME IInv, [Next]_vars
                 PROVE  Atomic!Begin \/ Atomic!TakeEffect \/ Atomic!End \/ UNCHANGED Atomic!vars
      BY DEF Atomic!Next
    <2>0. DOMAIN jobs = 1 .. Len(jobs)
      BY DEF IInv, TypeOK
    <2>1. CASE Start \/ \E i \in DOMAIN jobs : Lock(i) \/ Unlock(i)
      BY <2>0, <2>1, PoolSimulated
    <2>2. ASSUME NEW i \in DOMAIN jobs, RunJob(i)
          PROVE  Atomic!TakeEffect \/ UNCHANGED Atomic!vars
      BY <2>0, <2>2, RunSimulated
    <2>3. CASE CReturn \/ \E c \in Callers : Deliver(c) \/ Abandon(c)
      BY <2>3, EndSimulated
    <2>4. ASSUME NEW op \in Ops, NEW d \in Data,
                 (\E c \in Callers : Submit(c, op, d)) \/ \E good \in BOOLEAN : CCall(op, d, good)
          PROVE  Atomic!Begin
      BY <2>4, BeginSimulated
    <2>5. CASE CRefuse
      BY <2>5, RefuseSimulated
    <2>6. CASE Aside \/ UNCHANGED vars
      <3>1. UNCHANGED <<file, jobs, holder, before, waits>>
        BY <2>6 DEF Aside, Ask, version, nfs_rs_mount, NullHandle, nfs_rs_unmount, FreeResult,
                    shared, vars
      <3>2. Content' = Content /\ Calls(jobs') = Calls(jobs) /\ waits' = waits
        BY Zenon, <3>1 DEF Content, Middle
      <3> QED BY Zenon, <3>2, SimulatesNothing
    <2> QED
      BY Zenon, <2>1, <2>2, <2>3, <2>4, <2>5, <2>6 DEF Next, Pool, Task, Aside
  <1> QED BY <1>1, <1>2, Inductive, PTL DEF Spec, TakesTurns, Atomic!Spec

-----------------------------------------------------------------------------
(* The C functions. *)

\* The calls of a C program that have returned.
Past == {k \in 1 .. Len(jobs) : jobs[k].stage = "done"}
Failed(k) == jobs[k].out.is = "error"

\* One call at a time, the last; what there is to free is of calls that have
\* returned; the message and the answer are of the calls they name.
Recorded ==
  ~Async =>
    /\ \A k \in 1 .. Len(jobs) : k \in Past \/ (k = Len(jobs) /\ k = holder)
    /\ memory \subseteq Past
    /\ handle = "none" => jobs = <<>> /\ message = 0 /\ answer.call = 0
    /\ handle = "live" => /\ message # 0 => message \in Past /\ Failed(message)
                          /\ message # 0 => \A k \in Past : Failed(k) => k <= message
                          /\ answer.call # 0 =>
                               /\ answer.call \in Past
                               /\ (answer.code = 0) = (jobs[answer.call].out.is = "ok")
                               /\ answer.code # 0 => message = answer.call
                               /\ answer.code # 0 => answer.call \notin memory

\* A step of a call that does not return.
LEMMA StillRecorded ==
  ASSUME Recorded, Len(jobs) \in Nat, Len(jobs') \in Nat, setting' = setting,
         \A k \in 1 .. Len(jobs') : k \in Past \/ (k = Len(jobs') /\ k = holder'),
         Past' = Past, \A k \in Past : jobs'[k] = jobs[k],
         memory' \subseteq memory,
         handle' \in {handle, "gone"} \/ (handle' = "null" /\ handle = "none"),
         handle' = "none" => jobs' = jobs,
         handle' = "live" => answer' = answer /\ message' = message,
         handle' = "none" => answer' = answer /\ message' = message
  PROVE  Recorded'
  BY DEF Recorded, Async, Failed

\* The indices of a sequence that has got one more element; none is 0.
LEMMA OneLonger ==
  ASSUME NEW n \in Nat
  PROVE  \A k \in 1 .. n + 1 : k = n + 1 \/ (k \in 1 .. n /\ k # 0)
  OBVIOUS

\* The record keeps up with every step.
LEMMA RecordedStep ==
  ASSUME IInv, IInv', Recorded, [Next]_vars
  PROVE  Recorded'
  <1>0. /\ DOMAIN jobs = 1 .. Len(jobs) /\ Len(jobs) \in Nat /\ jobs \in Seq(JobType)
        /\ Len(jobs') \in Nat /\ jobs' \in Seq(JobType)
    BY SMTT(30) DEF IInv, TypeOK
  <1>1. setting' = setting
    BY ZenonT(40)
       DEF Next, Pool, Task, Start, Lock, RunJob, Unlock, Deliver, version, Abandon, Ask, Submit,
           nfs_rs_mount, NullHandle, CRefuse, CReturn, CEnds, nfs_rs_unmount, CCall, FreeResult, vars
  <1>2. CASE Async
    BY ZenonT(40), <1>1, <1>2 DEF Recorded, Async
  <1>3. CASE ~Async
    <2>1. \A k \in 1 .. Len(jobs) : k \in Past \/ (k = Len(jobs) /\ k = holder)
      BY <1>3 DEF Recorded
    <2>2. ASSUME NEW i \in 1 .. Len(jobs), NEW j \in JobType, j.stage # "done", i \notin Past,
                 jobs' = [jobs EXCEPT ![i] = j], UNCHANGED <<holder, cVars>>
          PROVE  Recorded'
      <3>1. Len(jobs') = Len(jobs) /\ jobs'[i] = j
            /\ \A x \in 1 .. Len(jobs) : x # i => jobs'[x] = jobs[x]
        BY <1>0, <2>2, OneJob
      <3>2. Past' = Past /\ \A k \in Past : jobs'[k] = jobs[k]
        BY Zenon, <2>2, <3>1 DEF Past
      <3>3. handle # "none"
        <4>1. jobs # <<>>
          BY <1>0
        <4> QED BY <1>3, <4>1 DEF Recorded
      <3>4. UNCHANGED <<holder, handle, message, memory, answer>>
        BY <2>2 DEF cVars
      <3> QED BY Zenon, <1>0, <1>1, <2>1, <3>1, <3>2, <3>3, <3>4, StillRecorded
    <2>3. ASSUME NEW i \in DOMAIN jobs, RunJob(i) PROVE Recorded'
      <3>1. PICK j : jobs' = [jobs EXCEPT ![i] = j] /\ Advances(jobs[i], j, file')
        BY Zenon, <1>0, <2>3, RunAdvances DEF IInv
      <3>2. j \in JobType /\ j.stage # "done"
        BY Zenon, <3>1 DEF Advances, Midway
      <3>3. i \notin Past /\ UNCHANGED <<holder, cVars>>
        BY <2>3 DEF RunJob, Past, shared
      <3> QED BY Zenon, <1>0, <2>2, <3>1, <3>2, <3>3
    <2>4. CASE CRefuse
      <3>1. PICK i \in 1 .. Len(jobs) : i = holder /\ i = waits[C]
        BY <2>4, RefuseStep
      <3>2. jobs' = [jobs EXCEPT ![i] = Finish(jobs[i], Error)]
        BY Zenon, <2>4, <3>1, RefuseStep
      <3>3. Finish(jobs[i], Error) \in JobType /\ Finish(jobs[i], Error).stage # "done"
        <4>1. jobs[i] \in JobType
          BY <1>0
        <4> QED BY <4>1, Outcomes, Finishes
      <3>4. i \notin Past /\ UNCHANGED <<holder, cVars>>
        BY <2>4, <3>1 DEF CRefuse, Past, shared
      <3> QED BY Zenon, <2>2, <3>2, <3>3, <3>4
    <2>5. ASSUME NEW op \in Ops, NEW d \in Data, NEW good \in BOOLEAN, CCall(op, d, good)
          PROVE  Recorded'
      <3> DEFINE s == IF good THEN "first" ELSE "refused"
      <3>1. /\ jobs' = Append(jobs, Job(op, d, s)) /\ holder' = Len(jobs') /\ waits[C] = 0
            /\ UNCHANGED cVars /\ handle = "live"
        BY <2>5 DEF CCall, Free
      <3>2. s \in Stages /\ s # "done"
        BY DEF Stages
      <3> HIDE DEF s
      <3>3. /\ Len(jobs') = Len(jobs) + 1 /\ jobs'[Len(jobs) + 1] = Job(op, d, s)
            /\ \A x \in 1 .. Len(jobs) : jobs'[x] = jobs[x]
        BY <1>0, <3>1, <3>2, OneMore
      <3>4. Job(op, d, s).stage = s
        BY Zenon DEF Job
      <3>5. Past' = Past /\ \A k \in Past : jobs'[k] = jobs[k]
        BY <1>0, <3>2, <3>3, <3>4 DEF Past
      <3>6. holder = 0
        BY Zenon, <1>3, <3>1 DEF IInv, Excluded
      <3>7. \A k \in 1 .. Len(jobs') : k \in Past \/ (k = Len(jobs') /\ k = holder')
        <4>1. \A k \in 1 .. Len(jobs') : k = Len(jobs') \/ (k \in 1 .. Len(jobs) /\ k # holder)
          BY Zenon, <1>0, <3>3, <3>6, OneLonger
        <4> QED BY Zenon, <2>1, <3>1, <4>1
      <3>8. UNCHANGED <<handle, message, memory, answer>>
        BY Zenon, <3>1 DEF cVars
      <3> QED BY Zenon, <1>0, <1>1, <3>1, <3>5, <3>7, <3>8, StillRecorded
    <2>6. CASE CReturn
      <3>1. PICK i \in 1 .. Len(jobs) : i = holder /\ i = waits[C]
        BY SMTT(30), <2>6, ReturnStep
      <3>2. /\ jobs[i].stage = "ending" /\ jobs' = To(i, "done") /\ holder' = 0
            /\ memory' = IF Allocates(jobs[i]) THEN memory \cup {i} ELSE memory
            /\ answer' = [call |-> i, code |-> IF jobs[i].out.is = "ok" THEN 0 ELSE 1]
            /\ handle' = handle /\ message' = IF jobs[i].out.is = "ok" THEN message ELSE i
        BY Zenon, <2>6, <3>1 DEF CReturn, CEnds
      <3>3. "done" \in Stages
        BY DEF Stages
      <3>4. PICK k \in JobType :
              /\ To(i, "done") = [jobs EXCEPT ![i] = k]
              /\ k.out = jobs[i].out /\ k.stage = "done"
        BY <3>3, Staged DEF IInv
      <3>5. /\ Len(jobs') = Len(jobs) /\ jobs'[i] = k
            /\ \A x \in 1 .. Len(jobs) : x # i => jobs'[x] = jobs[x]
        <4>1. jobs' = [jobs EXCEPT ![i] = k]
          BY <3>2, <3>4
        <4> QED BY Zenon, <1>0, <4>1, OneJob
      <3>6. /\ i \notin Past /\ i = Len(jobs) /\ Past' = Past \cup {i}
            /\ \A x \in 1 .. Len(jobs) : x \in Past'
            /\ \A x \in Past' : x \in 1 .. Len(jobs)
        <4>1. i \notin Past
          BY <3>2 DEF Past
        <4>2. i = Len(jobs)
          BY Zenon, <2>1, <4>1
        <4>3. Past' = Past \cup {i}
          BY <3>4, <3>5 DEF Past
        <4>4. \A x \in Past : x \in 1 .. Len(jobs)
          BY DEF Past
        <4> QED BY Zenon, <2>1, <4>1, <4>2, <4>3, <4>4
      <3>7. jobs[i].out.is \in {"ok", "error"}
        <4>1. jobs[i].out # Pending
          BY Zenon, <3>2 DEF IInv, Excluded
        <4>2. jobs[i].out \in Outcome
          <5>1. jobs[i] \in JobType
            BY <1>0
          <5> QED BY <5>1 DEF JobType
        <4> QED BY Zenon, <4>1, <4>2, Outcomes DEF Outcome
      <3>8. handle # "none" /\ memory \subseteq Past
        <4>1. jobs # <<>>
          BY <1>0
        <4> QED BY Zenon, <1>3, <4>1 DEF Recorded
      <3>9. memory' \subseteq Past' /\ (jobs[i].out.is # "ok" => i \notin memory')
        BY Zenon, <3>2, <3>6, <3>8 DEF Allocates
      <3>10. ASSUME handle = "live", message' # 0
             PROVE  /\ message' \in Past' /\ Failed(message)'
                    /\ \A x \in Past' : Failed(x)' => x <= message'
        <4>1. CASE jobs[i].out.is = "ok"
          <5>1. message' = message /\ message \in Past /\ Failed(message)
            BY Zenon, <1>3, <3>2, <3>10, <4>1 DEF Recorded
          <5>2. \A x \in Past : Failed(x) => x <= message
            BY Zenon, <1>3, <3>2, <3>10, <4>1 DEF Recorded
          <5> QED BY Zenon, <3>4, <3>5, <3>6, <4>1, <5>1, <5>2 DEF Failed
        <4>2. CASE jobs[i].out.is = "error"
          <5>1. message' = i /\ jobs'[i].out.is = "error" /\ i \in Past'
            BY Zenon, <3>2, <3>4, <3>5, <3>6, <4>2
          <5>2. \A x \in Past' : x <= i
            <6> SUFFICES ASSUME NEW x \in Past' PROVE x <= i
              BY SMTT(30)
            <6>1. x \in 1 .. Len(jobs) /\ i = Len(jobs) /\ Len(jobs) \in Nat
              BY ZenonT(40), <1>0, <3>6
            <6> QED BY <6>1
          <5> QED BY Zenon, <5>1, <5>2 DEF Failed
        <4> QED BY Zenon, <3>7, <4>1, <4>2
      <3>11. /\ answer'.call = i
             /\ (answer'.code = 0) = (jobs'[answer'.call].out.is = "ok")
             /\ answer'.code # 0 => message' = i /\ i \notin memory'
        BY <3>2, <3>4, <3>5, <3>9
      <3>12. \A x \in 1 .. Len(jobs') : x \in Past'
        BY Zenon, <3>5, <3>6
      <3> QED BY <3>2, <3>6, <3>8, <3>9, <3>10, <3>11, <3>12 DEF Recorded
    <2>7. CASE nfs_rs_mount(TRUE)
      <3>1. /\ handle = "none" /\ UNCHANGED <<jobs, holder, message, memory, answer>>
        BY Zenon, <2>7 DEF nfs_rs_mount, shared
      <3>2. jobs = <<>> /\ message = 0 /\ answer.call = 0 /\ memory \subseteq Past
        BY <1>3, <3>1 DEF Recorded
      <3>3. Past' = Past /\ Len(<<>>) = 0
        BY <3>1 DEF Past
      <3>4. handle' = "live"
        BY SMTT(30), <2>7 DEF nfs_rs_mount
      <3> QED BY <3>1, <3>2, <3>3, <3>4 DEF Recorded
    <2>8. CASE \/ nfs_rs_mount(FALSE) \/ NullHandle \/ nfs_rs_unmount \/ UNCHANGED vars
               \/ (\E i \in DOMAIN jobs : FreeResult(i)) \/ \E c \in Callers : version(c)
      <3>1. UNCHANGED <<jobs, holder>>
        BY <2>8 DEF nfs_rs_mount, NullHandle, nfs_rs_unmount, FreeResult, version, vars, shared
      <3>2. Past' = Past /\ \A k \in Past : jobs'[k] = jobs[k]
        BY Zenon, <3>1 DEF Past
      <3>3. /\ memory' \subseteq memory
            /\ handle' \in {handle, "gone"} \/ (handle' = "null" /\ handle = "none")
            /\ handle' \in {"live", "none"} => answer' = answer /\ message' = message
        BY <2>8 DEF nfs_rs_mount, NullHandle, nfs_rs_unmount, FreeResult, version, vars, shared, cVars
      <3> QED BY ZenonT(40), <1>0, <1>1, <2>1, <3>1, <3>2, <3>3, StillRecorded
    <2> QED
      BY Zenon, <1>3, <2>3, <2>4, <2>5, <2>6, <2>7, <2>8
         DEF Next, Pool, Task, Start, Lock, Unlock, Deliver, Abandon, Ask, Submit, Runs
  <1> QED BY <1>2, <1>3

\* CAnswers: an error that a C function returns is the one that last_error
\* tells about, and left nothing to free (lib.rs guard_int).
THEOREM AnswersTold == Spec => []CAnswers
  <1>1. Init => Recorded
    BY DEF Init, Recorded, Past, NoAnswer
  <1>2. IInv /\ Recorded => CAnswers
    <2> SUFFICES ASSUME IInv, Recorded, ~Async, handle = "live", waits[C] = 0, answer.call # 0
                 PROVE  LET i == answer.call
                            failed == {k \in DOMAIN jobs : jobs[k].out.is = "error"}
                        IN /\ (answer.code = 0) = (jobs[i].out.is = "ok")
                           /\ answer.code # 0 => message = i /\ i \notin memory
                           /\ message # 0 => message \in failed /\ \A k \in failed : k <= message
      BY DEF CAnswers
    <2>1. DOMAIN jobs = 1 .. Len(jobs)
      BY DEF IInv, TypeOK
    <2>2. holder = 0
      BY DEF IInv, Excluded
    <2>3. Past = DOMAIN jobs
      <3>1. \A k \in 1 .. Len(jobs) : k \in Past
        <4>1. \A k \in 1 .. Len(jobs) : k \in Past \/ k = 0
          BY <2>2 DEF Recorded
        <4> QED BY <4>1
      <3>2. Past \subseteq 1 .. Len(jobs)
        BY DEF Past
      <3> QED BY Zenon, <2>1, <3>1, <3>2
    <2> QED BY Zenon, <2>3 DEF Recorded, Failed
  <1>3. IInv /\ IInv' /\ Recorded /\ [Next]_vars => Recorded'
    BY RecordedStep
  <1> QED BY <1>1, <1>2, <1>3, Inductive, PTL DEF Spec
=============================================================================
