--------------------------- MODULE AtomicContext ----------------------------
(***************************************************************************)
(* What an NfsContext that several callers use promises: each call takes   *)
(* effect at one instant between its beginning and its end, as if the      *)
(* callers took turns.  One file of the server stands for what the calls   *)
(* act on; it is Absent, or a sequence of pieces.                          *)
(***************************************************************************)
EXTENDS Naturals, Sequences

CONSTANTS Callers, Data

Ops == {"write", "read", "stat", "unlink"}
Absent == <<0>>             \* pieces are not 0
Pending == [is |-> "pending", value |-> <<>>]
Ok(v) == [is |-> "ok", value |-> v]
Error == [is |-> "error", value |-> <<>>]

VARIABLES content, \* the file
          calls,   \* every call, in the order in which they began
          waits    \* the call that a caller waits for, or 0

vars == <<content, calls, waits>>

Init == content = Absent /\ calls = <<>> /\ waits = [c \in Callers |-> 0]

Prefixes(d) == {SubSeq(d, 1, n) : n \in 0 .. Len(d)}

(* The file after the call and what it returns. *)
Effect(call, before) ==
    CASE call.op = "write" -> <<call.data, Ok(<<>>)>>
      [] call.op = "read" -> <<before, IF before = Absent THEN Error ELSE Ok(before)>>
      [] call.op = "stat" -> <<before, IF before = Absent THEN Error ELSE Ok(<<Len(before)>>)>>
      [] call.op = "unlink" -> <<Absent, IF before = Absent THEN Error ELSE Ok(<<>>)>>

(* A call that fails on the way has done nothing, or part of a write, or all *)
(* of an unlink whose reply was lost.                                        *)
Left(call, before) ==
    {before} \cup (IF call.op = "write" THEN Prefixes(call.data)
                   ELSE IF call.op = "unlink" THEN {Absent} ELSE {})

Begin == \E c \in Callers, op \in Ops, d \in Data :
            /\ waits[c] = 0
            /\ calls' = Append(calls, [op |-> op, data |-> d, out |-> Pending])
            /\ waits' = [waits EXCEPT ![c] = Len(calls')]
            /\ UNCHANGED content

TakeEffect == \E i \in DOMAIN calls :
            /\ calls[i].out = Pending
            /\ \E e \in {Effect(calls[i], content)} \cup (Left(calls[i], content) \X {Error}) :
                  /\ content' = e[1]
                  /\ calls' = [calls EXCEPT ![i].out = e[2]]
            /\ UNCHANGED waits

(* The caller has the result, or gives up a call that is under way.          *)
End == \E c \in Callers :
            /\ waits[c] # 0
            /\ waits' = [waits EXCEPT ![c] = 0]
            /\ UNCHANGED <<content, calls>>

Next == Begin \/ TakeEffect \/ End
Spec == Init /\ [][Next]_vars
=============================================================================
