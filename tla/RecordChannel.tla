--------------------------- MODULE RecordChannel ---------------------------
(***************************************************************************)
(* What record marking promises to the RPC layer: the records the peer     *)
(* wrote come out whole, once and in order, until the reassembler reports  *)
(* an error.  After an error it promises nothing more on that connection.  *)
(***************************************************************************)
EXTENDS Naturals, Sequences

VARIABLES sent,       \* the records the peer has finished writing
          delivered,  \* the records handed to the RPC layer
          failed      \* the reassembler has reported RecordTooLarge

vars == <<sent, delivered, failed>>

Init == sent = <<>> /\ delivered = <<>> /\ failed = FALSE

\* The peer finishes one more record, whatever it holds.
Send ==
  /\ Len(sent') = Len(sent) + 1
  /\ \A i \in 1 .. Len(sent) : sent'[i] = sent[i]
  /\ UNCHANGED <<delivered, failed>>

Deliver ==
  /\ ~failed
  /\ Len(delivered) < Len(sent)
  /\ delivered' = Append(delivered, sent[Len(delivered) + 1])
  /\ UNCHANGED <<sent, failed>>

Fail ==
  /\ failed' = TRUE
  /\ UNCHANGED <<sent, delivered>>

\* No promise is left once an error was reported.
Afterwards == failed /\ failed' /\ UNCHANGED sent

Next == Send \/ Deliver \/ Fail \/ Afterwards

Spec == Init /\ [][Next]_vars

\* A record that was sent is delivered, unless an error comes first.
FairSpec == Spec /\ WF_vars(Deliver)
============================================================================
