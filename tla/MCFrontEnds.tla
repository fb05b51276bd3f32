----------------------------- MODULE MCFrontEnds ----------------------------
(* Tasks that share a context, with fewer threads than calls, and a C       *)
(* program.                                                                 *)
EXTENDS FrontEnds

MCData == {<<>>, <<1, 1>>, <<2, 2>>}
MCSettings ==
  {[api |-> "async", pool |-> 2, workers |-> 1, calls |-> 3, ops |-> {"write", "read"},
    faults |-> FALSE, drops |-> FALSE],
   [api |-> "async", pool |-> 1, workers |-> 2, calls |-> 3, ops |-> {"write", "read"},
    faults |-> FALSE, drops |-> TRUE],
   [api |-> "async", pool |-> 2, workers |-> 2, calls |-> 2, ops |-> Ops,
    faults |-> TRUE, drops |-> TRUE],
   [api |-> "c", pool |-> 1, workers |-> 1, calls |-> 3, ops |-> Ops,
    faults |-> TRUE, drops |-> FALSE]}
=============================================================================
