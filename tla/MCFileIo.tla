------------------------------ MODULE MCFileIo ------------------------------
(* FileIo on small instances. *)
EXTENDS FileIo

MCData == {<<1, 2, 3>>, <<>>}
MCOthers == {<<7, 8, 9>>}

\* NFSv3 with every failure but that of COMMIT, and NFSv4 with every failure.
MCSettings ==
  {[stateful |-> FALSE, short |-> TRUE, shared |-> TRUE,
    faults |-> {"getattr", "open", "lost open", "setattr", "read", "write", "lost write"},
    ops |-> 3, restarts |-> 1],
   [stateful |-> TRUE, short |-> TRUE, shared |-> TRUE,
    faults |-> {"getattr", "open", "lost open", "setattr", "read", "write", "lost write",
                "commit", "close"},
    ops |-> 3, restarts |-> 1]}

\* NFSv3 without failures but a restart of the server.
RestartSettings ==
  {[stateful |-> FALSE, short |-> FALSE, shared |-> FALSE, faults |-> {},
    ops |-> 3, restarts |-> 1]}
============================================================================
