---------------------------- MODULE MCRpcMessage ----------------------------
(* RpcMessage with bytes of eight values: a word has 4096, which holds      *)
(* every length, status and attribute bitmap that occurs; the samples pass  *)
(* each limit by one.                                                       *)
EXTENDS RpcMessage

MCSamples == 0 .. 9
MCMethodSamples == 0 .. 7
MCWords == {0, 1, 2, 3, MaxU32}
MCKinds == {"body", "call", "reply", "request3", "response3", "request4", "compound4",
            "stat", "statvfs"}
MCRun == {"run4"}
=============================================================================
