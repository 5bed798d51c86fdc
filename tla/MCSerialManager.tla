--------------------------- MODULE MCSerialManager ---------------------------
(* An application and its next start, which has the same token, and the    *)
(* dump command on the service's IPC threads.                              *)
EXTENDS SerialManager, TLC

CONSTANTS app1, again1, dumper, tok1, tokd, p1, t1, t2

MCProcs == {app1, again1, dumper}
MCTokens == {tok1, tokd}
MCTokenOf == app1 :> tok1 @@ again1 :> tok1 @@ dumper :> tokd
=============================================================================
