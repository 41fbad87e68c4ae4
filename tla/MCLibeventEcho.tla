--------------------------- MODULE MCLibeventEcho ---------------------------
(* LibeventEcho for TLC: one connection on each of two threads.            *)
EXTENDS LibeventEcho, TLC

CONSTANTS c1, c2, t1, t2

OneEach == (c1 :> t1) @@ (c2 :> t2)
=============================================================================
