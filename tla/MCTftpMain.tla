----------------------------- MODULE MCTftpMain -----------------------------
(* TftpMain for TLC.                                                       *)
EXTENDS TftpMain, TLC

CONSTANTS f1, f2, f3

\* A file of one block, an empty one and one that is missing.
ThreeFiles == f1 :> 1 @@ f2 :> 0 @@ f3 :> -1
=============================================================================
