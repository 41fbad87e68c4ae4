------------------------------- MODULE MCTftp -------------------------------
(* TftpTransfer for TLC: a small set of files.                             *)
EXTENDS TftpTransfer, TLC

CONSTANTS f1, f2, f3

\* A file of one block, a longer one with a rest and one that is missing.
ThreeFiles == f1 :> 1 @@ f2 :> 2 @@ f3 :> -1
=============================================================================
