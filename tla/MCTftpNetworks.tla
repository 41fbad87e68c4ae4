--------------------------- MODULE MCTftpNetworks ---------------------------
(* TftpNetworks for TLC: files that end before, at and after the sign bit  *)
(* and the wrap of block numbers of three bits.                            *)
EXTENDS TftpNetworks, TLC

CONSTANTS f1, f2, f3, f4, f5, f6, f7, f8

\* Files around the boundaries Half = 4 and 2 * Half = 8.
ManyFiles == f1 :> 0 @@ f2 :> 2 @@ f3 :> 3 @@ f4 :> 4 @@ f5 :> 7 @@ f6 :> 7
             @@ f7 :> 8 @@ f8 :> 13
=============================================================================
