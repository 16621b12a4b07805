---------------------------- MODULE MCFileWrite ----------------------------
(***************************************************************************)
(* FileWrite for TLC.                                                      *)
(***************************************************************************)
EXTENDS FileWrite

\* For the offsets of the instances.
Power2(n) == CHOOSE p \in {1, 2, 4, 8, 16, 32, 64} : p >= n /\ p < 2 * n
=============================================================================
