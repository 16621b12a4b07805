------------------------------- MODULE MCCopy -------------------------------
(***************************************************************************)
(* Instances of Copy for TLC.                                              *)
(***************************************************************************)
EXTENDS Copy

AllModes == [overwrite : BOOLEAN, into : BOOLEAN, verify : BOOLEAN]
Unverified == {m \in AllModes : ~m.verify}
=============================================================================
