------------------------------- MODULE MCGsync -------------------------------
(***************************************************************************)
(* Instances of Gsync for TLC.                                             *)
(***************************************************************************)
EXTENDS Gsync

Two == <<"LEFT", "MOVE">>
Three == <<"LEFT", "MOVE", "RIGHT">>
\* Files of one size, and one that is larger.
Alike == <<5, 5>>
OneLarger == <<5, 5, 7>>
TreeSizes == {<<1, 1>>, <<3, 0>>}
OneEach == {<<1, 1>>}
\* '*' in neither path, in both, or in the left one.
SameKind == {<<FALSE, FALSE>>, <<TRUE, TRUE>>, <<TRUE, FALSE>>}
AnyKind == BOOLEAN \X BOOLEAN
NoStar == {<<FALSE, FALSE>>}
=============================================================================
