-------------------------------- MODULE MCCom --------------------------------
(***************************************************************************)
(* Instances of Com for TLC.                                               *)
(***************************************************************************)
EXTENDS Com, TLC

CONSTANTS root, a, b, d, e

Shape(r, ka, kb, kd, ke, may) ==
  [kind |-> root :> r @@ a :> ka @@ b :> kb @@ d :> kd @@ e :> ke, may |-> may]

\* sync, which copies, which moves the old file to trash.
Nested(may) == Shape("copy", "copy", "leaf", "leaf", "unused", may)
\* unpack with an operation for every input, one of which has a child.
Unpack(may) == Shape("unpack", "leaf", "copy", "leaf", "unused", may)
\* unpack of two files "file.tar.gz".
Pair(may) == Shape("pair", "leaf", "leaf", "leaf", "leaf", may)

\* Two cases in which a closed operation is used are left out of Safe: a child of a
\* pipeline fails (PairRun violates CallerIsThere), and a child cannot be started whose
\* end runs its parent (UnpackStart violates NoUseAfterClose).  A pipeline's writer
\* does not, so that it may.
Safe == {Nested(FailureKinds), Unpack({"run", "signal"}), Pair({"writer"})}
UnpackStart == {Unpack({"start"})}
PairRun == {Pair({"run"})}
\* One signal, and nothing fails.
Signals == {Nested({"signal"})}
=============================================================================
