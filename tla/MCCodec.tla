------------------------------ MODULE MCCodec ------------------------------
(***************************************************************************)
(* Instances of Codec for TLC.                                             *)
(***************************************************************************)
EXTENDS Codec

Plain(n) == [k \in 1 .. n |-> "data"]
Member(n) == <<"head">> \o Plain(n) \o <<"end">>
Cut(n) == <<"head">> \o Plain(n)
Torn_(n) == <<"head">> \o Plain(n) \o <<"bad">>

Lines(op, lists) == [op : {op}, files : lists, overwrite : BOOLEAN]

\* The command lines that the loops handle as they should.
Sound ==
  Lines("gz", {<<Plain(a), Plain(b)>> : a, b \in 0 .. 2})
  \cup Lines("zst", {<<Plain(a)>> : a \in 0 .. 2})
  \cup Lines("ungz", {<<Member(2)>>, <<Member(0)>>, <<Cut(1)>>, <<Cut(0)>>, <<Torn_(1)>>, <<<<>>>>, <<Member(1) \o Member(1)>>, <<Member(1) \o <<"bad">> >>})
  \cup Lines("unxz", {<<Member(1)>>, <<Member(2)>>, <<Cut(1)>>, <<Torn_(1)>>, <<Torn_(1) \o <<"end">> >>, <<<<>>>>})
  \cup Lines("unzst", {<<a, b>> : a \in {Member(1), Member(0), Member(1) \o Member(1)}, b \in {Member(2), Torn_(1), Torn_(0)}})

\* Several files for operations that keep the state of the one before.
Several ==
  Lines("ungz", {<<Member(1), Member(1)>>}) \cup Lines("unxz", {<<Member(1), Member(1)>>})
  \cup Lines("zst", {<<Plain(1), Plain(2)>>})

\* A member that was cut, behind one that is whole.
CutMember == Lines("ungz", {<<Member(1) \o Cut(1)>>})

\* A frame that was cut.
CutFrame == Lines("unzst", {<<Cut(1)>>})

All == {"input", "open", "info", "read", "create", "write", "flush", "short", "signal"}
None == {}
=============================================================================
