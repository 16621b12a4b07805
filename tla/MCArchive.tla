------------------------------ MODULE MCArchive ------------------------------
(***************************************************************************)
(* Instances of Archive for TLC.                                           *)
(***************************************************************************)
EXTENDS Archive

Entry(kind, size, sub, last) == [kind |-> kind, size |-> size, sub |-> sub, last |-> last]
E(kind, size, e) == Entry(kind, size, <<>>, e)

\* A directory with a file and a subdirectory, from entry e on; every kind of entry
\* in each of three places.  Something comes after it, or before and after it.
Dir(a, b, c, e) ==
  <<Entry(a, 0, <<e + 1, e + 2>>, e + 3), E(b, 2, e + 1), Entry(c, 1, <<e + 3>>, e + 3), E("file", 1, e + 3)>>
Shapes == {"dir", "nameless", "excluded"} \X {"file", "link", "gone", "excluded"} \X {"file", "dir"}

Packs ==
  {[op |-> o, tree |-> Dir(k[1], k[2], k[3], 1) \o <<E(k[2], 1, 5)>>, tops |-> <<1, 5>>, overwrite |-> w] :
     o \in Ops, k \in Shapes, w \in BOOLEAN}
  \cup {[op |-> "each", tree |-> <<E(k[2], 1, 1)>> \o Dir(k[1], k[2], k[3], 2) \o <<E("file", 0, 6)>>,
         tops |-> <<1, 2, 6>>, overwrite |-> FALSE] : k \in Shapes}
  \cup {[op |-> o, tree |-> <<>>, tops |-> <<>>, overwrite |-> FALSE] : o \in Ops}

All == {"input", "open", "info", "readlink", "read", "create", "write", "flush", "short", "signal"}
=============================================================================
