------------------------------- MODULE MCSync -------------------------------
(***************************************************************************)
(* Instances of Sync for TLC.                                              *)
(***************************************************************************)
EXTENDS Sync

A == <<"a">>   AX == <<"a", "x">>   AZ == <<"a", "z">>   AZX == <<"a", "z", "x">>
X == <<"x">>   Z == <<"z">>         ZX == <<"z", "x">>

DepthFirst == <<A, AX, AZ, AZX, X, Z, ZX>>

\* Files: New and Same differ by less than two seconds, Like looks like New, Other
\* differs from it in everything.
Dir == [dir |-> TRUE, size |-> 0, mtime |-> 2, attr |-> 0, data |-> "dir"]
New == [dir |-> FALSE, size |-> 1, mtime |-> 3, attr |-> 0, data |-> "v1"]
Same == [New EXCEPT !.mtime = 2]
Like == [New EXCEPT !.data = "v2"]
Other == [dir |-> FALSE, size |-> 2, mtime |-> 4, attr |-> 1, data |-> "v2"]

\* Every tree in which a path is absent or one of the given nodes.
TreesOf(may) ==
  {t \in UNION {[S -> UNION {may[p] : p \in S}] : S \in SUBSET DOMAIN may} :
     IsTree(t) /\ \A p \in DOMAIN t : t[p] \in may[p]}

Sources == TreesOf(A :> {Dir} @@ AX :> {New} @@ X :> {New, Other} @@ Z :> {Dir, New} @@ ZX :> {New})
Targets == TreesOf(A :> {Dir} @@ AZ :> {Dir} @@ AZX :> {Same, Like} @@ X :> {Same, Like} @@ Z :> {Dir})

Actions == {"add", "delete", "update", "move"}
CommandLines ==
  {{"compare"} \cup o : o \in {{}, {"NO_ATTR", "TIME_2SEC"}, {"NO_TIME"}, {"MOVE_NO_NAME"},
     {"NO_ATTR", "TIME_2SEC", "MOVE_NO_NAME", "MOVE_CHK_CONTENT"}}}
  \cup {Actions, Actions \cup {"force"}, {"add", "update"}, {"add", "delete", "TIME_2SEC"},
        {"add", "move"}, {"delete", "move", "NO_TIME"}}
=============================================================================
