------------------------------ MODULE MCFileOps ------------------------------
(***************************************************************************)
(* The command lines of "md5", "move" and "trash" that TLC checks.         *)
(***************************************************************************)
EXTENDS FileOps

A == <<"a">>
B == <<"b">>
D == <<"d">>
E == <<"e">>
L == <<"l">>
Old == <<"old">>
File(path, size) == [path |-> path, kind |-> "file", size |-> size]
Dir(path) == [path |-> path, kind |-> "dir", size |-> 0]
Excluded(path) == [path |-> path, kind |-> "excluded", size |-> 1]
Broken(path) == [path |-> path, kind |-> "broken", size |-> 1]

\* d/a, d/e/b: two levels; l is next to it.
Tree == <<Dir(<<D>>), File(<<D, A>>, 2), Dir(<<D, E>>), File(<<D, E, B>>, 1), File(<<L>>, 1)>>
Twins == <<File(<<A>>, 1), Dir(<<D>>), File(<<D, A>>, 2)>>  \* the same name twice
Plain == [op |-> "md5", how |-> "move", search |-> FALSE, opt |-> {}, nodes |-> Tree,
          tops |-> <<<<D>>, <<L>>>>, known |-> <<>>, lists |-> <<>>, fails |-> {}]
All == {"scan", "open", "create", "write", "move", "wipe", "trash", "del", "signal"}

-----------------------------------------------------------------------------
\* Where a file goes, to another place or to where something is.
Move(how, nodes, tops) ==
  [Plain EXCEPT !.op = "move", !.how = how, !.nodes = nodes, !.tops = tops, !.fails = All \cup {"names"}]
InTree == {Move(how, Tree, tops) : how \in Hows, tops \in {<<<<D>>, <<L>>>>, <<<<D, A>>, <<D>>>>}}
Collide == {Move(how, Twins, <<<<A>>, <<D>>>>) : how \in {"unbranch", "flat"}}
             \cup {Move("move", Twins, <<<<A>>, <<D, A>>>>), Move("move", Twins, <<<<D>>, <<D, A>>>>)}
\* A directory, a file below it and a file that have the word; e/d has it after a move.
Word == <<File(<<D, <<"old", "x">>>>, 1), Dir(<<D>>), Dir(<<D, Old>>), Excluded(<<D, <<"old", "y">>>>),
          File(<<D, <<"new", "x">>>>, 1)>>
Search == {[Move(how, Word, <<<<D>>>>) EXCEPT !.search = TRUE] : how \in Hows}
            \cup {[Move("move", SubSeq(Word, 1, 4), <<<<D>>>>) EXCEPT !.search = TRUE],
                  [Move("move", Append(SubSeq(Word, 2, 3), File(<<D, Old, A>>, 1)), <<<<D>>>>) EXCEPT !.search = TRUE]}
WithOpt(set, opts) == {[c EXCEPT !.opt = o] : c \in set, o \in opts}
Moves == WithOpt(InTree \cup Collide \cup Search, {{}, {"skip"}, {"test"}})

-----------------------------------------------------------------------------
\* Files, a directory, a name given twice, a file below a given directory.
Trash(nodes, tops) == [Plain EXCEPT !.op = "trash", !.nodes = nodes, !.tops = tops, !.fails = All \cup {"names"}]
Trashes4 == {Trash(Twins, <<<<A>>, <<D, A>>>>), Trash(Twins, <<<<A>>, <<D>>>>), Trash(Twins, <<<<A>>, <<A>>>>),
             Trash(Twins, <<<<D>>, <<D, A>>>>),
             Trash(<<File(<<D, A>>, 1), File(<<D, B>>, 1), Dir(<<D>>)>>, <<<<D, A>>, <<D, B>>>>)}
Trashings == WithOpt(Trashes4, SUBSET {"force", "wipe", "rename"} \cup {{"test"}, {"force", "test", "wipe"}})

-----------------------------------------------------------------------------
Mixed == <<Dir(<<D>>), File(<<D, A>>, 2), Excluded(<<D, E>>), File(<<D, E, B>>, 1), File(<<L>>, 0), File(<<D, B>>, 1)>>
Hash(op, known) == [Plain EXCEPT !.op = op, !.nodes = Mixed, !.known = known, !.fails = All]
Known == (<<D, A>> :> <<9, 9>>) @@ (<<L>> :> <<>>)
Hashes == {Hash("md5", <<>>), Hash("update", <<>>), Hash("update", Known)}

\* Two lists; the second one has whatever may be in one.
Listed5 == <<Dir(<<D>>), File(<<D, A>>, 2), Broken(<<D, B>>), File(<<L>>, 1), File(<<E>>, 0)>>
Lines == {Bad, Short, <<<<D, A>>, <<2, 2>>>>, <<<<D, A>>, <<2, 1>>>>, <<<<E>>, <<>>>>,
          <<<<D, B>>, <<3, 1>>>>, <<<<D>>, <<>>>>, <<<<A>>, <<1, 1>>>>}
Check(lines, tops) ==
  [Plain EXCEPT !.op = "check", !.nodes = Listed5, !.tops = tops, !.fails = {"open", "signal"},
                !.lists = (<<L>> :> lines) @@ (<<E>> :> <<<<<<D, A>>, <<2, 2>>>>>>)]
Checks == {Check(<<x, y>>, <<<<L>>, <<E>>>>) : x, y \in Lines}
            \cup {[Check(<<>>, <<<<L>>, <<A>>>>) EXCEPT !.fails = @ \cup {"names"}]}

\* What is at the target cannot be opened.
LockedTarget == {[Move("flat", Twins, <<<<D>>>>) EXCEPT !.fails = {"probe"}]}

MCCommands == Moves \cup Trashings \cup Hashes \cup Checks \cup LockedTarget

\* Instances of their own: a file that cannot be read; trash --test.
Unreadable == {[Plain EXCEPT !.nodes = <<Broken(<<A>>)>>, !.tops = <<<<A>>>>]}
TrashTest == WithOpt({Trash(Twins, <<<<A>>>>)}, {{"test"}})
=============================================================================
