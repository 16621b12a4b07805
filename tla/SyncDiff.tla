------------------------------ MODULE SyncDiff ------------------------------
(***************************************************************************)
(* The comparison of two directory trees: struct diff of fs/sync-cmp.h,    *)
(* which "sync" and "gsync" use.                                           *)
(*                                                                         *)
(* One walk goes over the paths of both trees.  A path that both have is   *)
(* EQ or NEQ; one that only one has is LEFT or RIGHT, and is looked up in  *)
(* a table of such entries: when it was seen on the other side under a     *)
(* different path, the earlier entry becomes MOVE with both paths, and the *)
(* later one is its double, which is marked SKIP.                          *)
(*                                                                         *)
(* A path is a sequence of names below the root.  What fntree_cmp_next()   *)
(* (outside src/) contributes is the order of the walk: it enters a        *)
(* directory after the directory itself, also when only one side has it.   *)
(* The walk matches names without regard to case; here no two names differ *)
(* in case only.  Filters by name and date, the sorting of the view and    *)
(* the search for duplicates are left out.                                 *)
(***************************************************************************)
EXTENDS Integers, Sequences, FiniteSets, SequencesExt

CONSTANT
  Walk  \* all paths, in the order of fntree_cmp_next()

DiffOptions ==
  {"NO_ATTR", "NO_TIME", "TIME_2SEC", "MOVE_NO_NAME", "MOVE_CHK_CONTENT"}
Statuses == {"LEFT", "RIGHT", "EQ", "NEQ", "MOVE"}
Details == {"NEWER", "OLDER", "LARGER", "SMALLER", "ATTR"}

\* An entry has a path on either side or on both; only those of MOVE differ.
NoPath == << >>
Paths == Seq(STRING) \ {NoPath}
Entry(status, flags, l, r) == [status |-> status, flags |-> flags, l |-> l, r |-> r]

Name(p) == Last(p)
Parents(p) == {d \in Prefixes(p) : d # NoPath /\ d # p}
Within(dir, p) == IsPrefix(dir, p)

\* Every path is walked over once, and a directory before what is in it.
ASSUME WalkAssumption ==
  /\ Walk \in Seq(Paths)
  /\ \A i, j \in DOMAIN Walk : Walk[i] = Walk[j] => i = j
  /\ \A i, j \in DOMAIN Walk : IsStrictPrefix(Walk[i], Walk[j]) => i < j

\* Of some paths, the one that the walk comes to first.
Rank == [p \in ToSet(Walk) |-> CHOOSE i \in DOMAIN Walk : Walk[i] = p]
First(S) == CHOOSE p \in S : \A q \in S : Rank[p] <= Rank[q]

\* A tree maps paths to nodes; of attributes and contents only matters whether they differ.
IsNode(n) == n.dir \in BOOLEAN /\ n.size \in Nat /\ n.mtime \in Int
NoTree == [p \in {} |-> 0]
IsTree(t) ==
  \A p \in DOMAIN t : \A d \in Parents(p) : d \in DOMAIN t /\ t[d].dir

VARIABLES
  left, right,   \* sd->left, sd->right: the trees as they were scanned
  options,       \* sd->options
  walk,          \* sd->fcmp: the set of paths that are still to be compared
  ents,          \* sd->ents
  moved,         \* sd->moved: indices of entries, in the order of their insertion
  stats,         \* sd->stats
  lname, rname   \* the names that the two buffers hold, also when their length is 0

diffVars == <<left, right, options, walk, ents, moved, stats, lname, rname>>

NoStats == [s \in Statuses \cup {"entries"} |-> 0]

\* init(): nothing is compared yet.
DiffBegin(l, r, opts) ==
  /\ left' = l /\ right' = r
  /\ options' = opts
  /\ walk' = DOMAIN l \cup DOMAIN r
  /\ ents' = << >> /\ moved' = << >>
  /\ stats' = NoStats
  /\ lname' = NoPath /\ rname' = NoPath

\* data_cmp(): how two files of the same name differ.
TimesDiffer(ld, rd) ==
  /\ "NO_TIME" \notin options
  /\ ld.mtime # rd.mtime
  /\ "TIME_2SEC" \in options => ld.mtime \div 2 # rd.mtime \div 2
Differences(ld, rd) ==
  {f \in Details :
     \/ f = "SMALLER" /\ ld.size < rd.size
     \/ f = "LARGER" /\ ld.size > rd.size
     \/ /\ f = "ATTR" /\ "NO_ATTR" \notin options
        /\ ld.attr # rd.attr \/ ld.dir # rd.dir
     \/ f = "OLDER" /\ TimesDiffer(ld, rd) /\ ld.mtime < rd.mtime
     \/ f = "NEWER" /\ TimesDiffer(ld, rd) /\ ld.mtime > rd.mtime}

-----------------------------------------------------------------------------
(* The table of moved files. *)

\* The file that an entry of the table stands for.
Node(e) == IF e.l # NoPath THEN left[e.l] ELSE right[e.r]
NameOf(e) == Name(IF e.l # NoPath THEN e.l ELSE e.r)

\* Mutant: the time is compared although it is not to be.
SameKey_TimeAlways(e, n, name) ==
  LET d == Node(e) IN
  /\ d.size = n.size /\ d.dir = n.dir
  /\ "MOVE_NO_NAME" \in options \/ NameOf(e) = name
  /\ d.mtime = n.mtime

\* moved_keyeq() but for the contents; ent_moved_hash() tells no more apart.
SameKey(e, n, name) ==
  LET d == Node(e) IN
  /\ d.size = n.size /\ d.dir = n.dir
  /\ "MOVE_NO_NAME" \in options \/ NameOf(e) = name
  /\ "NO_TIME" \in options \/ d.mtime = n.mtime

\* moved_check_data() writes an entry's two names into the buffers; an entry that has
\* only one leaves the other buffer as it is.  The name in a buffer after the candidates
\* up to place k of the table were looked at, when it held "old" before:
BufferAfter(cands, k, side, old) ==
  LET written == {j \in cands : j <= k /\ ents[moved[j]][side] # NoPath}
  IN IF written = {} THEN old
     ELSE ents[moved[CHOOSE j \in written : \A i \in written : i <= j]][side]

\* file_cmp() of the files that the buffers name.
SameContent(lp, rp) ==
  /\ lp \in DOMAIN left /\ rp \in DOMAIN right
  /\ ~left[lp].dir /\ ~right[rp].dir
  /\ left[lp].size = right[rp].size /\ left[lp].data = right[rp].data

\* ffmap_find_hash(): the place of the candidate that it returns, or 0.
Found(cands, check, l, r) ==
  LET hits == {k \in cands :
                 check => SameContent(BufferAfter(cands, k, "l", l), BufferAfter(cands, k, "r", r))}
  IN IF hits = {} THEN 0 ELSE CHOOSE k \in hits : \A j \in hits : k <= j

-----------------------------------------------------------------------------
(* next() *)

\* A path of both trees.
DiffBoth(p) ==
  LET flags == Differences(left[p], right[p])
      status == IF flags = {} THEN "EQ" ELSE "NEQ"
  IN /\ ents' = Append(ents, Entry(status, flags, p, p))
     /\ stats' = [stats EXCEPT ![status] = @ + 1, !["entries"] = @ + 1]
     /\ lname' = p /\ rname' = p
     /\ UNCHANGED moved

\* A file that the entry "it" of the other side turns out to be: that entry gets both
\* paths, and a double takes the place of this one.
Joined(mine, it) ==
  IF mine.l # NoPath THEN Entry("MOVE", {}, mine.l, it.r) ELSE Entry("MOVE", {}, it.l, mine.r)
Double(mine) == [mine EXCEPT !.status = "MOVE", !.flags = {"SKIP"}]

\* Mutant: the double is not marked.
Pair_Unmarked(mine, it) ==
  /\ ents' = Append([ents EXCEPT ![it] = Joined(mine, @)], [mine EXCEPT !.status = "MOVE"])
  /\ stats' = [stats EXCEPT !["MOVE"] = @ + 1, ![ents[it].status] = @ - 1]

\* Mutant: an entry is taken back that was not counted.
Pair_TakesBoth(mine, it) ==
  /\ ents' = Append([ents EXCEPT ![it] = Joined(mine, @)], Double(mine))
  /\ stats' = [stats EXCEPT !["MOVE"] = @ + 1, ![ents[it].status] = @ - 1, ![mine.status] = @ - 1]

Pair(mine, it) ==
  /\ ents' = Append([ents EXCEPT ![it] = Joined(mine, @)], Double(mine))
  /\ stats' = [stats EXCEPT !["MOVE"] = @ + 1, ![ents[it].status] = @ - 1]

Alone(mine) ==
  /\ ents' = Append(ents, mine)
  /\ stats' = [stats EXCEPT ![mine.status] = @ + 1, !["entries"] = @ + 1]

\* A path of one tree.  moved_find_add() leaves the first of similar files in the table.
DiffOne(p) ==
  LET mine == IF p \in DOMAIN left THEN Entry("LEFT", {}, p, NoPath) ELSE Entry("RIGHT", {}, NoPath, p)
      n == Node(mine)
      check == "MOVE_CHK_CONTENT" \in options /\ ~n.dir
      l == IF mine.l # NoPath THEN p ELSE lname
      r == IF mine.r # NoPath THEN p ELSE rname
      cands == {j \in DOMAIN moved : SameKey(ents[moved[j]], n, Name(p))}
      k == Found(cands, check, l, r)
      looked == IF ~check THEN 0 ELSE IF k = 0 THEN Len(moved) ELSE k
  IN /\ lname' = BufferAfter(cands, looked, "l", l)
     /\ rname' = BufferAfter(cands, looked, "r", r)
     /\ moved' = IF k = 0 THEN Append(moved, Len(ents) + 1) ELSE moved
     /\ IF k # 0 /\ ents[moved[k]].status \in {"LEFT", "RIGHT"} \ {mine.status}
        THEN Pair(mine, moved[k])
        ELSE Alone(mine)

DiffNext ==
  /\ walk # {}
  /\ LET p == First(walk) IN
     /\ walk' = walk \ {p}
     /\ IF p \in DOMAIN left \cap DOMAIN right THEN DiffBoth(p) ELSE DiffOne(p)
  /\ UNCHANGED <<left, right, options>>

-----------------------------------------------------------------------------
(* The view of the result, and the same with the sides exchanged. *)

Exchanged(a, b, x) == IF x = a THEN b ELSE IF x = b THEN a ELSE x

\* status_swap()
SwapStatus(s) == Exchanged("LEFT", "RIGHT", s)
\* Mutant: the times are not exchanged.
SwapFlag_SizesOnly(f) == Exchanged("LARGER", "SMALLER", f)
SwapFlag(f) == Exchanged("NEWER", "OLDER", Exchanged("LARGER", "SMALLER", f))

\* sync_info_id()
Info(e, swap) ==
  IF swap THEN Entry(SwapStatus(e.status), {SwapFlag(f) : f \in e.flags}, e.r, e.l) ELSE e

\* sync_view(): "want" are the flags the caller passes.
Shown(e, want, swap) ==
  LET s == Info(e, swap) IN
  /\ "SKIP" \notin e.flags
  /\ "DONE" \in e.flags => "DONE" \in want
  /\ s.status \in want
  /\ s.status = "NEQ" => want \cap {"NEWER", "OLDER"} # {} \/ s.flags \cap {"LARGER", "SMALLER", "ATTR"} # {}
  /\ \/ "DIR" \in want
     \/ /\ e.l # NoPath => ~left[e.l].dir
        /\ e.r # NoPath => ~right[e.r].dir
View(want, swap) == {i \in 1 .. Len(ents) : Shown(ents[i], want, swap)}

-----------------------------------------------------------------------------
(* Properties. *)

\* The result without the table: pairs of moved files are the first of either side that
\* look alike, in the order of the walk.
Key(n, p) ==
  <<n.size, n.dir,
    IF "MOVE_NO_NAME" \in options THEN "any" ELSE Name(p),
    IF "NO_TIME" \in options THEN 0 ELSE n.mtime>>
Pairs(l, r) ==
  LET Only(t, u, k) == {p \in DOMAIN t \ DOMAIN u : Key(t[p], p) = k}
      keys == {Key(l[p], p) : p \in DOMAIN l \ DOMAIN r} \cap {Key(r[p], p) : p \in DOMAIN r \ DOMAIN l}
  IN {<<First(Only(l, r, k)), First(Only(r, l, k))>> : k \in keys}
Difference(l, r) ==
  LET pairs == Pairs(l, r)
      Status(p) == IF Differences(l[p], r[p]) = {} THEN "EQ" ELSE "NEQ"
  IN {Entry(Status(p), Differences(l[p], r[p]), p, p) : p \in DOMAIN l \cap DOMAIN r}
     \cup {Entry("MOVE", {}, m[1], m[2]) : m \in pairs}
     \cup {Entry("LEFT", {}, p, NoPath) : p \in DOMAIN l \ (DOMAIN r \cup {m[1] : m \in pairs})}
     \cup {Entry("RIGHT", {}, NoPath, p) : p \in DOMAIN r \ (DOMAIN l \cup {m[2] : m \in pairs})}

Entries == {ents[i] : i \in {j \in 1 .. Len(ents) : "SKIP" \notin ents[j].flags}}

\* The comparison finds what the definition says, unless contents are compared too.
ByName == walk = {} /\ ents # << >> /\ "MOVE_CHK_CONTENT" \notin options
DiffIsExact == ByName => Entries = Difference(left, right)

\* At every moment every path that was compared has one entry on its side, and the
\* counters agree with the entries, also when a moved file takes back what was counted.
NothingTwice ==
  LET Compared(t) == DOMAIN t \ walk
      Live == {i \in 1 .. Len(ents) : "SKIP" \notin ents[i].flags}
      Holds(side, p) == Cardinality({i \in Live : ents[i][side] = p})
  IN ents # << >> =>
     /\ \A p \in Compared(left) : Holds("l", p) = 1
     /\ \A p \in Compared(right) : Holds("r", p) = 1
     /\ \A s \in Statuses : stats[s] = Cardinality({i \in Live : ents[i].status = s})
     /\ stats["entries"] = Cardinality(Live)

\* Looking at the result with the sides exchanged is the same as comparing the other way
\* round: "gsync" synchronises in the other direction without a new comparison.
SwapIsReversal ==
  ByName => \A s \in Statuses :
    {Info(ents[i], TRUE) : i \in View({s, "DIR", "NEWER"}, TRUE)}
      = {d \in Difference(right, left) : d.status = s}
=============================================================================
