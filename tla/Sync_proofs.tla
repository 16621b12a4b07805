---------------------------- MODULE Sync_proofs ----------------------------
(***************************************************************************)
(* For every pair of trees, command line and set of failures: the list is  *)
(* exactly the difference of what the scans saw, each path in it once;     *)
(* seen from the other side it is the list of the trees exchanged; a sync  *)
(* that ends with 0 has done what its options asked for; and moving,       *)
(* adding and deleting leave alone what both sides have.                   *)
(*                                                                         *)
(* The comparison is one pass over both trees in the order of the walk.    *)
(* Its invariant (DiffInv) is about the paths that are behind the pass:    *)
(* ListInv says what entries they have, and Exact what the table of moved  *)
(* files holds, that is one entry per look with the first path of each     *)
(* side.  Exact needs that contents are not compared: otherwise the table  *)
(* has several entries of one look, and how files pair up depends on what  *)
(* could be read.                                                          *)
(*                                                                         *)
(* The execution changes the target entry by entry, so that each entry     *)
(* meets what the ones before have left.  Its invariant (HandledPart) says *)
(* that these are done for good.  The proof needs that a move or a         *)
(* deletion only touches paths that one side alone has, and whatever is    *)
(* below them.                                                             *)
(***************************************************************************)
EXTENDS Sync, FiniteSetTheorems, SequenceTheorems, WellFoundedInduction, TLAPS

-----------------------------------------------------------------------------
(* The order of the walk *)

\* The order of the natural numbers, as a relation.
LessThan == {ss \in Nat \X Nat : ss[1] < ss[2]}

\* A set of natural numbers has a least one.
LEMMA LeastNumber ==
  ASSUME NEW S \in SUBSET Nat, S # {}
  PROVE  \E m \in S : \A n \in S : m <= n
<1>1. IsWellFoundedOn(LessThan, Nat)
  BY NatLessThanWellFounded DEF OpToRel, LessThan
<1>2. PICK m \in S : \A n \in S : ~(<<n, m>> \in LessThan)
  BY <1>1, WFMin
<1>3. ASSUME NEW n \in S PROVE m <= n
  <2>1. m \in Nat /\ n \in Nat /\ ~(<<n, m>> \in LessThan)
    BY <1>2
  <2>2. <<n, m>> \in Nat \X Nat => ~(n < m)
    BY <2>1 DEF LessThan
  <2>3. QED
    BY <2>1, <2>2
<1>4. QED
  BY <1>3

\* The rank of a path is its place in the walk.
LEMMA RankIs ==
  ASSUME NEW p \in ToSet(Walk)
  PROVE  Rank[p] \in DOMAIN Walk /\ Walk[Rank[p]] = p /\ Rank[p] \in Nat
<1>1. \E i \in DOMAIN Walk : Walk[i] = p
  BY DEF ToSet
<1>2. Rank[p] = CHOOSE i \in DOMAIN Walk : Walk[i] = p
  BY DEF Rank
<1>3. Rank[p] \in DOMAIN Walk /\ Walk[Rank[p]] = p
  BY <1>1, <1>2
<1>4. QED
  BY <1>3, WalkAssumption

\* The first of some paths, and that there is no other that is first.
LEMMA FirstIs ==
  ASSUME NEW S \in SUBSET ToSet(Walk), S # {}
  PROVE  /\ First(S) \in S
         /\ \A q \in S : Rank[First(S)] <= Rank[q]
         /\ \A p \in S : (\A q \in S : Rank[p] <= Rank[q]) => p = First(S)
<1> DEFINE R == {Rank[p] : p \in S}
<1>1. R \in SUBSET Nat /\ R # {}
  BY RankIs
<1>2. PICK m \in R : \A n \in R : m <= n
  BY <1>1, LeastNumber
<1>3. PICK p \in S : m = Rank[p]
  BY <1>2
<1>4. \A q \in S : Rank[p] <= Rank[q]
  BY <1>2, <1>3
<1>5. First(S) \in S /\ \A q \in S : Rank[First(S)] <= Rank[q]
  BY <1>4 DEF First
<1>6. ASSUME NEW x \in S, \A q \in S : Rank[x] <= Rank[q]
      PROVE  x = First(S)
  <2>1. Rank[x] <= Rank[First(S)] /\ Rank[First(S)] <= Rank[x]
    BY <1>5, <1>6
  <2>2. Rank[x] = Rank[First(S)]
    BY <2>1, <1>5, RankIs
  <2>3. QED
    BY <2>2, <1>5, RankIs
<1>7. QED
  BY <1>5, <1>6

-----------------------------------------------------------------------------
(* The comparison *)

\* The two sides, and what belongs to each.
Sides == {"l", "r"}
Beyond(s) == IF s = "l" THEN "r" ELSE "l"
StatusOf(s) == IF s = "l" THEN "LEFT" ELSE "RIGHT"
TreeOf(s) == IF s = "l" THEN left ELSE right

\* What the scans may give.
GoodTree(t) == IsTree(t) /\ DOMAIN t \subseteq ToSet(Walk) /\ \A p \in DOMAIN t : IsNode(t[p])

\* What an entry is made of.
Ents ==
  [status : Statuses, flags : SUBSET (Details \cup {"SKIP"}), l : Paths \cup {NoPath}, r : Paths \cup {NoPath}]

\* The paths of a side that were compared, and those of them that only this side has.
Seen(s) == DOMAIN TreeOf(s) \ walk
Single(s) == Seen(s) \ DOMAIN TreeOf(Beyond(s))

DiffTypes ==
  /\ GoodTree(left) /\ GoodTree(right)
  /\ walk \subseteq DOMAIN left \cup DOMAIN right
  /\ \A p \in (DOMAIN left \cup DOMAIN right) \ walk, q \in walk : Rank[p] < Rank[q]
  /\ options \subseteq DiffOptions
  /\ ents \in Seq(Ents)
  /\ moved \in Seq(Nat)

\* The shapes of an entry: a path of both sides; a path of one; a moved file; its double.
IsBoth(e) ==
  /\ e.l = e.r /\ e.l \in Seen("l") \cap Seen("r")
  /\ e.flags = Differences(left[e.l], right[e.l])
  /\ e.status = (IF e.flags = {} THEN "EQ" ELSE "NEQ")
IsSingle(s, e) ==
  e.status = StatusOf(s) /\ e.flags = {} /\ e[s] \in Single(s) /\ e[Beyond(s)] = NoPath
IsPair(e) ==
  /\ e.status = "MOVE" /\ e.flags = {} /\ e.l \in Single("l") /\ e.r \in Single("r")
  /\ Key(left[e.l], e.l) = Key(right[e.r], e.r)
IsDouble(e) ==
  e.status = "MOVE" /\ e.flags = {"SKIP"} /\ \E s \in Sides : e[s] \in Single(s) /\ e[Beyond(s)] = NoPath
Shapes ==
  \A i \in DOMAIN ents :
    IsBoth(ents[i]) \/ IsPair(ents[i]) \/ IsDouble(ents[i]) \/ \E s \in Sides : IsSingle(s, ents[i])

\* Every path that was compared has one entry that is not a double.
Live(e) == "SKIP" \notin e.flags
Unique ==
  \A s \in Sides : \A i, j \in DOMAIN ents :
    Live(ents[i]) /\ Live(ents[j]) /\ ents[i][s] = ents[j][s] /\ ents[i][s] # NoPath => i = j
Cover ==
  \A s \in Sides : \A p \in Seen(s) : \E i \in DOMAIN ents : Live(ents[i]) /\ ents[i][s] = p

\* The table has entries of one side and of moved files, none twice.
Table ==
  /\ \A k \in DOMAIN moved :
       moved[k] \in DOMAIN ents /\ Live(ents[moved[k]]) /\ ents[moved[k]].status \in {"LEFT", "RIGHT", "MOVE"}
  /\ \A k, n \in DOMAIN moved : moved[k] = moved[n] => k = n

\* The counters do not count doubles.
LiveOf(status) == {i \in DOMAIN ents : Live(ents[i]) /\ ents[i].status = status}
AllLive == {i \in DOMAIN ents : Live(ents[i])}
Counts ==
  /\ stats \in [Statuses \cup {"entries"} -> Int]
  /\ \A s \in Statuses : stats[s] = Cardinality(LiveOf(s))
  /\ stats["entries"] = Cardinality(AllLive)

ListInv == DiffTypes /\ Shapes /\ Unique /\ Cover /\ Table /\ Counts

\* The step of one path, without the details of the table.
Advance(p) ==
  /\ p \in walk /\ \A q \in walk : Rank[p] <= Rank[q]
  /\ walk' = walk \ {p}
  /\ UNCHANGED <<left, right, options>>
MineOf(s, p) == IF s = "l" THEN Entry("LEFT", {}, p, NoPath) ELSE Entry("RIGHT", {}, NoPath, p)

\* What an entry, or a file, looks like.
KeyOf(e) == IF e.l # NoPath THEN Key(left[e.l], e.l) ELSE Key(right[e.r], e.r)
KeyAt(s, p) == Key(TreeOf(s)[p], p)

\* moved_find_add() and what next() makes of its result.
NotFound(s, p) ==
  /\ moved' = Append(moved, Len(ents) + 1) /\ Alone(MineOf(s, p))
  /\ "MOVE_CHK_CONTENT" \notin options =>
       \A k \in DOMAIN moved : KeyOf(ents[moved[k]]) # KeyAt(s, p)
FoundSame(s, p) ==
  /\ moved' = moved
  /\ \E k \in DOMAIN moved :
       /\ KeyOf(ents[moved[k]]) = KeyAt(s, p)
       /\ IF ents[moved[k]].status = StatusOf(Beyond(s))
          THEN Pair(MineOf(s, p), moved[k]) ELSE Alone(MineOf(s, p))

\* An entry is found in the table if its file looks like the one at p.
LEMMA SameKeyIsKey ==
  ASSUME NEW e, NEW s \in Sides, NEW p
  PROVE  SameKey(e, TreeOf(s)[p], Name(p)) <=> KeyOf(e) = KeyAt(s, p)
BY DEF SameKey, KeyOf, KeyAt, Key, Node, NameOf

\* The step for a path of one side: the table has it, or it does not.
LEMMA SplitOne ==
  ASSUME DiffTypes, Table, NEW p \in walk, ~(p \in DOMAIN left \cap DOMAIN right), DiffOne(p)
  PROVE  \E s \in Sides :
           /\ p \in DOMAIN TreeOf(s) \ DOMAIN TreeOf(Beyond(s))
           /\ NotFound(s, p) \/ FoundSame(s, p)
<1> DEFINE s == IF p \in DOMAIN left THEN "l" ELSE "r"
           mine == IF p \in DOMAIN left THEN Entry("LEFT", {}, p, NoPath) ELSE Entry("RIGHT", {}, NoPath, p)
           n == Node(mine)
           check == "MOVE_CHK_CONTENT" \in options /\ ~n.dir
           l == IF mine.l # NoPath THEN p ELSE lname
           r == IF mine.r # NoPath THEN p ELSE rname
           cands == {j \in DOMAIN moved : SameKey(ents[moved[j]], n, Name(p))}
           k == Found(cands, check, l, r)
<1>1. s \in Sides /\ p \in DOMAIN TreeOf(s) \ DOMAIN TreeOf(Beyond(s)) /\ mine = MineOf(s, p)
  BY DEF DiffTypes, Sides, TreeOf, Beyond, MineOf
<1>2. p # NoPath
  BY WalkAssumption DEF DiffTypes, GoodTree, ToSet, Paths
<1>3. n = TreeOf(s)[p]
  BY <1>2 DEF Node, Entry, TreeOf
<1>4. cands = {j \in DOMAIN moved : KeyOf(ents[moved[j]]) = KeyAt(s, p)}
  BY <1>1, <1>3, SameKeyIsKey
<1>5. cands \in SUBSET Nat
  BY DEF DiffTypes
<1>6. /\ moved' = IF k = 0 THEN Append(moved, Len(ents) + 1) ELSE moved
      /\ IF k # 0 /\ ents[moved[k]].status \in {"LEFT", "RIGHT"} \ {mine.status}
         THEN Pair(mine, moved[k])
         ELSE Alone(mine)
  BY DEF DiffOne
<1>7. mine.status = StatusOf(s) /\ {"LEFT", "RIGHT"} \ {mine.status} = {StatusOf(Beyond(s))}
  BY DEF Entry, StatusOf, Beyond
<1> HIDE DEF s, mine, n, check, l, r
<1> DEFINE hits == {j \in cands :
                      check => SameContent(BufferAfter(cands, j, "l", l), BufferAfter(cands, j, "r", r))}
<1>8. k = IF hits = {} THEN 0 ELSE CHOOSE j \in hits : \A i \in hits : j <= i
  BY DEF Found
<1>9. hits \in SUBSET Nat /\ hits \subseteq cands /\ (~check => hits = cands)
  BY <1>5
<1> HIDE DEF hits, k
<1>10. CASE hits = {}
  <2>1. k = 0
    BY <1>8, <1>10
  <2>2. moved' = Append(moved, Len(ents) + 1) /\ Alone(MineOf(s, p))
    BY <1>1, <1>6, <2>1
  <2>3. "MOVE_CHK_CONTENT" \notin options => cands = {}
    BY <1>9, <1>10 DEF check
  <2>4. NotFound(s, p)
    BY <1>4, <2>2, <2>3 DEF NotFound
  <2>5. QED
    BY <1>1, <2>4
<1>11. CASE hits # {}
  <2>1. k \in hits
    <3>1. \E j \in hits : \A i \in hits : j <= i
      BY <1>9, <1>11, LeastNumber
    <3>2. QED
      BY <1>8, <1>11, <3>1
  <2>2. k \in DOMAIN moved /\ KeyOf(ents[moved[k]]) = KeyAt(s, p)
    BY <1>4, <1>9, <2>1
  <2>3. k # 0
    BY <2>2 DEF DiffTypes
  <2>4. moved' = moved
    BY <1>6, <2>3
  <2>5. IF ents[moved[k]].status = StatusOf(Beyond(s))
        THEN Pair(MineOf(s, p), moved[k]) ELSE Alone(MineOf(s, p))
    BY <1>1, <1>6, <1>7, <2>3
  <2>6. FoundSame(s, p)
    BY <2>2, <2>4, <2>5 DEF FoundSame
  <2>7. QED
    BY <1>1, <2>6
<1>12. QED
  BY <1>10, <1>11

\* What the comparison of one more path leaves as it was.
LEMMA AdvanceFacts ==
  ASSUME DiffTypes, NEW p, Advance(p)
  PROVE  /\ GoodTree(left)' /\ GoodTree(right)' /\ (walk \subseteq DOMAIN left \cup DOMAIN right)'
         /\ (\A a \in (DOMAIN left \cup DOMAIN right) \ walk, q \in walk : Rank[a] < Rank[q])'
         /\ (options \subseteq DiffOptions)'
         /\ \A s : TreeOf(s)' = TreeOf(s)
         /\ \A s \in Sides : Seen(s)' = IF p \in DOMAIN TreeOf(s) THEN Seen(s) \cup {p} ELSE Seen(s)
         /\ \A s \in Sides : p \notin Seen(s)
         /\ p \in ToSet(Walk) /\ p \in Paths /\ p # NoPath
<1>1. p \in walk /\ (\A q \in walk : Rank[p] <= Rank[q]) /\ walk' = walk \ {p} /\ UNCHANGED <<left, right, options>>
  BY DEF Advance
<1>2. p \in ToSet(Walk) /\ p \in Paths /\ p # NoPath
  <2>1. p \in ToSet(Walk)
    BY <1>1 DEF DiffTypes, GoodTree
  <2>2. PICK i \in DOMAIN Walk : p = Walk[i]
    BY <2>1 DEF ToSet
  <2>3. p \in Paths
    BY <2>2, WalkAssumption
  <2>4. QED
    BY <2>1, <2>3 DEF Paths
<1>3. GoodTree(left)' /\ GoodTree(right)' /\ (options \subseteq DiffOptions)' /\ \A s : TreeOf(s)' = TreeOf(s)
  BY <1>1 DEF DiffTypes, GoodTree, IsTree, TreeOf
<1>4. ASSUME NEW a \in (DOMAIN left \cup DOMAIN right) \ walk', NEW q \in walk' PROVE Rank[a] < Rank[q]
  <2>1. CASE a \in walk
    <3>1. a = p /\ q \in walk /\ q # p
      BY <1>1, <1>4, <2>1
    <3>2. q \in ToSet(Walk)
      BY <3>1 DEF DiffTypes, GoodTree
    <3>3. Rank[p] <= Rank[q] /\ Rank[p] # Rank[q] /\ Rank[p] \in Nat /\ Rank[q] \in Nat
      BY <1>1, <1>2, <3>1, <3>2, RankIs
    <3>4. QED
      BY <3>1, <3>3
  <2>2. CASE a \notin walk
    BY <1>1, <1>4, <2>2 DEF DiffTypes
  <2>3. QED
    BY <2>1, <2>2
<1>5. \A s \in Sides : Seen(s)' = IF p \in DOMAIN TreeOf(s) THEN Seen(s) \cup {p} ELSE Seen(s)
  BY <1>1, <1>3 DEF Seen
<1>6. \A s \in Sides : p \notin Seen(s)
  BY <1>1 DEF Seen
<1>7. (walk \subseteq DOMAIN left \cup DOMAIN right)'
  BY <1>1 DEF DiffTypes
<1>8. QED
  BY <1>1, <1>2, <1>3, <1>4, <1>5, <1>6, <1>7

\* The operators of the comparison depend on the options only.
LEMMA SameOperators ==
  ASSUME UNCHANGED <<left, right, options>>
  PROVE  /\ \A a, b : Differences(a, b)' = Differences(a, b)
         /\ \A a, b : Key(a, b)' = Key(a, b)
         /\ \A e : KeyOf(e)' = KeyOf(e)
         /\ \A s, q : KeyAt(s, q)' = KeyAt(s, q)
<1>1. \A a, b : TimesDiffer(a, b)' = TimesDiffer(a, b)
  BY DEF TimesDiffer
<1>2. \A a, b : Differences(a, b)' = Differences(a, b)
  BY <1>1 DEF Differences
<1>3. \A a, b : Key(a, b)' = Key(a, b)
  BY DEF Key
<1>4. QED
  BY <1>2, <1>3 DEF KeyOf, KeyAt, TreeOf

\* An entry keeps its shape when another path is compared.
LEMMA SameShapes ==
  ASSUME DiffTypes, NEW p, Advance(p), NEW e
  PROVE  /\ IsBoth(e) => IsBoth(e)'
         /\ IsPair(e) => IsPair(e)'
         /\ IsDouble(e) => IsDouble(e)'
         /\ \A s \in Sides : IsSingle(s, e) => IsSingle(s, e)'
<1>1. UNCHANGED <<left, right, options>>
  BY DEF Advance
<1>2. \A s \in Sides : Seen(s) \subseteq Seen(s)' /\ Single(s) \subseteq Single(s)'
  BY AdvanceFacts DEF Single
<1>3. "l" \in Sides /\ "r" \in Sides
  BY DEF Sides
<1>4. IsBoth(e) => IsBoth(e)'
  BY <1>1, <1>2, <1>3, SameOperators DEF IsBoth
<1>5. IsPair(e) => IsPair(e)'
  BY <1>1, <1>2, <1>3, SameOperators DEF IsPair
<1>6. IsDouble(e) => IsDouble(e)'
  BY <1>2 DEF IsDouble
<1>7. \A s \in Sides : IsSingle(s, e) => IsSingle(s, e)'
  BY <1>2 DEF IsSingle
<1>8. QED
  BY <1>4, <1>5, <1>6, <1>7

\* A new entry at the end of the list, for a path that had none.
LEMMA AppendKeeps ==
  ASSUME ListInv, NEW p, Advance(p), NEW e \in Ents, ents' = Append(ents, e), Live(e),
         moved' = moved \/ (moved' = Append(moved, Len(ents) + 1) /\ e.status \in {"LEFT", "RIGHT"}),
         stats' = [stats EXCEPT ![e.status] = @ + 1, !["entries"] = @ + 1],
         (IsBoth(e) \/ \E s \in Sides : IsSingle(s, e))',
         \A s \in Sides : e[s] = IF p \in DOMAIN TreeOf(s) THEN p ELSE NoPath
  PROVE  ListInv'
<1> DEFINE n == Len(ents) + 1
<1>1. /\ ents \in Seq(Ents) /\ moved \in Seq(Nat) /\ n \in Nat
      /\ DOMAIN ents = 1 .. Len(ents) /\ n \notin DOMAIN ents /\ DOMAIN ents' = DOMAIN ents \cup {n}
      /\ (\A i \in DOMAIN ents : ents'[i] = ents[i]) /\ ents'[n] = e
      /\ ents' \in Seq(Ents)
  BY DEF ListInv, DiffTypes
<1>2. moved' \in Seq(Nat)
  <2>1. CASE moved' = moved
    BY <1>1, <2>1
  <2>2. CASE moved' = Append(moved, n)
    BY <1>1, <2>2
  <2>3. QED
    BY <2>1, <2>2
<1> HIDE DEF n
<1>3. DiffTypes'
  BY <1>1, <1>2, AdvanceFacts DEF DiffTypes, ListInv
<1>4. Shapes'
  <2>1. ASSUME NEW i \in DOMAIN ents'
        PROVE  (IsBoth(ents[i]) \/ IsPair(ents[i]) \/ IsDouble(ents[i]) \/ \E s \in Sides : IsSingle(s, ents[i]))'
    <3>1. CASE i = n
      BY <1>1, <3>1
    <3>2. CASE i \in DOMAIN ents
      BY <1>1, <3>2, SameShapes DEF ListInv, Shapes
    <3>3. QED
      BY <1>1, <3>1, <3>2
  <2>2. QED
    BY <2>1 DEF Shapes
<1>5. \A s \in Sides, i \in DOMAIN ents : Live(ents[i]) /\ ents[i][s] # NoPath => ents[i][s] \in Seen(s)
  <2>1. ASSUME NEW s \in Sides, NEW i \in DOMAIN ents, Live(ents[i]), ents[i][s] # NoPath
        PROVE  ents[i][s] \in Seen(s)
    <3>1. ~IsDouble(ents[i])
      BY <2>1 DEF IsDouble, Live
    <3>2. QED
      BY <2>1, <3>1 DEF ListInv, Shapes, IsBoth, IsPair, IsSingle, Single, Sides, Beyond
  <2>2. QED
    BY <2>1
<1>6. Unique'
  <2>1. ASSUME NEW s \in Sides, NEW i \in DOMAIN ents', NEW j \in DOMAIN ents',
               Live(ents'[i]), Live(ents'[j]), ents'[i][s] = ents'[j][s], ents'[i][s] # NoPath
        PROVE  i = j
    <3>1. \A x \in DOMAIN ents : Live(ents[x]) => ents[x][s] # p
      BY <1>5, AdvanceFacts DEF ListInv
    <3>2. CASE i \in DOMAIN ents /\ j \in DOMAIN ents
      BY <1>1, <2>1, <3>2 DEF ListInv, Unique
    <3>3. CASE (i = n /\ j \in DOMAIN ents) \/ (j = n /\ i \in DOMAIN ents)
      BY <1>1, <2>1, <3>1, <3>3
    <3>4. QED
      BY <1>1, <3>2, <3>3
  <2>2. QED
    BY <2>1 DEF Unique, Live
<1>7. Cover'
  <2>1. ASSUME NEW s \in Sides, NEW q \in Seen(s)'
        PROVE  \E i \in DOMAIN ents' : Live(ents'[i]) /\ ents'[i][s] = q
    <3>1. CASE q \in Seen(s)
      BY <1>1, <3>1 DEF ListInv, Cover
    <3>2. CASE q = p /\ p \in DOMAIN TreeOf(s)
      BY <1>1, <3>2
    <3>3. QED
      BY <2>1, <3>1, <3>2, AdvanceFacts DEF ListInv
  <2>2. QED
    BY <2>1 DEF Cover, Live
<1>8. Table'
  <2>1. CASE moved' = moved
    BY <1>1, <2>1 DEF ListInv, Table, Live
  <2>2. CASE moved' = Append(moved, n) /\ e.status \in {"LEFT", "RIGHT"}
    <3> DEFINE m == Len(moved) + 1
    <3>1. /\ DOMAIN moved' = DOMAIN moved \cup {m} /\ m \notin DOMAIN moved
          /\ moved'[m] = n /\ \A k \in DOMAIN moved : moved'[k] = moved[k]
      BY <1>1, <2>2
    <3> HIDE DEF m
    <3>2. \A k \in DOMAIN moved : moved[k] \in DOMAIN ents
      BY DEF ListInv, Table
    <3>3. ASSUME NEW k \in DOMAIN moved'
          PROVE  /\ moved'[k] \in DOMAIN ents' /\ Live(ents'[moved'[k]])
                 /\ ents'[moved'[k]].status \in {"LEFT", "RIGHT", "MOVE"}
      <4>1. CASE k = m
        BY <1>1, <2>2, <3>1, <4>1
      <4>2. CASE k \in DOMAIN moved
        BY <1>1, <3>1, <4>2 DEF ListInv, Table
      <4>3. QED
        BY <3>1, <4>1, <4>2
    <3>4. ASSUME NEW k \in DOMAIN moved', NEW x \in DOMAIN moved', moved'[k] = moved'[x] PROVE k = x
      BY <1>1, <3>1, <3>2, <3>4 DEF ListInv, Table
    <3>5. QED
      BY <3>3, <3>4 DEF Table, Live
  <2>3. QED
    BY <2>1, <2>2 DEF n
<1>9. Counts'
  <2>1. IsFiniteSet(DOMAIN ents)
    BY <1>1, FS_Interval
  <2>2. \A S \in SUBSET DOMAIN ents : IsFiniteSet(S) /\ Cardinality(S) \in Nat
    BY <2>1, FS_Subset, FS_CardinalityType
  <2>3. e.status \in Statuses /\ e.status # "entries" /\ "entries" \notin Statuses
    BY DEF Ents, Statuses
  <2>4. AllLive' = AllLive \cup {n}
    BY <1>1 DEF AllLive, Live
  <2>5. \A x \in Statuses : LiveOf(x)' = IF x = e.status THEN LiveOf(x) \cup {n} ELSE LiveOf(x)
    BY <1>1 DEF LiveOf, Live
  <2>6. AllLive \in SUBSET DOMAIN ents /\ \A x \in Statuses : LiveOf(x) \in SUBSET DOMAIN ents
    BY DEF AllLive, LiveOf
  <2>7. Cardinality(AllLive') = Cardinality(AllLive) + 1
    BY <1>1, <2>2, <2>4, <2>6, FS_AddElement
  <2>8. Cardinality(LiveOf(e.status) \cup {n}) = Cardinality(LiveOf(e.status)) + 1
    BY <1>1, <2>2, <2>3, <2>6, FS_AddElement
  <2>9. /\ stats' \in [Statuses \cup {"entries"} -> Int] /\ stats'["entries"] = stats["entries"] + 1
        /\ \A x \in Statuses : stats'[x] = IF x = e.status THEN stats[x] + 1 ELSE stats[x]
    BY <2>3 DEF ListInv, Counts
  <2>10. ASSUME NEW x \in Statuses PROVE stats'[x] = Cardinality(LiveOf(x)')
    BY <2>5, <2>8, <2>9 DEF ListInv, Counts
  <2>11. QED
    BY <2>7, <2>9, <2>10 DEF ListInv, Counts
<1>10. QED
  BY <1>3, <1>4, <1>6, <1>7, <1>8, <1>9 DEF ListInv

\* A path of both sides keeps the list in order.
LEMMA BothStep ==
  ASSUME ListInv, NEW p, Advance(p), p \in DOMAIN left \cap DOMAIN right, DiffBoth(p)
  PROVE  ListInv'
<1> DEFINE flags == Differences(left[p], right[p])
           status == IF flags = {} THEN "EQ" ELSE "NEQ"
<1>0. PICK e : e = Entry(status, flags, p, p)
  OBVIOUS
<1>1. /\ ents' = Append(ents, e) /\ moved' = moved
      /\ stats' = [stats EXCEPT ![e.status] = @ + 1, !["entries"] = @ + 1]
  BY <1>0 DEF DiffBoth, Entry
<1>2. flags \subseteq Details /\ status \in {"EQ", "NEQ"}
  BY DEF Differences
<1>3. UNCHANGED <<left, right, options>>
  BY DEF Advance
<1>4. p \in Seen("l")' /\ p \in Seen("r")' /\ p \in Paths
  BY AdvanceFacts DEF ListInv, Sides, TreeOf
<1>5. e \in Ents /\ Live(e)
  BY <1>0, <1>2, <1>4 DEF Entry, Ents, Live, Statuses, Details
<1>6. IsBoth(e)'
  <2>1. e.l = p /\ e.r = p /\ e.status = status /\ e.flags = Differences(left[p], right[p])
    BY <1>0 DEF Entry
  <2>2. Differences(left[p], right[p])' = Differences(left[p], right[p])
    BY <1>3, SameOperators
  <2>4. QED
    BY <1>4, <2>1, <2>2 DEF IsBoth
<1>7. \A s \in Sides : e[s] = p /\ p \in DOMAIN TreeOf(s)
  BY <1>0 DEF Sides, Entry, TreeOf
<1>8. QED
  BY <1>1, <1>5, <1>6, <1>7, AppendKeeps

\* The entry of a path that only side s has.
LEMMA MineIs ==
  ASSUME ListInv, NEW p, Advance(p), NEW s \in Sides, p \in DOMAIN TreeOf(s) \ DOMAIN TreeOf(Beyond(s))
  PROVE  /\ MineOf(s, p) \in Ents /\ Live(MineOf(s, p)) /\ IsSingle(s, MineOf(s, p))'
         /\ MineOf(s, p).status = StatusOf(s) /\ StatusOf(s) \in {"LEFT", "RIGHT"}
         /\ \A x \in Sides : MineOf(s, p)[x] = IF p \in DOMAIN TreeOf(x) THEN p ELSE NoPath
         /\ p \in Single(s)' /\ Beyond(s) \in Sides /\ Beyond(s) # s /\ Beyond(Beyond(s)) = s
         /\ \A x \in Sides : x = s \/ x = Beyond(s)
<1>1. p \in Paths /\ p \in Seen(s)' /\ \A x : TreeOf(x)' = TreeOf(x)
  BY AdvanceFacts DEF ListInv
<1>2. Beyond(s) \in Sides /\ Beyond(s) # s /\ Beyond(Beyond(s)) = s /\ \A x \in Sides : x = s \/ x = Beyond(s)
  BY DEF Sides, Beyond
<1>3. p \in Single(s)'
  BY <1>1 DEF Single
<1>4. MineOf(s, p) \in Ents /\ Live(MineOf(s, p))
  BY <1>1 DEF MineOf, Entry, Ents, Live, Statuses
<1>5. /\ MineOf(s, p).status = StatusOf(s) /\ MineOf(s, p).flags = {}
      /\ MineOf(s, p)[s] = p /\ MineOf(s, p)[Beyond(s)] = NoPath
  BY DEF MineOf, Entry, StatusOf, Sides, Beyond
<1>6. \A x \in Sides : MineOf(s, p)[x] = IF p \in DOMAIN TreeOf(x) THEN p ELSE NoPath
  BY <1>2, <1>5
<1>7. IsSingle(s, MineOf(s, p))'
  BY <1>3, <1>5 DEF IsSingle
<1>8. QED
  BY <1>2, <1>3, <1>4, <1>5, <1>6, <1>7 DEF StatusOf

\* So does a path of one side that is not paired,
LEMMA AloneStep ==
  ASSUME ListInv, NEW p, Advance(p), NEW s \in Sides, p \in DOMAIN TreeOf(s) \ DOMAIN TreeOf(Beyond(s)),
         Alone(MineOf(s, p)), moved' = moved \/ moved' = Append(moved, Len(ents) + 1)
  PROVE  ListInv'
<1> DEFINE e == MineOf(s, p)
<1>1. ents' = Append(ents, e) /\ stats' = [stats EXCEPT ![e.status] = @ + 1, !["entries"] = @ + 1]
  BY DEF Alone
<1>2. /\ e \in Ents /\ Live(e) /\ IsSingle(s, e)' /\ e.status \in {"LEFT", "RIGHT"}
      /\ \A x \in Sides : e[x] = IF p \in DOMAIN TreeOf(x) THEN p ELSE NoPath
  BY MineIs
<1> HIDE DEF e
<1>3. QED
  BY <1>1, <1>2, AppendKeeps

\* The earlier entry of a moved file gets both paths, the later one is its double.
LEMMA PairStep ==
  ASSUME ListInv, NEW p, Advance(p), NEW s \in Sides, p \in DOMAIN TreeOf(s) \ DOMAIN TreeOf(Beyond(s)),
         NEW k \in DOMAIN moved, KeyOf(ents[moved[k]]) = KeyAt(s, p), moved' = moved,
         ents[moved[k]].status = StatusOf(Beyond(s)), Pair(MineOf(s, p), moved[k])
  PROVE  /\ ListInv'
         /\ DOMAIN ents' = DOMAIN ents \cup {Len(ents) + 1} /\ Len(ents) + 1 \notin DOMAIN ents
         /\ \A i \in DOMAIN ents : i # moved[k] => ents'[i] = ents[i]
         /\ IsPair(ents[moved[k]])' /\ ents'[moved[k]][s] = p
         /\ ents'[moved[k]][Beyond(s)] = ents[moved[k]][Beyond(s)]
         /\ KeyOf(ents[moved[k]])' = KeyAt(s, p)
         /\ ~Live(ents'[Len(ents) + 1])
<1> DEFINE mine == MineOf(s, p)
           double == Double(mine)
           t == Beyond(s)
<1>0. PICK it, n, joined : it = moved[k] /\ n = Len(ents) + 1 /\ joined = Joined(mine, ents[it])
  OBVIOUS
<1>1. /\ ents \in Seq(Ents) /\ n \in Nat /\ it \in DOMAIN ents /\ ents[it] \in Ents
      /\ DOMAIN ents = 1 .. Len(ents) /\ n \notin DOMAIN ents
  BY <1>0 DEF ListInv, DiffTypes, Table
<1>2. /\ ents' = Append([ents EXCEPT ![it] = joined], double)
      /\ stats' = [stats EXCEPT !["MOVE"] = @ + 1, ![ents[it].status] = @ - 1]
  BY <1>0 DEF Pair
<1>3. /\ mine \in Ents /\ mine.status = StatusOf(s)
      /\ mine[s] = p /\ mine[t] = NoPath /\ p # NoPath /\ p \in Paths
      /\ p \in Single(s)' /\ t \in Sides /\ t # s /\ Beyond(t) = s /\ \A x \in Sides : x = s \/ x = t
  BY MineIs, AdvanceFacts DEF ListInv
<1>4. IsSingle(t, ents[it])
  BY <1>0, <1>1, <1>3 DEF ListInv, Shapes, IsBoth, IsPair, IsDouble, IsSingle, StatusOf, Sides, Beyond
<1>5. /\ ents[it][t] \in Single(t) /\ ents[it][s] = NoPath /\ ents[it].flags = {} /\ ents[it].status = StatusOf(t)
      /\ ents[it][t] # NoPath /\ ents[it][t] \in Paths
  <2>1. ents[it][t] \in Single(t) /\ ents[it][s] = NoPath /\ ents[it].flags = {} /\ ents[it].status = StatusOf(t)
    BY <1>3, <1>4 DEF IsSingle
  <2>2. ents[it][t] \in ToSet(Walk)
    BY <1>3, <2>1 DEF Single, Seen, ListInv, DiffTypes, GoodTree, TreeOf
  <2>3. ents[it][t] \in Paths
    <3>1. PICK i \in DOMAIN Walk : ents[it][t] = Walk[i]
      BY <2>2 DEF ToSet
    <3>2. QED
      BY <3>1, WalkAssumption
  <2>4. QED
    BY <2>1, <2>3 DEF Paths
<1>6. /\ joined.status = "MOVE" /\ joined.flags = {} /\ joined[s] = p /\ joined[t] = ents[it][t]
      /\ joined \in Ents
  <2>1. /\ s = "l" => joined = Entry("MOVE", {}, p, ents[it].r)
        /\ s = "r" => joined = Entry("MOVE", {}, ents[it].l, p)
    BY <1>0, <1>3 DEF Joined, MineOf, Entry, Sides
  <2>2. ents[it].l \in Paths \cup {NoPath} /\ ents[it].r \in Paths \cup {NoPath}
    BY <1>1 DEF Ents
  <2>3. QED
    BY <1>3, <2>1, <2>2 DEF Entry, Ents, Statuses, Sides, Beyond
<1>7. /\ double.status = "MOVE" /\ double.flags = {"SKIP"} /\ double[s] = p /\ double[t] = NoPath
      /\ double \in Ents
  <2>1. \/ mine = [status |-> "LEFT", flags |-> {}, l |-> p, r |-> NoPath]
        \/ mine = [status |-> "RIGHT", flags |-> {}, l |-> NoPath, r |-> p]
    BY DEF MineOf, Entry
  <2>2. \/ double = [status |-> "MOVE", flags |-> {"SKIP"}, l |-> p, r |-> NoPath]
        \/ double = [status |-> "MOVE", flags |-> {"SKIP"}, l |-> NoPath, r |-> p]
    <3>1. ASSUME NEW m, NEW a, NEW b, NEW c, m = [status |-> a, flags |-> {}, l |-> b, r |-> c]
          PROVE  Double(m) = [status |-> "MOVE", flags |-> {"SKIP"}, l |-> b, r |-> c]
      <4>1. Double(m) = [x \in DOMAIN m |-> IF x = "flags" THEN {"SKIP"} ELSE IF x = "status" THEN "MOVE" ELSE m[x]]
        BY <3>1 DEF Double
      <4>2. QED
        BY <3>1, <4>1
    <3>2. QED
      BY <2>1, <3>1
  <2>3. double \in Ents
    BY <1>3, <2>2 DEF Ents, Statuses
  <2>4. double[s] = mine[s] /\ double[t] = mine[t]
    BY <2>1, <1>3 DEF Double, Sides, Beyond
  <2>5. QED
    BY <1>3, <2>2, <2>3, <2>4
<1> HIDE DEF double, mine
<1>8. /\ DOMAIN ents' = DOMAIN ents \cup {n} /\ ents'[it] = joined /\ ents'[n] = double
      /\ (\A i \in DOMAIN ents : i # it => ents'[i] = ents[i]) /\ ents' \in Seq(Ents)
  BY <1>0, <1>1, <1>2, <1>6, <1>7
<1>9. UNCHANGED <<left, right, options, moved>>
  BY DEF Advance
<1>10. p \notin Seen(s) /\ \A x \in Sides : Seen(x) \subseteq Seen(x)' /\ Single(x) \subseteq Single(x)'
  BY AdvanceFacts DEF ListInv, Single
<1>11. KeyOf(ents[it]) = KeyAt(s, p) /\ KeyOf(ents[it]) = KeyAt(t, ents[it][t])
  BY <1>0, <1>3, <1>5 DEF KeyOf, KeyAt, TreeOf, Sides
<1>12. IsPair(joined)' /\ KeyOf(joined)' = KeyAt(s, p)
  <2>1. KeyAt(s, joined[s]) = KeyAt(t, joined[t])
    BY <1>6, <1>11
  <2>2. joined[s] \in Single(s)' /\ joined[t] \in Single(t)'
    BY <1>3, <1>5, <1>6, <1>10
  <2>3. joined.l # NoPath
    BY <1>3, <1>5, <1>6 DEF Sides
  <2>4. KeyAt("l", joined.l) = KeyAt("r", joined.r)
    BY <1>3, <2>1 DEF Sides
  <2>5. Key(left[joined.l], joined.l) = Key(right[joined.r], joined.r)
    BY <2>4 DEF KeyAt, TreeOf
  <2>6. joined.l \in Single("l")' /\ joined.r \in Single("r")'
    BY <1>3, <2>2 DEF Sides
  <2>7. IsPair(joined)'
    BY <1>6, <1>9, <2>5, <2>6, SameOperators DEF IsPair
  <2>8. KeyOf(joined) = KeyAt(s, p)
    BY <1>3, <1>6, <2>1, <2>3 DEF KeyOf, KeyAt, TreeOf, Sides
  <2>9. QED
    BY <1>9, <2>7, <2>8, SameOperators
<1>13. IsDouble(double)'
  BY <1>3, <1>7, <1>8 DEF IsDouble
<1>14. DiffTypes'
  BY <1>8, <1>9, AdvanceFacts DEF DiffTypes, ListInv
<1>15. Shapes'
  <2>1. ASSUME NEW i \in DOMAIN ents'
        PROVE  (IsBoth(ents[i]) \/ IsPair(ents[i]) \/ IsDouble(ents[i]) \/ \E x \in Sides : IsSingle(x, ents[i]))'
    <3>1. CASE i = n
      BY <1>8, <1>13, <3>1
    <3>2. CASE i = it
      BY <1>8, <1>12, <3>2
    <3>3. CASE i \in DOMAIN ents /\ i # it
      BY <1>8, <3>3, SameShapes DEF ListInv, Shapes
    <3>4. QED
      BY <1>8, <3>1, <3>2, <3>3
  <2>2. QED
    BY <2>1 DEF Shapes
<1>16. Live(joined) /\ ~Live(double) /\ Live(ents[it])
  BY <1>5, <1>6, <1>7 DEF Live
<1>17. \A i \in DOMAIN ents : Live(ents[i]) /\ ents[i][s] # NoPath => ents[i][s] \in Seen(s)
  <2>1. ASSUME NEW i \in DOMAIN ents, Live(ents[i]), ents[i][s] # NoPath
        PROVE  ents[i][s] \in Seen(s)
    <3>1. ~IsDouble(ents[i])
      BY <2>1 DEF IsDouble, Live
    <3>2. QED
      BY <2>1, <3>1 DEF ListInv, Shapes, IsBoth, IsPair, IsSingle, Single, Sides, Beyond
  <2>2. QED
    BY <2>1
<1>18. Unique'
  <2>1. ASSUME NEW x \in Sides, NEW i \in DOMAIN ents', NEW j \in DOMAIN ents',
               Live(ents'[i]), Live(ents'[j]), ents'[i][x] = ents'[j][x], ents'[i][x] # NoPath
        PROVE  i = j
    <3>1. i \in DOMAIN ents /\ j \in DOMAIN ents
      BY <1>8, <1>16, <2>1
    <3>2. CASE i # it /\ j # it
      BY <1>8, <2>1, <3>1, <3>2 DEF ListInv, Unique
    <3>3. CASE x = t
      <4>1. ents'[i][t] = ents[i][t] /\ ents'[j][t] = ents[j][t] /\ Live(ents[i]) /\ Live(ents[j])
        BY <1>6, <1>8, <1>16, <2>1, <3>1
      <4>2. QED
        BY <1>3, <2>1, <3>1, <3>3, <4>1 DEF ListInv, Unique
    <3>4. CASE x = s /\ (i = it \/ j = it)
      BY <1>6, <1>8, <1>10, <1>17, <2>1, <3>1, <3>4
    <3>5. QED
      BY <1>3, <3>2, <3>3, <3>4
  <2>2. QED
    BY <2>1 DEF Unique, Live
<1>19. Cover'
  <2>1. ASSUME NEW x \in Sides, NEW q \in Seen(x)'
        PROVE  \E i \in DOMAIN ents' : Live(ents'[i]) /\ ents'[i][x] = q
    <3>1. CASE q \in Seen(x)
      <4>1. PICK i \in DOMAIN ents : Live(ents[i]) /\ ents[i][x] = q
        BY <3>1 DEF ListInv, Cover
      <4>2. CASE i # it
        BY <1>8, <4>1, <4>2
      <4>3. CASE i = it
        <5>1. q # NoPath
          <6>1. q \in ToSet(Walk)
            BY <3>1 DEF Seen, ListInv, DiffTypes, GoodTree, TreeOf
          <6>2. PICK w \in DOMAIN Walk : q = Walk[w]
            BY <6>1 DEF ToSet
          <6>3. QED
            BY <6>2, WalkAssumption DEF Paths
        <5>2. x = t
          BY <1>3, <1>5, <4>1, <4>3, <5>1
        <5>3. QED
          BY <1>6, <1>8, <1>16, <4>1, <4>3, <5>2
      <4>4. QED
        BY <4>2, <4>3
    <3>2. CASE q = p /\ p \in DOMAIN TreeOf(x)
      <4>1. x = s
        BY <1>3, <3>2
      <4>2. QED
        BY <1>1, <1>6, <1>8, <1>16, <3>2, <4>1
    <3>3. QED
      BY <2>1, <3>1, <3>2, AdvanceFacts DEF ListInv
  <2>2. QED
    BY <2>1 DEF Cover, Live
<1>20. Table'
  <2>1. ASSUME NEW m \in DOMAIN moved
        PROVE  moved[m] \in DOMAIN ents' /\ Live(ents'[moved[m]]) /\ ents'[moved[m]].status \in {"LEFT", "RIGHT", "MOVE"}
    <3>1. moved[m] \in DOMAIN ents /\ Live(ents[moved[m]]) /\ ents[moved[m]].status \in {"LEFT", "RIGHT", "MOVE"}
      BY DEF ListInv, Table
    <3>2. QED
      BY <1>6, <1>8, <1>16, <3>1
  <2>2. QED
    BY <1>9, <2>1 DEF Table, ListInv, Live
<1>21. Counts'
  <2>1. IsFiniteSet(DOMAIN ents)
    BY <1>1, FS_Interval
  <2>2. \A S \in SUBSET DOMAIN ents : IsFiniteSet(S) /\ Cardinality(S) \in Nat
    BY <2>1, FS_Subset, FS_CardinalityType
  <2>3. StatusOf(t) \in Statuses /\ StatusOf(t) # "MOVE" /\ "MOVE" \in Statuses /\ "entries" \notin Statuses
    BY DEF Statuses, StatusOf
  <2>4. AllLive' = AllLive
    BY <1>8, <1>16, <1>1 DEF AllLive, Live
  <2>5. \A x \in Statuses :
          LiveOf(x)' = IF x = "MOVE" THEN LiveOf(x) \cup {it} ELSE IF x = StatusOf(t) THEN LiveOf(x) \ {it} ELSE LiveOf(x)
    <3>1. ASSUME NEW x \in Statuses, NEW i
          PROVE  i \in LiveOf(x)' <=>
                   i \in (IF x = "MOVE" THEN LiveOf(x) \cup {it} ELSE IF x = StatusOf(t) THEN LiveOf(x) \ {it} ELSE LiveOf(x))
      <4>1. CASE i = it
        BY <1>1, <1>5, <1>6, <1>8, <1>16, <2>3, <4>1 DEF LiveOf, Live
      <4>2. CASE i = n
        BY <1>1, <1>8, <1>16, <4>2 DEF LiveOf, Live
      <4>3. CASE i # it /\ i # n
        BY <1>8, <4>3 DEF LiveOf, Live
      <4>4. QED
        BY <4>1, <4>2, <4>3
    <3>2. QED
      BY <3>1
  <2>6. it \in LiveOf(StatusOf(t)) /\ it \notin LiveOf("MOVE")
    BY <1>1, <1>5, <1>16, <2>3 DEF LiveOf
  <2>7. \A x \in Statuses : LiveOf(x) \in SUBSET DOMAIN ents
    BY DEF LiveOf
  <2>8. Cardinality(LiveOf("MOVE") \cup {it}) = Cardinality(LiveOf("MOVE")) + 1
    BY <2>2, <2>3, <2>6, <2>7, FS_AddElement
  <2>9. Cardinality(LiveOf(StatusOf(t)) \ {it}) = Cardinality(LiveOf(StatusOf(t))) - 1
    BY <2>2, <2>3, <2>6, <2>7, FS_RemoveElement
  <2>10. /\ stats' \in [Statuses \cup {"entries"} -> Int] /\ stats'["entries"] = stats["entries"]
         /\ \A x \in Statuses :
              stats'[x] = IF x = "MOVE" THEN stats[x] + 1 ELSE IF x = StatusOf(t) THEN stats[x] - 1 ELSE stats[x]
    BY <1>2, <1>5, <2>3 DEF ListInv, Counts
  <2>11. ASSUME NEW x \in Statuses PROVE stats'[x] = Cardinality(LiveOf(x)')
    BY <2>5, <2>8, <2>9, <2>10 DEF ListInv, Counts
  <2>12. QED
    BY <2>4, <2>10, <2>11 DEF ListInv, Counts
<1>22. QED
  BY <1>0, <1>1, <1>6, <1>8, <1>12, <1>14, <1>15, <1>16, <1>18, <1>19, <1>20, <1>21 DEF ListInv

-----------------------------------------------------------------------------
(* The table of moved files, if contents are not compared *)

\* The paths of a side that look alike, and the first of them.
Group(s, k) == {p \in Single(s) : KeyAt(s, p) = k}
Foremost(s, p) == \A q \in Group(s, KeyAt(s, p)) : Rank[p] <= Rank[q]

\* For every look that was seen the table has one entry, which has on each side the first
\* path of that look, or none if the side has no such path.
LookListed ==
  \A s \in Sides : \A p \in Single(s) : \E k \in DOMAIN moved : KeyOf(ents[moved[k]]) = KeyAt(s, p)
LookOnce ==
  \A k, n \in DOMAIN moved : KeyOf(ents[moved[k]]) = KeyOf(ents[moved[n]]) => k = n
FirstsListed ==
  \A k \in DOMAIN moved : \A s \in Sides :
    IF ents[moved[k]][s] = NoPath THEN Group(s, KeyOf(ents[moved[k]])) = {}
    ELSE Foremost(s, ents[moved[k]][s])
PairsListed ==
  \A i \in DOMAIN ents : IsPair(ents[i]) => \E k \in DOMAIN moved : moved[k] = i
Exact == LookListed /\ LookOnce /\ FirstsListed /\ PairsListed

\* The look of an entry that has a path on one side only.
LEMMA KeyOfSingle ==
  ASSUME NEW s \in Sides, NEW e, e[Beyond(s)] = NoPath, e[s] # NoPath
  PROVE  KeyOf(e) = KeyAt(s, e[s])
BY DEF KeyOf, KeyAt, TreeOf, Sides, Beyond

\* The look of an entry is that of its path on either side.
LEMMA KeyOfLive ==
  ASSUME ListInv, NEW k \in DOMAIN moved, NEW s \in Sides, ents[moved[k]][s] # NoPath
  PROVE  KeyOf(ents[moved[k]]) = KeyAt(s, ents[moved[k]][s]) /\ ents[moved[k]][s] \in Single(s)
<1> DEFINE e == ents[moved[k]]
<1>1. moved[k] \in DOMAIN ents /\ Live(e) /\ e.status \in {"LEFT", "RIGHT", "MOVE"}
  BY DEF ListInv, Table
<1>2. IsPair(e) \/ \E x \in Sides : IsSingle(x, e)
  BY <1>1 DEF ListInv, Shapes, IsBoth, IsDouble, Live
<1> HIDE DEF e
<1>3. CASE IsPair(e)
  <2>1. KeyAt("l", e.l) = KeyAt("r", e.r) /\ e.l \in Single("l") /\ e.r \in Single("r")
    BY <1>3 DEF IsPair, KeyAt, TreeOf
  <2>2. e.l # NoPath
    <3>1. e.l \in ToSet(Walk)
      BY <2>1 DEF Single, Seen, TreeOf, ListInv, DiffTypes, GoodTree
    <3>2. PICK w \in DOMAIN Walk : e.l = Walk[w]
      BY <3>1 DEF ToSet
    <3>3. QED
      BY <3>2, WalkAssumption DEF Paths
  <2>3. QED
    BY <2>1, <2>2 DEF KeyOf, KeyAt, TreeOf, Sides, e
<1>4. ASSUME NEW x \in Sides, IsSingle(x, e) PROVE KeyOf(e) = KeyAt(s, e[s]) /\ e[s] \in Single(s)
  <2>1. s = x /\ e[s] \in Single(s) /\ e[Beyond(s)] = NoPath /\ e[s] # NoPath
    BY <1>4 DEF IsSingle, Sides, Beyond, e
  <2>2. QED
    BY <2>1, KeyOfSingle
<1>5. QED
  BY <1>2, <1>3, <1>4 DEF e

\* What becomes of the groups when one more path of side s was compared.
LEMMA GroupsGrow ==
  ASSUME ListInv, NEW p, Advance(p), NEW s \in Sides, p \in DOMAIN TreeOf(s) \ DOMAIN TreeOf(Beyond(s))
  PROVE  /\ Single(s)' = Single(s) \cup {p} /\ Single(Beyond(s))' = Single(Beyond(s)) /\ p \notin Single(s)
         /\ \A k : Group(s, k)' = IF k = KeyAt(s, p) THEN Group(s, k) \cup {p} ELSE Group(s, k)
         /\ \A k : Group(Beyond(s), k)' = Group(Beyond(s), k)
         /\ \A q \in Single(s) : Rank[q] <= Rank[p]
         /\ Beyond(s) \in Sides /\ Beyond(s) # s /\ \A x \in Sides : x = s \/ x = Beyond(s)
<1>1. Beyond(s) \in Sides /\ Beyond(s) # s /\ Beyond(Beyond(s)) = s /\ \A x \in Sides : x = s \/ x = Beyond(s)
  BY DEF Sides, Beyond
<1>2. Single(s)' = Single(s) \cup {p} /\ Single(Beyond(s))' = Single(Beyond(s)) /\ p \notin Single(s)
  BY <1>1, AdvanceFacts DEF ListInv, Single
<1>3. \A x, q : KeyAt(x, q)' = KeyAt(x, q)
  BY SameOperators DEF Advance
<1>4. \A k : Group(s, k)' = IF k = KeyAt(s, p) THEN Group(s, k) \cup {p} ELSE Group(s, k)
  BY <1>2, <1>3 DEF Group
<1>5. \A k : Group(Beyond(s), k)' = Group(Beyond(s), k)
  BY <1>2, <1>3 DEF Group
<1>6. ASSUME NEW q \in Single(s) PROVE Rank[q] <= Rank[p]
  <2>1. q \in (DOMAIN left \cup DOMAIN right) \ walk /\ p \in walk
    BY DEF Single, Seen, TreeOf, Advance
  <2>2. Rank[q] < Rank[p] /\ q \in ToSet(Walk) /\ p \in ToSet(Walk)
    BY <2>1 DEF ListInv, DiffTypes, GoodTree
  <2>3. QED
    BY <2>2, RankIs
<1>7. QED
  BY <1>1, <1>2, <1>4, <1>5, <1>6

\* A path of both sides does not touch the table.
LEMMA ExactBoth ==
  ASSUME ListInv, Exact, NEW p, Advance(p), p \in DOMAIN left \cap DOMAIN right, DiffBoth(p)
  PROVE  Exact'
<1>1. ents \in Seq(Ents) /\ moved \in Seq(Nat) /\ moved' = moved /\ UNCHANGED <<left, right, options>>
  BY DEF ListInv, DiffTypes, DiffBoth, Advance
<1>2. PICK n, e : n = Len(ents) + 1 /\ ents' = Append(ents, e) /\ e.status # "MOVE"
  BY DEF DiffBoth, Entry
<1>3. /\ DOMAIN ents' = DOMAIN ents \cup {n} /\ n \notin DOMAIN ents /\ ents'[n] = e
      /\ \A i \in DOMAIN ents : ents'[i] = ents[i]
  BY <1>1, <1>2
<1>4. \A s \in Sides : Single(s)' = Single(s)
  BY AdvanceFacts DEF ListInv, Single, Sides, Beyond, TreeOf
<1>5. /\ \A x, q : KeyAt(x, q)' = KeyAt(x, q)
      /\ \A x : KeyOf(x)' = KeyOf(x) 
      /\ \A a, b : Key(a, b)' = Key(a, b)
  BY <1>1, SameOperators
<1>6. \A s \in Sides : \A k : Group(s, k)' = Group(s, k)
  BY <1>4, <1>5 DEF Group
<1>7. \A k \in DOMAIN moved : moved[k] \in DOMAIN ents /\ ents'[moved[k]] = ents[moved[k]]
  BY <1>3 DEF ListInv, Table
<1>8. \A k \in DOMAIN moved : KeyOf(ents[moved[k]])' = KeyOf(ents[moved[k]])
  BY <1>1, <1>5, <1>7 DEF KeyOf
<1>9. \A s \in Sides : \A q : Foremost(s, q)' <=> Foremost(s, q)
  BY <1>5, <1>6 DEF Foremost
<1>10. \A i \in DOMAIN ents' : IsPair(ents[i])' => i \in DOMAIN ents /\ IsPair(ents[i])
  BY <1>1, <1>2, <1>3, <1>4, <1>5 DEF IsPair, Sides
<1>11. LookListed'
  <2>1. ASSUME NEW s \in Sides, NEW q \in Single(s)'
        PROVE  \E k \in DOMAIN moved' : KeyOf(ents[moved[k]])' = KeyAt(s, q)'
    <3>1. PICK k \in DOMAIN moved : KeyOf(ents[moved[k]]) = KeyAt(s, q)
      BY <1>4, <2>1 DEF Exact, LookListed
    <3>2. QED
      BY <1>1, <1>5, <1>8, <3>1
  <2>2. QED
    BY <2>1 DEF LookListed
<1>12. LookOnce'
  <2>1. ASSUME NEW k \in DOMAIN moved, NEW m \in DOMAIN moved, KeyOf(ents[moved[k]])' = KeyOf(ents[moved[m]])'
        PROVE  k = m
    BY <1>8, <2>1 DEF Exact, LookOnce
  <2>2. QED
    BY <1>1, <2>1 DEF LookOnce
<1>13. FirstsListed'
  <2>1. ASSUME NEW k \in DOMAIN moved, NEW s \in Sides
        PROVE  (IF ents[moved[k]][s] = NoPath THEN Group(s, KeyOf(ents[moved[k]])) = {}
                ELSE Foremost(s, ents[moved[k]][s]))'
    <3>0. PICK c, f : c = KeyOf(ents[moved[k]]) /\ f = ents[moved[k]]
      OBVIOUS
    <3>1. ents'[moved'[k]] = f /\ KeyOf(ents[moved[k]])' = c
      BY <1>1, <1>7, <1>8, <3>0
    <3>2. IF f[s] = NoPath THEN Group(s, c) = {} ELSE Foremost(s, f[s])
      BY <3>0 DEF Exact, FirstsListed
    <3>3. IF f[s] = NoPath THEN Group(s, c)' = {} ELSE Foremost(s, f[s])'
      BY <1>6, <1>9, <3>2
    <3>4. QED
      BY <3>1, <3>3
  <2>2. QED
    BY <1>1, <2>1 DEF FirstsListed
<1>14. PairsListed'
  BY <1>1, <1>10 DEF Exact, PairsListed
<1>15. QED
  BY <1>11, <1>12, <1>13, <1>14 DEF Exact

\* The entry that is the pair of a moved file is so by its status and flags.
LEMMA PairByStatus ==
  ASSUME ListInv, NEW i \in DOMAIN ents, ents[i].status = "MOVE", ents[i].flags = {}
  PROVE  IsPair(ents[i])
BY DEF ListInv, Shapes, IsBoth, IsDouble, IsSingle, StatusOf

\* A path whose look the table does not have is added to it.
LEMMA ExactNotFound ==
  ASSUME ListInv, Exact, "MOVE_CHK_CONTENT" \notin options, NEW p, Advance(p),
         NEW s \in Sides, p \in DOMAIN TreeOf(s) \ DOMAIN TreeOf(Beyond(s)), NotFound(s, p)
  PROVE  Exact'
<1>1. /\ ents \in Seq(Ents) /\ moved \in Seq(Nat) /\ UNCHANGED <<left, right, options>>
      /\ p \in ToSet(Walk) /\ p # NoPath
  BY AdvanceFacts DEF ListInv, DiffTypes, Advance
<1>2. PICK n, e, m, K : /\ n = Len(ents) + 1 /\ e = MineOf(s, p) /\ m = Len(moved) + 1 /\ K = KeyAt(s, p)
  OBVIOUS
<1>3. /\ ents' = Append(ents, e) /\ moved' = Append(moved, n)
      /\ \A k \in DOMAIN moved : KeyOf(ents[moved[k]]) # K
  BY <1>2 DEF NotFound, Alone
<1>4. /\ DOMAIN ents' = DOMAIN ents \cup {n} /\ n \notin DOMAIN ents /\ ents'[n] = e
      /\ \A i \in DOMAIN ents : ents'[i] = ents[i]
  BY <1>1, <1>2, <1>3
<1>5. /\ DOMAIN moved' = DOMAIN moved \cup {m} /\ m \notin DOMAIN moved /\ moved'[m] = n
      /\ \A k \in DOMAIN moved : moved'[k] = moved[k]
  BY <1>1, <1>2, <1>3
<1>6. /\ \A x, q : KeyAt(x, q)' = KeyAt(x, q)
      /\ \A x : KeyOf(x)' = KeyOf(x)
  BY <1>1, SameOperators
<1>7. /\ e.status \in {"LEFT", "RIGHT"} /\ e[s] = p /\ e[Beyond(s)] = NoPath /\ KeyOf(e) = K
  <2>1. e.status \in {"LEFT", "RIGHT"} /\ e[s] = p /\ e[Beyond(s)] = NoPath
    BY <1>2, MineIs
  <2>2. QED
    BY <1>1, <1>2, <2>1, KeyOfSingle
<1>8. \A k \in DOMAIN moved :
         /\ moved[k] \in DOMAIN ents /\ ents'[moved'[k]] = ents[moved[k]]
         /\ KeyOf(ents[moved[k]])' = KeyOf(ents[moved[k]])
  BY <1>4, <1>5, <1>6 DEF ListInv, Table, KeyOf
<1>9. ents'[moved'[m]] = e /\ KeyOf(ents[moved[m]])' = K
  BY <1>1, <1>4, <1>5, <1>7 DEF KeyOf, Key
<1>10. \A x \in Sides : Group(x, K) = {}
  <2>1. ASSUME NEW x \in Sides, NEW q \in Group(x, K) PROVE FALSE
    <3>1. q \in Single(x) /\ KeyAt(x, q) = K
      BY <2>1 DEF Group
    <3>2. PICK k \in DOMAIN moved : KeyOf(ents[moved[k]]) = K
      BY <3>1 DEF Exact, LookListed
    <3>3. QED
      BY <1>3, <3>2
  <2>2. QED
    BY <2>1
<1>11. /\ Single(s)' = Single(s) \cup {p} /\ Single(Beyond(s))' = Single(Beyond(s))
       /\ \A k : Group(s, k)' = IF k = K THEN Group(s, k) \cup {p} ELSE Group(s, k)
       /\ \A k : Group(Beyond(s), k)' = Group(Beyond(s), k)
       /\ Beyond(s) \in Sides /\ Beyond(s) # s /\ \A x \in Sides : x = s \/ x = Beyond(s)
  BY <1>2, GroupsGrow
<1>12. LookListed'
  <2>1. ASSUME NEW x \in Sides, NEW q \in Single(x)'
        PROVE  \E k \in DOMAIN moved' : KeyOf(ents[moved[k]])' = KeyAt(x, q)'
    <3>1. CASE q \in Single(x)
      <4>1. PICK k \in DOMAIN moved : KeyOf(ents[moved[k]]) = KeyAt(x, q)
        BY <3>1 DEF Exact, LookListed
      <4>2. QED
        BY <1>5, <1>6, <1>8, <4>1
    <3>2. CASE x = s /\ q = p
      BY <1>2, <1>5, <1>6, <1>9, <3>2
    <3>3. QED
      BY <1>11, <2>1, <3>1, <3>2
  <2>2. QED
    BY <2>1 DEF LookListed
<1>13. LookOnce'
  <2>1. ASSUME NEW k \in DOMAIN moved', NEW j \in DOMAIN moved', KeyOf(ents[moved[k]])' = KeyOf(ents[moved[j]])'
        PROVE  k = j
    <3>1. CASE k \in DOMAIN moved /\ j \in DOMAIN moved
      BY <1>8, <2>1, <3>1 DEF Exact, LookOnce
    <3>2. CASE (k \in DOMAIN moved /\ j = m) \/ (j \in DOMAIN moved /\ k = m)
      BY <1>3, <1>8, <1>9, <2>1, <3>2
    <3>3. QED
      BY <1>5, <3>1, <3>2
  <2>2. QED
    BY <2>1 DEF LookOnce
<1>14. FirstsListed'
  <2>1. ASSUME NEW k \in DOMAIN moved, NEW x \in Sides
        PROVE  (IF ents[moved[k]][x] = NoPath THEN Group(x, KeyOf(ents[moved[k]])) = {}
                ELSE Foremost(x, ents[moved[k]][x]))'
    <3>0. PICK c, f : c = KeyOf(ents[moved[k]]) /\ f = ents[moved[k]]
      OBVIOUS
    <3>1. ents'[moved'[k]] = f /\ KeyOf(ents[moved[k]])' = c /\ c # K
      BY <1>3, <1>8, <3>0
    <3>2. IF f[x] = NoPath THEN Group(x, c) = {} ELSE Foremost(x, f[x])
      BY <3>0 DEF Exact, FirstsListed
    <3>3. Group(x, c)' = Group(x, c)
      BY <1>11, <3>1
    <3>4. ASSUME f[x] # NoPath PROVE Foremost(x, f[x])'
      <4>1. KeyAt(x, f[x]) = c
        BY <3>0, <3>4, KeyOfLive
      <4>2. KeyAt(x, f[x])' = c
        BY <1>6, <4>1
      <4>3. \A q \in Group(x, c) : Rank[f[x]] <= Rank[q]
        BY <3>2, <3>4, <4>1 DEF Foremost
      <4>4. QED
        BY <3>3, <4>2, <4>3 DEF Foremost
    <3>5. QED
      BY <3>1, <3>2, <3>3, <3>4
  <2>2. ASSUME NEW x \in Sides
        PROVE  (IF ents[moved[m]][x] = NoPath THEN Group(x, KeyOf(ents[moved[m]])) = {}
                ELSE Foremost(x, ents[moved[m]][x]))'
    <3>1. CASE x = s
      <4>1. Group(s, K)' = {p} /\ KeyAt(s, p)' = K
        BY <1>2, <1>6, <1>10, <1>11
      <4>2. Rank[p] <= Rank[p]
        BY <1>1, RankIs
      <4>3. Foremost(s, p)'
        BY <4>1, <4>2 DEF Foremost
      <4>4. QED
        BY <1>1, <1>7, <1>9, <3>1, <4>3
    <3>2. CASE x = Beyond(s)
      <4>1. Group(x, K)' = {}
        BY <1>10, <1>11, <3>2
      <4>2. QED
        BY <1>7, <1>9, <3>2, <4>1
    <3>3. QED
      BY <1>11, <3>1, <3>2
  <2>3. QED
    BY <1>5, <2>1, <2>2 DEF FirstsListed
<1>15. PairsListed'
  <2>1. ASSUME NEW i \in DOMAIN ents', IsPair(ents[i])' PROVE \E k \in DOMAIN moved' : moved'[k] = i
    <3>1. ents'[i].status = "MOVE" /\ ents'[i].flags = {}
      BY <2>1 DEF IsPair
    <3>2. i \in DOMAIN ents /\ ents'[i] = ents[i]
      BY <1>4, <1>7, <3>1
    <3>3. IsPair(ents[i])
      BY <3>1, <3>2, PairByStatus
    <3>4. PICK k \in DOMAIN moved : moved[k] = i
      BY <3>2, <3>3 DEF Exact, PairsListed
    <3>5. QED
      BY <1>5, <3>4
  <2>2. QED
    BY <2>1 DEF PairsListed
<1>16. QED
  BY <1>12, <1>13, <1>14, <1>15 DEF Exact

\* A path whose look is in the table: nothing but the entry of that look may change.
LEMMA ExactKept ==
  ASSUME ListInv, Exact, NEW p, Advance(p),
         NEW s \in Sides, p \in DOMAIN TreeOf(s) \ DOMAIN TreeOf(Beyond(s)), moved' = moved,
         NEW k0 \in DOMAIN moved, KeyOf(ents[moved[k0]]) = KeyAt(s, p),
         \A k \in DOMAIN moved : KeyOf(ents[moved[k]])' = KeyOf(ents[moved[k]]),
         \A k \in DOMAIN moved : k # k0 => ents'[moved[k]] = ents[moved[k]],
         ents'[moved[k0]][Beyond(s)] = ents[moved[k0]][Beyond(s)],
         ents'[moved[k0]][s] # NoPath, Foremost(s, ents[moved[k0]][s])',
         \A i \in DOMAIN ents' : IsPair(ents[i])' => i = moved[k0] \/ (i \in DOMAIN ents /\ IsPair(ents[i]))
  PROVE  Exact'
<1>0. PICK K : K = KeyAt(s, p)
  OBVIOUS
<1>1. UNCHANGED <<left, right, options>>
  BY DEF Advance
<1>2. /\ \A x, q : KeyAt(x, q)' = KeyAt(x, q)
      /\ \A x : KeyOf(x)' = KeyOf(x)
  BY <1>1, SameOperators
<1>3. /\ Single(s)' = Single(s) \cup {p} /\ Single(Beyond(s))' = Single(Beyond(s))
      /\ \A k : Group(s, k)' = IF k = K THEN Group(s, k) \cup {p} ELSE Group(s, k)
      /\ \A k : Group(Beyond(s), k)' = Group(Beyond(s), k)
      /\ Beyond(s) \in Sides /\ Beyond(s) # s /\ \A x \in Sides : x = s \/ x = Beyond(s)
  BY <1>0, GroupsGrow
<1>4. LookListed'
  <2>1. ASSUME NEW x \in Sides, NEW q \in Single(x)'
        PROVE  \E k \in DOMAIN moved' : KeyOf(ents[moved[k]])' = KeyAt(x, q)'
    <3>1. CASE q \in Single(x)
      <4>1. PICK k \in DOMAIN moved : KeyOf(ents[moved[k]]) = KeyAt(x, q)
        BY <3>1 DEF Exact, LookListed
      <4>2. QED
        BY <1>2, <4>1
    <3>2. CASE x = s /\ q = p
      BY <1>2, <3>2
    <3>3. QED
      BY <1>3, <2>1, <3>1, <3>2
  <2>2. QED
    BY <2>1 DEF LookListed
<1>5. LookOnce'
  <2>1. ASSUME NEW k \in DOMAIN moved, NEW m \in DOMAIN moved, KeyOf(ents[moved[k]])' = KeyOf(ents[moved[m]])'
        PROVE  k = m
    BY <2>1 DEF Exact, LookOnce
  <2>2. QED
    BY <2>1 DEF LookOnce
<1>6. FirstsListed'
  <2>1. ASSUME NEW k \in DOMAIN moved, NEW x \in Sides
        PROVE  (IF ents[moved[k]][x] = NoPath THEN Group(x, KeyOf(ents[moved[k]])) = {}
                ELSE Foremost(x, ents[moved[k]][x]))'
    <3>0. PICK c, f, g : c = KeyOf(ents[moved[k]]) /\ f = ents[moved[k]] /\ g = ents'[moved'[k]]
      OBVIOUS
    <3>1. KeyOf(ents[moved[k]])' = c
      BY <3>0
    <3>2. IF f[x] = NoPath THEN Group(x, c) = {} ELSE Foremost(x, f[x])
      BY <3>0 DEF Exact, FirstsListed
    <3>3. CASE k = k0 /\ x = s
      <4>1. ents'[moved'[k0]][s] # NoPath
        OBVIOUS
      <4>2. QED
        BY <3>3, <4>1
    <3>4. CASE k # k0 \/ x = Beyond(s)
      <4>1. g[x] = f[x]
        BY <3>0, <3>4
      <4>2. Group(x, c)' = Group(x, c)
        <5>1. CASE x = Beyond(s)
          BY <1>3, <5>1
        <5>2. CASE k # k0
          <6>1. c # K
            BY <1>0, <3>0, <5>2 DEF Exact, LookOnce
          <6>2. QED
            BY <1>3, <6>1
        <5>3. QED
          BY <3>4, <5>1, <5>2
      <4>3. ASSUME f[x] # NoPath PROVE Foremost(x, f[x])'
        <5>1. KeyAt(x, f[x]) = c
          BY <3>0, <4>3, KeyOfLive
        <5>2. KeyAt(x, f[x])' = c
          BY <1>2, <5>1
        <5>3. \A q \in Group(x, c) : Rank[f[x]] <= Rank[q]
          BY <3>2, <4>3, <5>1 DEF Foremost
        <5>4. QED
          BY <4>2, <5>2, <5>3 DEF Foremost
      <4>4. IF g[x] = NoPath THEN Group(x, c)' = {} ELSE Foremost(x, g[x])'
        BY <3>2, <4>1, <4>2, <4>3
      <4>5. QED
        BY <3>0, <3>1, <4>4
    <3>5. QED
      BY <1>3, <3>3, <3>4
  <2>2. QED
    BY <2>1 DEF FirstsListed
<1>7. PairsListed'
  BY DEF Exact, PairsListed
<1>8. QED
  BY <1>4, <1>5, <1>6, <1>7 DEF Exact

\* A path whose look the table has: it completes the entry if that has none of this
\* side yet, and is listed alone otherwise.
LEMMA ExactFound ==
  ASSUME ListInv, Exact, NEW p, Advance(p),
         NEW s \in Sides, p \in DOMAIN TreeOf(s) \ DOMAIN TreeOf(Beyond(s)), FoundSame(s, p)
  PROVE  Exact'
<1>1. /\ ents \in Seq(Ents) /\ UNCHANGED <<left, right, options>> /\ moved' = moved
      /\ p \in ToSet(Walk) /\ p # NoPath
  BY AdvanceFacts DEF ListInv, DiffTypes, Advance, FoundSame
<1>2. PICK k0 \in DOMAIN moved :
         /\ KeyOf(ents[moved[k0]]) = KeyAt(s, p)
         /\ IF ents[moved[k0]].status = StatusOf(Beyond(s))
            THEN Pair(MineOf(s, p), moved[k0]) ELSE Alone(MineOf(s, p))
  BY DEF FoundSame
<1>3. PICK it, f, t, K : it = moved[k0] /\ f = ents[it] /\ t = Beyond(s) /\ K = KeyAt(s, p)
  OBVIOUS
<1>4. it \in DOMAIN ents /\ Live(f) /\ f.status \in {"LEFT", "RIGHT", "MOVE"}
  BY <1>3 DEF ListInv, Table
<1>5. IsPair(f) \/ \E x \in Sides : IsSingle(x, f)
  BY <1>3, <1>4 DEF ListInv, Shapes, IsBoth, IsDouble, Live
<1>6. /\ \A x, q : KeyAt(x, q)' = KeyAt(x, q)
      /\ \A x : KeyOf(x)' = KeyOf(x)
  BY <1>1, SameOperators
<1>7. /\ \A k : Group(s, k)' = IF k = K THEN Group(s, k) \cup {p} ELSE Group(s, k)
      /\ \A q \in Single(s) : Rank[q] <= Rank[p]
      /\ t \in Sides /\ t # s /\ \A x \in Sides : x = s \/ x = t
  BY <1>3, GroupsGrow
<1>8. \A k \in DOMAIN moved : moved[k] \in DOMAIN ents /\ (k # k0 => moved[k] # it)
  BY <1>3 DEF ListInv, Table
<1>9. KeyAt(s, p)' = K /\ Rank[p] <= Rank[p]
  BY <1>1, <1>3, <1>6, RankIs
<1>10. CASE f.status = StatusOf(t)
  <2>1. Pair(MineOf(s, p), moved[k0])
    BY <1>2, <1>3, <1>10
  <2>2. PICK n : n = Len(ents) + 1
    OBVIOUS
  <2>3. /\ DOMAIN ents' = DOMAIN ents \cup {n}
        /\ \A i \in DOMAIN ents : i # it => ents'[i] = ents[i]
        /\ ents'[it][s] = p /\ ents'[it][t] = f[t] /\ KeyOf(ents[moved[k0]])' = K
        /\ ~Live(ents'[n])
    <3>1. ents[moved[k0]].status = StatusOf(Beyond(s))
      BY <1>3, <1>10
    <3>2. /\ DOMAIN ents' = DOMAIN ents \cup {Len(ents) + 1}
          /\ \A i \in DOMAIN ents : i # moved[k0] => ents'[i] = ents[i]
          /\ ents'[moved[k0]][s] = p
          /\ ents'[moved[k0]][Beyond(s)] = ents[moved[k0]][Beyond(s)]
          /\ KeyOf(ents[moved[k0]])' = KeyAt(s, p)
          /\ ~Live(ents'[Len(ents) + 1])
      <4>1. DOMAIN ents' = DOMAIN ents \cup {Len(ents) + 1}
        BY <1>1, <1>2, <2>1, <3>1, PairStep
      <4>2. \A i \in DOMAIN ents : i # moved[k0] => ents'[i] = ents[i]
        BY <1>1, <1>2, <2>1, <3>1, PairStep
      <4>3. ents'[moved[k0]][s] = p
        BY <1>1, <1>2, <2>1, <3>1, PairStep
      <4>4. ents'[moved[k0]][Beyond(s)] = ents[moved[k0]][Beyond(s)]
        BY <1>1, <1>2, <2>1, <3>1, PairStep
      <4>5. KeyOf(ents[moved[k0]])' = KeyAt(s, p)
        BY <1>1, <1>2, <2>1, <3>1, PairStep
      <4>6. ~Live(ents'[Len(ents) + 1])
        BY <1>1, <1>2, <2>1, <3>1, PairStep
      <4>7. QED
        BY <4>1, <4>2, <4>3, <4>4, <4>5, <4>6
    <3>3. QED
      BY <1>3, <2>2, <3>2
  <2>4. IsSingle(t, f)
    BY <1>5, <1>7, <1>10 DEF IsPair, IsSingle, StatusOf, Sides
  <2>5. f[s] = NoPath
    BY <1>3, <1>7, <2>4 DEF IsSingle, Sides, Beyond
  <2>6. Group(s, K) = {}
    BY <1>2, <1>3, <2>5 DEF Exact, FirstsListed
  <2>7. Group(s, K)' = {p}
    BY <1>7, <2>6
  <2>8. Foremost(s, p)'
    BY <1>9, <2>7 DEF Foremost
  <2>9. \A k \in DOMAIN moved : k # k0 => ents'[moved[k]] = ents[moved[k]]
    BY <1>8, <2>3
  <2>10. \A k \in DOMAIN moved : KeyOf(ents[moved[k]])' = KeyOf(ents[moved[k]])
    <3>1. ASSUME NEW k \in DOMAIN moved PROVE KeyOf(ents[moved[k]])' = KeyOf(ents[moved[k]])
      <4>1. CASE k = k0
        BY <1>2, <1>3, <2>3, <4>1
      <4>2. CASE k # k0
        BY <1>1, <1>6, <2>9, <4>2 DEF KeyOf, Key
      <4>3. QED
        BY <4>1, <4>2
    <3>2. QED
      BY <3>1
  <2>11. ASSUME NEW i \in DOMAIN ents', IsPair(ents[i])' PROVE i = it \/ (i \in DOMAIN ents /\ IsPair(ents[i]))
    <3>1. ents'[i].status = "MOVE" /\ ents'[i].flags = {}
      BY <2>11 DEF IsPair
    <3>2. i \in DOMAIN ents
      BY <2>3, <3>1 DEF Live
    <3>3. CASE i # it
      BY <2>3, <3>1, <3>2, <3>3, PairByStatus
    <3>4. QED
      BY <3>3
  <2>12. Foremost(s, ents[moved[k0]][s])' /\ ents'[moved[k0]][s] # NoPath
    BY <1>1, <1>3, <2>3, <2>8
  <2>13. QED
    BY <1>1, <1>2, <1>3, <2>3, <2>9, <2>10, <2>11, <2>12, ExactKept
<1>11. CASE f.status # StatusOf(t)
  <2>1. PICK n, e : n = Len(ents) + 1 /\ e = MineOf(s, p) /\ ents' = Append(ents, e)
    BY <1>2, <1>3, <1>11 DEF Alone
  <2>2. /\ DOMAIN ents' = DOMAIN ents \cup {n} /\ n \notin DOMAIN ents /\ ents'[n] = e
        /\ \A i \in DOMAIN ents : ents'[i] = ents[i]
    BY <1>1, <2>1
  <2>3. e.status \in {"LEFT", "RIGHT"}
    BY <2>1, MineIs
  <2>4. f[s] \in Single(s)
    <3>1. ASSUME NEW x \in Sides, IsSingle(x, f) PROVE x = s
      BY <1>7, <1>11, <3>1 DEF IsSingle
    <3>2. QED
      BY <1>5, <3>1 DEF IsPair, IsSingle, Sides
  <2>5. f[s] \in ToSet(Walk) /\ f[s] # NoPath
    <3>1. f[s] \in ToSet(Walk)
      BY <2>4 DEF Single, Seen, TreeOf, ListInv, DiffTypes, GoodTree
    <3>2. PICK w \in DOMAIN Walk : f[s] = Walk[w]
      BY <3>1 DEF ToSet
    <3>3. QED
      BY <3>1, <3>2, WalkAssumption DEF Paths
  <2>6. KeyAt(s, f[s]) = K /\ Foremost(s, f[s])
    BY <1>2, <1>3, <2>5, KeyOfLive DEF Exact, FirstsListed
  <2>7. \A q \in Group(s, K)' : Rank[f[s]] <= Rank[q]
    BY <1>7, <2>4, <2>6 DEF Foremost
  <2>8. Foremost(s, f[s])'
    BY <1>6, <2>6, <2>7 DEF Foremost
  <2>9. \A k \in DOMAIN moved : ents'[moved[k]] = ents[moved[k]]
    BY <1>8, <2>2
  <2>10. \A k \in DOMAIN moved : KeyOf(ents[moved[k]])' = KeyOf(ents[moved[k]])
    BY <1>1, <1>6, <2>9 DEF KeyOf, Key
  <2>11. ASSUME NEW i \in DOMAIN ents', IsPair(ents[i])' PROVE i \in DOMAIN ents /\ IsPair(ents[i])
    <3>1. ents'[i].status = "MOVE" /\ ents'[i].flags = {}
      BY <2>11 DEF IsPair
    <3>2. QED
      BY <2>2, <2>3, <3>1, PairByStatus
  <2>12. ents'[moved'[k0]] = f
    BY <1>1, <1>3, <2>9
  <2>13. Foremost(s, ents[moved[k0]][s])' /\ ents'[moved[k0]][s] # NoPath
    BY <1>1, <2>5, <2>8, <2>12
  <2>14. QED
    BY <1>1, <1>2, <1>3, <2>9, <2>10, <2>11, <2>13, ExactKept
<1>12. QED
  BY <1>10, <1>11

-----------------------------------------------------------------------------
(* The comparison as a whole *)

\* The invariant of the comparison.
DiffInv == ListInv /\ ("MOVE_CHK_CONTENT" \notin options => Exact)

\* sync_diff() begins with an empty list.
LEMMA DiffBegins ==
  ASSUME NEW l, NEW r, NEW opts, GoodTree(l), GoodTree(r), opts \subseteq DiffOptions, DiffBegin(l, r, opts)
  PROVE  DiffInv'
<1>1. /\ left' = l /\ right' = r /\ options' = opts /\ walk' = DOMAIN l \cup DOMAIN r
      /\ ents' = << >> /\ moved' = << >> /\ stats' = NoStats
  BY DEF DiffBegin
<1>2. DOMAIN ents' = {} /\ DOMAIN moved' = {}
  BY <1>1
<1>3. DiffTypes'
  BY <1>1 DEF DiffTypes, GoodTree, IsTree
<1>4. \A s \in Sides : Seen(s)' = {} /\ Single(s)' = {}
  BY <1>1 DEF Seen, Single, TreeOf, Sides
<1>5. Shapes' /\ Unique' /\ Table'
  BY <1>2 DEF Shapes, Unique, Table
<1>6. Cover'
  BY <1>4 DEF Cover
<1>7. Counts'
  <2>1. AllLive' = {} /\ \A x \in Statuses : LiveOf(x)' = {}
    BY <1>2 DEF AllLive, LiveOf
  <2>2. /\ stats' \in [Statuses \cup {"entries"} -> Int] /\ stats'["entries"] = 0
        /\ \A x \in Statuses : stats'[x] = 0
    BY <1>1 DEF NoStats
  <2>3. QED
    BY <2>1, <2>2, FS_EmptySet DEF Counts
<1>8. Exact'
  BY <1>2, <1>4 DEF Exact, LookListed, LookOnce, FirstsListed, PairsListed
<1>9. QED
  BY <1>3, <1>5, <1>6, <1>7, <1>8 DEF DiffInv, ListInv

\* Every step of next() keeps the invariant.
LEMMA DiffStep ==
  ASSUME DiffInv, DiffNext
  PROVE  DiffInv' /\ UNCHANGED <<left, right, options>>
<1>1. /\ walk # {} /\ walk' = walk \ {First(walk)}
      /\ IF First(walk) \in DOMAIN left \cap DOMAIN right THEN DiffBoth(First(walk)) ELSE DiffOne(First(walk))
      /\ UNCHANGED <<left, right, options>>
  BY DEF DiffNext
<1>2. ListInv /\ DiffTypes /\ Table
  BY DEF DiffInv, ListInv
<1>3. walk \in SUBSET ToSet(Walk)
  BY <1>2 DEF DiffTypes, GoodTree
<1>4. First(walk) \in walk /\ \A q \in walk : Rank[First(walk)] <= Rank[q]
  BY <1>1, <1>3, FirstIs
<1>5. PICK p : p = First(walk)
  OBVIOUS
<1>6. Advance(p)
  BY <1>1, <1>4, <1>5 DEF Advance
<1>7. CASE p \in DOMAIN left \cap DOMAIN right
  <2>1. DiffBoth(p)
    BY <1>1, <1>5, <1>7
  <2>2. ListInv'
    BY <1>2, <1>6, <1>7, <2>1, BothStep
  <2>3. Exact => Exact'
    BY <1>2, <1>6, <1>7, <2>1, ExactBoth
  <2>4. QED
    BY <1>1, <2>2, <2>3 DEF DiffInv
<1>8. CASE p \notin DOMAIN left \cap DOMAIN right
  <2>1. DiffOne(p) /\ p \in walk
    BY <1>1, <1>4, <1>5, <1>8
  <2>2. PICK s \in Sides : /\ p \in DOMAIN TreeOf(s) \ DOMAIN TreeOf(Beyond(s))
                           /\ NotFound(s, p) \/ FoundSame(s, p)
    BY <1>2, <1>8, <2>1, SplitOne
  <2>3. CASE NotFound(s, p)
    <3>1. Alone(MineOf(s, p)) /\ moved' = Append(moved, Len(ents) + 1)
      BY <2>3 DEF NotFound
    <3>2. ListInv'
      BY <1>2, <1>6, <2>2, <3>1, AloneStep
    <3>3. "MOVE_CHK_CONTENT" \notin options /\ Exact => Exact'
      BY <1>2, <1>6, <2>2, <2>3, ExactNotFound
    <3>4. QED
      BY <1>1, <3>2, <3>3 DEF DiffInv
  <2>4. CASE FoundSame(s, p)
    <3>1. PICK k \in DOMAIN moved :
            /\ KeyOf(ents[moved[k]]) = KeyAt(s, p)
            /\ IF ents[moved[k]].status = StatusOf(Beyond(s))
               THEN Pair(MineOf(s, p), moved[k]) ELSE Alone(MineOf(s, p))
      BY <2>4 DEF FoundSame
    <3>2. moved' = moved
      BY <2>4 DEF FoundSame
    <3>3. ListInv'
      <4>1. CASE ents[moved[k]].status = StatusOf(Beyond(s))
        BY <1>2, <1>6, <2>2, <3>1, <3>2, <4>1, PairStep
      <4>2. CASE ents[moved[k]].status # StatusOf(Beyond(s))
        <5>1. Alone(MineOf(s, p))
          BY <3>1, <4>2
        <5>2. QED
          BY <1>2, <1>6, <2>2, <3>2, <5>1, AloneStep
      <4>3. QED
        BY <4>1, <4>2
    <3>4. Exact => Exact'
      BY <1>2, <1>6, <2>2, <2>4, ExactFound
    <3>5. QED
      BY <1>1, <3>3, <3>4 DEF DiffInv
  <2>5. QED
    BY <2>2, <2>3, <2>4
<1>9. QED
  BY <1>1, <1>7, <1>8

\* Nothing but the comparison changes what the invariant is about.
LEMMA DiffStays ==
  ASSUME DiffInv, UNCHANGED diffVars
  PROVE  DiffInv'
<1>1. UNCHANGED <<left, right, options, walk, ents, moved, stats>>
  BY DEF diffVars
<1>2. /\ \A a, b : Differences(a, b)' = Differences(a, b)
      /\ \A a, b : Key(a, b)' = Key(a, b)
      /\ \A e : KeyOf(e)' = KeyOf(e)
      /\ \A s, q : KeyAt(s, q)' = KeyAt(s, q)
  BY <1>1, SameOperators
<1>3. \A s : TreeOf(s)' = TreeOf(s)
  BY <1>1 DEF TreeOf
<1>4. \A s : Seen(s)' = Seen(s) /\ Single(s)' = Single(s)
  BY <1>1, <1>3 DEF Seen, Single
<1>5. \A e : /\ IsBoth(e)' <=> IsBoth(e)
             /\ IsPair(e)' <=> IsPair(e)
             /\ IsDouble(e)' <=> IsDouble(e)
             /\ \A s : IsSingle(s, e)' <=> IsSingle(s, e)
  BY <1>1, <1>2, <1>4 DEF IsBoth, IsPair, IsDouble, IsSingle
<1>6. DiffTypes'
  BY <1>1 DEF DiffInv, ListInv, DiffTypes, GoodTree, IsTree
<1>7. Shapes'
  BY <1>1, <1>5 DEF DiffInv, ListInv, Shapes
<1>8. Unique' /\ Cover' /\ Table'
  BY <1>1, <1>4 DEF DiffInv, ListInv, Unique, Cover, Table, Live
<1>9. Counts'
  BY <1>1 DEF DiffInv, ListInv, Counts, AllLive, LiveOf, Live
<1>10. \A s, k : Group(s, k)' = Group(s, k)
  BY <1>2, <1>4 DEF Group
<1>11. \A s, p : Foremost(s, p)' <=> Foremost(s, p)
  BY <1>2, <1>10 DEF Foremost
<1>12. \A k : ents'[moved'[k]] = ents[moved[k]] /\ KeyOf(ents[moved[k]])' = KeyOf(ents[moved[k]])
  BY <1>1, <1>2 DEF KeyOf
<1>13. Exact => Exact'
  <2>1. Exact => LookListed' /\ LookOnce'
    BY <1>1, <1>2, <1>4, <1>12 DEF Exact, LookListed, LookOnce
  <2>2. Exact => FirstsListed'
    BY <1>1, <1>2, <1>10, <1>11, <1>12 DEF Exact, FirstsListed
  <2>3. Exact => PairsListed'
    BY <1>1, <1>5 DEF Exact, PairsListed
  <2>4. QED
    BY <2>1, <2>2, <2>3 DEF Exact
<1>14. QED
  BY <1>1, <1>6, <1>7, <1>8, <1>9, <1>13 DEF DiffInv, ListInv

\* A path of a tree is not the empty one.
LEMMA PathsNonEmpty ==
  ASSUME DiffTypes, NEW s \in Sides, NEW p \in DOMAIN TreeOf(s)
  PROVE  p # NoPath /\ p \in ToSet(Walk)
<1>1. p \in ToSet(Walk)
  BY DEF DiffTypes, GoodTree, TreeOf
<1>2. PICK w \in DOMAIN Walk : p = Walk[w]
  BY <1>1 DEF ToSet
<1>3. QED
  BY <1>1, <1>2, WalkAssumption DEF Paths

\* The list has no path twice, and its counters are right.
LEMMA ListGivesOnce ==
  ASSUME ListInv
  PROVE  NothingTwice
<1>1. ents \in Seq(Ents) /\ DOMAIN ents = 1 .. Len(ents)
  BY DEF ListInv, DiffTypes
<1>2. AllLive = {i \in 1 .. Len(ents) : "SKIP" \notin ents[i].flags}
  BY <1>1 DEF AllLive, Live
<1>3. \A x : LiveOf(x) = {i \in AllLive : ents[i].status = x}
  BY DEF LiveOf, AllLive
<1>4. ASSUME NEW s \in Sides, NEW p \in DOMAIN TreeOf(s) \ walk
      PROVE  Cardinality({i \in AllLive : ents[i][s] = p}) = 1
  <2>1. p # NoPath /\ p \in Seen(s)
    BY PathsNonEmpty DEF Seen, ListInv
  <2>2. PICK i \in DOMAIN ents : Live(ents[i]) /\ ents[i][s] = p
    BY <2>1 DEF ListInv, Cover
  <2>3. {j \in AllLive : ents[j][s] = p} = {i}
    BY <2>1, <2>2 DEF AllLive, ListInv, Unique
  <2>4. QED
    BY <2>3, FS_Singleton
<1>5. /\ \A p \in DOMAIN left \ walk : Cardinality({i \in AllLive : ents[i].l = p}) = 1
      /\ \A p \in DOMAIN right \ walk : Cardinality({i \in AllLive : ents[i].r = p}) = 1
  BY <1>4 DEF Sides, TreeOf
<1>6. (\A x \in Statuses : stats[x] = Cardinality(LiveOf(x))) /\ stats["entries"] = Cardinality(AllLive)
  BY DEF ListInv, Counts
<1> HIDE DEF AllLive, LiveOf
<1>7. QED
  BY <1>2, <1>3, <1>5, <1>6 DEF NothingTwice

\* The types of the list.
LEMMA ListTypes ==
  ASSUME ListInv
  PROVE  /\ \A i \in 1 .. Len(ents) :
              /\ ents[i].status \in Statuses
              /\ ents[i].flags \subseteq Details \cup {"SKIP"}
              /\ ents[i].l \in DOMAIN left \cup {NoPath} /\ ents[i].r \in DOMAIN right \cup {NoPath}
         /\ stats \in [Statuses \cup {"entries"} -> Nat]
<1>1. ents \in Seq(Ents) /\ DOMAIN ents = 1 .. Len(ents)
  BY DEF ListInv, DiffTypes
<1>2. ASSUME NEW i \in DOMAIN ents
      PROVE  ents[i].l \in DOMAIN left \cup {NoPath} /\ ents[i].r \in DOMAIN right \cup {NoPath}
  <2>1. IsBoth(ents[i]) \/ IsPair(ents[i]) \/ \E s \in Sides : ents[i][s] \in Single(s) /\ ents[i][Beyond(s)] = NoPath
    BY DEF ListInv, Shapes, IsDouble, IsSingle
  <2>2. QED
    BY <2>1 DEF IsBoth, IsPair, Single, Seen, TreeOf, Sides, Beyond
<1>3. stats \in [Statuses \cup {"entries"} -> Nat]
  <2>1. IsFiniteSet(DOMAIN ents)
    BY <1>1, FS_Interval
  <2>2. \A S \in SUBSET DOMAIN ents : Cardinality(S) \in Nat
    BY <2>1, FS_Subset, FS_CardinalityType
  <2>3. Cardinality(AllLive) \in Nat /\ \A x \in Statuses : Cardinality(LiveOf(x)) \in Nat
    BY <2>2 DEF AllLive, LiveOf
  <2>4. /\ stats \in [Statuses \cup {"entries"} -> Int]
        /\ \A x \in Statuses \cup {"entries"} : stats[x] \in Nat
    BY <2>3 DEF ListInv, Counts
  <2>5. QED
    BY <2>4
<1>4. ASSUME NEW i \in DOMAIN ents
      PROVE  ents[i].status \in Statuses /\ ents[i].flags \subseteq Details \cup {"SKIP"}
  <2>1. ents[i] \in Ents
    BY <1>1
  <2>2. QED
    BY <2>1 DEF Ents
<1>5. QED
  BY <1>1, <1>2, <1>3, <1>4

-----------------------------------------------------------------------------
(* The result, when every path was compared *)

\* When every path was compared, the paths of one side are all there are.
LEMMA SinglesAtEnd ==
  ASSUME walk = {}
  PROVE  /\ Single("l") = DOMAIN left \ DOMAIN right /\ Single("r") = DOMAIN right \ DOMAIN left
         /\ Seen("l") = DOMAIN left /\ Seen("r") = DOMAIN right
BY DEF Single, Seen, TreeOf, Beyond

\* The pairs of the list are those of the definition.
LEMMA PairsAre ==
  ASSUME ListInv, Exact, walk = {}
  PROVE  \A m : m \in Pairs(left, right) <=>
           \E i \in DOMAIN ents : IsPair(ents[i]) /\ m = <<ents[i].l, ents[i].r>>
<1> DEFINE keys == {Key(left[p], p) : p \in DOMAIN left \ DOMAIN right}
                     \cap {Key(right[p], p) : p \in DOMAIN right \ DOMAIN left}
<1>1. "l" \in Sides /\ "r" \in Sides
  BY DEF Sides
<1>2. Single("l") = DOMAIN left \ DOMAIN right /\ Single("r") = DOMAIN right \ DOMAIN left
  BY SinglesAtEnd
<1> DEFINE Only(t, u, k) == {p \in DOMAIN t \ DOMAIN u : Key(t[p], p) = k}
<1>3. \A k : Only(left, right, k) = Group("l", k) /\ Only(right, left, k) = Group("r", k)
  BY <1>2 DEF Group, KeyAt, TreeOf
<1>4. Pairs(left, right) = {<<First(Group("l", k)), First(Group("r", k))>> : k \in keys}
  <2>1. Pairs(left, right) = {<<First(Only(left, right, k)), First(Only(right, left, k))>> : k \in keys}
    BY DEF Pairs
  <2> HIDE DEF Only, keys
  <2>2. QED
    BY <1>3, <2>1
<1>5. \A k : k \in keys <=> Group("l", k) # {} /\ Group("r", k) # {}
  BY <1>3
<1> HIDE DEF keys
<1>6. ASSUME NEW k, NEW s \in Sides, NEW j \in DOMAIN moved, KeyOf(ents[moved[j]]) = k, ents[moved[j]][s] # NoPath
      PROVE  ents[moved[j]][s] = First(Group(s, k)) /\ Group(s, k) # {}
  <2>1. PICK q : q = ents[moved[j]][s]
    OBVIOUS
  <2>2. KeyAt(s, q) = k /\ q \in Group(s, k)
    BY <1>6, <2>1, KeyOfLive DEF Group
  <2>3. \A x \in Group(s, k) : Rank[q] <= Rank[x]
    BY <1>6, <2>1, <2>2 DEF Exact, FirstsListed, Foremost
  <2>4. Group(s, k) \in SUBSET ToSet(Walk)
    BY PathsNonEmpty DEF Group, Single, Seen, ListInv
  <2>5. q = First(Group(s, k))
    BY <2>2, <2>3, <2>4, FirstIs
  <2>6. QED
    BY <2>1, <2>2, <2>5
<1>7. ASSUME NEW k \in keys
      PROVE  \E i \in DOMAIN ents : IsPair(ents[i]) /\ <<First(Group("l", k)), First(Group("r", k))>> = <<ents[i].l, ents[i].r>>
  <2>1. PICK p \in Single("l") : KeyAt("l", p) = k
    BY <1>5 DEF Group
  <2>2. PICK j \in DOMAIN moved : KeyOf(ents[moved[j]]) = k
    BY <1>1, <2>1 DEF Exact, LookListed
  <2>3. ents[moved[j]].l # NoPath /\ ents[moved[j]].r # NoPath
    BY <1>1, <1>5, <2>2 DEF Exact, FirstsListed
  <2>4. moved[j] \in DOMAIN ents /\ Live(ents[moved[j]]) /\ ents[moved[j]].status \in {"LEFT", "RIGHT", "MOVE"}
    BY DEF ListInv, Table
  <2>5. IsPair(ents[moved[j]])
    BY <2>3, <2>4 DEF ListInv, Shapes, IsBoth, IsDouble, IsSingle, Live, Sides, Beyond
  <2>6. ents[moved[j]].l = First(Group("l", k)) /\ ents[moved[j]].r = First(Group("r", k))
    BY <1>1, <1>6, <2>2, <2>3
  <2>7. QED
    BY <2>4, <2>5, <2>6
<1>8. ASSUME NEW i \in DOMAIN ents, IsPair(ents[i])
      PROVE  \E k \in keys : <<ents[i].l, ents[i].r>> = <<First(Group("l", k)), First(Group("r", k))>>
  <2>1. PICK j \in DOMAIN moved : moved[j] = i
    BY <1>8 DEF Exact, PairsListed
  <2>2. ents[i].l # NoPath /\ ents[i].r # NoPath
    BY <1>1, <1>8, PathsNonEmpty DEF IsPair, Single, Seen, ListInv
  <2>3. PICK k : k = KeyOf(ents[i])
    OBVIOUS
  <2>4. /\ ents[i].l = First(Group("l", k)) /\ Group("l", k) # {}
        /\ ents[i].r = First(Group("r", k)) /\ Group("r", k) # {}
    BY <1>1, <1>6, <2>1, <2>2, <2>3
  <2>5. QED
    BY <1>5, <2>4
<1>9. QED
  BY <1>4, <1>7, <1>8

\* The shape of every entry that is shown.
LEMMA LiveEntry ==
  ASSUME ListInv, NEW i \in DOMAIN ents, Live(ents[i])
  PROVE  /\ ents[i] = Entry(ents[i].status, ents[i].flags, ents[i].l, ents[i].r)
         /\ IsBoth(ents[i]) \/ IsPair(ents[i]) \/ IsSingle("l", ents[i]) \/ IsSingle("r", ents[i])
<1>1. ents[i] \in Ents
  BY DEF ListInv, DiffTypes
<1>2. ents[i] = Entry(ents[i].status, ents[i].flags, ents[i].l, ents[i].r)
  BY <1>1 DEF Ents, Entry
<1>3. QED
  BY <1>2 DEF ListInv, Shapes, IsDouble, Live, Sides

\* The list, without doubles, is the difference of the two trees.
LEMMA EntriesAre ==
  ASSUME ListInv, Exact, walk = {}
  PROVE  Entries = Difference(left, right)
<1>1. /\ Single("l") = DOMAIN left \ DOMAIN right /\ Single("r") = DOMAIN right \ DOMAIN left
      /\ Seen("l") = DOMAIN left /\ Seen("r") = DOMAIN right
      /\ TreeOf("l") = left /\ TreeOf("r") = right /\ Beyond("l") = "r" /\ Beyond("r") = "l"
      /\ "l" \in Sides /\ "r" \in Sides /\ StatusOf("l") = "LEFT" /\ StatusOf("r") = "RIGHT"
  BY SinglesAtEnd DEF TreeOf, Beyond, Sides, StatusOf
<1>2. PICK pairs : pairs = Pairs(left, right)
  OBVIOUS
<1>3. \A m : m \in pairs <=> \E i \in DOMAIN ents : IsPair(ents[i]) /\ m = <<ents[i].l, ents[i].r>>
  BY <1>2, PairsAre
<1> DEFINE Status(p) == IF Differences(left[p], right[p]) = {} THEN "EQ" ELSE "NEQ"
           Both == {Entry(Status(p), Differences(left[p], right[p]), p, p) : p \in DOMAIN left \cap DOMAIN right}
           Moves == {Entry("MOVE", {}, m[1], m[2]) : m \in pairs}
           Lefts == {Entry("LEFT", {}, p, NoPath) : p \in DOMAIN left \ (DOMAIN right \cup {m[1] : m \in pairs})}
           Rights == {Entry("RIGHT", {}, NoPath, p) : p \in DOMAIN right \ (DOMAIN left \cup {m[2] : m \in pairs})}
<1>4. Difference(left, right) = Both \cup Moves \cup Lefts \cup Rights
  BY <1>2 DEF Difference
<1>5. \A d : d \in Entries <=> \E i \in DOMAIN ents : Live(ents[i]) /\ d = ents[i]
  BY DEF Entries, Live, ListInv, DiffTypes
<1>6. \A i \in DOMAIN ents : IsPair(ents[i]) => Live(ents[i]) /\ ents[i].l # NoPath /\ ents[i].r # NoPath
  BY <1>1, PathsNonEmpty DEF IsPair, Live, ListInv
<1>7. ASSUME NEW i \in DOMAIN ents, Live(ents[i]) PROVE ents[i] \in Both \cup Moves \cup Lefts \cup Rights
  <2>0. PICK e : e = ents[i]
    OBVIOUS
  <2>1. e = Entry(e.status, e.flags, e.l, e.r)
    BY <1>7, <2>0, LiveEntry
  <2>2. CASE IsBoth(e)
    <3>1. /\ e.l \in DOMAIN left \cap DOMAIN right /\ e.r = e.l
          /\ e.flags = Differences(left[e.l], right[e.l]) /\ e.status = Status(e.l)
      BY <1>1, <2>2 DEF IsBoth
    <3>2. e \in Both
      BY <2>1, <3>1
    <3>3. QED
      BY <2>0, <3>2
  <2>3. CASE IsPair(e)
    <3>1. <<e.l, e.r>> \in pairs /\ e = Entry("MOVE", {}, e.l, e.r)
      BY <1>3, <2>0, <2>1, <2>3 DEF IsPair
    <3>2. \E m \in pairs : e = Entry("MOVE", {}, m[1], m[2])
      BY <3>1
    <3>3. QED
      BY <2>0, <3>2
  <2>4. CASE IsSingle("l", e)
    <3>1. e = Entry("LEFT", {}, e.l, NoPath) /\ e.l \in DOMAIN left \ DOMAIN right
      BY <1>1, <2>1, <2>4 DEF IsSingle
    <3>2. ASSUME NEW m \in pairs, m[1] = e.l PROVE FALSE
      <4>1. PICK j \in DOMAIN ents : IsPair(ents[j]) /\ m = <<ents[j].l, ents[j].r>>
        BY <1>3, <3>2
      <4>2. Live(ents[j]) /\ ents[j].l = ents[i].l /\ ents[j].l # NoPath
        BY <1>6, <2>0, <3>2, <4>1
      <4>3. i = j
        BY <1>1, <1>7, <4>2 DEF ListInv, Unique
      <4>4. QED
        BY <1>1, <2>0, <2>4, <4>1, <4>3 DEF IsSingle, IsPair
    <3>3. e \in Lefts
      BY <3>1, <3>2
    <3>4. QED
      BY <2>0, <3>3
  <2>5. CASE IsSingle("r", e)
    <3>1. e = Entry("RIGHT", {}, NoPath, e.r) /\ e.r \in DOMAIN right \ DOMAIN left
      BY <1>1, <2>1, <2>5 DEF IsSingle
    <3>2. ASSUME NEW m \in pairs, m[2] = e.r PROVE FALSE
      <4>1. PICK j \in DOMAIN ents : IsPair(ents[j]) /\ m = <<ents[j].l, ents[j].r>>
        BY <1>3, <3>2
      <4>2. Live(ents[j]) /\ ents[j].r = ents[i].r /\ ents[j].r # NoPath
        BY <1>6, <2>0, <3>2, <4>1
      <4>3. i = j
        BY <1>1, <1>7, <4>2 DEF ListInv, Unique
      <4>4. QED
        BY <1>1, <2>0, <2>5, <4>1, <4>3 DEF IsSingle, IsPair
    <3>3. e \in Rights
      BY <3>1, <3>2
    <3>4. QED
      BY <2>0, <3>3
  <2>6. QED
    BY <1>7, <2>0, <2>2, <2>3, <2>4, <2>5, LiveEntry
<1>8. ASSUME NEW p \in DOMAIN left \cap DOMAIN right
      PROVE  Entry(Status(p), Differences(left[p], right[p]), p, p) \in Entries
  <2>1. PICK i \in DOMAIN ents : Live(ents[i]) /\ ents[i].l = p
    BY <1>1 DEF ListInv, Cover
  <2>2. p # NoPath
    BY <1>1, PathsNonEmpty DEF ListInv
  <2>3. IsBoth(ents[i]) /\ ents[i] = Entry(ents[i].status, ents[i].flags, ents[i].l, ents[i].r)
    BY <1>1, <2>1, <2>2, LiveEntry DEF IsPair, IsSingle
  <2>4. ents[i] = Entry(Status(p), Differences(left[p], right[p]), p, p)
    BY <2>1, <2>3 DEF IsBoth
  <2>5. QED
    BY <1>5, <2>1, <2>4
<1>9. ASSUME NEW m \in pairs PROVE Entry("MOVE", {}, m[1], m[2]) \in Entries
  <2>1. PICK i \in DOMAIN ents : IsPair(ents[i]) /\ m = <<ents[i].l, ents[i].r>>
    BY <1>3
  <2>2. Live(ents[i]) /\ ents[i] = Entry(ents[i].status, ents[i].flags, ents[i].l, ents[i].r)
    BY <1>6, <2>1, LiveEntry
  <2>3. ents[i] = Entry("MOVE", {}, m[1], m[2])
    BY <2>1, <2>2 DEF IsPair
  <2>4. QED
    BY <1>5, <2>2, <2>3
<1>10. ASSUME NEW p \in DOMAIN left \ (DOMAIN right \cup {m[1] : m \in pairs})
       PROVE  Entry("LEFT", {}, p, NoPath) \in Entries
  <2>1. PICK i \in DOMAIN ents : Live(ents[i]) /\ ents[i].l = p
    BY <1>1 DEF ListInv, Cover
  <2>2. p # NoPath
    BY <1>1, PathsNonEmpty DEF ListInv
  <2>3. ~IsPair(ents[i])
    <3>1. SUFFICES ASSUME IsPair(ents[i]) PROVE FALSE
      OBVIOUS
    <3>2. <<ents[i].l, ents[i].r>> \in pairs
      BY <1>3, <3>1
    <3>3. p \in {m[1] : m \in pairs}
      BY <2>1, <3>2
    <3>4. QED
      BY <3>3
  <2>4. IsSingle("l", ents[i]) /\ ents[i] = Entry(ents[i].status, ents[i].flags, ents[i].l, ents[i].r)
    BY <1>1, <2>1, <2>2, <2>3, LiveEntry DEF IsBoth, IsSingle
  <2>5. ents[i] = Entry("LEFT", {}, p, NoPath)
    BY <1>1, <2>1, <2>4 DEF IsSingle
  <2>6. QED
    BY <1>5, <2>1, <2>5
<1>11. ASSUME NEW p \in DOMAIN right \ (DOMAIN left \cup {m[2] : m \in pairs})
       PROVE  Entry("RIGHT", {}, NoPath, p) \in Entries
  <2>1. PICK i \in DOMAIN ents : Live(ents[i]) /\ ents[i].r = p
    BY <1>1 DEF ListInv, Cover
  <2>2. p # NoPath
    BY <1>1, PathsNonEmpty DEF ListInv
  <2>3. ~IsPair(ents[i])
    <3>1. SUFFICES ASSUME IsPair(ents[i]) PROVE FALSE
      OBVIOUS
    <3>2. <<ents[i].l, ents[i].r>> \in pairs
      BY <1>3, <3>1
    <3>3. p \in {m[2] : m \in pairs}
      BY <2>1, <3>2
    <3>4. QED
      BY <3>3
  <2>4. IsSingle("r", ents[i]) /\ ents[i] = Entry(ents[i].status, ents[i].flags, ents[i].l, ents[i].r)
    BY <1>1, <2>1, <2>2, <2>3, LiveEntry DEF IsBoth, IsSingle
  <2>5. ents[i] = Entry("RIGHT", {}, NoPath, p)
    BY <1>1, <2>1, <2>4 DEF IsSingle
  <2>6. QED
    BY <1>5, <2>1, <2>5
<1>12. Both \subseteq Entries /\ Moves \subseteq Entries /\ Lefts \subseteq Entries /\ Rights \subseteq Entries
  BY <1>8, <1>9, <1>10, <1>11
<1> HIDE DEF Both, Moves, Lefts, Rights
<1>13. QED
  BY <1>4, <1>5, <1>7, <1>12

-----------------------------------------------------------------------------
(* The comparison the other way round *)

\* Two files differ the other way round in the same things, with newer and older,
\* larger and smaller exchanged.
LEMMA SwapDifferences ==
  ASSUME NEW a, NEW b, IsNode(a), IsNode(b)
  PROVE  Differences(b, a) = {SwapFlag(f) : f \in Differences(a, b)}
<1>1. a.size \in Nat /\ b.size \in Nat /\ a.mtime \in Int /\ b.mtime \in Int
  BY DEF IsNode
<1>2. TimesDiffer(a, b) <=> TimesDiffer(b, a)
  BY <1>1 DEF TimesDiffer
<1>3. /\ "SMALLER" \in Differences(b, a) <=> "LARGER" \in Differences(a, b)
      /\ "LARGER" \in Differences(b, a) <=> "SMALLER" \in Differences(a, b)
  BY <1>1 DEF Differences, Details
<1>4. "ATTR" \in Differences(b, a) <=> "ATTR" \in Differences(a, b)
  BY <1>1 DEF Differences, Details
<1>5. /\ "OLDER" \in Differences(b, a) <=> "NEWER" \in Differences(a, b)
      /\ "NEWER" \in Differences(b, a) <=> "OLDER" \in Differences(a, b)
  BY <1>1, <1>2 DEF Differences, Details
<1>6. /\ SwapFlag("SMALLER") = "LARGER" /\ SwapFlag("LARGER") = "SMALLER" /\ SwapFlag("ATTR") = "ATTR"
      /\ SwapFlag("OLDER") = "NEWER" /\ SwapFlag("NEWER") = "OLDER"
  BY DEF SwapFlag, Exchanged
<1>7. Differences(a, b) \subseteq Details /\ Differences(b, a) \subseteq Details
  BY DEF Differences
<1>8. PICK D, E : D = Differences(a, b) /\ E = Differences(b, a)
  OBVIOUS
<1>9. \A f \in E : \E g \in D : f = SwapFlag(g)
  BY <1>3, <1>4, <1>5, <1>6, <1>7, <1>8 DEF Details
<1>10. \A g \in D : SwapFlag(g) \in E
  BY <1>3, <1>4, <1>5, <1>6, <1>7, <1>8 DEF Details
<1>11. QED
  BY <1>8, <1>9, <1>10

\* What a swapped view shows of an entry.
LEMMA InfoOf ==
  ASSUME NEW x, NEW f, NEW l, NEW r
  PROVE  Info(Entry(x, f, l, r), TRUE) = Entry(SwapStatus(x), {SwapFlag(g) : g \in f}, r, l)
BY DEF Info, Entry

\* The same of an entry without flags.
LEMMA InfoOfPlain ==
  ASSUME NEW x, NEW l, NEW r
  PROVE  Info(Entry(x, {}, l, r), TRUE) = Entry(SwapStatus(x), {}, r, l)
<1>1. PICK f : f = {}
  OBVIOUS
<1>2. {SwapFlag(g) : g \in f} = f
  BY <1>1
<1>3. QED
  BY <1>1, <1>2, InfoOf

\* A moved file is one from both sides.
LEMMA SwappedPairs ==
  ASSUME NEW l, NEW r, NEW a, NEW b
  PROVE  <<a, b>> \in Pairs(r, l) <=> <<b, a>> \in Pairs(l, r)
<1> DEFINE Only(t, u, k) == {p \in DOMAIN t \ DOMAIN u : Key(t[p], p) = k}
           keysL == {Key(l[p], p) : p \in DOMAIN l \ DOMAIN r}
           keysR == {Key(r[p], p) : p \in DOMAIN r \ DOMAIN l}
<1>1. /\ Pairs(l, r) = {<<First(Only(l, r, k)), First(Only(r, l, k))>> : k \in keysL \cap keysR}
      /\ Pairs(r, l) = {<<First(Only(r, l, k)), First(Only(l, r, k))>> : k \in keysR \cap keysL}
  BY DEF Pairs
<1> HIDE DEF Only, keysL, keysR
<1>2. /\ <<a, b>> \in Pairs(r, l) <=>
           \E k \in keysL \cap keysR : a = First(Only(r, l, k)) /\ b = First(Only(l, r, k))
      /\ <<b, a>> \in Pairs(l, r) <=>
           \E k \in keysL \cap keysR : b = First(Only(l, r, k)) /\ a = First(Only(r, l, k))
  BY <1>1
<1>3. QED
  BY <1>2

\* A moved file is a pair.
LEMMA PairsArePairs ==
  ASSUME NEW l, NEW r, NEW m \in Pairs(l, r)
  PROVE  m = <<m[1], m[2]>>
<1>1. \E a, b : m = <<a, b>>
  BY DEF Pairs
<1>2. QED
  BY <1>1

\* The difference of the trees exchanged is the difference seen from the other side.
LEMMA DifferenceReversed ==
  ASSUME NEW l, NEW r, \A p \in DOMAIN l : IsNode(l[p]), \A p \in DOMAIN r : IsNode(r[p])
  PROVE  Difference(r, l) = {Info(d, TRUE) : d \in Difference(l, r)}
<1> DEFINE Status(t, u, p) == IF Differences(t[p], u[p]) = {} THEN "EQ" ELSE "NEQ"
           Both(t, u) == {Entry(Status(t, u, p), Differences(t[p], u[p]), p, p) : p \in DOMAIN t \cap DOMAIN u}
           Moves(t, u) == {Entry("MOVE", {}, m[1], m[2]) : m \in Pairs(t, u)}
           Lefts(t, u) == {Entry("LEFT", {}, p, NoPath) : p \in DOMAIN t \ (DOMAIN u \cup {m[1] : m \in Pairs(t, u)})}
           Rights(t, u) == {Entry("RIGHT", {}, NoPath, p) : p \in DOMAIN u \ (DOMAIN t \cup {m[2] : m \in Pairs(t, u)})}
<1>1. \A t, u : Difference(t, u) = Both(t, u) \cup Moves(t, u) \cup Lefts(t, u) \cup Rights(t, u)
  BY DEF Difference
<1>2. /\ SwapStatus("LEFT") = "RIGHT" /\ SwapStatus("RIGHT") = "LEFT" /\ SwapStatus("MOVE") = "MOVE"
      /\ SwapStatus("EQ") = "EQ" /\ SwapStatus("NEQ") = "NEQ"
  BY DEF SwapStatus, Exchanged
<1>3. /\ {m[1] : m \in Pairs(r, l)} = {m[2] : m \in Pairs(l, r)}
      /\ {m[2] : m \in Pairs(r, l)} = {m[1] : m \in Pairs(l, r)}
  <2>1. \A m \in Pairs(r, l) : m = <<m[1], m[2]>> /\ <<m[2], m[1]>> \in Pairs(l, r)
    BY PairsArePairs, SwappedPairs
  <2>2. \A m \in Pairs(l, r) : m = <<m[1], m[2]>> /\ <<m[2], m[1]>> \in Pairs(r, l)
    BY PairsArePairs, SwappedPairs
  <2>3. \A m \in Pairs(r, l) : \E k \in Pairs(l, r) : k[1] = m[2] /\ k[2] = m[1]
    <3> TAKE m \in Pairs(r, l)
    <3>1. PICK k : k = <<m[2], m[1]>>
      OBVIOUS
    <3>2. k[1] = m[2] /\ k[2] = m[1]
      BY <3>1
    <3>3. k \in Pairs(l, r)
      BY <2>1, <3>1
    <3>4. QED
      BY <3>2, <3>3
  <2>4. \A m \in Pairs(l, r) : \E k \in Pairs(r, l) : k[1] = m[2] /\ k[2] = m[1]
    <3> TAKE m \in Pairs(l, r)
    <3>1. PICK k : k = <<m[2], m[1]>>
      OBVIOUS
    <3>2. k[1] = m[2] /\ k[2] = m[1]
      BY <3>1
    <3>3. k \in Pairs(r, l)
      BY <2>2, <3>1
    <3>4. QED
      BY <3>2, <3>3
  <2>5. {m[1] : m \in Pairs(r, l)} = {m[2] : m \in Pairs(l, r)}
    BY <2>3, <2>4
  <2>6. {m[2] : m \in Pairs(r, l)} = {m[1] : m \in Pairs(l, r)}
    BY <2>3, <2>4
  <2>7. QED
    BY <2>5, <2>6
<1>4. \A p \in DOMAIN l \cap DOMAIN r :
        Info(Entry(Status(l, r, p), Differences(l[p], r[p]), p, p), TRUE)
          = Entry(Status(r, l, p), Differences(r[p], l[p]), p, p)
  <2>1. ASSUME NEW p \in DOMAIN l \cap DOMAIN r
        PROVE  Info(Entry(Status(l, r, p), Differences(l[p], r[p]), p, p), TRUE)
                 = Entry(Status(r, l, p), Differences(r[p], l[p]), p, p)
    <3>1. PICK D, E, s, t : D = Differences(l[p], r[p]) /\ E = Differences(r[p], l[p])
                            /\ s = Status(l, r, p) /\ t = Status(r, l, p)
      OBVIOUS
    <3>2. E = {SwapFlag(g) : g \in D}
      BY <3>1, SwapDifferences
    <3>3. (E = {}) <=> (D = {})
      BY <3>2
    <3>4. SwapStatus(s) = t
      BY <1>2, <3>1, <3>3
    <3>5. Info(Entry(s, D, p, p), TRUE) = Entry(t, E, p, p)
      BY <3>2, <3>4, InfoOf
    <3>6. QED
      BY <3>1, <3>5
  <2>2. QED
    BY <2>1
<1>5. Both(r, l) = {Info(d, TRUE) : d \in Both(l, r)}
  BY <1>4
<1>6. Moves(r, l) = {Info(d, TRUE) : d \in Moves(l, r)}
  <2>0. \A a, b : Info(Entry("MOVE", {}, a, b), TRUE) = Entry("MOVE", {}, b, a)
    BY <1>2, InfoOfPlain
  <2>1. ASSUME NEW m \in Pairs(l, r) PROVE Info(Entry("MOVE", {}, m[1], m[2]), TRUE) \in Moves(r, l)
    <3>1. <<m[2], m[1]>> \in Pairs(r, l)
      BY PairsArePairs, SwappedPairs
    <3>2. Info(Entry("MOVE", {}, m[1], m[2]), TRUE) = Entry("MOVE", {}, m[2], m[1])
      BY <2>0
    <3>3. PICK n \in Pairs(r, l) : n[1] = m[2] /\ n[2] = m[1]
      BY <3>1
    <3>4. QED
      BY <3>2, <3>3
  <2>2. ASSUME NEW m \in Pairs(r, l) PROVE Entry("MOVE", {}, m[1], m[2]) \in {Info(d, TRUE) : d \in Moves(l, r)}
    <3>1. <<m[2], m[1]>> \in Pairs(l, r)
      BY PairsArePairs, SwappedPairs
    <3>2. Entry("MOVE", {}, m[1], m[2]) = Info(Entry("MOVE", {}, m[2], m[1]), TRUE)
      BY <2>0
    <3>3. PICK n \in Pairs(l, r) : n[1] = m[2] /\ n[2] = m[1]
      BY <3>1
    <3>4. QED
      BY <3>2, <3>3
  <2>3. QED
    BY <2>1, <2>2
<1>7. Rights(r, l) = {Info(d, TRUE) : d \in Lefts(l, r)}
  <2>1. \A p : Info(Entry("LEFT", {}, p, NoPath), TRUE) = Entry("RIGHT", {}, NoPath, p)
    BY <1>2, InfoOfPlain
  <2>2. PICK S : S = DOMAIN l \ (DOMAIN r \cup {m[1] : m \in Pairs(l, r)})
    OBVIOUS
  <2>3. Rights(r, l) = {Entry("RIGHT", {}, NoPath, p) : p \in S}
    BY <1>3, <2>2
  <2>4. Lefts(l, r) = {Entry("LEFT", {}, p, NoPath) : p \in S}
    BY <2>2
  <2> HIDE DEF Lefts, Rights
  <2>5. \A d \in Rights(r, l) : \E e \in Lefts(l, r) : d = Info(e, TRUE)
    BY <2>1, <2>3, <2>4
  <2>6. \A e \in Lefts(l, r) : Info(e, TRUE) \in Rights(r, l)
    BY <2>1, <2>3, <2>4
  <2>7. QED
    BY <2>5, <2>6
<1>8. Lefts(r, l) = {Info(d, TRUE) : d \in Rights(l, r)}
  <2>1. \A p : Info(Entry("RIGHT", {}, NoPath, p), TRUE) = Entry("LEFT", {}, p, NoPath)
    BY <1>2, InfoOfPlain
  <2>2. QED
    BY <1>3, <2>1
<1> HIDE DEF Both, Moves, Lefts, Rights
<1>9. QED
  BY <1>1, <1>5, <1>6, <1>7, <1>8

\* A swapped view that shows one status shows the entries of that status in the
\* difference of the trees exchanged.
LEMMA SwapIs ==
  ASSUME ListInv, Exact, walk = {}, NEW s \in Statuses
  PROVE  {Info(ents[i], TRUE) : i \in View({s, "DIR", "NEWER"}, TRUE)}
           = {d \in Difference(right, left) : d.status = s}
<1>1. Entries = Difference(left, right)
  BY EntriesAre
<1>2. Difference(right, left) = {Info(d, TRUE) : d \in Entries}
  BY <1>1, DifferenceReversed DEF ListInv, DiffTypes, GoodTree
<1>3. ASSUME NEW i \in 1 .. Len(ents)
      PROVE  Shown(ents[i], {s, "DIR", "NEWER"}, TRUE) <=> Live(ents[i]) /\ Info(ents[i], TRUE).status = s
  <2>1. ents[i].status \in Statuses /\ ents[i].flags \subseteq Details \cup {"SKIP"}
    BY ListTypes
  <2>2. Info(ents[i], TRUE).status \in Statuses /\ "DONE" \notin ents[i].flags
    BY <2>1 DEF Info, Entry, SwapStatus, Exchanged, Statuses, Details
  <2>3. "DIR" \notin Statuses /\ "NEWER" \notin Statuses
    BY DEF Statuses
  <2>4. QED
    BY <2>2, <2>3 DEF Shown, Live
<1>4. ASSUME NEW d
      PROVE  d \in {Info(ents[i], TRUE) : i \in View({s, "DIR", "NEWER"}, TRUE)} <=>
               \E i \in 1 .. Len(ents) : Live(ents[i]) /\ d = Info(ents[i], TRUE) /\ d.status = s
  BY <1>3 DEF View
<1>5. ASSUME NEW d
      PROVE  d \in {Info(e, TRUE) : e \in Entries} <=>
               \E i \in 1 .. Len(ents) : Live(ents[i]) /\ d = Info(ents[i], TRUE)
  BY DEF Entries, Live
<1>6. QED
  BY <1>2, <1>4, <1>5

-----------------------------------------------------------------------------
(* Paths *)

\* IsPrefix, name by name.
LEMMA PrefixIs ==
  ASSUME NEW s \in Seq(STRING), NEW t \in Seq(STRING)
  PROVE  IsPrefix(s, t) <=> Len(s) <= Len(t) /\ \A i \in 1 .. Len(s) : s[i] = t[i]
<1>1. Len(s) \in Nat /\ Len(t) \in Nat
  OBVIOUS
<1>2. CASE Len(s) <= Len(t)
  <2>1. PICK a, b : a = SubSeq(s, 1, Len(s)) /\ b = SubSeq(t, 1, Len(s))
    OBVIOUS
  <2>2. a \in Seq(STRING) /\ Len(a) = Len(s) /\ \A i \in 1 .. Len(s) : a[i] = s[i]
    BY <1>1, <2>1
  <2>3. b \in Seq(STRING) /\ Len(b) = Len(s) /\ \A i \in 1 .. Len(s) : b[i] = t[i]
    BY <1>1, <1>2, <2>1
  <2>4. a = b <=> \A i \in 1 .. Len(s) : a[i] = b[i]
    BY <2>2, <2>3, SeqEqual
  <2>5. QED
    BY <1>2, <2>1, <2>2, <2>3, <2>4 DEF IsPrefix
<1>3. CASE ~(Len(s) <= Len(t))
  BY <1>3 DEF IsPrefix
<1>4. QED
  BY <1>2, <1>3

\* A path has at least one name.
LEMMA PathLength ==
  ASSUME NEW p \in Paths
  PROVE  p \in Seq(STRING) /\ Len(p) \in Nat /\ Len(p) > 0
BY DEF Paths, NoPath

\* "Above or equal" is an order, and what is above one path is a chain.
LEMMA PrefixOrder ==
  ASSUME NEW a \in Paths, NEW b \in Paths, NEW c \in Paths
  PROVE  /\ IsPrefix(a, a)
         /\ IsPrefix(a, b) /\ IsPrefix(b, c) => IsPrefix(a, c)
         /\ IsPrefix(a, b) /\ IsPrefix(b, a) => a = b
         /\ IsPrefix(a, c) /\ IsPrefix(b, c) => IsPrefix(a, b) \/ IsPrefix(b, a)
<1>1. /\ a \in Seq(STRING) /\ b \in Seq(STRING) /\ c \in Seq(STRING)
      /\ Len(a) \in Nat /\ Len(b) \in Nat /\ Len(c) \in Nat
  BY PathLength
<1>2. IsPrefix(a, a)
  BY <1>1, PrefixIs
<1>3. IsPrefix(a, b) /\ IsPrefix(b, c) => IsPrefix(a, c)
  BY <1>1, PrefixIs
<1>4. IsPrefix(a, b) /\ IsPrefix(b, a) => a = b
  BY <1>1, PrefixIs, SeqEqual
<1>5. ASSUME IsPrefix(a, c), IsPrefix(b, c) PROVE IsPrefix(a, b) \/ IsPrefix(b, a)
  <2>1. /\ Len(a) <= Len(c) /\ \A i \in 1 .. Len(a) : a[i] = c[i]
        /\ Len(b) <= Len(c) /\ \A i \in 1 .. Len(b) : b[i] = c[i]
    BY <1>1, <1>5, PrefixIs
  <2>2. CASE Len(a) <= Len(b)
    BY <1>1, <2>1, <2>2, PrefixIs
  <2>3. CASE Len(b) <= Len(a)
    BY <1>1, <2>1, <2>3, PrefixIs
  <2>4. QED
    BY <1>1, <2>2, <2>3
<1>6. QED
  BY <1>2, <1>3, <1>4, <1>5

\* The parents of a path are the paths above it.
LEMMA ParentsAre ==
  ASSUME NEW p \in Paths, NEW d
  PROVE  d \in Parents(p) <=> d \in Paths /\ IsPrefix(d, p) /\ d # p
<1>1. p \in Seq(STRING) /\ Len(p) \in Nat
  BY PathLength
<1>2. ASSUME d \in Parents(p) PROVE d \in Paths /\ IsPrefix(d, p) /\ d # p
  <2>1. PICK n \in 0 .. Len(p) : d = SubSeq(p, 1, n)
    BY <1>2 DEF Parents, Prefixes
  <2>2. d \in Seq(STRING) /\ Len(d) = n /\ \A i \in 1 .. n : d[i] = p[i]
    BY <1>1, <2>1
  <2>3. IsPrefix(d, p)
    BY <1>1, <2>2, PrefixIs
  <2>4. QED
    BY <1>2, <2>2, <2>3 DEF Parents, Paths
<1>3. ASSUME d \in Paths, IsPrefix(d, p), d # p PROVE d \in Parents(p)
  <2>1. d \in Seq(STRING) /\ Len(d) \in Nat /\ Len(d) <= Len(p) /\ \A i \in 1 .. Len(d) : d[i] = p[i]
    BY <1>1, <1>3, PathLength, PrefixIs
  <2>2. PICK e : e = SubSeq(p, 1, Len(d))
    OBVIOUS
  <2>3. e \in Seq(STRING) /\ Len(e) = Len(d) /\ \A i \in 1 .. Len(d) : e[i] = p[i]
    BY <1>1, <2>1, <2>2
  <2>4. d = e
    BY <2>1, <2>3, SeqEqual
  <2>5. d \in Prefixes(p)
    BY <1>1, <2>1, <2>2, <2>4 DEF Prefixes
  <2>6. QED
    BY <1>3, <2>5 DEF Parents, Paths
<1>4. QED
  BY <1>2, <1>3

\* In a tree a path has all directories above it.
LEMMA TreeAbove ==
  ASSUME NEW t, IsTree(t), NEW p \in DOMAIN t, p \in Paths, NEW d \in Paths, IsPrefix(d, p)
  PROVE  d \in DOMAIN t /\ (d # p => t[d].dir)
BY ParentsAre DEF IsTree

\* A path below "old" at its place below "new".
Rebased(old, new, q) == new \o SubSeq(q, Len(old) + 1, Len(q))

\* Its names are those of "new" and then its own.
LEMMA RebasedIs ==
  ASSUME NEW old \in Paths, NEW new \in Paths, NEW q \in Paths, IsPrefix(old, q)
  PROVE  /\ Rebased(old, new, q) \in Paths /\ IsPrefix(new, Rebased(old, new, q))
         /\ Len(Rebased(old, new, q)) = Len(new) + Len(q) - Len(old)
         /\ \A i \in 1 .. Len(Rebased(old, new, q)) :
              Rebased(old, new, q)[i] = IF i <= Len(new) THEN new[i] ELSE q[i - Len(new) + Len(old)]
<1>1. /\ old \in Seq(STRING) /\ new \in Seq(STRING) /\ q \in Seq(STRING)
      /\ Len(old) \in Nat /\ Len(new) \in Nat /\ Len(q) \in Nat /\ Len(new) > 0
      /\ Len(old) <= Len(q)
  BY PathLength, PrefixIs
<1>2. PICK x, y : x = SubSeq(q, Len(old) + 1, Len(q)) /\ y = new \o x
  OBVIOUS
<1>3. /\ x \in Seq(STRING) /\ Len(x) = Len(q) - Len(old)
      /\ \A i \in 1 .. Len(x) : x[i] = q[Len(old) + i]
  BY <1>1, <1>2
<1>4. /\ y \in Seq(STRING) /\ Len(y) = Len(new) + Len(x)
      /\ \A i \in 1 .. Len(new) + Len(x) : y[i] = IF i <= Len(new) THEN new[i] ELSE x[i - Len(new)]
  <2>1. /\ new \o x \in Seq(STRING) /\ Len(new \o x) = Len(new) + Len(x)
        /\ \A i \in 1 .. Len(new) + Len(x) : (new \o x)[i] = IF i <= Len(new) THEN new[i] ELSE x[i - Len(new)]
    BY ONLY <1>1, <1>3, ConcatProperties
  <2>2. QED
    BY <1>2, <2>1
<1>5. y \in Paths
  BY <1>1, <1>3, <1>4 DEF Paths, NoPath
<1>6. IsPrefix(new, y)
  <2>1. Len(new) <= Len(y)
    BY <1>1, <1>3, <1>4
  <2>2. ASSUME NEW i \in 1 .. Len(new) PROVE new[i] = y[i]
    <3>1. i \in 1 .. Len(new) + Len(x) /\ i <= Len(new)
      BY <1>1, <1>3
    <3>2. QED
      BY <1>4, <3>1
  <2>3. QED
    BY <1>1, <1>4, <2>1, <2>2, PrefixIs
<1>7. ASSUME NEW i \in 1 .. Len(y) PROVE y[i] = IF i <= Len(new) THEN new[i] ELSE q[i - Len(new) + Len(old)]
  <2>1. CASE i <= Len(new)
    BY <1>1, <1>3, <1>4, <2>1
  <2>2. CASE ~(i <= Len(new))
    <3>0. i \in 1 .. Len(new) + Len(x)
      BY <1>4, <1>7
    <3>1. i - Len(new) \in 1 .. Len(x) /\ y[i] = x[i - Len(new)]
      <4>1. y[i] = x[i - Len(new)]
        BY <1>4, <2>2, <3>0
      <4>2. i - Len(new) \in 1 .. Len(x)
        BY <1>1, <1>3, <2>2, <3>0
      <4>3. QED
        BY <4>1, <4>2
    <3>2. x[i - Len(new)] = q[Len(old) + (i - Len(new))]
      BY <1>3, <3>1
    <3>3. Len(old) + (i - Len(new)) = i - Len(new) + Len(old)
      BY <1>1, <3>1
    <3>4. QED
      BY <2>2, <3>1, <3>2, <3>3
  <2>3. QED
    BY <2>1, <2>2
<1>8. y = Rebased(old, new, q)
  BY <1>2 DEF Rebased
<1>9. QED
  BY <1>1, <1>3, <1>4, <1>5, <1>6, <1>7, <1>8

\* Moving it back gives the path again.
LEMMA RebasedBack ==
  ASSUME NEW old \in Paths, NEW new \in Paths, NEW q \in Paths, IsPrefix(old, q)
  PROVE  Rebased(new, old, Rebased(old, new, q)) = q
<1>1. PICK y : y = Rebased(old, new, q)
  OBVIOUS
<1>2. /\ y \in Paths /\ IsPrefix(new, y) /\ Len(y) = Len(new) + Len(q) - Len(old)
      /\ \A i \in 1 .. Len(y) : y[i] = IF i <= Len(new) THEN new[i] ELSE q[i - Len(new) + Len(old)]
  BY <1>1, RebasedIs
<1>3. PICK z : z = Rebased(new, old, y)
  OBVIOUS
<1>4. /\ z \in Paths /\ Len(z) = Len(old) + Len(y) - Len(new)
      /\ \A i \in 1 .. Len(z) : z[i] = IF i <= Len(old) THEN old[i] ELSE y[i - Len(old) + Len(new)]
  BY <1>2, <1>3, RebasedIs
<1>5. /\ Len(old) \in Nat /\ Len(new) \in Nat /\ Len(q) \in Nat /\ q \in Seq(STRING) /\ z \in Seq(STRING)
      /\ Len(old) <= Len(q) /\ \A i \in 1 .. Len(old) : old[i] = q[i]
  BY <1>4, PathLength, PrefixIs
<1>6. Len(z) = Len(q)
  BY <1>2, <1>4, <1>5
<1>7. ASSUME NEW i \in 1 .. Len(z) PROVE z[i] = q[i]
  <2>1. CASE i <= Len(old)
    BY <1>4, <1>5, <1>7, <2>1
  <2>2. CASE ~(i <= Len(old))
    <3>1. /\ i - Len(old) + Len(new) \in 1 .. Len(y) /\ ~(i - Len(old) + Len(new) <= Len(new))
          /\ (i - Len(old) + Len(new)) - Len(new) + Len(old) = i
      BY <1>2, <1>5, <1>6, <1>7, <2>2
    <3>2. y[i - Len(old) + Len(new)] = q[(i - Len(old) + Len(new)) - Len(new) + Len(old)]
      BY <1>2, <3>1
    <3>3. QED
      BY <1>4, <1>7, <2>2, <3>1, <3>2
  <2>3. QED
    BY <2>1, <2>2
<1>8. QED
  BY <1>1, <1>3, <1>5, <1>6, <1>7, SeqEqual

\* What is above it stays above it.
LEMMA RebasedPrefix ==
  ASSUME NEW old \in Paths, NEW new \in Paths, NEW d \in Paths, NEW q \in Paths,
         IsPrefix(old, d), IsPrefix(d, q)
  PROVE  /\ IsPrefix(Rebased(old, new, d), Rebased(old, new, q))
         /\ d # q => Rebased(old, new, d) # Rebased(old, new, q)
<1>1. IsPrefix(old, q)
  BY PrefixOrder
<1>2. PICK x, y : x = Rebased(old, new, d) /\ y = Rebased(old, new, q)
  OBVIOUS
<1>3. /\ x \in Paths /\ Len(x) = Len(new) + Len(d) - Len(old)
      /\ \A i \in 1 .. Len(x) : x[i] = IF i <= Len(new) THEN new[i] ELSE d[i - Len(new) + Len(old)]
  <2>1. /\ Rebased(old, new, d) \in Paths /\ Len(Rebased(old, new, d)) = Len(new) + Len(d) - Len(old)
        /\ \A i \in 1 .. Len(Rebased(old, new, d)) :
              Rebased(old, new, d)[i] = IF i <= Len(new) THEN new[i] ELSE d[i - Len(new) + Len(old)]
    BY RebasedIs
  <2>2. QED
    BY <1>2, <2>1
<1>4. /\ y \in Paths /\ Len(y) = Len(new) + Len(q) - Len(old)
      /\ \A i \in 1 .. Len(y) : y[i] = IF i <= Len(new) THEN new[i] ELSE q[i - Len(new) + Len(old)]
  <2>1. /\ Rebased(old, new, q) \in Paths /\ Len(Rebased(old, new, q)) = Len(new) + Len(q) - Len(old)
        /\ \A i \in 1 .. Len(Rebased(old, new, q)) :
              Rebased(old, new, q)[i] = IF i <= Len(new) THEN new[i] ELSE q[i - Len(new) + Len(old)]
    BY <1>1, RebasedIs
  <2>2. QED
    BY <1>2, <2>1
<1>5. /\ Len(old) \in Nat /\ Len(new) \in Nat /\ Len(d) \in Nat /\ Len(q) \in Nat
      /\ Len(d) <= Len(q) /\ Len(old) <= Len(d) /\ \A i \in 1 .. Len(d) : d[i] = q[i]
  BY PathLength, PrefixIs
<1>6. Len(x) <= Len(y)
  BY <1>3, <1>4, <1>5
<1>7. ASSUME NEW i \in 1 .. Len(x) PROVE x[i] = y[i]
  <2>1. i \in 1 .. Len(y)
    BY <1>3, <1>4, <1>5
  <2>2. CASE i <= Len(new)
    BY <1>3, <1>4, <1>7, <2>1, <2>2
  <2>3. CASE ~(i <= Len(new))
    <3>1. i - Len(new) + Len(old) \in 1 .. Len(d)
      BY <1>3, <1>5, <1>7, <2>3
    <3>2. QED
      BY <1>3, <1>4, <1>5, <1>7, <2>1, <2>3, <3>1
  <2>4. QED
    BY <2>2, <2>3
<1>8. IsPrefix(x, y)
  BY <1>3, <1>4, <1>6, <1>7, PathLength, PrefixIs
<1>9. d # q => x # y
  BY <1>1, <1>2, RebasedBack
<1>10. QED
  BY <1>2, <1>8, <1>9

-----------------------------------------------------------------------------
(* Trees *)

\* The target while it is changed: paths the walk does not know may be made.
PathTree(t) == IsTree(t) /\ DOMAIN t \subseteq Paths

\* What a scan gives is a tree of paths.
LEMMA GoodTreePaths ==
  ASSUME NEW t, GoodTree(t)
  PROVE  PathTree(t)
<1>1. ASSUME NEW p \in DOMAIN t PROVE p \in Paths
  <2>1. PICK i \in DOMAIN Walk : p = Walk[i]
    BY DEF GoodTree, ToSet
  <2>2. QED
    BY <2>1, WalkAssumption
<1>2. QED
  BY <1>1 DEF GoodTree, PathTree

\* A tree without a path and all that is in it.
LEMMA WithoutIs ==
  ASSUME NEW t, PathTree(t), NEW p \in Paths
  PROVE  /\ PathTree(Without(t, p))
         /\ p \notin DOMAIN Without(t, p)
         /\ DOMAIN Without(t, p) \subseteq DOMAIN t
         /\ \A q \in DOMAIN t : ~IsPrefix(p, q) => q \in DOMAIN Without(t, p) /\ Without(t, p)[q] = t[q]
<1>1. PICK u : u = Without(t, p)
  OBVIOUS
<1>2. /\ DOMAIN u = {q \in DOMAIN t : ~IsPrefix(p, q)}
      /\ \A q \in DOMAIN u : u[q] = t[q]
  BY <1>1 DEF Without, Restricted, Within
<1>3. DOMAIN u \subseteq Paths
  BY <1>2 DEF PathTree
<1>4. ASSUME NEW q \in DOMAIN u, NEW d \in Parents(q) PROVE d \in DOMAIN u /\ u[d].dir
  <2>1. q \in DOMAIN t /\ q \in Paths /\ d \in Paths /\ IsPrefix(d, q) /\ d # q /\ ~IsPrefix(p, q)
    BY <1>2, <1>3, <1>4, ParentsAre
  <2>2. d \in DOMAIN t /\ t[d].dir
    BY <2>1, TreeAbove DEF PathTree
  <2>3. ~IsPrefix(p, d)
    BY <2>1, PrefixOrder
  <2>4. QED
    BY <1>2, <2>2, <2>3
<1>5. IsPrefix(p, p)
  BY PrefixOrder
<1>6. PathTree(u)
  BY <1>3, <1>4 DEF PathTree, IsTree
<1>7. QED
  BY <1>1, <1>2, <1>5, <1>6

\* Missing parents are made, and nothing else changes.
LEMMA WithParentsIs ==
  ASSUME NEW t, PathTree(t), NEW p \in Paths, ~Blocked(t, p)
  PROVE  /\ PathTree(WithParents(t, p))
         /\ DOMAIN WithParents(t, p) = DOMAIN t \cup Parents(p)
         /\ \A q \in DOMAIN t : WithParents(t, p)[q] = t[q]
         /\ \A d \in Parents(p) : WithParents(t, p)[d].dir
<1>1. PICK u : u = WithParents(t, p)
  OBVIOUS
<1>2. DOMAIN u = DOMAIN t \cup Parents(p) /\ \A q \in DOMAIN u : u[q] = IF q \in DOMAIN t THEN t[q] ELSE NewDir
  BY <1>1 DEF WithParents
<1>3. \A d \in Parents(p) : d \in DOMAIN t => t[d].dir
  BY DEF Blocked
<1>4. NewDir.dir
  BY DEF NewDir
<1>5. \A d \in Parents(p) : d \in Paths /\ u[d].dir
  BY <1>2, <1>3, <1>4, ParentsAre
<1>6. ASSUME NEW q \in DOMAIN u, NEW d \in Parents(q) PROVE d \in DOMAIN u /\ u[d].dir
  <2>1. q \in Paths /\ d \in Paths /\ IsPrefix(d, q) /\ d # q
    BY <1>2, <1>5, <1>6, ParentsAre DEF PathTree
  <2>2. CASE q \in DOMAIN t
    BY <1>2, <2>1, <2>2, TreeAbove DEF PathTree
  <2>3. CASE q \in Parents(p)
    <3>1. IsPrefix(q, p) /\ q # p
      BY <2>3, ParentsAre
    <3>2. IsPrefix(d, p) /\ d # p
      BY <2>1, <3>1, PrefixOrder
    <3>3. d \in Parents(p)
      BY <2>1, <3>2, ParentsAre
    <3>4. QED
      BY <1>2, <1>5, <3>3
  <2>4. QED
    BY <1>2, <2>2, <2>3
<1>7. PathTree(u)
  BY <1>2, <1>5, <1>6 DEF PathTree, IsTree
<1>8. QED
  BY <1>1, <1>2, <1>5, <1>7

\* A path that is not a directory with something in it may get a new node.
LEMMA PutIs ==
  ASSUME NEW t, PathTree(t), NEW p \in Paths, NEW n, ~Blocked(t, p),
         p \in DOMAIN t => ~t[p].dir
  PROVE  LET u == Put(WithParents(t, p), p, n) IN
         /\ PathTree(u) /\ DOMAIN u = DOMAIN t \cup Parents(p) \cup {p}
         /\ u[p] = n /\ \A q \in DOMAIN t : q # p => u[q] = t[q]
<1> DEFINE w == WithParents(t, p)
<1>1. PICK u : u = Put(w, p, n)
  OBVIOUS
<1>2. /\ PathTree(w) /\ DOMAIN w = DOMAIN t \cup Parents(p)
      /\ (\A q \in DOMAIN t : w[q] = t[q]) /\ \A d \in Parents(p) : w[d].dir
  BY WithParentsIs
<1> HIDE DEF w
<1>3. DOMAIN u = DOMAIN w \cup {p} /\ \A q \in DOMAIN u : u[q] = IF q = p THEN n ELSE w[q]
  BY <1>1 DEF Put
<1>4. p \notin Parents(p)
  BY ParentsAre
<1>5. p \in DOMAIN w => ~w[p].dir
  BY <1>2, <1>4
<1>6. ASSUME NEW q \in DOMAIN u, NEW d \in Parents(q) PROVE d \in DOMAIN u /\ u[d].dir
  <2>1. CASE q = p
    BY <1>2, <1>3, <1>4, <1>6, <2>1
  <2>2. CASE q # p
    <3>1. q \in DOMAIN w
      BY <1>3, <2>2
    <3>2. d \in DOMAIN w /\ w[d].dir
      BY <1>2, <1>6, <3>1 DEF PathTree, IsTree
    <3>3. QED
      BY <1>3, <1>5, <3>2
  <2>3. QED
    BY <2>1, <2>2
<1>7. PathTree(u)
  BY <1>2, <1>3, <1>6 DEF PathTree, IsTree
<1>8. QED
  BY <1>1, <1>2, <1>3, <1>7 DEF w

\* rename() of something to a place that is free and not below itself.
LEMMA RenamedIs ==
  ASSUME NEW t, PathTree(t), NEW old \in Paths, NEW new \in Paths, old \in DOMAIN t, new \notin DOMAIN t,
         Parents(new) \subseteq DOMAIN t, \A d \in Parents(new) : t[d].dir, ~IsPrefix(old, new)
  PROVE  LET u == Renamed(t, old, new) IN
         /\ PathTree(u)
         /\ \A q \in DOMAIN t : ~IsPrefix(old, q) => q \in DOMAIN u /\ u[q] = t[q]
         /\ \A q \in DOMAIN u : q \in DOMAIN t \/ IsPrefix(new, q)
<1> DEFINE Old(q) == Rebased(new, old, q)
           new_paths == {Rebased(old, new, q) : q \in {x \in DOMAIN t : IsPrefix(old, x)}}
           kept == DOMAIN t \ {q \in DOMAIN t : IsPrefix(old, q)}
<1>1. PICK u : u = Renamed(t, old, new)
  OBVIOUS
<1>2. /\ DOMAIN u = kept \cup new_paths
      /\ \A q \in DOMAIN u : u[q] = IF q \in new_paths THEN t[Old(q)] ELSE t[q]
  BY <1>1 DEF Renamed, Rebased, Within
<1>3. DOMAIN t \subseteq Paths
  BY DEF PathTree
<1>4. ASSUME NEW q \in new_paths
      PROVE  q \in Paths /\ IsPrefix(new, q) /\ Old(q) \in DOMAIN t /\ IsPrefix(old, Old(q)) /\ Rebased(old, new, Old(q)) = q
  <2>1. PICK x \in DOMAIN t : IsPrefix(old, x) /\ q = Rebased(old, new, x)
    BY <1>4
  <2>2. x \in Paths /\ q \in Paths /\ IsPrefix(new, q) /\ Old(q) = x
    BY <1>3, <2>1, RebasedIs, RebasedBack
  <2>3. QED
    BY <2>1, <2>2
<1>5. ASSUME NEW q \in DOMAIN t, IsPrefix(new, q) PROVE FALSE
  BY <1>3, <1>5, TreeAbove DEF PathTree
<1>6. kept \cap new_paths = {}
  BY <1>4, <1>5
<1>7. \A q : q \in kept <=> q \in DOMAIN t /\ ~IsPrefix(old, q)
  OBVIOUS
<1>8. \A x \in DOMAIN t : IsPrefix(old, x) => Rebased(old, new, x) \in new_paths
  OBVIOUS
<1> HIDE DEF kept, new_paths, Old
<1>9. \A q \in kept : u[q] = t[q]
  BY <1>2, <1>6
<1>10. ASSUME NEW q \in DOMAIN u, NEW d \in Parents(q) PROVE d \in DOMAIN u /\ u[d].dir
  <2>1. CASE q \in kept
    <3>1. q \in DOMAIN t /\ q \in Paths /\ ~IsPrefix(old, q) /\ d \in Paths /\ IsPrefix(d, q) /\ d # q
      BY <1>3, <1>7, <1>10, <2>1, ParentsAre
    <3>2. d \in DOMAIN t /\ t[d].dir
      BY <3>1, TreeAbove DEF PathTree
    <3>3. ~IsPrefix(old, d)
      BY <3>1, PrefixOrder
    <3>4. d \in kept
      BY <1>7, <3>2, <3>3
    <3>5. QED
      BY <1>2, <1>9, <3>2, <3>4
  <2>2. CASE q \in new_paths
    <3>1. q \in Paths /\ IsPrefix(new, q) /\ Old(q) \in DOMAIN t /\ IsPrefix(old, Old(q)) /\ Rebased(old, new, Old(q)) = q
      BY <1>4, <2>2
    <3>2. d \in Paths /\ IsPrefix(d, q) /\ d # q
      BY <1>10, <3>1, ParentsAre
    <3>3. CASE IsPrefix(d, new) /\ d # new
      <4>1. d \in Parents(new)
        BY <3>2, <3>3, ParentsAre
      <4>2. d \in DOMAIN t /\ t[d].dir
        BY <4>1
      <4>3. ~IsPrefix(old, d)
        BY <3>2, <3>3, PrefixOrder
      <4>4. d \in kept
        BY <1>7, <4>2, <4>3
      <4>5. QED
        BY <1>2, <1>9, <4>2, <4>4
    <3>4. CASE IsPrefix(new, d)
      <4>1. PICK x, y : x = Old(q) /\ y = Old(d)
        OBVIOUS
      <4>2. x \in DOMAIN t /\ x \in Paths
        BY <1>3, <3>1, <4>1
      <4>3. IsPrefix(y, x) /\ y # x /\ y \in Paths /\ IsPrefix(old, y) /\ Rebased(old, new, y) = d
        <5>1. x = Rebased(new, old, q) /\ y = Rebased(new, old, d)
          BY <4>1 DEF Old
        <5>2. IsPrefix(y, x) /\ y # x
          BY <3>1, <3>2, <3>4, <5>1, RebasedPrefix
        <5>3. y \in Paths /\ IsPrefix(old, y)
          BY <3>2, <3>4, <5>1, RebasedIs
        <5>4. Rebased(old, new, y) = d
          BY <3>2, <3>4, <5>1, RebasedBack
        <5>5. QED
          BY <5>2, <5>3, <5>4
      <4>4. y \in DOMAIN t /\ t[y].dir
        BY <4>2, <4>3, TreeAbove DEF PathTree
      <4>5. d \in new_paths
        BY <1>8, <4>3, <4>4
      <4>6. QED
        BY <1>2, <4>1, <4>4, <4>5
    <3>5. QED
      BY <3>1, <3>2, <3>3, <3>4, PrefixOrder
  <2>3. QED
    BY <1>2, <2>1, <2>2
<1>11. PathTree(u)
  BY <1>2, <1>3, <1>4, <1>7, <1>10 DEF PathTree, IsTree
<1>12. QED
  BY <1>1, <1>2, <1>4, <1>7, <1>9, <1>11

\* file_move() makes the parents, and moves what there is if the place is free.
LEMMA MovedIs ==
  ASSUME NEW t, PathTree(t), NEW old, NEW new \in Paths,
         old \in DOMAIN t => ~IsPrefix(old, new)
  PROVE  LET u == Moved(t, old, new) IN
         /\ PathTree(u)
         /\ \A q \in DOMAIN t : old \notin DOMAIN t \/ ~IsPrefix(old, q) => q \in DOMAIN u /\ u[q] = t[q]
         /\ \A q \in DOMAIN u : q \in DOMAIN t \/ q \in Parents(new) \/ (old \in DOMAIN t /\ IsPrefix(new, q))
<1> DEFINE w == WithParents(t, new)
<1>1. PICK u : u = Moved(t, old, new)
  OBVIOUS
<1>2. u = IF new \in DOMAIN t \/ Blocked(t, new) THEN t
          ELSE IF old \in DOMAIN t THEN Renamed(w, old, new)
          ELSE w
  BY <1>1 DEF Moved
<1> HIDE DEF w
<1>3. CASE new \in DOMAIN t \/ Blocked(t, new)
  BY <1>1, <1>2, <1>3
<1>4. CASE new \notin DOMAIN t /\ ~Blocked(t, new)
  <2>1. /\ PathTree(w) /\ DOMAIN w = DOMAIN t \cup Parents(new)
        /\ (\A q \in DOMAIN t : w[q] = t[q]) /\ \A d \in Parents(new) : w[d].dir
    BY <1>4, WithParentsIs DEF w
  <2>2. CASE old \notin DOMAIN t
    BY <1>1, <1>2, <1>4, <2>1, <2>2
  <2>3. CASE old \in DOMAIN t
    <3>1. old \in Paths /\ old \in DOMAIN w /\ new \notin DOMAIN w /\ ~IsPrefix(old, new) /\ Parents(new) \subseteq DOMAIN w
      BY <1>4, <2>1, <2>3, ParentsAre DEF PathTree
    <3>2. u = Renamed(w, old, new)
      BY <1>2, <1>4, <2>3
    <3>3. /\ PathTree(u)
          /\ \A q \in DOMAIN w : ~IsPrefix(old, q) => q \in DOMAIN u /\ u[q] = w[q]
          /\ \A q \in DOMAIN u : q \in DOMAIN w \/ IsPrefix(new, q)
      BY <2>1, <3>1, <3>2, RenamedIs
    <3>4. QED
      BY <1>1, <2>1, <2>3, <3>3
  <2>4. QED
    BY <2>2, <2>3
<1>5. QED
  BY <1>3, <1>4

-----------------------------------------------------------------------------
(* What a scan makes of a tree *)

\* A directory that cannot be read looks empty.
LEMMA UnreadableIs ==
  ASSUME NEW t, GoodTree(t), NEW p \in Paths
  PROVE  /\ GoodTree(Unreadable(t, p))
         /\ \A q \in DOMAIN Unreadable(t, p) : q \in DOMAIN t /\ Unreadable(t, p)[q] = t[q]
         /\ \A q \in DOMAIN Unreadable(t, p) : IsPrefix(p, q) => q = p
         /\ p \in DOMAIN t => p \in DOMAIN Unreadable(t, p)
<1>1. PICK u : u = Unreadable(t, p)
  OBVIOUS
<1>2. /\ \A q : q \in DOMAIN u <=> q \in DOMAIN t /\ (IsPrefix(p, q) => q = p)
      /\ \A q \in DOMAIN u : u[q] = t[q]
  BY <1>1 DEF Unreadable, Restricted, Below, Within
<1>3. PathTree(t)
  BY GoodTreePaths
<1>4. ASSUME NEW q \in DOMAIN u, NEW d \in Parents(q) PROVE d \in DOMAIN u /\ u[d].dir
  <2>1. q \in DOMAIN t /\ q \in Paths /\ d \in Paths /\ IsPrefix(d, q) /\ d # q
    BY <1>2, <1>3, <1>4, ParentsAre DEF PathTree
  <2>2. d \in DOMAIN t /\ t[d].dir
    BY <1>3, <2>1, TreeAbove DEF PathTree
  <2>3. ASSUME IsPrefix(p, d) PROVE d = p
    <3>1. IsPrefix(p, q)
      BY <2>1, <2>3, PrefixOrder
    <3>2. q = p
      BY <1>2, <3>1
    <3>3. QED
      BY <2>1, <2>3, <3>2, PrefixOrder
  <2>4. QED
    BY <1>2, <2>2, <2>3
<1>5. GoodTree(u)
  BY <1>2, <1>4 DEF GoodTree, IsTree
<1>6. QED
  BY <1>1, <1>2, <1>5

\* Whatever a scan misses, what it gives is a tree.
LEMMA MisreadIs ==
  ASSUME NEW t, GoodTree(t), NEW u \in Misread(t)
  PROVE  GoodTree(u)
<1>1. CASE u = NoTree
  BY <1>1 DEF NoTree, GoodTree, IsTree
<1>2. ASSUME NEW p \in DOMAIN t, u = Unreadable(t, p) PROVE GoodTree(u)
  BY <1>2, UnreadableIs, GoodTreePaths DEF PathTree
<1>3. ASSUME NEW p \in DOMAIN t, u = Unknown(t, p) PROVE GoodTree(u)
  <2>1. PICK v, n : /\ v = Unreadable(t, p)
                    /\ n = [dir |-> FALSE, size |-> 0, mtime |-> 0, attr |-> 0, data |-> "unknown"]
    OBVIOUS
  <2>2. u = [v EXCEPT ![p] = n]
    BY <1>3, <2>1 DEF Unknown
  <2>3. /\ GoodTree(v) /\ p \in DOMAIN v /\ p \in Paths
        /\ \A q \in DOMAIN v : IsPrefix(p, q) => q = p
    BY <2>1, UnreadableIs, GoodTreePaths DEF PathTree
  <2>4. DOMAIN u = DOMAIN v /\ u[p] = n /\ \A q \in DOMAIN v : q # p => u[q] = v[q]
    BY <2>2, <2>3
  <2>5. IsNode(n)
    BY <2>1 DEF IsNode
  <2>6. ASSUME NEW q \in DOMAIN u, NEW d \in Parents(q) PROVE d \in DOMAIN u /\ u[d].dir
    <3>1. d \in DOMAIN v /\ v[d].dir
      BY <2>3, <2>4, <2>6 DEF GoodTree, IsTree
    <3>2. q \in Paths /\ IsPrefix(d, q) /\ d # q
      BY <2>3, <2>4, <2>6, GoodTreePaths, ParentsAre DEF PathTree
    <3>3. d # p
      BY <2>3, <2>4, <3>2
    <3>4. QED
      BY <2>4, <3>1, <3>3
  <2>7. QED
    BY <2>3, <2>4, <2>5, <2>6 DEF GoodTree, IsTree
<1>4. QED
  BY <1>1, <1>2, <1>3 DEF Misread

-----------------------------------------------------------------------------
(* What a copy makes of the target *)

\* A copy that ends well: the file is there, its parents are, and nothing else changed.
LEMMA CopiedIs ==
  ASSUME PathTree(dst), NEW p \in Paths, NEW overwrite \in BOOLEAN, CanCopy(p, overwrite)
  PROVE  /\ PathTree(Copied(p))
         /\ p \in DOMAIN Copied(p) /\ (~src[p].dir => Copied(p)[p] = src[p])
         /\ \A q \in DOMAIN dst : q # p \/ ~overwrite => q \in DOMAIN Copied(p) /\ Copied(p)[q] = dst[q]
         /\ \A q \in DOMAIN Copied(p) : q \in DOMAIN dst \/ q \in Parents(p) \/ q = p
<1>1. CASE src[p].dir /\ p \in DOMAIN dst
  <2>1. Copied(p) = dst
    BY <1>1 DEF Copied
  <2>2. QED
    BY <1>1, <2>1
<1>2. CASE ~(src[p].dir /\ p \in DOMAIN dst)
  <2>1. PICK n : n = IF src[p].dir THEN NewDir ELSE src[p]
    OBVIOUS
  <2>2. ~Blocked(dst, p) /\ (p \in DOMAIN dst => overwrite /\ ~dst[p].dir)
    BY <1>2 DEF CanCopy
  <2>3. Copied(p) = Put(WithParents(dst, p), p, n)
    BY <1>2, <2>1 DEF Copied
  <2>4. PICK u : u = Put(WithParents(dst, p), p, n)
    OBVIOUS
  <2>5. /\ PathTree(u) /\ DOMAIN u = DOMAIN dst \cup Parents(p) \cup {p}
        /\ u[p] = n /\ \A q \in DOMAIN dst : q # p => u[q] = dst[q]
    BY <2>2, <2>4, PutIs
  <2>6. QED
    BY <2>1, <2>2, <2>3, <2>4, <2>5
<1>3. QED
  BY <1>1, <1>2

\* A copy that fails leaves a tree, and without "overwrite" everything that was there.
LEMMA CopyFailedIs ==
  ASSUME PathTree(dst), NEW p \in Paths, NEW overwrite \in BOOLEAN, NEW u,
         \/ u = dst
         \/ ~Blocked(dst, p) /\ u = WithParents(dst, p)
         \/ /\ ~src[p].dir /\ CanCopy(p, overwrite)
            /\ \/ u = Without(dst, p)
               \/ u = Put(WithParents(dst, p), p, Emptied(src[p]))
  PROVE  /\ PathTree(u)
         /\ ~overwrite => \A q \in DOMAIN dst : q \in DOMAIN u /\ u[q] = dst[q]
<1>1. CASE u = dst
  BY <1>1
<1>2. CASE ~Blocked(dst, p) /\ u = WithParents(dst, p)
  <2>1. /\ PathTree(WithParents(dst, p)) /\ DOMAIN WithParents(dst, p) = DOMAIN dst \cup Parents(p)
        /\ \A q \in DOMAIN dst : WithParents(dst, p)[q] = dst[q]
    BY <1>2, WithParentsIs
  <2>2. QED
    BY <1>2, <2>1
<1>3. CASE ~src[p].dir /\ CanCopy(p, overwrite) /\ u = Without(dst, p)
  <2>1. PathTree(u) /\ \A q \in DOMAIN dst : ~IsPrefix(p, q) => q \in DOMAIN u /\ u[q] = dst[q]
    BY <1>3, WithoutIs
  <2>2. ASSUME ~overwrite, NEW q \in DOMAIN dst PROVE ~IsPrefix(p, q)
    <3>1. p \notin DOMAIN dst
      BY <1>3, <2>2 DEF CanCopy
    <3>2. q \in Paths
      BY DEF PathTree
    <3>3. QED
      BY <3>1, <3>2, TreeAbove DEF PathTree
  <2>3. QED
    BY <2>1, <2>2
<1>4. CASE ~src[p].dir /\ CanCopy(p, overwrite) /\ u = Put(WithParents(dst, p), p, Emptied(src[p]))
  <2>1. ~Blocked(dst, p) /\ (p \in DOMAIN dst => overwrite /\ ~dst[p].dir)
    BY <1>4 DEF CanCopy
  <2>2. /\ PathTree(u) /\ DOMAIN u = DOMAIN dst \cup Parents(p) \cup {p}
        /\ \A q \in DOMAIN dst : q # p => u[q] = dst[q]
    <3>1. PICK n : n = Emptied(src[p])
      OBVIOUS
    <3>2. u = Put(WithParents(dst, p), p, n)
      BY <1>4, <3>1
    <3>3. QED
      BY <2>1, <3>2, PutIs
  <2>3. QED
    BY <2>1, <2>2
<1>5. QED
  BY <1>1, <1>2, <1>3, <1>4

-----------------------------------------------------------------------------
(* The invariant of the whole *)

\* Before the comparison.
Blank ==
  /\ ents = << >> /\ stats = NoStats /\ walk = {} /\ options = {}
  /\ right = NoTree /\ GoodTree(left)

Syncing == st \in {"sync", "copy", "trash"}
Compared == st \in {"diff", "show"} \/ Syncing \/ rc = 0

\* What was done for an entry.
Handled(d) ==
  /\ d.status = "LEFT" /\ "add" \in cmd => Arrived(d.l)
  /\ d.status = "NEQ" /\ "update" \in cmd => Arrived(d.l)
  /\ d.status = "RIGHT" /\ "delete" \in cmd => d.r \notin DOMAIN dst

\* The list is there, and complete, when it is used.
ListPart ==
  /\ DiffInv \/ Blank
  /\ Compared => DiffInv
  /\ Compared /\ st # "diff" => walk = {}

\* The trees; the left one is the source if the scan has missed nothing.
TreePart ==
  /\ GoodTree(src) /\ PathTree(dst)
  /\ st \in {"left", "right"} => Blank /\ GoodTree(dst)
  /\ (Compared \/ st = "right") /\ ~blind => left = src

PlacePart ==
  /\ st \in Working \cup Waiting \cup {"over", "crashed"}
  /\ idx \in Nat \ {0} /\ rc \in {0, 1}
  /\ st \in {"left", "right", "diff", "show"} => idx = 1
  /\ rc = 0 => st = "over" /\ ("compare" \in cmd \/ idx > Len(ents))
  /\ st \in Waiting => idx \in DOMAIN ents /\ Asked[ents[idx].status] \in cmd
  /\ st = "copy" => ents[idx].status \in {"LEFT", "NEQ"}
  /\ st = "trash" => ents[idx].status = "RIGHT"

\* The entries before the current one are done, and stay so.
HandledPart ==
  (Syncing \/ (rc = 0 /\ "compare" \notin cmd)) /\ ~blind =>
    \A i \in DOMAIN ents : i < idx => Handled(ents[i])

\* The invariant.
Inv == ListPart /\ TreePart /\ PlacePart /\ HandledPart

\* The sides of the entries that something is done about.
LEMMA EntryPaths ==
  ASSUME DiffInv, walk = {}, NEW i \in DOMAIN ents
  PROVE  /\ ents[i].status = "LEFT" => ents[i].l \in DOMAIN left /\ Live(ents[i])
         /\ ents[i].status = "NEQ" => ents[i].l \in DOMAIN left /\ Live(ents[i])
         /\ ents[i].status = "RIGHT" => ents[i].r \in DOMAIN right \ DOMAIN left
         /\ ents[i].status = "MOVE" /\ ents[i].l # NoPath =>
              /\ ents[i].l \in DOMAIN left \ DOMAIN right
              /\ ents[i].r = NoPath \/ ents[i].r \in DOMAIN right \ DOMAIN left
<1>1. /\ Single("l") = DOMAIN left \ DOMAIN right /\ Single("r") = DOMAIN right \ DOMAIN left
      /\ Seen("l") = DOMAIN left /\ Seen("r") = DOMAIN right
  BY SinglesAtEnd
<1>2. PICK e : e = ents[i]
  OBVIOUS
<1>3. IsBoth(e) \/ IsPair(e) \/ IsDouble(e) \/ \E s \in Sides : IsSingle(s, e)
  BY <1>2 DEF DiffInv, ListInv, Shapes
<1>4. CASE IsBoth(e)
  <2>1. e.flags \subseteq Details
    BY <1>4 DEF IsBoth, Differences
  <2>2. QED
    BY <1>1, <1>2, <1>4, <2>1 DEF IsBoth, Live, Details
<1>5. CASE IsPair(e)
  BY <1>1, <1>2, <1>5 DEF IsPair
<1>6. CASE IsDouble(e)
  BY <1>1, <1>2, <1>6 DEF IsDouble, Sides, Beyond
<1>7. ASSUME NEW s \in Sides, IsSingle(s, e) PROVE
         /\ e.status = "LEFT" => e.l \in DOMAIN left /\ Live(e)
         /\ e.status = "RIGHT" => e.r \in DOMAIN right \ DOMAIN left
         /\ e.status \in {"LEFT", "RIGHT"}
  BY <1>1, <1>7 DEF IsSingle, StatusOf, Sides, Beyond, Live
<1>8. QED
  BY <1>2, <1>3, <1>4, <1>5, <1>6, <1>7

\* A path of a tree is not below one that the tree does not have.
LEMMA NotBelow ==
  ASSUME NEW t, PathTree(t), NEW p \in DOMAIN t, NEW r \in Paths, r \notin DOMAIN t
  PROVE  ~IsPrefix(r, p)
BY TreeAbove DEF PathTree

\* Steps that leave the comparison alone.
LEMMA ListStays ==
  ASSUME UNCHANGED diffVars
  PROVE  (DiffInv => DiffInv') /\ (Blank => Blank')
<1>1. Blank => Blank'
  BY DEF Blank, diffVars, GoodTree, IsTree
<1>2. QED
  BY <1>1, DiffStays

\* What a step makes of what was done before it: files of the source's paths stay, but for
\* one, and no path of the target alone comes back.
LEMMA HandledStays ==
  ASSUME DiffInv, walk = {}, UNCHANGED <<diffVars, cmd, src>>, NEW p,
         \A q \in DOMAIN left \cap DOMAIN dst : q # p => q \in DOMAIN dst' /\ dst'[q] = dst[q],
         \A q \in DOMAIN right \ DOMAIN left : q \in DOMAIN dst' => q \in DOMAIN dst,
         NEW i \in DOMAIN ents, Handled(ents[i]), ents[i].status \in {"LEFT", "NEQ"} => ents[i].l # p
  PROVE  Handled(ents[i])'
<1>1. PICK e : e = ents[i]
  OBVIOUS
<1>2. ents'[i] = e
  BY <1>1 DEF diffVars
<1>3. /\ e.status = "LEFT" \/ e.status = "NEQ" => e.l \in DOMAIN left
      /\ e.status = "RIGHT" => e.r \in DOMAIN right \ DOMAIN left
  BY <1>1, EntryPaths
<1>4. ASSUME e.status = "LEFT" \/ e.status = "NEQ", Arrived(e.l) PROVE Arrived(e.l)'
  BY <1>1, <1>3, <1>4 DEF Arrived
<1>5. Handled(e)
  BY <1>1
<1>6. Handled(e)'
  BY <1>3, <1>4, <1>5 DEF Handled
<1>7. QED
  BY <1>2, <1>6 DEF Handled

\* A move carries nothing off that the source has too.
LEMMA MoveKeeps ==
  ASSUME DiffInv, walk = {}, PathTree(dst), NEW i \in DOMAIN ents,
         ents[i].status = "MOVE", ents[i].l # NoPath, NEW u, u = Moved(dst, ents[i].r, ents[i].l)
  PROVE  /\ PathTree(u)
         /\ \A q \in DOMAIN left \cap DOMAIN dst : q \in DOMAIN u /\ u[q] = dst[q]
         /\ \A q \in DOMAIN right \ DOMAIN left : q \in DOMAIN u => q \in DOMAIN dst
<1>1. PICK l, r : l = ents[i].l /\ r = ents[i].r
  OBVIOUS
<1>2. l \in DOMAIN left \ DOMAIN right /\ (r = NoPath \/ r \in DOMAIN right \ DOMAIN left)
  BY <1>1, EntryPaths
<1>3. PathTree(left) /\ PathTree(right)
  BY GoodTreePaths DEF DiffInv, ListInv, DiffTypes
<1>4. l \in Paths /\ (r \in DOMAIN dst => r \in Paths /\ r \notin DOMAIN left)
  BY <1>2, <1>3 DEF PathTree, Paths
<1>5. r \in DOMAIN dst => ~IsPrefix(r, l)
  BY <1>2, <1>3, <1>4, NotBelow
<1>6. /\ PathTree(u)
      /\ \A q \in DOMAIN dst : r \notin DOMAIN dst \/ ~IsPrefix(r, q) => q \in DOMAIN u /\ u[q] = dst[q]
      /\ \A q \in DOMAIN u : q \in DOMAIN dst \/ q \in Parents(l) \/ (r \in DOMAIN dst /\ IsPrefix(l, q))
  BY <1>1, <1>4, <1>5, MovedIs
<1>7. ASSUME NEW q \in DOMAIN left \cap DOMAIN dst PROVE q \in DOMAIN u /\ u[q] = dst[q]
  BY <1>3, <1>4, <1>6, NotBelow
<1>8. ASSUME NEW q \in DOMAIN right \ DOMAIN left, q \in DOMAIN u PROVE q \in DOMAIN dst
  <2>1. q \notin Parents(l)
    BY <1>2, <1>3, <1>4, ParentsAre, TreeAbove DEF PathTree
  <2>2. ~IsPrefix(l, q)
    BY <1>2, <1>3, <1>4, NotBelow
  <2>3. QED
    BY <1>6, <1>8, <2>1, <2>2
<1>9. QED
  BY <1>6, <1>7, <1>8

\* Nor does the trash.
LEMMA TrashKeeps ==
  ASSUME DiffInv, walk = {}, PathTree(dst), NEW i \in DOMAIN ents, ents[i].status = "RIGHT"
  PROVE  LET u == Without(dst, ents[i].r) IN
         /\ PathTree(u) /\ ents[i].r \notin DOMAIN u
         /\ \A q \in DOMAIN left \cap DOMAIN dst : q \in DOMAIN u /\ u[q] = dst[q]
         /\ \A q \in DOMAIN u : q \in DOMAIN dst
<1>1. PICK r, u : r = ents[i].r /\ u = Without(dst, ents[i].r)
  OBVIOUS
<1>2. r \in DOMAIN right \ DOMAIN left
  BY <1>1, EntryPaths
<1>3. PathTree(left) /\ PathTree(right)
  BY GoodTreePaths DEF DiffInv, ListInv, DiffTypes
<1>4. r \in Paths
  BY <1>2, <1>3 DEF PathTree
<1>5. /\ PathTree(u) /\ r \notin DOMAIN u /\ DOMAIN u \subseteq DOMAIN dst
      /\ \A q \in DOMAIN dst : ~IsPrefix(r, q) => q \in DOMAIN u /\ u[q] = dst[q]
  BY <1>1, <1>4, WithoutIs
<1>6. \A q \in DOMAIN left : ~IsPrefix(r, q)
  BY <1>2, <1>3, <1>4, NotBelow
<1>7. QED
  BY <1>1, <1>5, <1>6

\* And a copy brings nothing that the source does not have.
LEMMA CopyKeeps ==
  ASSUME DiffInv, walk = {}, PathTree(dst), NEW i \in DOMAIN ents, ents[i].status \in {"LEFT", "NEQ"},
         NEW overwrite \in BOOLEAN, CanCopy(ents[i].l, overwrite)
  PROVE  LET p == ents[i].l
             u == Copied(p)
         IN /\ PathTree(u)
            /\ p \in DOMAIN u /\ (~src[p].dir => u[p] = src[p])
            /\ \A q \in DOMAIN dst : q # p \/ ~overwrite => q \in DOMAIN u /\ u[q] = dst[q]
            /\ \A q \in DOMAIN right \ DOMAIN left : q \in DOMAIN u => q \in DOMAIN dst
<1>1. PICK p, u : p = ents[i].l /\ u = Copied(ents[i].l)
  OBVIOUS
<1>2. PathTree(left) /\ p \in DOMAIN left
  BY <1>1, EntryPaths, GoodTreePaths DEF DiffInv, ListInv, DiffTypes
<1>3. p \in Paths
  BY <1>2 DEF PathTree
<1>4. /\ PathTree(u) /\ p \in DOMAIN u /\ (~src[p].dir => u[p] = src[p])
      /\ \A q \in DOMAIN dst : q # p \/ ~overwrite => q \in DOMAIN u /\ u[q] = dst[q]
      /\ \A q \in DOMAIN u : q \in DOMAIN dst \/ q \in Parents(p) \/ q = p
  BY <1>1, <1>3, CopiedIs
<1>5. Parents(p) \subseteq DOMAIN left
  BY <1>2, <1>3, ParentsAre, TreeAbove DEF PathTree
<1>6. QED
  BY <1>1, <1>2, <1>4, <1>5

-----------------------------------------------------------------------------
(* Every action keeps the invariant. *)

\* It holds at the start.
LEMMA InitInv ==
  ASSUME Init
  PROVE  Inv
<1>1. GoodTree(src) /\ GoodTree(dst) /\ GoodTree(NoTree)
  BY SyncAssumption DEF Init, GoodTree, NoTree, IsTree
<1>2. PathTree(dst)
  BY <1>1, GoodTreePaths
<1>3. Blank
  BY <1>1 DEF Init, Blank
<1>4. st = "left" /\ rc = 1 /\ idx = 1 /\ ~Compared /\ ~Syncing
  BY DEF Init, Compared, Syncing
<1>5. QED
  BY <1>1, <1>2, <1>3, <1>4 DEF Inv, ListPart, TreePart, PlacePart, HandledPart, Working, Waiting

\* The source is scanned, or cannot be.
LEMMA ScanLeftInv ==
  ASSUME Inv, ScanLeft
  PROVE  Inv'
<1>1. /\ st = "left" /\ st' = "right"
      /\ UNCHANGED <<right, options, walk, ents, moved, stats, lname, rname, cmd, src, dst, idx, done, rc>>
  BY DEF ScanLeft
<1>2. PICK t \in Scanned(src) : left' = t /\ blind' = (t # src)
  BY DEF ScanLeft
<1>3. GoodTree(src) /\ PathTree(dst) /\ Blank /\ GoodTree(dst)
  BY <1>1 DEF Inv, TreePart
<1>4. GoodTree(t)
  BY <1>3, MisreadIs DEF Scanned
<1>5. Blank'
  BY <1>1, <1>2, <1>3, <1>4 DEF Blank, GoodTree, IsTree
<1>6. GoodTree(src)' /\ GoodTree(dst)' /\ PathTree(dst)'
  BY <1>1, <1>3 DEF GoodTree, PathTree, IsTree
<1>7. rc' = 1 /\ idx' = 1 /\ ~Compared' /\ ~Syncing'
  BY <1>1 DEF Inv, PlacePart, Compared, Syncing
<1>8. QED
  BY <1>1, <1>2, <1>5, <1>6, <1>7 DEF Inv, ListPart, TreePart, PlacePart, HandledPart, Working, Waiting

\* The target is scanned, and the comparison begins.
LEMMA ScanRightInv ==
  ASSUME Inv, ScanRight
  PROVE  Inv'
<1>1. st = "right" /\ st' = "diff" /\ UNCHANGED <<cmd, src, dst, idx, done, rc>>
  BY DEF ScanRight
<1>2. PICK t \in Scanned(dst) : DiffBegin(left, t, cmd \cap DiffOptions) /\ blind' = (blind \/ t # dst)
  BY DEF ScanRight
<1>3. GoodTree(src) /\ PathTree(dst) /\ Blank /\ GoodTree(dst) /\ (~blind => left = src)
  BY <1>1 DEF Inv, TreePart
<1>4. GoodTree(t) /\ GoodTree(left)
  BY <1>3, MisreadIs DEF Scanned, Blank
<1>5. DiffInv'
  <2>1. PICK l, o : l = left /\ o = cmd \cap DiffOptions
    OBVIOUS
  <2>2. DiffBegin(l, t, o) /\ o \subseteq DiffOptions /\ GoodTree(l)
    BY <1>2, <1>4, <2>1
  <2>3. QED
    BY <1>4, <2>2, DiffBegins
<1>6. left' = left
  BY <1>2 DEF DiffBegin
<1>7. GoodTree(src)' /\ PathTree(dst)'
  BY <1>1, <1>3 DEF GoodTree, PathTree, IsTree
<1>8. rc' = 1 /\ idx' = 1 /\ ~Syncing'
  BY <1>1 DEF Inv, PlacePart, Syncing
<1>9. QED
  BY <1>1, <1>2, <1>3, <1>5, <1>6, <1>7, <1>8 DEF Inv, ListPart, TreePart, PlacePart, HandledPart, Working, Waiting

\* One path is compared.
LEMMA DiffActionInv ==
  ASSUME Inv, Diff
  PROVE  Inv'
<1>1. /\ st = "diff" /\ UNCHANGED <<cmd, src, dst, idx, done, rc, blind>>
      /\ IF walk # {} THEN DiffNext /\ UNCHANGED st ELSE st' = "show" /\ UNCHANGED diffVars
  BY DEF Diff
<1>2. DiffInv /\ GoodTree(src) /\ PathTree(dst) /\ (~blind => left = src) /\ rc = 1 /\ idx = 1
  BY <1>1 DEF Inv, ListPart, TreePart, PlacePart, Compared
<1>3. GoodTree(src)' /\ PathTree(dst)'
  BY <1>1, <1>2 DEF GoodTree, PathTree, IsTree
<1>4. DiffInv' /\ left' = left /\ (st' # "diff" => walk' = {}) /\ st' \in {"diff", "show"}
  <2>1. CASE walk # {}
    BY <1>1, <1>2, <2>1, DiffStep
  <2>2. CASE walk = {}
    BY <1>1, <1>2, <2>2, ListStays DEF diffVars
  <2>3. QED
    BY <2>1, <2>2
<1>5. ~Syncing' /\ rc' = 1
  BY <1>1, <1>2, <1>4 DEF Syncing
<1>6. QED
  BY <1>1, <1>2, <1>3, <1>4, <1>5 DEF Inv, ListPart, TreePart, PlacePart, HandledPart, Working, Waiting

\* Steps that change neither the comparison nor the files.
LEMMA FrameInv ==
  ASSUME Inv, UNCHANGED <<diffVars, cmd, src, dst, blind>>, st' \notin {"left", "right"},
         Compared' => Compared, st' # "diff" \/ st = "diff", st = "diff" => ~Compared' \/ st' = "diff"
  PROVE  /\ ListPart' /\ TreePart'
         /\ \A i \in DOMAIN ents : Handled(ents[i])' <=> Handled(ents[i])
<1>1. (DiffInv => DiffInv') /\ (Blank => Blank') /\ walk' = walk /\ left' = left /\ ents' = ents
  BY ListStays DEF diffVars
<1>2. GoodTree(src)' /\ PathTree(dst)'
  BY DEF Inv, TreePart, GoodTree, PathTree, IsTree
<1>3. ListPart'
  BY <1>1 DEF Inv, ListPart
<1>4. TreePart'
  BY <1>1, <1>2 DEF Inv, TreePart
<1>5. \A i \in DOMAIN ents : Handled(ents[i])' <=> Handled(ents[i])
  BY <1>1 DEF Handled, Arrived
<1>6. QED
  BY <1>3, <1>4, <1>5

\* The comparison is shown, and is all there is to do or not.
LEMMA ShowInv ==
  ASSUME Inv, Show
  PROVE  Inv'
<1>1. /\ st = "show" /\ UNCHANGED <<diffVars, cmd, src, dst, idx, done, blind>>
      /\ IF "compare" \in cmd THEN st' = "over" /\ rc' = 0 ELSE st' = "sync" /\ UNCHANGED rc
  BY DEF Show
<1>2. rc = 1 /\ idx = 1 /\ Compared
  BY <1>1 DEF Inv, PlacePart, Compared
<1>3. st' \in {"over", "sync"} /\ (st' = "sync" => rc' = 1) /\ (rc' = 0 => "compare" \in cmd) /\ rc' \in {0, 1}
  BY <1>1, <1>2
<1>4. ListPart' /\ TreePart'
  BY <1>1, <1>2, <1>3, FrameInv
<1>5. PlacePart'
  BY <1>1, <1>2, <1>3 DEF PlacePart, Working, Waiting
<1>6. HandledPart'
  <2>1. idx' = 1 /\ DOMAIN ents' \subseteq Nat \ {0}
    BY <1>1, <1>2, <1>4 DEF ListPart, DiffInv, ListInv, DiffTypes, Blank, Compared
  <2>2. QED
    BY <2>1 DEF HandledPart
<1>7. QED
  BY <1>4, <1>5, <1>6 DEF Inv

\* The entry that sync1() looks at.
LEMMA InSyncIs ==
  ASSUME Inv, st \in {"sync", "copy", "trash"}
  PROVE  /\ DiffInv /\ walk = {} /\ PathTree(dst) /\ rc = 1 /\ idx \in Nat \ {0}
         /\ ~blind => left = src /\ \A i \in DOMAIN ents : i < idx => Handled(ents[i])
         /\ ents \in Seq(Ents) /\ DOMAIN ents = 1 .. Len(ents) /\ Len(ents) \in Nat
<1>1. DiffInv /\ walk = {} /\ PathTree(dst) /\ rc = 1 /\ idx \in Nat \ {0}
  BY DEF Inv, ListPart, TreePart, PlacePart, Compared, Syncing
<1>2. ~blind => left = src /\ \A i \in DOMAIN ents : i < idx => Handled(ents[i])
  BY DEF Inv, TreePart, HandledPart, Compared, Syncing
<1>3. ents \in Seq(Ents)
  BY <1>1 DEF DiffInv, ListInv, DiffTypes
<1>4. QED
  BY <1>1, <1>2, <1>3

\* Every entry was gone through.
LEMMA FinishInv ==
  ASSUME Inv, Finish
  PROVE  Inv'
<1>1. /\ st = "sync" /\ idx > Len(ents) /\ st' = "over" /\ rc' = 0
      /\ UNCHANGED <<diffVars, cmd, src, dst, idx, done, blind>>
  BY DEF Finish, InSync
<1>2. /\ Compared /\ idx \in Nat \ {0} /\ ents' = ents
      /\ ~blind => \A i \in DOMAIN ents : i < idx => Handled(ents[i])
  BY <1>1, InSyncIs DEF Compared, Syncing, diffVars
<1>3. ListPart' /\ TreePart' /\ \A i \in DOMAIN ents : Handled(ents[i])' <=> Handled(ents[i])
  BY <1>1, <1>2, FrameInv
<1>4. PlacePart'
  BY <1>1, <1>2 DEF PlacePart, Working, Waiting
<1>5. HandledPart'
  BY <1>1, <1>2, <1>3 DEF HandledPart
<1>6. QED
  BY <1>3, <1>4, <1>5 DEF Inv

\* An entry for which nothing is to be done was done.
LEMMA PassOverInv ==
  ASSUME Inv, PassOver
  PROVE  Inv'
<1>1. /\ st = "sync" /\ idx <= Len(ents) /\ Asked[ents[idx].status] \notin cmd
      /\ idx' = idx + 1 /\ st' = st /\ UNCHANGED <<diffVars, cmd, src, dst, done, rc, blind>>
  BY DEF PassOver, InSync, Current
<1>2. /\ Compared /\ idx \in Nat \ {0} /\ rc = 1 /\ ents' = ents /\ idx \in DOMAIN ents
      /\ ents \in Seq(Ents) /\ DOMAIN ents \subseteq Nat
      /\ ~blind => \A i \in DOMAIN ents : i < idx => Handled(ents[i])
  BY <1>1, InSyncIs DEF Compared, Syncing, diffVars
<1>3. ListPart' /\ TreePart' /\ \A i \in DOMAIN ents : Handled(ents[i])' <=> Handled(ents[i])
  BY <1>1, <1>2, FrameInv DEF Compared, Syncing
<1>4. PlacePart'
  BY <1>1, <1>2 DEF PlacePart, Working, Waiting
<1>5. Handled(ents[idx])
  BY <1>1 DEF Handled, Asked
<1>6. HandledPart'
  <2>1. ASSUME ~blind, NEW i \in DOMAIN ents, i < idx + 1 PROVE Handled(ents[i])
    <3>1. i < idx \/ i = idx
      BY <1>2, <2>1
    <3>2. QED
      BY <1>2, <1>5, <2>1, <3>1
  <2>2. QED
    BY <1>1, <1>2, <1>3, <2>1 DEF HandledPart
<1>7. QED
  BY <1>3, <1>4, <1>6 DEF Inv

\* A child is started for an entry that was asked for.
LEMMA StartChildInv ==
  ASSUME Inv, StartChild
  PROVE  Inv'
<1>1. /\ st = "sync" /\ idx <= Len(ents) /\ Asked[ents[idx].status] \in cmd
      /\ ents[idx].status \in {"LEFT", "NEQ", "RIGHT"}
      /\ st' = IF ents[idx].status = "RIGHT" THEN "trash" ELSE "copy"
      /\ UNCHANGED <<diffVars, cmd, src, dst, idx, done, rc, blind>>
  BY DEF StartChild, InSync, Current
<1>2. /\ Compared /\ idx \in Nat \ {0} /\ rc = 1 /\ ents' = ents /\ idx \in DOMAIN ents
      /\ ~blind => \A i \in DOMAIN ents : i < idx => Handled(ents[i])
  BY <1>1, InSyncIs DEF Compared, Syncing, diffVars
<1>3. st' \in {"trash", "copy"}
  BY <1>1
<1>4. ListPart' /\ TreePart' /\ \A i \in DOMAIN ents : Handled(ents[i])' <=> Handled(ents[i])
  BY <1>1, <1>2, <1>3, FrameInv DEF Compared, Syncing
<1>5. PlacePart'
  BY <1>1, <1>2, <1>3 DEF PlacePart, Working, Waiting, Asked
<1>6. HandledPart'
  BY <1>1, <1>2, <1>4 DEF HandledPart
<1>7. QED
  BY <1>4, <1>5, <1>6 DEF Inv

\* A signal ends the sync at any time.
LEMMA SignalInv ==
  ASSUME Inv, Signal
  PROVE  Inv'
<1>1. /\ st \in Working /\ st' = "over" /\ rc' = 1
      /\ UNCHANGED <<diffVars, cmd, src, dst, idx, done, blind>>
  BY DEF Signal
<1>2. ~Compared' /\ ~Syncing' /\ idx \in Nat \ {0}
  BY <1>1 DEF Compared, Syncing, Inv, PlacePart
<1>3. ListPart' /\ TreePart'
  BY <1>1, <1>2, FrameInv
<1>4. PlacePart' /\ HandledPart'
  BY <1>1, <1>2 DEF PlacePart, HandledPart, Working, Waiting
<1>5. QED
  BY <1>3, <1>4 DEF Inv

\* Steps of others change nothing.
LEMMA StutterInv ==
  ASSUME Inv, UNCHANGED vars
  PROVE  Inv'
<1>1. /\ UNCHANGED <<diffVars, cmd, src, dst, st, idx, done, rc, blind>> /\ ents' = ents
      /\ st' = st /\ rc' = rc /\ walk' = walk
  BY DEF vars, diffVars
<1>2. Compared' = Compared /\ Syncing' = Syncing
  BY <1>1 DEF Compared, Syncing
<1>3. (DiffInv => DiffInv') /\ (Blank => Blank')
  BY <1>1, ListStays
<1>4. ListPart'
  BY <1>1, <1>2, <1>3 DEF Inv, ListPart
<1>5. TreePart'
  BY <1>1, <1>2, <1>3 DEF Inv, TreePart, GoodTree, PathTree, IsTree, diffVars
<1>6. PlacePart'
  BY <1>1 DEF Inv, PlacePart
<1>7. HandledPart'
  BY <1>1, <1>2 DEF Inv, HandledPart, Handled, Arrived
<1>8. QED
  BY <1>4, <1>5, <1>6, <1>7 DEF Inv

\* Steps of the work itself, which change the target.
LEMMA WorkInv ==
  ASSUME Inv, st \in {"sync", "copy", "trash"}, UNCHANGED <<diffVars, cmd, src, blind>>,
         st' \in {"sync", "over", "crashed"}, PathTree(dst)', rc' \in {0, 1}
  PROVE  ListPart' /\ TreePart' /\ left' = left /\ ents' = ents
<1>1. (DiffInv => DiffInv') /\ (Blank => Blank') /\ walk' = walk /\ left' = left /\ ents' = ents
  BY ListStays DEF diffVars
<1>2. DiffInv /\ walk = {} /\ (~blind => left = src)
  BY InSyncIs
<1>3. GoodTree(src)'
  BY DEF Inv, TreePart, GoodTree, IsTree
<1>4. ListPart' /\ TreePart'
  BY <1>1, <1>2, <1>3 DEF ListPart, TreePart
<1>5. QED
  BY <1>1, <1>4

\* What was done stays done, and the entry that the step is about is done now.
LEMMA WorkHandled ==
  ASSUME Inv, st \in {"sync", "copy", "trash"}, UNCHANGED <<diffVars, cmd, src, blind>>,
         NEW k, k = idx, idx \in DOMAIN ents, idx' = idx + 1, NEW p,
         \A i \in DOMAIN ents : i < idx /\ ents[i].status \in {"LEFT", "NEQ"} => ents[i].l # p,
         ~blind => \A q \in DOMAIN left \cap DOMAIN dst : q # p => q \in DOMAIN dst' /\ dst'[q] = dst[q],
         ~blind => \A q \in DOMAIN right \ DOMAIN left : q \in DOMAIN dst' => q \in DOMAIN dst,
         ~blind => Handled(ents[k])'
  PROVE  HandledPart'
<1>1. /\ DiffInv /\ walk = {} /\ idx \in Nat \ {0} /\ DOMAIN ents = 1 .. Len(ents) /\ Len(ents) \in Nat
      /\ ~blind => \A i \in DOMAIN ents : i < idx => Handled(ents[i])
  BY InSyncIs
<1>2. ents' = ents
  BY DEF diffVars
<1>3. ASSUME ~blind, NEW i \in DOMAIN ents, i < idx + 1 PROVE Handled(ents[i])'
  <2>1. CASE i = idx
    BY <1>2, <1>3, <2>1
  <2>2. CASE i < idx
    <3>1. Handled(ents[i]) /\ (ents[i].status \in {"LEFT", "NEQ"} => ents[i].l # p)
      BY <1>1, <1>3, <2>2
    <3>2. QED
      BY <1>1, <1>3, <3>1, HandledStays
  <2>3. QED
    BY <1>1, <1>3, <2>1, <2>2
<1>4. QED
  BY <1>2, <1>3 DEF HandledPart

\* A moved file is renamed: earlier entries stay done.
LEMMA MoveFileInv ==
  ASSUME Inv, MoveFile
  PROVE  Inv'
<1>1. /\ st = "sync" /\ idx <= Len(ents) /\ ents[idx].status = "MOVE"
      /\ IF ents[idx].l = NoPath
         THEN st' = "crashed" /\ UNCHANGED <<dst, idx>>
         ELSE dst' = Moved(dst, ents[idx].r, ents[idx].l) /\ idx' = idx + 1 /\ UNCHANGED st
      /\ UNCHANGED <<diffVars, cmd, src, done, rc, blind>>
  BY DEF MoveFile, InSync, Current
<1>2. /\ DiffInv /\ walk = {} /\ PathTree(dst) /\ rc = 1 /\ idx \in Nat \ {0} /\ idx \in DOMAIN ents
      /\ DOMAIN ents \subseteq Nat
  BY <1>1, InSyncIs
<1>3. CASE ents[idx].l = NoPath
  <2>1. st' = "crashed" /\ dst' = dst /\ idx' = idx
    BY <1>1, <1>3
  <2>2. PathTree(dst)'
    BY <1>2, <2>1 DEF PathTree, IsTree
  <2>3. ListPart' /\ TreePart'
    BY <1>1, <1>2, <2>1, <2>2, WorkInv
  <2>4. PlacePart' /\ HandledPart'
    BY <1>1, <1>2, <2>1 DEF PlacePart, HandledPart, Syncing, Working, Waiting
  <2>5. QED
    BY <2>3, <2>4 DEF Inv
<1>4. CASE ents[idx].l # NoPath
  <2>1. dst' = Moved(dst, ents[idx].r, ents[idx].l) /\ idx' = idx + 1 /\ st' = "sync"
    BY <1>1, <1>4
  <2>2. PICK u : u = dst'
    OBVIOUS
  <2>3. /\ PathTree(u)
        /\ \A q \in DOMAIN left \cap DOMAIN dst : q \in DOMAIN u /\ u[q] = dst[q]
        /\ \A q \in DOMAIN right \ DOMAIN left : q \in DOMAIN u => q \in DOMAIN dst
    BY <1>1, <1>2, <1>4, <2>1, <2>2, MoveKeeps
  <2>4. PathTree(dst)'
    BY <2>2, <2>3 DEF PathTree, IsTree
  <2>5. ListPart' /\ TreePart' /\ ents' = ents
    BY <1>1, <1>2, <2>1, <2>4, WorkInv
  <2>6. PlacePart'
    BY <1>1, <1>2, <2>1 DEF PlacePart, Working, Waiting
  <2>7. PICK k : k = idx
    OBVIOUS
  <2>8. \A i \in DOMAIN ents : ents[i].status \in {"LEFT", "NEQ"} => ents[i].l # NoPath
    <3>1. "l" \in Sides /\ TreeOf("l") = left
      BY DEF Sides, TreeOf
    <3>2. QED
      BY <1>2, <3>1, EntryPaths, PathsNonEmpty DEF DiffInv, ListInv
  <2>9. HandledPart'
    <3>1. Handled(ents[k])'
      BY <1>1, <2>5, <2>7 DEF Handled
    <3>2. QED
      BY <1>1, <1>2, <2>1, <2>2, <2>3, <2>7, <2>8, <3>1, WorkHandled
  <2>10. QED
    BY <2>5, <2>6, <2>9 DEF Inv
<1>5. QED
  BY <1>3, <1>4

\* A file was moved to the trash.
LEMMA TrashEndsInv ==
  ASSUME Inv, TrashEnds
  PROVE  Inv'
<1>1. /\ st = "trash" /\ dst' = Without(dst, ents[idx].r) /\ idx' = idx + 1 /\ st' = "sync" /\ rc' = rc
      /\ UNCHANGED <<diffVars, cmd, src, blind>>
  BY DEF TrashEnds, ChildDone, Current
<1>2. /\ DiffInv /\ walk = {} /\ PathTree(dst) /\ rc = 1 /\ idx \in Nat \ {0} /\ idx \in DOMAIN ents
      /\ DOMAIN ents \subseteq Nat /\ ents[idx].status = "RIGHT"
  BY <1>1, InSyncIs DEF Inv, PlacePart, Waiting
<1>3. PICK u, k : u = dst' /\ k = idx
  OBVIOUS
<1>4. /\ PathTree(u) /\ ents[idx].r \notin DOMAIN u
      /\ \A q \in DOMAIN left \cap DOMAIN dst : q \in DOMAIN u /\ u[q] = dst[q]
      /\ \A q \in DOMAIN u : q \in DOMAIN dst
  BY <1>1, <1>2, <1>3, TrashKeeps
<1>5. PathTree(dst)'
  BY <1>3, <1>4 DEF PathTree, IsTree
<1>6. ListPart' /\ TreePart' /\ ents' = ents
  BY <1>1, <1>2, <1>5, WorkInv
<1>7. PlacePart'
  BY <1>1, <1>2 DEF PlacePart, Working, Waiting
<1>8. Handled(ents[k])'
  BY <1>1, <1>2, <1>3, <1>4, <1>6 DEF Handled
<1>9. \A i \in DOMAIN ents : ents[i].status \in {"LEFT", "NEQ"} => ents[i].l # NoPath
  <2>1. "l" \in Sides /\ TreeOf("l") = left
    BY DEF Sides, TreeOf
  <2>2. QED
    BY <1>2, <2>1, EntryPaths, PathsNonEmpty DEF DiffInv, ListInv
<1>10. HandledPart'
  BY <1>1, <1>2, <1>3, <1>4, <1>8, <1>9, WorkHandled
<1>11. QED
  BY <1>6, <1>7, <1>10 DEF Inv

\* A file was copied.
LEMMA CopyEndsInv ==
  ASSUME Inv, CopyEnds
  PROVE  Inv'
<1> DEFINE p == ents[idx].l
<1>1. /\ st = "copy" /\ CanCopy(p, Overwrite) /\ dst' = Copied(p)
      /\ idx' = idx + 1 /\ st' = "sync" /\ rc' = rc
      /\ UNCHANGED <<diffVars, cmd, src, blind>>
  BY DEF CopyEnds, ChildDone, Current
<1>2. /\ DiffInv /\ walk = {} /\ PathTree(dst) /\ rc = 1 /\ idx \in Nat \ {0} /\ idx \in DOMAIN ents
      /\ DOMAIN ents \subseteq Nat /\ ents[idx].status \in {"LEFT", "NEQ"} /\ (~blind => left = src)
  BY <1>1, InSyncIs DEF Inv, PlacePart, Waiting
<1>3. PICK u, k : u = dst' /\ k = idx
  OBVIOUS
<1>4. /\ PathTree(u) /\ p \in DOMAIN u /\ (~src[p].dir => u[p] = src[p])
      /\ \A q \in DOMAIN dst : q # p => q \in DOMAIN u /\ u[q] = dst[q]
      /\ \A q \in DOMAIN right \ DOMAIN left : q \in DOMAIN u => q \in DOMAIN dst
  <2>1. Overwrite \in BOOLEAN
    BY DEF Overwrite
  <2>2. QED
    BY <1>1, <1>2, <1>3, <2>1, CopyKeeps
<1>5. PathTree(dst)'
  BY <1>3, <1>4 DEF PathTree, IsTree
<1>6. ListPart' /\ TreePart' /\ ents' = ents
  BY <1>1, <1>2, <1>5, WorkInv
<1>7. PlacePart'
  BY <1>1, <1>2 DEF PlacePart, Working, Waiting
<1>8. Arrived(ents[k].l)'
  BY <1>1, <1>3, <1>4, <1>6 DEF Arrived
<1>9. Handled(ents[k])'
  BY <1>2, <1>3, <1>6, <1>8 DEF Handled
<1>10. ASSUME NEW i \in DOMAIN ents, i < idx, ents[i].status \in {"LEFT", "NEQ"} PROVE ents[i].l # p
  <2>1. p \in DOMAIN left /\ Live(ents[idx]) /\ Live(ents[i])
    BY <1>2, <1>10, EntryPaths
  <2>2. "l" \in Sides /\ p # NoPath
    BY <1>2, <2>1, PathsNonEmpty DEF Sides, TreeOf, DiffInv, ListInv
  <2>3. ents[i].l = p => i = idx
    BY <1>2, <2>1, <2>2 DEF DiffInv, ListInv, Unique
  <2>4. QED
    BY <1>2, <1>10, <2>3
<1>11. HandledPart'
  <2>1. PICK c : c = p
    OBVIOUS
  <2>2. /\ \A i \in DOMAIN ents : i < idx /\ ents[i].status \in {"LEFT", "NEQ"} => ents[i].l # c
        /\ \A q \in DOMAIN left \cap DOMAIN dst : q # c => q \in DOMAIN dst' /\ dst'[q] = dst[q]
    BY <1>3, <1>4, <1>10, <2>1
  <2>3. QED
    BY <1>1, <1>2, <1>3, <1>4, <1>9, <2>2, WorkHandled
<1>12. QED
  BY <1>6, <1>7, <1>11 DEF Inv

\* A copy failed, and the sync ends with an error.
LEMMA CopyFailsInv ==
  ASSUME Inv, CopyFails
  PROVE  Inv'
<1>1. /\ st = "copy" /\ st' = "over" /\ rc' = 1 /\ UNCHANGED <<done, idx>>
      /\ UNCHANGED <<diffVars, cmd, src, blind>>
  BY DEF CopyFails, ChildFailed
<1>2. /\ DiffInv /\ walk = {} /\ PathTree(dst) /\ idx \in Nat \ {0} /\ idx \in DOMAIN ents
      /\ ents[idx].status \in {"LEFT", "NEQ"}
  BY <1>1, InSyncIs DEF Inv, PlacePart, Waiting
<1>3. PICK p, u, o : p = ents[idx].l /\ u = dst' /\ o = Overwrite
  OBVIOUS
<1>4. \/ u = dst
      \/ ~Blocked(dst, p) /\ u = WithParents(dst, p)
      \/ /\ ~src[p].dir /\ CanCopy(p, o)
         /\ \/ u = Without(dst, p)
            \/ u = Put(WithParents(dst, p), p, Emptied(src[p]))
  BY <1>3 DEF CopyFails, Current
<1>5. p \in Paths /\ o \in BOOLEAN
  <2>1. PathTree(left) /\ p \in DOMAIN left
    BY <1>2, <1>3, EntryPaths, GoodTreePaths DEF DiffInv, ListInv, DiffTypes
  <2>2. QED
    BY <1>3, <2>1 DEF PathTree, Overwrite
<1>6. PathTree(u)
  BY <1>2, <1>4, <1>5, CopyFailedIs
<1>7. PathTree(dst)'
  BY <1>3, <1>6 DEF PathTree, IsTree
<1>8. ListPart' /\ TreePart'
  BY <1>1, <1>7, WorkInv
<1>9. PlacePart' /\ HandledPart'
  BY <1>1, <1>2 DEF PlacePart, HandledPart, Syncing, Working, Waiting
<1>10. QED
  BY <1>8, <1>9 DEF Inv

\* A file could not be moved to the trash, and the sync ends with an error.
LEMMA TrashFailsInv ==
  ASSUME Inv, TrashFails
  PROVE  Inv'
<1>1. /\ st = "trash" /\ st' = "over" /\ rc' = 1 /\ UNCHANGED <<done, idx>>
      /\ UNCHANGED <<diffVars, cmd, src, dst, blind>>
  BY DEF TrashFails, ChildFailed
<1>2. PathTree(dst) /\ idx \in Nat \ {0}
  BY <1>1, InSyncIs
<1>3. PathTree(dst)'
  BY <1>1, <1>2 DEF PathTree, IsTree
<1>4. ListPart' /\ TreePart'
  BY <1>1, <1>3, WorkInv
<1>5. PlacePart' /\ HandledPart'
  BY <1>1, <1>2 DEF PlacePart, HandledPart, Syncing, Working, Waiting
<1>6. QED
  BY <1>4, <1>5 DEF Inv

-----------------------------------------------------------------------------
(* Theorems *)

\* Every step keeps the invariant.
LEMMA NextInv ==
  ASSUME Inv, [Next]_vars
  PROVE  Inv'
<1>1. CASE ScanLeft
  BY <1>1, ScanLeftInv
<1>2. CASE ScanRight
  BY <1>2, ScanRightInv
<1>3. CASE Diff
  BY <1>3, DiffActionInv
<1>4. CASE Show
  BY <1>4, ShowInv
<1>5. CASE Finish
  BY <1>5, FinishInv
<1>6. CASE PassOver
  BY <1>6, PassOverInv
<1>7. CASE StartChild
  BY <1>7, StartChildInv
<1>8. CASE MoveFile
  BY <1>8, MoveFileInv
<1>9. CASE CopyEnds
  BY <1>9, CopyEndsInv
<1>10. CASE CopyFails
  BY <1>10, CopyFailsInv
<1>11. CASE TrashEnds
  BY <1>11, TrashEndsInv
<1>12. CASE TrashFails
  BY <1>12, TrashFailsInv
<1>13. CASE Signal
  BY <1>13, SignalInv
<1>14. CASE UNCHANGED vars
  BY <1>14, StutterInv
<1>15. QED
  BY <1>1, <1>2, <1>3, <1>4, <1>5, <1>6, <1>7, <1>8, <1>9, <1>10, <1>11, <1>12, <1>13, <1>14 DEF Next

\* At every moment of sync_run(): the list is that of the paths compared so far, and
\* once entries are worked off, what was done for the ones before stays done.
THEOREM SyncInvariant == Spec => []Inv
<1>1. Init => Inv
  BY InitInv
<1>2. Inv /\ [Next]_vars => Inv'
  BY NextInv
<1>3. QED
  BY <1>1, <1>2, PTL DEF Spec

\* The invariant contains the types.
LEMMA InvTypes ==
  ASSUME Inv
  PROVE  TypeOK
<1>1. CASE DiffInv
  <2>1. IsTree(left) /\ IsTree(right) /\ options \subseteq DiffOptions /\ ents \in Seq(Ents)
    BY <1>1 DEF DiffInv, ListInv, DiffTypes, GoodTree
  <2>2. DOMAIN ents = 1 .. Len(ents)
    BY <2>1
  <2>3. ListInv
    BY <1>1 DEF DiffInv
  <2>4. QED
    BY <2>1, <2>2, <2>3, ListTypes DEF Inv, TreePart, PlacePart, PathTree, TypeOK
<1>2. CASE Blank
  <2>1. /\ ents = << >> /\ Len(ents) = 0 /\ DOMAIN ents = {} /\ options = {}
        /\ IsTree(left) /\ right = NoTree /\ stats = NoStats
    BY <1>2 DEF Blank, GoodTree
  <2>2. IsTree(right)
    BY <2>1 DEF IsTree, NoTree
  <2>3. stats \in [Statuses \cup {"entries"} -> Nat]
    BY <2>1 DEF NoStats
  <2>4. QED
    BY <2>1, <2>2, <2>3 DEF Inv, TreePart, PlacePart, PathTree, TypeOK
<1>3. QED
  BY <1>1, <1>2 DEF Inv, ListPart

\* sync-cmp.h never gives a path two entries, a double only beside its moved file, and
\* counters that agree with the list: SyncInv.
THEOREM SyncSafe == Spec => []SyncInv
<1>1. Inv => SyncInv
  <2>1. SUFFICES ASSUME Inv PROVE SyncInv
    OBVIOUS
  <2>2. TypeOK
    BY <2>1, InvTypes
  <2>3. NothingTwice
    <3>1. CASE DiffInv
      BY <3>1, ListGivesOnce DEF DiffInv
    <3>2. CASE Blank
      BY <3>2 DEF Blank, NothingTwice
    <3>3. QED
      BY <2>1, <3>1, <3>2 DEF Inv, ListPart
  <2>4. QED
    BY <2>2, <2>3 DEF SyncInv
<1>2. QED
  BY <1>1, SyncInvariant, PTL

\* When the comparison is through and goes by names, its invariant says all of it.
LEMMA ByNameIs ==
  ASSUME Inv, ByName
  PROVE  ListInv /\ Exact /\ walk = {}
BY DEF Inv, ListPart, ByName, Blank, DiffInv

\* If moved files are found by their names, what sync_diff() lists is exactly the
\* difference of the two trees that were scanned: DiffIsExact.
THEOREM ComparisonIsExact == Spec => []DiffIsExact
<1>1. Inv => DiffIsExact
  BY ByNameIs, EntriesAre DEF DiffIsExact
<1>2. QED
  BY <1>1, SyncInvariant, PTL

\* With the same condition, what a view with the sides swapped shows is the difference
\* of the trees exchanged: SwapIsReversal.
THEOREM ComparisonReverses == Spec => []SwapIsReversal
<1>1. Inv => SwapIsReversal
  BY ByNameIs, SwapIs DEF SwapIsReversal
<1>2. QED
  BY <1>1, SyncInvariant, PTL

\* A sync that ends with 0, and has seen the source as it is, has copied and deleted
\* whatever its options asked for, also when later entries moved things: SuccessIsComplete.
THEOREM SyncIsComplete == Spec => []SuccessIsComplete
<1>1. Inv => SuccessIsComplete
  <2>1. SUFFICES ASSUME Inv, st = "over", rc = 0, "compare" \notin cmd, ~blind, NEW d \in Entries
                 PROVE  Handled(d)
    BY DEF SuccessIsComplete, Handled
  <2>2. PICK i \in 1 .. Len(ents) : d = ents[i]
    BY <2>1 DEF Entries
  <2>3. idx \in Nat /\ idx > Len(ents) /\ DiffInv
    BY <2>1 DEF Inv, PlacePart, ListPart, Compared
  <2>4. ents \in Seq(Ents) /\ DOMAIN ents = 1 .. Len(ents) /\ Len(ents) \in Nat
    BY <2>3 DEF DiffInv, ListInv, DiffTypes
  <2>5. i \in DOMAIN ents /\ i < idx
    BY <2>2, <2>3, <2>4
  <2>6. Handled(ents[i])
    BY <2>1, <2>5 DEF Inv, HandledPart
  <2>7. QED
    BY <2>2, <2>6
<1>2. QED
  BY <1>1, SyncInvariant, PTL

\* No step of sync-fsync.h but a copy of --update or --force changes or removes a path
\* that both sides have: SharedFilesStay.
THEOREM SharedStay == Spec => SharedFilesStay
<1>1. ASSUME Inv, [Next]_vars
      PROVE  [~blind /\ (st # "copy" \/ cmd \cap {"update", "force"} = {}) =>
                \A p \in DOMAIN src \cap DOMAIN dst : p \in DOMAIN dst' /\ dst'[p] = dst[p]]_vars
  <2>1. SUFFICES ASSUME Next, ~blind, st # "copy" \/ cmd \cap {"update", "force"} = {}, dst' # dst,
                        NEW p \in DOMAIN src \cap DOMAIN dst
                 PROVE  p \in DOMAIN dst' /\ dst'[p] = dst[p]
    BY <1>1 DEF vars
  <2>2. \/ st = "sync" /\ MoveFile
        \/ st = "copy" /\ (CopyEnds \/ CopyFails)
        \/ st = "trash" /\ TrashEnds
    BY <2>1 DEF Next, ScanLeft, ScanRight, Diff, Show, Finish, PassOver, StartChild, MoveFile, InSync,
                CopyEnds, CopyFails, TrashEnds, TrashFails, Signal
  <2>3. st \in {"sync", "copy", "trash"}
    BY <2>2
  <2>4. /\ DiffInv /\ walk = {} /\ PathTree(dst) /\ left = src
        /\ DOMAIN ents = 1 .. Len(ents) /\ idx \in Nat \ {0} /\ Len(ents) \in Nat
    BY <1>1, <2>1, <2>3, InSyncIs
  <2>5. p \in DOMAIN left \cap DOMAIN dst
    BY <2>1, <2>4
  <2>6. CASE MoveFile
    <3>1. /\ idx <= Len(ents) /\ ents[idx].status = "MOVE" /\ ents[idx].l # NoPath
          /\ dst' = Moved(dst, ents[idx].r, ents[idx].l)
      BY <2>1, <2>6 DEF MoveFile, InSync, Current
    <3>2. idx \in DOMAIN ents
      BY <2>4, <3>1
    <3>3. PICK u : u = dst'
      OBVIOUS
    <3>4. QED
      BY <2>4, <2>5, <3>1, <3>2, <3>3, MoveKeeps
  <2>7. CASE TrashEnds
    <3>1. st = "trash" /\ dst' = Without(dst, ents[idx].r)
      BY <2>7 DEF TrashEnds, Current
    <3>2. idx \in DOMAIN ents /\ ents[idx].status = "RIGHT"
      BY <1>1, <3>1 DEF Inv, PlacePart, Waiting
    <3>3. QED
      BY <2>4, <2>5, <3>1, <3>2, TrashKeeps
  <2>8. ASSUME st = "copy"
        PROVE  idx \in DOMAIN ents /\ ents[idx].status = "LEFT" /\ Overwrite = FALSE
    <3>1. /\ idx \in DOMAIN ents /\ ents[idx].status \in {"LEFT", "NEQ"} /\ Asked[ents[idx].status] \in cmd
      BY <1>1, <2>8 DEF Inv, PlacePart, Waiting
    <3>2. "update" \notin cmd /\ "force" \notin cmd
      BY <2>1, <2>8
    <3>3. QED
      BY <3>1, <3>2 DEF Asked, Overwrite, Current
  <2>9. CASE st = "copy" /\ CopyEnds
    <3>1. CanCopy(ents[idx].l, FALSE) /\ dst' = Copied(ents[idx].l)
      BY <2>8, <2>9 DEF CopyEnds, Current
    <3>2. \A q \in DOMAIN dst : q \in DOMAIN Copied(ents[idx].l) /\ Copied(ents[idx].l)[q] = dst[q]
      BY <2>4, <2>8, <2>9, <3>1, CopyKeeps
    <3>3. QED
      BY <2>5, <3>1, <3>2
  <2>10. CASE st = "copy" /\ CopyFails
    <3>1. PICK c, u : c = ents[idx].l /\ u = dst'
      OBVIOUS
    <3>2. \/ u = dst
          \/ ~Blocked(dst, c) /\ u = WithParents(dst, c)
          \/ /\ ~src[c].dir /\ CanCopy(c, FALSE)
             /\ \/ u = Without(dst, c)
                \/ u = Put(WithParents(dst, c), c, Emptied(src[c]))
      BY <2>8, <2>10, <3>1 DEF CopyFails, Current
    <3>3. c \in Paths
      <4>1. PathTree(left) /\ c \in DOMAIN left
        BY <2>4, <2>8, <2>10, <3>1, EntryPaths, GoodTreePaths DEF DiffInv, ListInv, DiffTypes
      <4>2. QED
        BY <4>1 DEF PathTree
    <3>4. \A q \in DOMAIN dst : q \in DOMAIN u /\ u[q] = dst[q]
      BY <2>4, <3>2, <3>3, CopyFailedIs
    <3>5. QED
      BY <2>5, <3>1, <3>4
  <2>11. QED
    BY <2>2, <2>6, <2>7, <2>9, <2>10
<1>2. QED
  BY <1>1, SyncInvariant, PTL DEF Spec, SharedFilesStay
=============================================================================
