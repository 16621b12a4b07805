----------------------------- MODULE Gsync_proofs -----------------------------
(***************************************************************************)
(* Proofs about Gsync, for every list of entries, every size of the trees, *)
(* every slice and every set of failures, and a user who presses any       *)
(* button at any time.                                                     *)
(*                                                                         *)
(* The window and the worker share the comparison, the batch and the       *)
(* flags without a lock.  What makes the properties inductive, as long as  *)
(* no posted function was replaced, is that a batch is in one place only:  *)
(* the posted task, the worker's function, the child or the posted end     *)
(* carries it on; and that an entry is known by the number of its          *)
(* comparison, so that one of an older comparison is never taken for one   *)
(* of the list on display.                                                 *)
(***************************************************************************)
EXTENDS Gsync, FiniteSetTheorems, TLAPS

Items == [gen : Nat \ {0}, id : Ids]
Statuses == {"LEFT", "RIGHT", "NEQ", "MOVE", "EQ", "twin", "none"}
Marks == {"none", "syncing", "late", "error", "done"}
Doings == Ids \X Statuses

\* The task and the functions of the worker.
FlowTypes ==
  /\ linked \in BOOLEAN /\ handler \in {"none", "cmp", "dups", "sync"} /\ clash \in BOOLEAN
  /\ scan_state \in 0 .. 4 /\ lsnap \in Nat \cup {None} /\ rsnap \in Nat \cup {None}
  /\ pc \in {"idle", "call", "init", "free", "scan", "next", "diff", "diffnext", "show", "sync", "unwind"}
  /\ fn \in {"none", "cmp", "dups", "sync"} /\ i \in 0 .. Slice
  /\ gui \in {"idle", "cmp", "dups", "redraw"}
  /\ linked \/ pc = "call" => handler # "none"
  /\ pc \in {"init", "free", "scan", "next", "diff", "diffnext"} => fn \in {"cmp", "dups"}

\* A scan is never ahead of its place.
Paced ==
  /\ pc \in {"init", "free"} => scan_state = 0
  /\ pc = "scan" => scan_state <= 1
  /\ pc = "next" => scan_state <= 2
  /\ pc = "diff" => scan_state <= 3

\* The comparison and the list, which shows each of its entries once.
ListTypes ==
  /\ diff \in Nat /\ made \in Nat /\ diff <= made /\ dups \in BOOLEAN
  /\ ents \in Seq(Statuses) /\ Len(ents) <= Len(Kinds)
  /\ dup_cur \in 0 .. Len(Kinds) /\ ce_prev \in 0 .. Len(Kinds)
  /\ rows \in 0 .. Len(Kinds) /\ filter \in Seq(Ids) /\ Len(filter) <= Len(Kinds)
  /\ \A n \in 1 .. Len(filter) : filter[n] <= Len(ents)
  /\ \A m, n \in 1 .. Len(filter) : m # n => filter[m] # filter[n]

\* The batch, its items and those whose callers have not returned.
BatchTypes ==
  /\ mark \in [Ids -> Marks] /\ swap \in BOOLEAN
  /\ sync_items \in Seq(Items) /\ sync_item_i \in Nat \ {0}
  /\ sync_item_i \in 1 .. Len(sync_items) + 1 \/ sync_items = << >>
  /\ child \in Items \cup {NoItem}
  /\ nest \in Seq([at : Nat \ {0}, item : Items])
  /\ asked \in Seq(Doings) /\ log \in Seq(Doings) /\ Len(asked) = Len(sync_items)
  /\ sel_indices \subseteq 1 .. Len(Kinds)
  /\ posts \in Seq({"sync_done", "deleted"})

\* An item is of a comparison that was made, and one of the present comparison is there.
Known ==
  \A n \in 1 .. Len(sync_items) :
    sync_items[n].gen <= made /\ (sync_items[n].gen = diff => sync_items[n].id <= Len(ents))
Types == FlowTypes /\ Paced /\ ListTypes /\ BatchTypes /\ Known

-----------------------------------------------------------------------------
LEMMA KindsFacts ==
  /\ Kinds \in Seq({"LEFT", "RIGHT", "NEQ", "MOVE"}) /\ Len(Kinds) \in Nat /\ Slice \in Nat \ {0}
  /\ Bytes \in Seq(Nat) /\ Len(Bytes) = Len(Kinds)
  /\ \A size \in Sizes : size[1] \in Nat /\ size[2] \in Nat
BY GsyncAssumption

LEMMA ActsFacts ==
  ASSUME NEW status \in Statuses, NEW b \in BOOLEAN
  PROVE  Acts(status, b) \in Statuses
BY DEF Acts, Statuses

\* The place that a state of the scan stands for.
LEMMA PhaseFacts ==
  ASSUME NEW s \in 0 .. 4
  PROVE  /\ Phase(s) \in {"init", "scan", "next", "diff", "diffnext"}
         /\ Phase(s) = "init" => s = 0
         /\ Phase(s) = "scan" => s = 1
         /\ Phase(s) = "next" => s = 2
         /\ Phase(s) = "diff" => s = 3
BY DEF Phase

\* An element of a sequence is replaced.
LEMMA ExceptFacts ==
  ASSUME NEW S, NEW s \in Seq(S), NEW x, NEW v \in S
  PROVE  /\ [s EXCEPT ![x] = v] \in Seq(S) /\ Len([s EXCEPT ![x] = v]) = Len(s)
         /\ DOMAIN [s EXCEPT ![x] = v] = DOMAIN s
<1>1. s \in [1 .. Len(s) -> S] /\ Len(s) \in Nat
  OBVIOUS
<1> DEFINE t == [s EXCEPT ![x] = v]
<1>2. t \in [1 .. Len(s) -> S]
  BY <1>1
<1>3. DOMAIN t = DOMAIN s
  OBVIOUS
<1> HIDE DEF t
<1>4. t \in Seq(S) /\ Len(t) = Len(s)
  BY <1>1, <1>2
<1>5. QED
  BY <1>3, <1>4 DEF t

\* An element is added to a sequence, or taken from its end.
LEMMA AppendFacts ==
  ASSUME NEW S, NEW s \in Seq(S), NEW e \in S
  PROVE  Append(s, e) \in Seq(S) /\ Len(Append(s, e)) = Len(s) + 1
OBVIOUS

LEMMA ElementFacts ==
  ASSUME NEW S, NEW s \in Seq(S), NEW n \in 1 .. Len(s)
  PROVE  s[n] \in S
OBVIOUS

LEMMA PrefixFacts ==
  ASSUME NEW S, NEW s \in Seq(S), NEW k \in 0 .. Len(s)
  PROVE  /\ SubSeq(s, 1, k) \in Seq(S) /\ Len(SubSeq(s, 1, k)) = k
         /\ \A n \in 1 .. k : SubSeq(s, 1, k)[n] = s[n]
OBVIOUS

LEMMA FrontFacts ==
  ASSUME NEW S, NEW s \in Seq(S), s # << >>
  PROVE  /\ Front(s) \in Seq(S) /\ Len(Front(s)) = Len(s) - 1 /\ Last(s) = s[Len(s)] /\ Len(s) \in 1 .. Len(s)
         /\ \A n \in 1 .. Len(s) - 1 : Front(s)[n] = s[n]
<1>1. Len(s) - 1 \in 0 .. Len(s) /\ Len(s) \in 1 .. Len(s)
  OBVIOUS
<1>2. QED
  BY <1>1, PrefixFacts DEF Front, Last

LEMMA CardinalityFacts ==
  ASSUME NEW S \in SUBSET Ids
  PROVE  Cardinality(S) \in Nat /\ Cardinality(S) <= Len(Kinds)
<1>1. 1 \in Int /\ Len(Kinds) \in Int
  BY KindsFacts
<1>2. IsFiniteSet(1 .. Len(Kinds))
      /\ Cardinality(1 .. Len(Kinds)) = IF 1 > Len(Kinds) THEN 0 ELSE Len(Kinds) - 1 + 1
  BY <1>1, FS_Interval
<1>3. IsFiniteSet(Ids) /\ Cardinality(Ids) = Len(Kinds)
  BY <1>2, KindsFacts DEF Ids
<1>4. IsFiniteSet(S) /\ Cardinality(S) <= Cardinality(Ids)
  BY <1>3, FS_Subset
<1>5. QED
  BY <1>3, <1>4, FS_CardinalityType

\* A sequence that has each element of a set once: by its order, or because it says so.
LEMMA ListedFacts ==
  ASSUME NEW S \in SUBSET Ids, NEW s \in Listed(S)
  PROVE  /\ s \in Seq(Ids) /\ Len(s) <= Len(Kinds) /\ Len(s) = Cardinality(S)
         /\ \A n \in 1 .. Len(s) : s[n] \in S
         /\ \A m, n \in 1 .. Len(s) : m # n => s[m] # s[n]
<1>1. Cardinality(S) \in Nat /\ Cardinality(S) <= Len(Kinds)
  BY CardinalityFacts
<1>2. s \in [1 .. Cardinality(S) -> S] /\ \A m, n \in 1 .. Cardinality(S) : m < n => s[m] < s[n]
  BY DEF Listed
<1>3. s \in Seq(Ids) /\ Len(s) = Cardinality(S)
  BY <1>1, <1>2
<1>4. ASSUME NEW m \in 1 .. Len(s), NEW n \in 1 .. Len(s), m # n PROVE s[m] # s[n]
  <2>1. m < n \/ n < m
    BY <1>1, <1>3, <1>4
  <2>2. s[m] < s[n] \/ s[n] < s[m]
    BY <1>2, <1>3, <2>1
  <2>3. s[m] \in Int /\ s[n] \in Int
    BY <1>2, <1>3 DEF Ids
  <2>4. QED
    BY <2>2, <2>3
<1>5. QED
  BY <1>1, <1>2, <1>3, <1>4

LEMMA BySizeFacts ==
  ASSUME NEW s \in BySize(Ids)
  PROVE  /\ s \in Seq(Ids) /\ Len(s) <= Len(Kinds)
         /\ \A m, n \in 1 .. Len(s) : m # n => s[m] # s[n]
<1>1. Cardinality(Ids) \in Nat /\ Cardinality(Ids) <= Len(Kinds)
  BY CardinalityFacts
<1>2. s \in [1 .. Cardinality(Ids) -> Ids] /\ \A m, n \in 1 .. Cardinality(Ids) : m < n => s[m] # s[n]
  BY Zenon DEF BySize
<1>3. s \in Seq(Ids) /\ Len(s) = Cardinality(Ids)
  BY <1>1, <1>2
<1>4. ASSUME NEW m \in 1 .. Len(s), NEW n \in 1 .. Len(s), m # n PROVE s[m] # s[n]
  <2>1. m < n \/ n < m
    BY <1>1, <1>3, <1>4
  <2>2. QED
    BY <1>2, <1>3, <2>1, Zenon
<1>5. QED
  BY <1>1, <1>3, <1>4

\* The list is drawn anew.
LEMMA ViewFacts ==
  ASSUME ListTypes, NEW all, View(all)
  PROVE  /\ filter' \in Seq(Ids) /\ Len(filter') <= Len(Kinds) /\ rows' \in 0 .. Len(Kinds)
         /\ \A n \in 1 .. Len(filter') : filter'[n] <= Len(ents)
         /\ \A m, n \in 1 .. Len(filter') : m # n => filter'[m] # filter'[n]
<1> DEFINE S == {x \in DOMAIN ents : all \/ (mark[x] # "done" /\ ents[x] # "EQ")}
<1>1. /\ Len(ents) \in Nat /\ Len(ents) <= Len(Kinds) /\ S \in SUBSET (1 .. Len(ents))
      /\ \A x \in S : x <= Len(ents)
  BY DEF ListTypes
<1>2. filter' \in Listed(S) /\ rows' = Len(filter')
  BY DEF View
<1> HIDE DEF S
<1>3. S \in SUBSET Ids
  BY <1>1, KindsFacts DEF Ids
<1>4. /\ filter' \in Seq(Ids) /\ Len(filter') <= Len(Kinds)
      /\ \A n \in 1 .. Len(filter') : filter'[n] \in S
      /\ \A m, n \in 1 .. Len(filter') : m # n => filter'[m] # filter'[n]
  BY <1>2, <1>3, ListedFacts
<1>5. \A n \in 1 .. Len(filter') : filter'[n] <= Len(ents)
  BY <1>1, <1>4, Zenon
<1>6. QED
  BY <1>2, <1>4, <1>5, KindsFacts

-----------------------------------------------------------------------------
(* The types of the variables. *)

LEMMA InitTypes == Init => Types
<1> SUFFICES ASSUME Init PROVE Types
  OBVIOUS
<1> USE DEF Init
<1>1. FlowTypes /\ Paced
  <2>1. i \in 0 .. Slice
    BY KindsFacts
  <2>2. scan_state \in 0 .. 4 /\ lsnap \in Nat \cup {None} /\ rsnap \in Nat \cup {None}
    OBVIOUS
  <2>3. QED
    BY <2>1, <2>2, Zenon DEF FlowTypes, Paced
<1>2. ListTypes
  <2>1. /\ diff = 0 /\ made = 0 /\ dups = FALSE /\ ents = << >> /\ dup_cur = 0 /\ ce_prev = 0
        /\ rows = 0 /\ filter = << >>
    OBVIOUS
  <2> HIDE DEF Init
  <2>2. ents \in Seq(Statuses) /\ Len(ents) = 0 /\ filter \in Seq(Ids) /\ Len(filter) = 0
    BY <2>1
  <2>3. 1 .. Len(filter) = {} /\ 0 \in 0 .. Len(Kinds) /\ Len(ents) <= Len(Kinds) /\ Len(filter) <= Len(Kinds)
    BY <2>2, KindsFacts
  <2>4. /\ \A n \in 1 .. Len(filter) : filter[n] <= Len(ents)
        /\ \A m, n \in 1 .. Len(filter) : m # n => filter[m] # filter[n]
    BY <2>3
  <2>5. diff \in Nat /\ made \in Nat /\ diff <= made /\ dups \in BOOLEAN
    <3>1. dups \in BOOLEAN
      BY <2>1, Zenon
    <3>2. diff = 0 /\ made = 0
      BY <2>1, Zenon
    <3>3. diff \in Nat /\ made \in Nat /\ diff <= made
      BY <3>2
    <3>4. QED
      BY <3>1, <3>3, Zenon
  <2>6. QED
    BY <2>1, <2>2, <2>3, <2>4, <2>5, Zenon DEF ListTypes
<1>3. BatchTypes
  <2>1. mark \in [Ids -> Marks] /\ swap \in BOOLEAN /\ child = NoItem
    BY DEF NoMarks, Marks
  <2>2. /\ sync_items = << >> /\ sync_item_i \in Nat \ {0} /\ nest = << >> /\ asked = << >> /\ log = << >>
        /\ sel_indices = {} /\ posts = << >>
    OBVIOUS
  <2> HIDE DEF Init
  <2>3. QED
    BY <2>1, <2>2 DEF BatchTypes
<1>4. Known
  BY DEF Known
<1>5. QED
  BY <1>1, <1>2, <1>3, <1>4 DEF Types

-----------------------------------------------------------------------------
(* What the longer actions come to: a use of what is not there changes     *)
(* nothing but "bad", or everything that the action uses is there.         *)

\* A round of the loop over both trees.
ScanRound ==
  /\ pc = "next" /\ i < Slice /\ ~NoSnapshot /\ lsnap' = Rest(lsnap) /\ rsnap' \in {rsnap, Rest(rsnap)}
  /\ fn # "dups" \/ rsnap' = rsnap
  /\ \/ pc' = "diff" /\ Advance(3) /\ UNCHANGED i
     \/ i' = i + 1 /\ UNCHANGED <<pc, scan_state>>
  /\ UNCHANGED <<taskVars, diffVars, listVars, syncVars, childVars, delVars, doneVars, flagVars, fn, gui, posts,
                 result>>
LEMMA ScanNextFacts == ScanNext => UNCHANGED allButBad \/ ScanRound
<1> SUFFICES ASSUME ScanNext, ~UNCHANGED allButBad PROVE ScanRound
  OBVIOUS
<1>1. ~Ruin("snapshot")
  BY DEF Ruin
<1>2. ~NoSnapshot
  BY <1>1 DEF ScanNext
<1>3. /\ lsnap' = Rest(lsnap) /\ rsnap' = (IF fn = "dups" THEN rsnap ELSE Rest(rsnap))
      /\ \E l \in Results(lsnap), r \in IF fn = "dups" THEN {1} ELSE Results(rsnap) :
             IF Scanned(l, r)
             THEN pc' = "diff" /\ Advance(3) /\ UNCHANGED i
             ELSE i' = i + 1 /\ UNCHANGED <<pc, scan_state>>
      /\ UNCHANGED <<taskVars, diffVars, listVars, syncVars, childVars, delVars, doneVars, flagVars, fn,
                     winVars, askVars, bad>>
  BY <1>1 DEF ScanNext
<1>4. \/ pc' = "diff" /\ Advance(3) /\ UNCHANGED i
      \/ i' = i + 1 /\ UNCHANGED <<pc, scan_state>>
  BY <1>3, Zenon
<1>5. pc = "next" /\ i < Slice
  BY DEF ScanNext
<1>6. QED
  BY <1>2, <1>3, <1>4, <1>5 DEF ScanRound, winVars, askVars

\* An item is begun or done at once.
ItemBegun ==
  /\ pc = "sync" /\ sync_item_i <= Len(sync_items) /\ Usable
  /\ log' = Append(log, <<Item.id, ActOf(Item.id)>>)
  /\ \/ DoNow /\ ActOf(Item.id) \in {"MOVE", "EQ"}
     \/ StartChild /\ UNCHANGED ok /\ ActOf(Item.id) \notin {"MOVE", "EQ"}
  /\ UNCHANGED <<taskVars, scanVars, diffVars, listVars, sync_items, asked, delVars, deleted, flagVars, fn, i,
                 gui, posts, result>>
LEMMA SyncItemFacts == SyncItem => UNCHANGED allButBad \/ ItemBegun
<1> SUFFICES ASSUME SyncItem, ~UNCHANGED allButBad PROVE ItemBegun
  OBVIOUS
<1>1. ~Ruin("target")
  BY DEF Ruin
<1>2. QED
  BY <1>1, Zenon DEF SyncItem, ItemBegun, winVars, askVars

\* A child ends, and the item that is under way is marked.
ItemEnded ==
  /\ child # NoItem /\ pc = "idle" /\ sync_item_i <= Len(sync_items) /\ Item.gen = diff
  /\ child' = NoItem
  /\ \E good \in BOOLEAN : Mark(good) /\ ok' = IF good THEN ok \cup {child.id} ELSE ok
  /\ sync_item_i' = sync_item_i + 1 /\ pc' = "sync"
  /\ UNCHANGED <<taskVars, scanVars, diffVars, listVars, sync_items, asked, nest, log, delVars, deleted,
                 flagVars, fn, i, gui, posts, result>>
LEMMA ChildEndsFacts == ChildEnds => UNCHANGED allButBad \/ ItemEnded
<1> SUFFICES ASSUME ChildEnds, ~UNCHANGED allButBad PROVE ItemEnded
  OBVIOUS
<1>1. ~Ruin("item")
  BY DEF Ruin
<1>2. QED
  BY <1>1, Zenon DEF ChildEnds, GoOn, ItemEnded, winVars, askVars

\* A deletion ends, and the rows last deleted are marked.
RowsMarked ==
  /\ pc = "idle" /\ \A n \in sel_indices : diff # 0 /\ ~(n > Len(filter))
  /\ mark' = [x \in Ids |-> IF x \in {filter[n] : n \in sel_indices} THEN "done" ELSE mark[x]]
  /\ deleted' = deleted \cup {filter[n] : n \in sel_indices} /\ ok \subseteq ok'
  /\ posts' = Append(posts, "deleted")
  /\ UNCHANGED <<taskVars, scanVars, diffVars, listVars, syncVars, childVars, sel_indices, flagVars, runVars, gui,
                 result>>
LEMMA TrashEndsFacts == TrashEnds => UNCHANGED allButBad \/ RowsMarked
<1> SUFFICES ASSUME TrashEnds, ~UNCHANGED allButBad PROVE RowsMarked
  OBVIOUS
<1>1. ~Ruin("row")
  BY DEF Ruin
<1>2. pc = "idle" /\ \A n \in sel_indices : diff # 0 /\ ~(n > Len(filter))
  BY <1>1, Zenon DEF TrashEnds, Missing
<1>3. ok \subseteq ok'
  BY <1>1, Zenon DEF TrashEnds
<1>4. QED
  BY <1>1, <1>2, <1>3, Zenon DEF TrashEnds, RowsMarked, winVars, askVars

\* A batch begins, with a part of the rows in their order and none that is done.
Begun(chosen) ==
  /\ gui = "idle" /\ sync_items = << >> /\ diff # 0 /\ pc # "free"
  /\ chosen \in Seq(Ids) /\ \A n \in 1 .. Len(chosen) : chosen[n] <= Len(filter) /\ mark[filter[chosen[n]]] # "done"
  /\ \A m, n \in 1 .. Len(chosen) : m # n => chosen[m] # chosen[n]
  /\ sync_items' = [n \in 1 .. Len(chosen) |-> [gen |-> diff, id |-> filter[chosen[n]]]]
  /\ asked' = [n \in 1 .. Len(chosen) |-> <<filter[chosen[n]], ents[filter[chosen[n]]]>>]
  /\ sync_item_i' = 1 /\ log' = << >> /\ sides' = {swap}
  /\ IF chosen # << >> THEN Post("sync") ELSE UNCHANGED taskVars
  /\ UNCHANGED <<scanVars, diffVars, listVars, nest, child, delVars, doneVars, swap, show_all, runVars, gui, posts,
                 result>>
LEMMA PressSyncFacts == Types /\ PressSync => UNCHANGED allButBad \/ \E chosen : Begun(chosen)
<1> SUFFICES ASSUME Types, PressSync, ~UNCHANGED allButBad PROVE \E chosen : Begun(chosen)
  OBVIOUS
<1>1. ~Ruin("row")
  BY DEF Ruin
<1>2. PICK sel \in Selections : ~Ruin("row") /\ ~Missing(sel) /\ pc # "free"
        /\ \E chosen \in Listed(Chosen(sel)), date \in BOOLEAN :
             /\ sync_items' = [n \in DOMAIN chosen |-> [gen |-> diff, id |-> filter[chosen[n]]]]
             /\ asked' = [n \in DOMAIN chosen |-> <<filter[chosen[n]], ents[filter[chosen[n]]]>>]
             /\ sync_item_i' = 1 /\ sync_date' = date /\ log' = << >> /\ sides' = {swap}
             /\ IF chosen # << >> THEN Post("sync") ELSE UNCHANGED taskVars
        /\ UNCHANGED <<scanVars, diffVars, listVars, nest, child, delVars, doneVars, swap, show_all,
                       runVars, winVars, askVars, bad>>
  BY <1>1, Zenon DEF PressSync
<1>3. Chosen(sel) \in SUBSET Ids /\ \A n \in Chosen(sel) : n \in sel /\ mark[filter[n]] # "done"
  <2>1. \A n \in Chosen(sel) : n \in sel /\ mark[filter[n]] # "done"
    BY DEF Chosen
  <2>2. sel \subseteq 1 .. rows
    BY DEF Selections
  <2>3. sel \subseteq Ids
    BY <2>2, KindsFacts DEF Types, ListTypes, Ids
  <2>4. QED
    BY <2>1, <2>3, Zenon
<1>4. PICK chosen \in Listed(Chosen(sel)) :
             /\ sync_items' = [n \in DOMAIN chosen |-> [gen |-> diff, id |-> filter[chosen[n]]]]
             /\ asked' = [n \in DOMAIN chosen |-> <<filter[chosen[n]], ents[filter[chosen[n]]]>>]
             /\ sync_item_i' = 1 /\ log' = << >> /\ sides' = {swap}
             /\ IF chosen # << >> THEN Post("sync") ELSE UNCHANGED taskVars
  BY <1>2, Zenon
<1>5. /\ chosen \in Seq(Ids) /\ DOMAIN chosen = 1 .. Len(chosen)
      /\ \A n \in 1 .. Len(chosen) : chosen[n] \in Chosen(sel)
      /\ \A m, n \in 1 .. Len(chosen) : m # n => chosen[m] # chosen[n]
  BY <1>3, ListedFacts
<1>6. diff # 0 /\ \A n \in sel : ~(n > Len(filter))
  BY <1>2, Zenon DEF Missing
<1>7. sel \subseteq Nat /\ Len(filter) \in Nat
  <2>1. sel \subseteq 1 .. rows
    BY DEF Selections
  <2>2. QED
    BY <2>1 DEF Types, ListTypes
<1>8. \A n \in sel : n <= Len(filter)
  BY <1>6, <1>7
<1>9. \A n \in 1 .. Len(chosen) : chosen[n] <= Len(filter) /\ mark[filter[chosen[n]]] # "done"
  BY <1>3, <1>5, <1>8, Zenon
<1>10. gui = "idle" /\ sync_items = << >>
  BY DEF PressSync, InProgress
<1>11. Begun(chosen)
  BY <1>2, <1>4, <1>5, <1>6, <1>9, <1>10, Zenon DEF Begun, winVars, askVars
<1>12. QED
  BY <1>11

\* A deletion begins.
RowsChosen ==
  /\ gui = "idle" /\ sel_indices' \subseteq 1 .. rows
  /\ UNCHANGED <<taskVars, scanVars, diffVars, listVars, syncVars, childVars, doneVars, flagVars, runVars, gui, posts,
                 result>>
LEMMA PressDeleteFacts == PressDelete => UNCHANGED allButBad \/ RowsChosen
<1> SUFFICES ASSUME PressDelete, ~UNCHANGED allButBad PROVE RowsChosen
  OBVIOUS
<1>1. ~Ruin("row")
  BY DEF Ruin
<1>2. PICK sel \in Selections : sel_indices' = sel
        /\ UNCHANGED <<taskVars, scanVars, diffVars, listVars, syncVars, childVars, doneVars, flagVars,
                       runVars, winVars, result>>
  BY <1>1, Zenon DEF PressDelete
<1>3. QED
  BY <1>2 DEF PressDelete, Selections, RowsChosen, winVars

\* The window draws the list.
Drawn ==
  /\ gui = "redraw" /\ diff # 0 /\ pc # "free" /\ View(show_all) /\ gui' = "idle"
  /\ UNCHANGED <<taskVars, scanVars, diffVars, syncVars, childVars, delVars, doneVars, flagVars, runVars, posts,
                 result>>
LEMMA RedrawFacts == Redraw => UNCHANGED allButBad \/ Drawn
<1> SUFFICES ASSUME Redraw, ~UNCHANGED allButBad PROVE Drawn
  OBVIOUS
<1>1. ~Ruin("comparison")
  BY DEF Ruin
<1>2. QED
  BY <1>1, Zenon DEF Redraw, Drawn, askVars

\* A task is posted.
LEMMA PostFacts ==
  ASSUME FlowTypes, NEW f \in {"cmp", "dups", "sync"}, Post(f)
  PROVE  linked' = TRUE /\ handler' = f /\ clash' \in BOOLEAN
BY DEF Post, FlowTypes

LEMMA FlowStep == Types /\ [Next]_vars => FlowTypes' /\ Paced'
<1> SUFFICES ASSUME Types, [Next]_vars PROVE FlowTypes' /\ Paced'
  OBVIOUS
<1> USE DEF taskVars, scanVars, runVars, winVars, Return, Ruin, allButBad
<1>1. FlowTypes /\ Paced
  BY DEF Types
<1> USE DEF FlowTypes, Paced
<1>2. CASE UNCHANGED vars
  BY <1>1, <1>2 DEF vars
<1>3. CASE TakeTask
  BY <1>1, <1>3 DEF TakeTask
<1>4. CASE CallHandler
  <2>1. /\ pc = "call" /\ fn' = handler /\ i' = 0 /\ scan_state \in 0 .. 4
        /\ pc' = (IF handler = "sync" THEN "sync" ELSE Phase(scan_state))
        /\ UNCHANGED <<linked, handler, clash, scan_state, lsnap, rsnap, gui>>
    BY <1>1, <1>4 DEF CallHandler
  <2>2. handler \in {"cmp", "dups", "sync"}
    BY <1>1, <2>1
  <2>3. i' \in 0 .. Slice
    BY <2>1, KindsFacts
  <2>4. CASE handler = "sync"
    BY <1>1, <2>1, <2>3, <2>4, Zenon
  <2>5. CASE handler # "sync"
    <3>1. pc' = Phase(scan_state)
      BY <2>1, <2>5
    <3>2. /\ pc' \in {"init", "scan", "next", "diff", "diffnext"}
          /\ pc' = "init" => scan_state = 0
          /\ pc' = "scan" => scan_state = 1
          /\ pc' = "next" => scan_state = 2
          /\ pc' = "diff" => scan_state = 3
      BY <2>1, <3>1, PhaseFacts
    <3>3. Paced'
      BY <2>1, <3>2
    <3>4. QED
      BY <1>1, <2>1, <2>2, <2>3, <2>5, <3>2, <3>3
  <2>6. QED
    BY <2>4, <2>5
<1>5. CASE FreeDiff \/ ForgetDiff
  <2>1. /\ UNCHANGED <<linked, handler, clash, fn, i, gui>>
        /\ \/ pc = "init" /\ pc' = "free" /\ UNCHANGED <<lsnap, rsnap, scan_state>>
           \/ pc = "free" /\ pc' = "scan" /\ lsnap' = None /\ rsnap' = None /\ Advance(1)
    BY <1>5, Zenon DEF FreeDiff, ForgetDiff
  <2>2. scan_state' \in 0 .. 4 /\ Paced'
    BY <1>1, <2>1 DEF Advance
  <2>3. QED
    BY <1>1, <2>1, <2>2
<1>6. CASE ScanOpen
  <2>1. lsnap' \in Nat \cup {None} /\ rsnap' \in Nat \cup {None}
    BY <1>1, <1>6, KindsFacts DEF ScanOpen, None
  <2>2. UNCHANGED <<linked, handler, clash, gui>>
    BY <1>6 DEF ScanOpen
  <2>3. \/ UNCHANGED <<fn, i>> /\ ((scan_state' = 3 /\ pc' = "diff") \/ (Advance(2) /\ pc' = "next"))
        \/ Return /\ UNCHANGED scan_state
    <3>1. CASE \E size \in Sizes, wild \in Wildcards :
                 /\ IF IF fn = "dups" THEN wild[1] ELSE wild[2]
                    THEN scan_state' = 3 /\ pc' = "diff" ELSE Advance(2) /\ pc' = "next"
                 /\ UNCHANGED <<fn, i>>
      <4>1. PICK wildcard :
              /\ IF wildcard THEN scan_state' = 3 /\ pc' = "diff" ELSE Advance(2) /\ pc' = "next"
              /\ UNCHANGED <<fn, i>>
        BY <3>1, Zenon
      <4>2. QED
        BY <4>1
    <3>2. CASE Return /\ UNCHANGED scan_state
      BY <3>2
    <3>3. QED
      BY <1>6, <3>1, <3>2, Zenon DEF ScanOpen
  <2>4. pc = "scan" /\ fn' \in {"none", fn}
    BY <1>6, <2>3 DEF ScanOpen
  <2>5. fn \in {"cmp", "dups"}
    BY <1>1, <2>4
  <2>6. scan_state' \in 0 .. 4 /\ i' \in 0 .. Slice /\ Paced'
    BY <1>1, <2>3, <2>4, KindsFacts DEF Advance
  <2>7. QED
    BY <1>1, <2>1, <2>2, <2>3, <2>4, <2>5, <2>6
<1>7. CASE ScanNext
  <2>1. CASE UNCHANGED allButBad
    BY <1>1, <2>1
  <2>2. CASE ScanRound
    <3>1. lsnap' \in Nat /\ rsnap' \in Nat \cup {None}
      BY <1>1, <2>2 DEF ScanRound, NoSnapshot, Rest, None
    <3>2. scan_state' \in 0 .. 4 /\ i' \in 0 .. Slice /\ Paced'
      BY <1>1, <2>2, KindsFacts DEF ScanRound, Advance
    <3>3. QED
      BY <1>1, <2>2, <3>1, <3>2 DEF ScanRound
  <2>3. QED
    BY <1>7, <2>1, <2>2, ScanNextFacts
<1>8. CASE ScanLater \/ DiffLater
  <2>1. pc \in {"next", "diffnext"} /\ GoOnLater(IF pc = "next" THEN "cmp" ELSE fn)
        /\ UNCHANGED <<scan_state, lsnap, rsnap, gui>>
    BY <1>8 DEF ScanLater, DiffLater
  <2>2. QED
    BY <1>1, <2>1, KindsFacts DEF GoOnLater, Post
<1>9. CASE DiffBegin
  BY <1>1, <1>9, KindsFacts DEF DiffBegin, Advance
<1>10. CASE CompareNext \/ WalkNext
  <2>1. i' = i + 1 /\ i < Slice /\ UNCHANGED <<linked, handler, clash, scan_state, lsnap, rsnap, pc, fn, gui>>
    BY <1>10 DEF CompareNext, WalkNext
  <2>2. QED
    BY <1>1, <2>1, KindsFacts
<1>11. CASE WalkAstray
  BY <1>1, <1>11 DEF WalkAstray
<1>12. CASE DiffEnds
  BY <1>1, <1>12 DEF DiffEnds
<1>13. CASE ShowResult
  BY <1>1, <1>13, KindsFacts DEF ShowResult
<1>14. CASE SyncItem
  BY <1>1, <1>14, SyncItemFacts DEF ItemBegun, DoNow, StartChild
<1>15. CASE SyncEnds \/ Unwind
  BY <1>1, <1>15, KindsFacts DEF SyncEnds, Unwind
<1>16. CASE ChildEnds
  BY <1>1, <1>16, ChildEndsFacts DEF ItemEnded
<1>17. CASE TrashEnds \/ PressDelete
  BY <1>1, <1>17, TrashEndsFacts, PressDeleteFacts DEF RowsMarked, RowsChosen
<1>18. CASE PressScan
  BY <1>1, <1>18 DEF PressScan
<1>19. CASE PostScan
  BY <1>1, <1>19 DEF PostScan, Post
<1>20. CASE PressSync
  <2>1. (UNCHANGED taskVars \/ Post("sync")) /\ UNCHANGED <<scan_state, lsnap, rsnap, pc, fn, i, gui>>
    BY <1>20, PressSyncFacts, Zenon DEF Begun
  <2>2. QED
    <3>1. CASE UNCHANGED taskVars
      BY <1>1, <2>1, <3>1
    <3>2. CASE Post("sync")
      <4>1. linked' = TRUE /\ handler' = "sync" /\ clash' \in BOOLEAN
        BY <1>1, <3>2, PostFacts
      <4>2. QED
        BY <1>1, <2>1, <4>1
    <3>3. QED
      BY <2>1, <3>1, <3>2
<1>21. CASE PressSwap \/ PressView
  BY <1>1, <1>21 DEF PressSwap, PressView, Redrawn
<1>22. CASE Redraw
  BY <1>1, <1>22, RedrawFacts DEF Drawn
<1>23. CASE RunPost \/ Quit
  BY <1>1, <1>23 DEF RunPost, Quit
<1>24. QED
  BY <1>2, <1>3, <1>4, <1>5, <1>6, <1>7, <1>8, <1>9, <1>10, <1>11, <1>12, <1>13, <1>14, <1>15, <1>16, <1>17,
     <1>18, <1>19, <1>20, <1>21, <1>22, <1>23, Zenon DEF Next, Worker, User
\* The comparison and the list, their numbers and the two sequences.
compVars == <<diff, made, dups, ents, dup_cur, ce_prev, rows, filter>>

\* A comparison is begun.
CompareBegun ==
  /\ pc = "diff" /\ made' = made + 1 /\ diff' = made + 1 /\ dups' = (fn = "dups")
  /\ \/ ents' = [x \in Ids |-> "none"] /\ filter' \in BySize(Ids) /\ fn = "dups"
     \/ ents' = << >> /\ filter' = << >> /\ fn # "dups"
  /\ dup_cur' = 0 /\ ce_prev' = 0 /\ mark' = NoMarks /\ ok' = {} /\ deleted' = {}
  /\ pc' = "diffnext"
  /\ UNCHANGED <<taskVars, rows, syncVars, childVars, delVars, flagVars, gui, posts,
                 result>>
LEMMA DiffBeginFacts == DiffBegin => UNCHANGED allButBad \/ CompareBegun
<1> SUFFICES ASSUME DiffBegin, ~UNCHANGED allButBad PROVE CompareBegun
  OBVIOUS
<1>1. ~Ruin("snapshot")
  BY DEF Ruin
<1>2. \/ ents' = [x \in Ids |-> "none"] /\ filter' \in BySize(Ids) /\ fn = "dups"
      \/ ents' = << >> /\ filter' = << >> /\ fn # "dups"
  BY <1>1, Zenon DEF DiffBegin
<1>3. QED
  BY <1>1, <1>2, Zenon DEF DiffBegin, CompareBegun, winVars, askVars

\* The walk through the files leaves all but the status of some and their marks.
LEMMA WalkFacts ==
  ASSUME Types, Single(ce_prev) \/ \E x, y \in Ids : Pair(x, y)
  PROVE  /\ ents' \in Seq(Statuses) /\ Len(ents') = Len(ents)
         /\ mark' \in [Ids -> Marks]
<1>1. ents \in Seq(Statuses) /\ mark \in [Ids -> Marks] /\ Len(ents) \in Nat
  BY DEF Types, ListTypes, BatchTypes
<1>2. "NEQ" \in Statuses /\ "EQ" \in Statuses /\ "twin" \in Statuses /\ "none" \in Marks /\ "done" \in Marks
  BY DEF Statuses, Marks
<1>3. CASE Single(ce_prev)
  <2>1. CASE UNCHANGED <<ents, mark>>
    BY <1>1, <2>1
  <2>2. CASE ents' = [ents EXCEPT ![ce_prev] = "NEQ"] /\ mark' = [mark EXCEPT ![ce_prev] = "none"]
    <3>1. ents' \in Seq(Statuses) /\ Len(ents') = Len(ents)
      BY <1>1, <1>2, <2>2, ExceptFacts
    <3>2. QED
      BY <1>1, <1>2, <2>2, <3>1
  <2>3. QED
    BY <1>3, <2>1, <2>2 DEF Single
<1>4. ASSUME NEW x \in Ids, NEW y \in Ids, Pair(x, y)
      PROVE  ents' \in Seq(Statuses) /\ Len(ents') = Len(ents) /\ mark' \in [Ids -> Marks]
  <2> DEFINE e == [ents EXCEPT ![x] = "EQ"]
             m == [mark EXCEPT ![x] = "none"]
  <2>1. e \in Seq(Statuses) /\ Len(e) = Len(ents) /\ m \in [Ids -> Marks]
    BY <1>1, <1>2, ExceptFacts
  <2>2. ents' = [e EXCEPT ![y] = "twin"] /\ mark' = [m EXCEPT ![y] = "done"]
    BY <1>4 DEF Pair
  <2> HIDE DEF e, m
  <2>3. ents' \in Seq(Statuses) /\ Len(ents') = Len(e)
    BY <1>2, <2>1, <2>2, ExceptFacts
  <2>4. QED
    BY <1>2, <2>1, <2>2, <2>3
<1>5. QED
  BY <1>3, <1>4

\* What a step of the walk comes to.
LEMMA WalkNextFacts ==
  ASSUME Types, WalkNext
  PROVE  \/ Single(ce_prev) /\ ce_prev' \in Ids /\ ce_prev' <= Len(ents)
         \/ \E x, y \in Ids : y <= Len(ents) /\ Pair(x, y) /\ ce_prev' = 0
<1>1. /\ filter \in Seq(Ids) /\ dup_cur \in Nat /\ ce_prev \in 0 .. Len(Kinds)
      /\ \A n \in 1 .. Len(filter) : filter[n] <= Len(ents)
  BY KindsFacts DEF Types, ListTypes
<1>2. dup_cur < Len(filter) /\ dup_cur + 1 \in 1 .. Len(filter)
  BY <1>1 DEF WalkNext
<1> DEFINE ce == filter[dup_cur + 1]
<1>3. ce \in Ids /\ ce <= Len(ents)
  BY <1>1, <1>2
<1>4. \/ ce_prev # 0 /\ Pair(ce_prev, ce) /\ ce_prev' = 0
      \/ Single(ce_prev) /\ ce_prev' = ce
  BY Zenon DEF WalkNext
<1> HIDE DEF ce
<1>5. ce_prev # 0 => ce_prev \in Ids
  BY <1>1, KindsFacts DEF Ids
<1>6. QED
  BY <1>3, <1>4, <1>5

LEMMA ListStep == Types /\ [Next]_vars => ListTypes'
<1> SUFFICES ASSUME Types, [Next]_vars PROVE ListTypes'
  OBVIOUS
<1>1. ListTypes
  BY DEF Types
<1>2. CASE UNCHANGED compVars
  BY <1>1, <1>2 DEF ListTypes, compVars
<1>3. CASE ForgetDiff
  <2>1. UNCHANGED <<made, dups, dup_cur, ce_prev, rows>> /\ diff' = 0 /\ ents' = << >> /\ filter' = << >>
    BY <1>3 DEF ForgetDiff
  <2>2. ents' \in Seq(Statuses) /\ Len(ents') = 0 /\ filter' \in Seq(Ids) /\ Len(filter') = 0
    BY <2>1
  <2>3. QED
    BY <1>1, <2>1, <2>2, KindsFacts DEF ListTypes
<1>4. CASE CompareBegun
  <2>1. made' \in Nat /\ diff' = made' /\ dups' \in BOOLEAN /\ rows' = rows
    BY <1>1, <1>4 DEF CompareBegun, ListTypes
  <2>2. dup_cur' \in 0 .. Len(Kinds) /\ ce_prev' \in 0 .. Len(Kinds)
    BY <1>4, KindsFacts DEF CompareBegun
  <2>3. CASE ents' = [x \in Ids |-> "none"] /\ filter' \in BySize(Ids)
    <3>1. ents' \in Seq(Statuses) /\ Len(ents') = Len(Kinds)
      BY <2>3, KindsFacts DEF Ids, Statuses
    <3>2. /\ filter' \in Seq(Ids) /\ Len(filter') <= Len(Kinds)
          /\ \A m, n \in 1 .. Len(filter') : m # n => filter'[m] # filter'[n]
      BY <2>3, BySizeFacts
    <3>3. \A n \in 1 .. Len(filter') : filter'[n] <= Len(ents')
      BY <3>1, <3>2, KindsFacts DEF Ids
    <3>4. QED
      BY <1>1, <2>1, <2>2, <3>1, <3>2, <3>3, KindsFacts DEF ListTypes
  <2>4. CASE ents' = << >> /\ filter' = << >>
    <3>1. ents' \in Seq(Statuses) /\ Len(ents') = 0 /\ filter' \in Seq(Ids) /\ Len(filter') = 0
      BY <2>4
    <3>2. QED
      BY <1>1, <2>1, <2>2, <3>1, KindsFacts DEF ListTypes
  <2>5. QED
    BY <1>4, <2>3, <2>4 DEF CompareBegun
<1>5. CASE CompareNext
  <2>1. /\ UNCHANGED <<diff, made, dups, dup_cur, ce_prev, rows, filter>> /\ Len(ents) < Len(Kinds)
        /\ ents' = Append(ents, Kinds[Len(ents) + 1])
    BY <1>5 DEF CompareNext, listVars
  <2>2. Kinds[Len(ents) + 1] \in Statuses
    <3>1. Len(ents) \in Nat
      BY <1>1 DEF ListTypes
    <3>2. Kinds[Len(ents) + 1] \in {"LEFT", "RIGHT", "NEQ", "MOVE"}
      BY <2>1, <3>1, KindsFacts
    <3>3. QED
      BY <3>2 DEF Statuses
  <2>3. ents' \in Seq(Statuses) /\ Len(ents') = Len(ents) + 1
    BY <1>1, <2>1, <2>2 DEF ListTypes
  <2>4. ASSUME NEW n \in 1 .. Len(filter) PROVE filter[n] <= Len(ents')
    <3>1. filter \in Seq(Ids) /\ filter[n] <= Len(ents) /\ Len(ents) \in Nat
      BY <1>1 DEF ListTypes
    <3>2. filter[n] \in Ids
      BY <3>1, ElementFacts
    <3>3. QED
      BY <2>3, <3>1, <3>2, KindsFacts DEF Ids
  <2>5. Len(ents') <= Len(Kinds)
    BY <1>1, <2>1, <2>3, KindsFacts DEF ListTypes
  <2>6. QED
    BY <1>1, <2>1, <2>3, <2>4, <2>5 DEF ListTypes
<1>6. CASE WalkNext
  <2>1. UNCHANGED <<diff, made, dups, rows, filter>> /\ dup_cur' = dup_cur + 1 /\ dup_cur < Len(filter)
    BY <1>6 DEF WalkNext, listVars
  <2>2. dup_cur' \in 0 .. Len(Kinds)
    BY <1>1, <2>1, KindsFacts DEF ListTypes
  <2>3. ce_prev' \in 0 .. Len(Kinds) /\ (Single(ce_prev) \/ \E x, y \in Ids : Pair(x, y))
    BY <1>6, WalkNextFacts, KindsFacts DEF Ids
  <2>4. ents' \in Seq(Statuses) /\ Len(ents') = Len(ents)
    BY <2>3, WalkFacts
  <2>5. QED
    BY <1>1, <2>1, <2>2, <2>3, <2>4 DEF ListTypes
<1>7. CASE DiffEnds
  <2>1. /\ UNCHANGED <<diff, made, dups, rows, dup_cur, ce_prev>>
        /\ filter' \in {filter, << >>} /\ (Single(ce_prev) \/ UNCHANGED ents)
    BY <1>7 DEF DiffEnds
  <2>2. ents' \in Seq(Statuses) /\ Len(ents') = Len(ents)
    BY <1>1, <2>1, WalkFacts DEF ListTypes
  <2>3. CASE filter' = filter
    BY <1>1, <2>1, <2>2, <2>3 DEF ListTypes
  <2>4. CASE filter' = << >>
    <3>1. filter' \in Seq(Ids) /\ Len(filter') = 0
      BY <2>4
    <3>2. QED
      BY <1>1, <2>1, <2>2, <3>1, KindsFacts DEF ListTypes
  <2>5. QED
    BY <2>1, <2>3, <2>4
<1>8. ASSUME NEW all, View(all), UNCHANGED <<diff, made, dups, ents, dup_cur, ce_prev>> PROVE ListTypes'
  <2>1. /\ filter' \in Seq(Ids) /\ Len(filter') <= Len(Kinds) /\ rows' \in 0 .. Len(Kinds)
        /\ \A n \in 1 .. Len(filter') : filter'[n] <= Len(ents)
        /\ \A m, n \in 1 .. Len(filter') : m # n => filter'[m] # filter'[n]
    BY <1>1, <1>8, ViewFacts
  <2>2. QED
    BY <1>1, <1>8, <2>1 DEF ListTypes
<1>9. CASE ShowResult \/ Drawn
  <2>1. View(show_all) /\ UNCHANGED <<diff, made, dups, ents, dup_cur, ce_prev>>
    BY <1>9 DEF ShowResult, Drawn, diffVars
  <2>2. QED
    BY <1>8, <2>1
<1>10. CASE UNCHANGED vars \/ UNCHANGED allButBad
  BY <1>2, <1>10 DEF vars, allButBad, diffVars, listVars, compVars
<1>11. CASE \/ TakeTask \/ CallHandler \/ FreeDiff \/ ScanOpen \/ ScanRound \/ ScanLater \/ DiffLater
            \/ ItemBegun \/ SyncEnds \/ Unwind \/ ItemEnded \/ RowsMarked
  BY <1>2, <1>11 DEF TakeTask, CallHandler, FreeDiff, ScanOpen, ScanRound, ScanLater, DiffLater, ItemBegun,
       SyncEnds, Unwind, ItemEnded, RowsMarked, diffVars, listVars, compVars
<1>12. CASE \/ PressScan \/ PostScan \/ (\E chosen : Begun(chosen)) \/ PressSwap \/ PressView \/ RowsChosen
            \/ RunPost \/ Quit
  BY <1>2, <1>12 DEF PressScan, PostScan, Begun, PressSwap, PressView, RowsChosen, RunPost, Quit,
       diffVars, listVars, compVars
<1>13. CASE WalkAstray
  BY <1>10, <1>13 DEF WalkAstray, Ruin
<1>14. QED
  BY <1>3, <1>4, <1>5, <1>6, <1>7, <1>9, <1>10, <1>11, <1>12, <1>13, ScanNextFacts, DiffBeginFacts,
     SyncItemFacts, ChildEndsFacts, TrashEndsFacts, PressSyncFacts, PressDeleteFacts, RedrawFacts, Zenon
  DEF Next, Worker, User
\* The steps that there are.
ScanStep ==
  \/ TakeTask \/ CallHandler \/ FreeDiff \/ ForgetDiff \/ ScanOpen \/ ScanRound \/ ScanLater
  \/ CompareBegun \/ CompareNext \/ WalkNext \/ DiffLater \/ DiffEnds \/ ShowResult
BatchStep == ItemBegun \/ SyncEnds \/ Unwind \/ ItemEnded \/ RowsMarked
WindowStep ==
  \/ PressScan \/ PostScan \/ (\E chosen : Begun(chosen)) \/ PressSwap \/ PressView \/ Drawn \/ RowsChosen
  \/ RunPost \/ Quit
LEMMA StepCases ==
  Types /\ [Next]_vars => UNCHANGED allButBad \/ ScanStep \/ BatchStep \/ WindowStep
<1>1. UNCHANGED vars => UNCHANGED allButBad
  BY DEF vars
<1>2. WalkAstray => UNCHANGED allButBad
  BY DEF WalkAstray, Ruin
<1>3. QED
  BY <1>1, <1>2, ScanNextFacts, DiffBeginFacts, SyncItemFacts, ChildEndsFacts, TrashEndsFacts, PressSyncFacts,
     PressDeleteFacts, RedrawFacts, Zenon
  DEF Next, Worker, User, ScanStep, BatchStep, WindowStep

\* The item of a batch, and what is done with it.
LEMMA ItemFacts ==
  ASSUME Types, sync_item_i <= Len(sync_items)
  PROVE  /\ Item \in Items /\ Item.id \in Ids /\ Item # NoItem
         /\ sync_item_i \in 1 .. Len(sync_items)
         /\ Item.gen = diff => ents[Item.id] \in Statuses /\ ActOf(Item.id) \in Statuses
<1>1. sync_items \in Seq(Items) /\ sync_item_i \in 1 .. Len(sync_items)
  BY DEF Types, BatchTypes
<1>2. Item \in Items
  BY <1>1 DEF Item
<1>3. Item.id \in Ids /\ Item # NoItem
  BY <1>2 DEF Items, NoItem
<1>4. ASSUME Item.gen = diff PROVE ents[Item.id] \in Statuses /\ ActOf(Item.id) \in Statuses
  <2>1. Item.id <= Len(ents)
    BY <1>1, <1>4 DEF Types, Known, Item
  <2>2. ents[Item.id] \in Statuses
    BY <1>3, <2>1, KindsFacts DEF Types, ListTypes, Ids
  <2>3. QED
    BY <2>2, ActsFacts DEF Types, BatchTypes, ActOf
<1>5. QED
  BY <1>1, <1>2, <1>3, <1>4

LEMMA BatchTypesStep == Types /\ [Next]_vars => BatchTypes'
<1> SUFFICES ASSUME Types, [Next]_vars PROVE BatchTypes'
  OBVIOUS
<1> DEFINE batch == <<sync_items, sync_item_i, asked>>
           rest == <<child, nest, log, sel_indices, posts>>
<1>1. BatchTypes
  BY DEF Types
<1>2. ASSUME mark' \in [Ids -> Marks], swap' \in BOOLEAN, UNCHANGED <<batch, rest>> PROVE BatchTypes'
  BY <1>1, <1>2 DEF BatchTypes
<1>3. CASE UNCHANGED <<mark, swap, batch, rest>>
  BY <1>1, <1>2, <1>3 DEF BatchTypes
<1>4. CASE UNCHANGED allButBad
  BY <1>3, <1>4 DEF allButBad, doneVars, flagVars, syncVars, childVars, delVars, winVars
<1>5. CASE ForgetDiff \/ CompareBegun
  <2>1. mark' = NoMarks /\ swap' \in {swap, FALSE} /\ UNCHANGED <<batch, rest>>
    BY <1>5 DEF ForgetDiff, CompareBegun, Turn, syncVars, childVars, delVars, winVars, flagVars
  <2>2. QED
    BY <1>1, <1>2, <2>1 DEF NoMarks, Marks, BatchTypes
<1>6. CASE WalkNext \/ DiffEnds
  <2>1. UNCHANGED <<swap, batch, rest>>
    BY <1>6 DEF WalkNext, DiffEnds, syncVars, childVars, delVars, winVars, flagVars
  <2>2. mark' \in [Ids -> Marks]
    BY <1>1, <1>6, WalkNextFacts, WalkFacts DEF DiffEnds, BatchTypes
  <2>3. QED
    BY <1>1, <1>2, <2>1, <2>2 DEF BatchTypes
<1>7. CASE \/ TakeTask \/ CallHandler \/ FreeDiff \/ ScanOpen \/ ScanRound \/ ScanLater \/ CompareNext
           \/ DiffLater \/ ShowResult
  BY <1>3, <1>7 DEF TakeTask, CallHandler, FreeDiff, ScanOpen, ScanRound, ScanLater, CompareNext, DiffLater,
     ShowResult, doneVars, flagVars, syncVars, childVars, delVars, winVars
<1>8. CASE ItemBegun
  <2>1. /\ Item \in Items /\ Item.id \in Ids /\ sync_item_i \in 1 .. Len(sync_items)
        /\ ActOf(Item.id) \in Statuses
    BY <1>8, ItemFacts DEF ItemBegun, Usable
  <2>2. UNCHANGED <<swap, sync_items, asked, sel_indices, posts>>
    BY <1>8 DEF ItemBegun, delVars, flagVars
  <2>3. log' \in Seq(Doings)
    <3>1. <<Item.id, ActOf(Item.id)>> \in Doings
      BY <2>1 DEF Doings
    <3>2. log' = Append(log, <<Item.id, ActOf(Item.id)>>)
      BY <1>8 DEF ItemBegun
    <3>3. QED
      BY <1>1, <3>1, <3>2 DEF BatchTypes
  <2>4. sync_item_i' \in {sync_item_i, sync_item_i + 1} /\ child' \in {child, Item}
    BY <1>8 DEF ItemBegun, DoNow, StartChild
  <2>5. mark' \in [Ids -> Marks]
    <3>1. PICK m \in Marks : mark' = [mark EXCEPT ![Item.id] = m]
      BY <1>8 DEF ItemBegun, DoNow, StartChild, Marks
    <3>2. QED
      BY <1>1, <3>1 DEF BatchTypes
  <2>6. nest' \in Seq([at : Nat \ {0}, item : Items])
    <3>1. nest' = nest \/ nest' = Append(nest, [at |-> sync_item_i, item |-> Item])
      BY <1>8 DEF ItemBegun, DoNow, StartChild
    <3>2. [at |-> sync_item_i, item |-> Item] \in [at : Nat \ {0}, item : Items]
      BY <2>1
    <3>3. nest \in Seq([at : Nat \ {0}, item : Items])
      BY <1>1 DEF BatchTypes
    <3>4. QED
      BY <3>1, <3>2, <3>3, AppendFacts
  <2>7. QED
    BY <1>1, <2>1, <2>2, <2>3, <2>4, <2>5, <2>6 DEF BatchTypes
<1>9. CASE Unwind
  <2>1. UNCHANGED <<swap, batch, child, log, sel_indices, posts>>
    BY <1>9 DEF Unwind, flagVars, syncVars, delVars, winVars
  <2>2. CASE UNCHANGED <<nest, mark>>
    BY <1>3, <2>1, <2>2
  <2>3. CASE nest # << >> /\ nest' = Front(nest) /\ mark' = [mark EXCEPT ![Pointed(Last(nest))] = "late"]
    <3>1. nest' \in Seq([at : Nat \ {0}, item : Items])
      <4>1. nest \in Seq([at : Nat \ {0}, item : Items])
        BY <1>1 DEF BatchTypes
      <4>2. QED
        BY <2>3, <4>1, FrontFacts
    <3>2. mark' \in [Ids -> Marks]
      BY <1>1, <2>3 DEF BatchTypes, Marks
    <3>3. QED
      BY <1>1, <2>1, <3>1, <3>2 DEF BatchTypes
  <2>4. QED
    BY <1>9, <2>2, <2>3 DEF Unwind
<1>10. CASE ItemEnded
  <2>1. sync_item_i \in 1 .. Len(sync_items) /\ sync_item_i' = sync_item_i + 1 /\ child' = NoItem
    BY <1>10, ItemFacts DEF ItemEnded
  <2>2. UNCHANGED <<swap, sync_items, asked, nest, log, sel_indices, posts>>
    BY <1>10 DEF ItemEnded, delVars, flagVars
  <2>3. mark' \in [Ids -> Marks]
    BY <1>1, <1>10 DEF ItemEnded, Mark, BatchTypes, Marks
  <2>4. QED
    BY <1>1, <2>1, <2>2, <2>3 DEF BatchTypes
<1>11. CASE SyncEnds \/ RowsMarked
  <2>1. UNCHANGED <<swap, batch, child, nest, log, sel_indices>>
    BY <1>11 DEF SyncEnds, RowsMarked, flagVars, syncVars, childVars, delVars
  <2>2. posts' \in Seq({"sync_done", "deleted"})
    <3>1. posts' = Append(posts, "sync_done") \/ posts' = Append(posts, "deleted")
      BY <1>11 DEF SyncEnds, RowsMarked
    <3>2. posts \in Seq({"sync_done", "deleted"})
      BY <1>1 DEF BatchTypes
    <3>3. QED
      BY <3>1, <3>2, AppendFacts
  <2>3. mark' \in [Ids -> Marks]
    BY <1>1, <1>11 DEF SyncEnds, RowsMarked, doneVars, BatchTypes, Marks
  <2>4. QED
    BY <1>1, <2>1, <2>2, <2>3 DEF BatchTypes
<1>12. ASSUME NEW chosen, Begun(chosen) PROVE BatchTypes'
  <2>1. /\ UNCHANGED <<mark, swap, child, nest, sel_indices, posts>> /\ sync_item_i' = 1 /\ log' = << >>
        /\ chosen \in Seq(Ids) /\ diff # 0
        /\ sync_items' = [n \in 1 .. Len(chosen) |-> [gen |-> diff, id |-> filter[chosen[n]]]]
        /\ asked' = [n \in 1 .. Len(chosen) |-> <<filter[chosen[n]], ents[filter[chosen[n]]]>>]
    BY <1>12 DEF Begun, doneVars, delVars
  <2>2. ASSUME NEW n \in 1 .. Len(chosen)
        PROVE  filter[chosen[n]] \in Ids /\ ents[filter[chosen[n]]] \in Statuses
    <3>1. chosen[n] \in Ids /\ chosen[n] <= Len(filter)
      BY <1>12, <2>1 DEF Begun
    <3>2. filter[chosen[n]] \in Ids /\ filter[chosen[n]] <= Len(ents)
      <4>1. filter \in Seq(Ids) /\ \A k \in 1 .. Len(filter) : filter[k] <= Len(ents)
        BY DEF Types, ListTypes
      <4>2. chosen[n] \in 1 .. Len(filter)
        <5>1. Len(filter) \in Nat
          BY <4>1
        <5>2. QED
          BY <3>1, <5>1, KindsFacts DEF Ids
      <4>3. QED
        BY <4>1, <4>2
    <3>3. ents \in Seq(Statuses) /\ Len(ents) \in Nat
      BY DEF Types, ListTypes
    <3>4. filter[chosen[n]] \in 1 .. Len(ents)
      BY <3>2, <3>3, KindsFacts DEF Ids
    <3>5. QED
      BY <3>2, <3>3, <3>4, ElementFacts
  <2>3. diff \in Nat \ {0}
    BY <2>1 DEF Types, ListTypes
  <2>4. /\ sync_items' \in Seq(Items) /\ Len(sync_items') = Len(chosen)
    BY <2>1, <2>2, <2>3 DEF Items
  <2>5. /\ asked' \in Seq(Doings) /\ Len(asked') = Len(chosen)
    BY <2>1, <2>2 DEF Doings
  <2>6. log' \in Seq(Doings) /\ sync_item_i' \in 1 .. Len(sync_items') + 1 /\ sync_item_i' \in Nat \ {0}
    BY <2>1, <2>4
  <2>7. QED
    BY <1>1, <2>1, <2>4, <2>5, <2>6 DEF BatchTypes
<1>13. CASE PressSwap
  BY <1>1, <1>2, <1>13 DEF PressSwap, Turn, doneVars, syncVars, childVars, delVars, BatchTypes
<1>14. CASE RowsChosen
  <2>1. sel_indices' \subseteq 1 .. Len(Kinds)
    BY <1>14, KindsFacts DEF RowsChosen, Types, ListTypes
  <2>2. UNCHANGED <<mark, swap, batch, child, nest, log, posts>>
    BY <1>14 DEF RowsChosen, doneVars, flagVars, syncVars, childVars
  <2>3. QED
    BY <1>1, <2>1, <2>2 DEF BatchTypes
<1>15. CASE RunPost
  <2>1. UNCHANGED <<mark, swap, child, nest, sync_item_i>> /\ posts # << >> /\ posts' = Tail(posts)
    BY <1>15 DEF RunPost, doneVars
  <2>2. posts' \in Seq({"sync_done", "deleted"})
    BY <1>1, <2>1 DEF BatchTypes
  <2>3. CASE sync_items' = << >> /\ asked' = << >> /\ log' = << >> /\ UNCHANGED sel_indices
    <3>1. sync_items' \in Seq(Items) /\ asked' \in Seq(Doings) /\ log' \in Seq(Doings)
      BY <2>3
    <3>2. QED
      BY <1>1, <2>1, <2>2, <2>3, <3>1 DEF BatchTypes
  <2>4. CASE sel_indices' = {} /\ UNCHANGED <<sync_items, asked, log>>
    BY <1>1, <2>1, <2>2, <2>4 DEF BatchTypes
  <2>5. QED
    BY <1>15, <2>3, <2>4, Zenon DEF RunPost
<1>16. CASE PressScan \/ PostScan \/ PressView \/ Drawn \/ Quit
  BY <1>3, <1>16 DEF PressScan, PostScan, PressView, Drawn, Quit, doneVars, flagVars, syncVars, childVars, delVars
<1>17. QED
  BY <1>4, <1>5, <1>6, <1>7, <1>8, <1>9, <1>10, <1>11, <1>12, <1>13, <1>14, <1>15, <1>16, StepCases, Zenon
  DEF ScanStep, BatchStep, WindowStep

LEMMA KnownStep == Types /\ [Next]_vars => Known'
<1> SUFFICES ASSUME Types, [Next]_vars PROVE Known'
  OBVIOUS
<1>1. Known /\ ListTypes /\ BatchTypes
  BY DEF Types
<1>2. ASSUME UNCHANGED sync_items, made' \in {made, made + 1}, diff' \in {diff, 0, made + 1},
             diff' = diff /\ diff # 0 => Len(ents') \in {Len(ents), Len(ents) + 1}
      PROVE  Known'
  <2> SUFFICES ASSUME NEW n \in 1 .. Len(sync_items)
               PROVE  /\ sync_items[n].gen <= made'
                      /\ sync_items[n].gen = diff' => sync_items[n].id <= Len(ents')
    BY <1>2 DEF Known
  <2>1. /\ sync_items[n].gen \in Nat \ {0} /\ sync_items[n].id \in Nat /\ sync_items[n].gen <= made
        /\ sync_items[n].gen = diff => sync_items[n].id <= Len(ents)
    <3>1. sync_items[n] \in Items
      BY <1>1 DEF BatchTypes
    <3>2. QED
      BY <1>1, <3>1, KindsFacts DEF Known, Items, Ids
  <2>2. made \in Nat /\ diff \in Nat /\ Len(ents) \in Nat
    BY <1>1 DEF ListTypes
  <2>3. QED
    BY <1>2, <2>1, <2>2
<1>3. CASE UNCHANGED allButBad
  BY <1>2, <1>3 DEF allButBad, diffVars, syncVars
<1>4. CASE CompareNext
  <2>1. Len(ents') = Len(ents) + 1 /\ UNCHANGED <<sync_items, made, diff>>
    BY <1>1, <1>4 DEF CompareNext, ListTypes, syncVars
  <2>2. QED
    BY <1>2, <2>1
<1>5. CASE WalkNext \/ DiffEnds
  <2>1. UNCHANGED <<sync_items, made, diff>>
    BY <1>5 DEF WalkNext, DiffEnds, syncVars
  <2>2. Len(ents') = Len(ents)
    BY <1>5, WalkNextFacts, WalkFacts DEF DiffEnds
  <2>3. QED
    BY <1>2, <2>1, <2>2
<1>6. CASE ScanStep /\ ~(CompareNext \/ WalkNext \/ DiffEnds)
  <2>1. CASE ForgetDiff \/ CompareBegun
    <3>1. UNCHANGED sync_items /\ ((diff' = 0 /\ made' = made) \/ (diff' = made + 1 /\ made' = made + 1))
      BY <2>1 DEF ForgetDiff, CompareBegun, syncVars
    <3>2. QED
      BY <1>1, <1>2, <3>1 DEF ListTypes
  <2>2. CASE \/ TakeTask \/ CallHandler \/ FreeDiff \/ ScanOpen \/ ScanRound \/ ScanLater \/ DiffLater
             \/ ShowResult
    <3>1. UNCHANGED <<diffVars, sync_items>>
      BY <2>2 DEF TakeTask, CallHandler, FreeDiff, ScanOpen, ScanRound, ScanLater, DiffLater, ShowResult, syncVars
    <3>2. QED
      BY <1>2, <3>1 DEF diffVars
  <2>3. QED
    BY <1>6, <2>1, <2>2, Zenon DEF ScanStep
<1>7. CASE BatchStep
  BY <1>2, <1>7 DEF BatchStep, ItemBegun, SyncEnds, Unwind, ItemEnded, RowsMarked, diffVars, syncVars
<1>8. ASSUME NEW chosen, Begun(chosen) PROVE Known'
  <2>1. /\ UNCHANGED <<made, diff, ents>> /\ chosen \in Seq(Ids)
        /\ sync_items' = [n \in 1 .. Len(chosen) |-> [gen |-> diff, id |-> filter[chosen[n]]]]
    BY <1>8 DEF Begun, diffVars
  <2>2. ASSUME NEW n \in 1 .. Len(chosen) PROVE filter[chosen[n]] <= Len(ents)
    <3>1. chosen[n] \in Ids /\ chosen[n] <= Len(filter)
      BY <1>8, <2>1 DEF Begun
    <3>2. Len(filter) \in Nat /\ \A k \in 1 .. Len(filter) : filter[k] <= Len(ents)
      BY <1>1 DEF ListTypes
    <3>3. chosen[n] \in 1 .. Len(filter)
      BY <3>1, <3>2, KindsFacts DEF Ids
    <3>4. QED
      BY <3>2, <3>3
  <2>3. Len(sync_items') = Len(chosen)
    BY <2>1
  <2>4. QED
    BY <1>1, <2>1, <2>2, <2>3 DEF Known, ListTypes
<1>9. CASE RunPost
  <2>1. UNCHANGED <<made, diff, ents>> /\ sync_items' \in {sync_items, << >>}
    BY <1>9 DEF RunPost, diffVars
  <2>2. QED
    BY <1>2, <2>1 DEF Known
<1>10. CASE PressScan \/ PostScan \/ PressSwap \/ PressView \/ Drawn \/ RowsChosen \/ Quit
  BY <1>2, <1>10 DEF PressScan, PostScan, PressSwap, PressView, Drawn, RowsChosen, Quit, diffVars, syncVars
<1>11. QED
  BY <1>3, <1>4, <1>5, <1>6, <1>7, <1>8, <1>9, <1>10, StepCases, Zenon DEF WindowStep

LEMMA TypesStep == Types /\ [Next]_vars => Types'
BY FlowStep, ListStep, BatchTypesStep, KnownStep DEF Types
-----------------------------------------------------------------------------
(* A batch is in one place. *)

Announced == \E n \in 1 .. Len(posts) : posts[n] = "sync_done"

\* What carries the batch on, and where it is then.
OnePlace ==
  /\ pc = "call" => ~linked
  /\ handler = "sync" /\ (linked \/ pc = "call") =>
       pc # "sync" /\ child = NoItem /\ ~Announced /\ sync_items # << >> /\ sync_item_i = 1
  /\ pc = "sync" => child = NoItem /\ ~Announced /\ sync_items # << >>
  /\ child # NoItem => ~Announced /\ sync_item_i <= Len(sync_items) /\ Item = child
  /\ Announced => child = NoItem /\ sync_items # << >> /\ sync_item_i = Len(sync_items) + 1
  /\ \A m, n \in 1 .. Len(posts) : posts[m] = "sync_done" /\ posts[n] = "sync_done" => m = n

placeVars == <<child, posts, sync_items, sync_item_i>>

\* The worker is somewhere else, but not in a function that was posted or in a batch.
LEMMA OnePlaceStays ==
  ASSUME OnePlace, UNCHANGED placeVars, UNCHANGED <<linked, handler>>, pc' = pc \/ pc' \notin {"call", "sync"}
  PROVE  OnePlace'
BY DEF OnePlace, placeVars, Announced, Item

\* A scan's function is posted.
LEMMA OnePlacePosts ==
  ASSUME Types, OnePlace, UNCHANGED placeVars, NEW f \in {"cmp", "dups"}, Post(f), ~clash', pc' = pc \/ pc' = "idle"
  PROVE  OnePlace'
<1>1. linked' /\ handler' = f /\ pc # "call"
  BY DEF Post, Types, FlowTypes
<1>2. QED
  BY <1>1 DEF OnePlace, placeVars, Announced, Item

\* What happened once has happened.
LEMMA ClashStays == Types /\ [Next]_vars /\ clash => clash'
<1> SUFFICES ASSUME Types, [Next]_vars, clash PROVE clash'
  OBVIOUS
<1>1. CASE UNCHANGED allButBad
  BY <1>1 DEF allButBad, taskVars
<1>2. CASE ScanStep
  BY <1>2 DEF ScanStep, TakeTask, CallHandler, FreeDiff, ForgetDiff, ScanOpen, ScanRound, ScanLater, GoOnLater,
     Post, CompareBegun, CompareNext, WalkNext, DiffLater, DiffEnds, ShowResult, taskVars
<1>3. CASE BatchStep
  BY <1>3 DEF BatchStep, ItemBegun, SyncEnds, Unwind, ItemEnded, RowsMarked, taskVars
<1>4. CASE WindowStep
  BY <1>4 DEF WindowStep, PressScan, PostScan, Post, Begun, PressSwap, PressView, Drawn, RowsChosen, RunPost,
     Quit, taskVars
<1>5. QED
  BY <1>1, <1>2, <1>3, <1>4, StepCases

LEMMA OnePlaceStep ==
  ASSUME Types, [Next]_vars, ~clash => OnePlace, ~clash'
  PROVE  OnePlace'
<1>1. ~clash /\ OnePlace
  BY ClashStays
<1>2. CASE UNCHANGED allButBad
  BY <1>1, <1>2, OnePlaceStays DEF allButBad, taskVars, syncVars, childVars, winVars, runVars, placeVars
<1>3. CASE TakeTask
  <2>1. pc = "idle" /\ linked /\ ~linked' /\ handler' = handler /\ pc' = "call" /\ UNCHANGED placeVars
    BY <1>3 DEF TakeTask, syncVars, childVars, winVars, placeVars
  <2>2. QED
    BY <1>1, <2>1 DEF OnePlace, placeVars, Announced, Item
<1>4. CASE CallHandler
  <2>1. pc = "call" /\ UNCHANGED <<linked, handler>> /\ UNCHANGED placeVars
    BY <1>4 DEF CallHandler, taskVars, syncVars, childVars, winVars, placeVars
  <2>2. handler # "sync" => pc' \notin {"call", "sync"}
    <3>1. handler # "sync" => pc' = Phase(scan_state)
      BY <1>4 DEF CallHandler
    <3>2. scan_state \in 0 .. 4
      BY DEF Types, FlowTypes
    <3>3. QED
      BY <3>1, <3>2, PhaseFacts
  <2>3. CASE handler = "sync"
    <3>1. pc' = "sync" /\ ~linked'
      BY <1>1, <1>4, <2>1, <2>3 DEF CallHandler, OnePlace
    <3>2. QED
      BY <1>1, <2>1, <2>3, <3>1 DEF OnePlace, placeVars, Announced, Item
  <2>4. QED
    BY <1>1, <2>1, <2>2, <2>3, OnePlaceStays
<1>5. CASE ScanLater \/ DiffLater
  <2>1. fn \in {"cmp", "dups"}
    BY <1>5 DEF ScanLater, DiffLater, Types, FlowTypes
  <2>2. \E f \in {"cmp", "dups"} : Post(f)
    BY <1>5, <2>1 DEF ScanLater, DiffLater, GoOnLater
  <2>3. UNCHANGED placeVars /\ pc' = "idle"
    BY <1>5 DEF ScanLater, DiffLater, GoOnLater, Return, syncVars, childVars, winVars, placeVars
  <2>4. QED
    BY <1>1, <2>2, <2>3, OnePlacePosts
<1>6. CASE \/ FreeDiff \/ ForgetDiff \/ ScanOpen \/ ScanRound \/ CompareBegun \/ CompareNext \/ WalkNext
           \/ DiffEnds \/ ShowResult
  <2>1. pc' = pc \/ pc' \notin {"call", "sync"}
    BY <1>6 DEF FreeDiff, ForgetDiff, ScanOpen, ScanRound, CompareBegun, CompareNext, WalkNext, DiffEnds, ShowResult,
       Return
  <2>2. UNCHANGED <<linked, handler>> /\ UNCHANGED placeVars
    BY <1>6 DEF FreeDiff, ForgetDiff, ScanOpen, ScanRound, CompareBegun, CompareNext, WalkNext, DiffEnds, ShowResult,
       taskVars, syncVars, childVars, winVars, placeVars
  <2>3. QED
    BY <1>1, <2>1, <2>2, OnePlaceStays
<1>7. CASE ItemBegun
  <2>1. /\ pc = "sync" /\ sync_item_i <= Len(sync_items) /\ child = NoItem
        /\ UNCHANGED <<linked, handler, posts, sync_items>>
        /\ \/ sync_item_i' = sync_item_i + 1 /\ child' = NoItem /\ pc' = pc
           \/ sync_item_i' = sync_item_i /\ child' = Item /\ pc' = "unwind"
    BY <1>7 DEF ItemBegun, Usable, DoNow, StartChild, taskVars
  <2>2. QED
    BY <1>1, <2>1 DEF OnePlace, Announced, Item
<1>8. CASE SyncEnds
  <2>1. /\ pc = "sync" /\ sync_item_i = Len(sync_items) + 1 /\ posts' = Append(posts, "sync_done") /\ pc' = "unwind"
        /\ UNCHANGED <<linked, handler, child, sync_items, sync_item_i>>
    <3>1. pc = "sync" /\ sync_items # << >> /\ sync_item_i > Len(sync_items)
      BY <1>1, <1>8 DEF SyncEnds, OnePlace
    <3>2. sync_item_i = Len(sync_items) + 1
      BY <3>1 DEF Types, BatchTypes
    <3>3. QED
      BY <1>8, <3>1, <3>2 DEF SyncEnds, taskVars, syncVars, childVars
  <2>2. posts \in Seq({"sync_done", "deleted"}) /\ Len(posts) \in Nat
    BY DEF Types, BatchTypes
  <2>3. Len(posts') = Len(posts) + 1 /\ \A n \in 1 .. Len(posts) : posts'[n] = posts[n]
    BY <2>1, <2>2
  <2>4. ~Announced /\ child = NoItem /\ sync_items # << >>
    BY <1>1, <2>1 DEF OnePlace
  <2>5. \A n \in 1 .. Len(posts') : posts'[n] = "sync_done" => n = Len(posts')
    BY <2>2, <2>3, <2>4 DEF Announced
  <2>6. QED
    BY <1>1, <2>1, <2>4, <2>5 DEF OnePlace
<1>9. CASE Unwind
  BY <1>1, <1>9, OnePlaceStays DEF Unwind, Return, runVars, taskVars, syncVars, winVars, placeVars
<1>10. CASE ItemEnded
  <2>1. /\ child # NoItem /\ child' = NoItem /\ sync_item_i <= Len(sync_items) /\ pc = "idle" /\ pc' = "sync"
        /\ UNCHANGED <<linked, handler, posts, sync_items>>
    BY <1>10 DEF ItemEnded, taskVars
  <2>2. sync_items # << >>
    BY <2>1 DEF Types, BatchTypes
  <2>3. ~Announced /\ ~(handler = "sync" /\ (linked \/ pc = "call"))
    BY <1>1, <2>1 DEF OnePlace
  <2>4. QED
    BY <1>1, <2>1, <2>2, <2>3 DEF OnePlace, Announced
<1>11. CASE RowsMarked
  <2>1. posts' = Append(posts, "deleted") /\ UNCHANGED <<linked, handler, pc, child, sync_items, sync_item_i>>
    BY <1>11 DEF RowsMarked, taskVars, runVars, childVars, syncVars
  <2>2. posts \in Seq({"sync_done", "deleted"}) /\ Len(posts) \in Nat
    BY DEF Types, BatchTypes
  <2>3. /\ Len(posts') = Len(posts) + 1 /\ \A n \in 1 .. Len(posts) : posts'[n] = posts[n]
        /\ posts'[Len(posts) + 1] = "deleted"
    BY <2>1, <2>2
  <2>4. \A n \in 1 .. Len(posts') : posts'[n] = "sync_done" => n \in 1 .. Len(posts) /\ posts[n] = "sync_done"
    BY <2>2, <2>3
  <2>5. Announced' <=> Announced
    BY <2>2, <2>3, <2>4 DEF Announced
  <2>6. QED
    BY <1>1, <2>1, <2>4, <2>5 DEF OnePlace, Item
<1>12. ASSUME NEW chosen, Begun(chosen) PROVE OnePlace'
  <2>1. sync_items = << >> /\ sync_item_i' = 1 /\ UNCHANGED <<child, pc, posts>>
    BY <1>12 DEF Begun, runVars
  <2>2. pc # "sync" /\ child = NoItem /\ ~Announced /\ ~(handler = "sync" /\ (linked \/ pc = "call"))
    <3>1. ~(sync_item_i <= Len(sync_items))
      BY <2>1 DEF Types, BatchTypes
    <3>2. QED
      BY <1>1, <2>1, <3>1 DEF OnePlace
  <2>3. CASE chosen = << >>
    BY <1>1, <1>12, <2>1, <2>2, <2>3 DEF Begun, OnePlace, taskVars, Announced
  <2>4. CASE chosen # << >>
    <3>1. linked' /\ handler' = "sync" /\ pc # "call"
      BY <1>12, <2>4 DEF Begun, Post
    <3>2. Len(sync_items') = Len(chosen) /\ Len(chosen) # 0
      BY <1>12, <2>4 DEF Begun
    <3>3. sync_items' # << >>
      BY <3>2
    <3>4. QED
      BY <1>1, <2>1, <2>2, <3>1, <3>3 DEF OnePlace, Announced
  <2>5. QED
    BY <2>3, <2>4
<1>13. CASE PostScan
  <2>1. \E f \in {"cmp", "dups"} : Post(f)
    BY <1>13 DEF PostScan
  <2>2. UNCHANGED placeVars /\ pc' = pc
    BY <1>13 DEF PostScan, syncVars, childVars, runVars, placeVars
  <2>3. QED
    BY <1>1, <2>1, <2>2, OnePlacePosts
<1>14. CASE RunPost
  <2>1. posts # << >> /\ posts' = Tail(posts) /\ UNCHANGED <<linked, handler, pc, child, sync_item_i>>
    BY <1>14 DEF RunPost, taskVars, runVars
  <2>2. posts \in Seq({"sync_done", "deleted"}) /\ Len(posts) \in Nat \ {0}
    BY <2>1 DEF Types, BatchTypes
  <2>3. Len(posts') = Len(posts) - 1 /\ \A n \in 1 .. Len(posts) - 1 : posts'[n] = posts[n + 1]
    BY <2>1, <2>2
  <2>4. \A m, n \in 1 .. Len(posts') : posts'[m] = "sync_done" /\ posts'[n] = "sync_done" => m = n
    <3> SUFFICES ASSUME NEW m \in 1 .. Len(posts'), NEW n \in 1 .. Len(posts'),
                        posts'[m] = "sync_done", posts'[n] = "sync_done"
                 PROVE  m = n
      OBVIOUS
    <3>1. m + 1 \in 1 .. Len(posts) /\ n + 1 \in 1 .. Len(posts)
      BY <2>2, <2>3
    <3>2. posts[m + 1] = "sync_done" /\ posts[n + 1] = "sync_done"
      BY <2>2, <2>3
    <3>3. m + 1 = n + 1
      BY <1>1, <3>1, <3>2 DEF OnePlace
    <3>4. QED
      BY <2>2, <2>3, <3>3
  <2>5. CASE posts[1] = "sync_done"
    <3>1. ~Announced'
      <4> SUFFICES ASSUME NEW n \in 1 .. Len(posts'), posts'[n] = "sync_done" PROVE FALSE
        BY DEF Announced
      <4>1. n + 1 \in 1 .. Len(posts) /\ posts[n + 1] = "sync_done" /\ 1 \in 1 .. Len(posts)
        BY <2>2, <2>3
      <4>2. n + 1 = 1
        BY <1>1, <2>5, <4>1 DEF OnePlace
      <4>3. QED
        BY <2>2, <2>3, <4>2
    <3>2. Announced
      BY <2>2, <2>5 DEF Announced
    <3>3. child = NoItem /\ pc # "sync" /\ ~(handler = "sync" /\ (linked \/ pc = "call")) /\ (pc = "call" => ~linked)
      BY <1>1, <3>2 DEF OnePlace
    <3>4. QED
      BY <2>1, <2>4, <3>1, <3>3 DEF OnePlace
  <2>6. CASE posts[1] # "sync_done"
    <3>1. UNCHANGED sync_items
      BY <1>14, <2>2, <2>6 DEF RunPost
    <3>2. Announced' => Announced
      <4> SUFFICES ASSUME NEW n \in 1 .. Len(posts'), posts'[n] = "sync_done" PROVE Announced
        BY DEF Announced
      <4>1. n + 1 \in 1 .. Len(posts) /\ posts[n + 1] = "sync_done"
        BY <2>2, <2>3
      <4>2. QED
        BY <4>1 DEF Announced
    <3>3. QED
      BY <1>1, <2>1, <2>4, <3>1, <3>2 DEF OnePlace, Item
  <2>7. QED
    BY <2>5, <2>6
<1>15. CASE PressScan \/ PressSwap \/ PressView \/ Drawn \/ RowsChosen \/ Quit
  BY <1>1, <1>15, OnePlaceStays DEF PressScan, PressSwap, PressView, Drawn, RowsChosen, Quit, taskVars, runVars,
     syncVars, childVars, placeVars
<1>16. QED
  BY <1>2, <1>3, <1>4, <1>5, <1>6, <1>7, <1>8, <1>9, <1>10, <1>11, <1>12, <1>13, <1>14, <1>15, StepCases, Zenon
  DEF ScanStep, BatchStep, WindowStep
-----------------------------------------------------------------------------
(* Nothing that was started is forgotten. *)

BatchInPlace == \/ handler = "sync" /\ (linked \/ pc = "call")
                \/ pc = "sync" \/ child # NoItem \/ Announced
Scanning == {"init", "free", "scan", "next", "diff", "diffnext", "show"}
Carried ==
  /\ sync_items # << >> => BatchInPlace
  /\ result \in {"cmp", "dups"} => ScanIsCarried

\* A posted batch, or the end of one, stays until it is taken.
LEMMA BatchStays ==
  ASSUME Carried, UNCHANGED <<linked, handler, child, posts, sync_items>>, pc' = pc \/ pc \notin {"call", "sync"}
  PROVE  sync_items' # << >> => BatchInPlace'
BY DEF Carried, BatchInPlace, Announced

\* So does a scan that is posted or asked for.
LEMMA ScanStays ==
  ASSUME Carried, UNCHANGED <<linked, handler, gui, result>>,
         pc' = pc \/ pc \notin Scanning \cup {"call"} \/ pc' \in Scanning
  PROVE  result' \in {"cmp", "dups"} => ScanIsCarried'
BY DEF Carried, ScanIsCarried, Scanning

\* When a function is posted, none was, and the rest is where it was.
LEMMA CarriedPosts ==
  ASSUME Types, Carried, UNCHANGED <<child, posts, sync_items>>, NEW f \in {"cmp", "dups"}, Post(f), ~clash',
         pc' = pc \/ (pc # "sync" /\ pc' = "idle")
  PROVE  Carried'
<1>1. linked' /\ handler' = f /\ ~linked /\ pc # "call"
  BY DEF Post, Types, FlowTypes
<1>2. ScanIsCarried'
  BY <1>1 DEF ScanIsCarried
<1>3. sync_items' # << >> => BatchInPlace'
  BY <1>1 DEF Carried, BatchInPlace, Announced
<1>4. QED
  BY <1>2, <1>3 DEF Carried

\* The functions of a scan: it goes on, is posted again, or comes to its result.
LEMMA CarriedByScan ==
  ASSUME Types, OnePlace, Carried, ScanStep, ~clash'
  PROVE  Carried'
<1>1. CASE TakeTask
  <2>1. /\ pc = "idle" /\ linked /\ pc' = "call"
        /\ UNCHANGED <<handler, child, posts, sync_items, gui, result>>
    BY <1>1 DEF TakeTask, syncVars, childVars, winVars, askVars
  <2>2. QED
    BY <2>1 DEF Carried, BatchInPlace, ScanIsCarried, Announced
<1>2. CASE CallHandler
  <2>1. /\ pc = "call" /\ ~linked
        /\ UNCHANGED <<linked, handler, child, posts, sync_items, gui, result>>
    BY <1>2 DEF CallHandler, OnePlace, taskVars, syncVars, childVars, winVars, askVars
  <2>2. handler = "sync" => pc' = "sync"
    BY <1>2 DEF CallHandler
  <2>3. handler # "sync" => pc' \in Scanning
    <3>1. handler # "sync" => pc' = Phase(scan_state)
      BY <1>2 DEF CallHandler
    <3>2. scan_state \in 0 .. 4
      BY DEF Types, FlowTypes
    <3>3. QED
      BY <3>1, <3>2, PhaseFacts DEF Scanning
  <2>4. QED
    BY <2>1, <2>2, <2>3 DEF Carried, BatchInPlace, ScanIsCarried, Announced, Scanning
<1>3. CASE ScanLater \/ DiffLater
  <2>1. fn \in {"cmp", "dups"} /\ pc # "sync"
    BY <1>3 DEF ScanLater, DiffLater, Types, FlowTypes
  <2>2. \E f \in {"cmp", "dups"} : Post(f)
    BY <1>3, <2>1 DEF ScanLater, DiffLater, GoOnLater
  <2>3. UNCHANGED <<child, posts, sync_items>> /\ pc' = "idle"
    BY <1>3 DEF ScanLater, DiffLater, GoOnLater, Return, syncVars, childVars, winVars
  <2>4. QED
    BY <2>1, <2>2, <2>3, CarriedPosts
<1>4. CASE FreeDiff \/ ForgetDiff \/ ScanRound \/ CompareBegun \/ CompareNext \/ WalkNext \/ DiffEnds
  <2>1. pc \in Scanning /\ pc' \in Scanning
    BY <1>4 DEF FreeDiff, ForgetDiff, ScanRound, CompareBegun, CompareNext, WalkNext, DiffEnds, Scanning
  <2>2. UNCHANGED <<linked, handler, child, posts, sync_items, gui, result>>
    BY <1>4 DEF FreeDiff, ForgetDiff, ScanRound, CompareBegun, CompareNext, WalkNext, DiffEnds,
       taskVars, syncVars, childVars, winVars, askVars
  <2>3. QED
    BY <2>1, <2>2, BatchStays, ScanStays DEF Carried, Scanning
<1>5. CASE ScanOpen \/ ShowResult
  <2>1. pc \in Scanning /\ UNCHANGED <<linked, handler, child, posts, sync_items, gui>>
    BY <1>5 DEF ScanOpen, ShowResult, Scanning, taskVars, syncVars, childVars, winVars
  <2>2. \/ pc' \in Scanning /\ UNCHANGED result
        \/ Result("error") \/ Result("list")
    BY <1>5 DEF ScanOpen, ShowResult, Scanning
  <2>3. sync_items' # << >> => BatchInPlace'
    BY <2>1, BatchStays DEF Scanning
  <2>4. CASE pc' \in Scanning /\ UNCHANGED result
    BY <2>1, <2>3, <2>4, ScanStays DEF Carried
  <2>5. CASE Result("error") \/ Result("list")
    <3>1. CASE gui \in {"cmp", "dups"} \/ (linked /\ handler # "sync")
      <4>1. linked => handler \in {"none", "cmp", "dups", "sync"} /\ handler # "none"
        BY DEF Types, FlowTypes
      <4>2. QED
        BY <2>1, <2>3, <3>1, <4>1 DEF Carried, ScanIsCarried
    <3>2. CASE ~(gui \in {"cmp", "dups"} \/ (linked /\ handler # "sync"))
      BY <2>3, <2>5, <3>2 DEF Carried, Result
    <3>3. QED
      BY <3>1, <3>2
  <2>6. QED
    BY <2>2, <2>4, <2>5
<1>6. QED
  BY <1>1, <1>2, <1>3, <1>4, <1>5, Zenon DEF ScanStep

\* The batch: an item, a child and the announced end follow one another.
LEMMA CarriedByBatch ==
  ASSUME Types, Carried, BatchStep
  PROVE  Carried'
<1>1. CASE ItemBegun
  <2>1. /\ pc = "sync" /\ sync_item_i <= Len(sync_items)
        /\ UNCHANGED <<linked, handler, gui, posts, sync_items, result>>
        /\ pc' = pc \/ (child' = Item /\ pc' = "unwind")
    BY <1>1 DEF ItemBegun, Usable, DoNow, StartChild, taskVars
  <2>2. Item # NoItem
    BY <2>1, ItemFacts
  <2>3. BatchInPlace'
    BY <2>1, <2>2 DEF BatchInPlace
  <2>4. QED
    BY <2>1, <2>3, ScanStays DEF Carried, Scanning
<1>2. CASE SyncEnds
  <2>1. /\ pc = "sync" /\ posts' = Append(posts, "sync_done") /\ pc' = "unwind"
        /\ UNCHANGED <<linked, handler, gui, sync_items, result>>
    BY <1>2 DEF SyncEnds, taskVars, syncVars, askVars
  <2>2. posts \in Seq({"sync_done", "deleted"})
    BY DEF Types, BatchTypes
  <2>3. Len(posts') = Len(posts) + 1 /\ posts'[Len(posts) + 1] = "sync_done" /\ Len(posts) \in Nat
    BY <2>1, <2>2
  <2>4. BatchInPlace'
    BY <2>3 DEF BatchInPlace, Announced
  <2>5. QED
    BY <2>1, <2>4, ScanStays DEF Carried, Scanning
<1>3. CASE Unwind
  <2>1. pc = "unwind" /\ UNCHANGED <<linked, handler, child, gui, posts, sync_items, result>>
    BY <1>3 DEF Unwind, taskVars, syncVars, winVars, askVars
  <2>2. QED
    BY <2>1, BatchStays, ScanStays DEF Carried, Scanning
<1>4. CASE ItemEnded
  <2>1. pc = "idle" /\ pc' = "sync" /\ UNCHANGED <<linked, handler, gui, result>>
    BY <1>4 DEF ItemEnded, taskVars
  <2>2. QED
    BY <2>1, ScanStays DEF Carried, BatchInPlace, Scanning
<1>5. CASE RowsMarked
  <2>1. posts' = Append(posts, "deleted") /\ UNCHANGED <<linked, handler, pc, gui, child, sync_items, result>>
    BY <1>5 DEF RowsMarked, taskVars, runVars, childVars, syncVars
  <2>2. posts \in Seq({"sync_done", "deleted"})
    BY DEF Types, BatchTypes
  <2>3. Len(posts') = Len(posts) + 1 /\ Len(posts) \in Nat /\ \A n \in 1 .. Len(posts) : posts'[n] = posts[n]
    BY <2>1, <2>2
  <2>4. Announced => Announced'
    BY <2>3 DEF Announced
  <2>5. QED
    BY <2>1, <2>4, ScanStays DEF Carried, BatchInPlace
<1>6. QED
  BY <1>1, <1>2, <1>3, <1>4, <1>5, Zenon DEF BatchStep

\* The window: what it posts was asked for, and what it lets go of has ended.
LEMMA CarriedByWindow ==
  ASSUME Types, Carried, WindowStep, ~clash'
  PROVE  Carried'
<1>1. CASE PressScan
  <2>1. gui' \in {"cmp", "dups"} /\ UNCHANGED <<linked, handler, pc, child, posts, sync_items>>
    BY <1>1 DEF PressScan, taskVars, syncVars, childVars, runVars
  <2>2. ScanIsCarried'
    BY <2>1 DEF ScanIsCarried
  <2>3. QED
    BY <2>1, <2>2, BatchStays DEF Carried
<1>2. CASE PostScan
  <2>1. (\E f \in {"cmp", "dups"} : Post(f)) /\ UNCHANGED <<child, posts, sync_items, pc>>
    BY <1>2 DEF PostScan, syncVars, childVars, runVars
  <2>2. QED
    BY <2>1, CarriedPosts
<1>3. ASSUME NEW chosen, Begun(chosen) PROVE Carried'
  <2>1. gui = "idle" /\ UNCHANGED <<child, pc, posts, gui, result>>
    BY <1>3 DEF Begun, runVars
  <2>2. CASE chosen = << >>
    <3>1. sync_items' = << >> /\ UNCHANGED <<linked, handler>>
      BY <1>3, <2>2 DEF Begun, taskVars
    <3>2. QED
      BY <2>1, <3>1, ScanStays DEF Carried
  <2>3. CASE chosen # << >>
    <3>1. linked' /\ handler' = "sync" /\ ~linked /\ pc # "call"
      BY <1>3, <2>3 DEF Begun, Post, Types, FlowTypes
    <3>2. QED
      BY <2>1, <3>1 DEF Carried, BatchInPlace, ScanIsCarried
  <2>4. QED
    BY <2>2, <2>3
<1>4. CASE PressSwap \/ PressView \/ Drawn
  <2>1. gui \notin {"cmp", "dups"} /\ UNCHANGED <<linked, handler, pc, child, posts, sync_items, result>>
    BY <1>4 DEF PressSwap, PressView, Drawn, taskVars, syncVars, childVars, runVars, askVars
  <2>2. result' \in {"cmp", "dups"} => ScanIsCarried'
    BY <2>1 DEF Carried, ScanIsCarried
  <2>3. QED
    BY <2>1, <2>2, BatchStays DEF Carried
<1>5. CASE RowsChosen \/ Quit
  <2>1. UNCHANGED <<linked, handler, pc, gui, child, posts, sync_items, result>>
    BY <1>5 DEF RowsChosen, Quit, taskVars, syncVars, childVars, runVars, askVars
  <2>2. QED
    BY <2>1, BatchStays, ScanStays DEF Carried
<1>6. CASE RunPost
  <2>1. posts # << >> /\ posts' = Tail(posts) /\ UNCHANGED <<linked, handler, pc, child, gui, result>>
    BY <1>6 DEF RunPost, taskVars, runVars, askVars
  <2>2. posts \in Seq({"sync_done", "deleted"}) /\ Len(posts) \in Nat \ {0}
    BY <2>1 DEF Types, BatchTypes
  <2>3. Len(posts') = Len(posts) - 1 /\ \A n \in 1 .. Len(posts) - 1 : posts'[n] = posts[n + 1]
    BY <2>1, <2>2
  <2>4. CASE posts[1] = "sync_done"
    BY <1>6, <2>1, <2>4, ScanStays DEF RunPost, Carried
  <2>5. CASE posts[1] # "sync_done"
    <3>1. UNCHANGED sync_items
      BY <1>6, <2>2, <2>5 DEF RunPost
    <3>2. ASSUME NEW n \in 1 .. Len(posts), posts[n] = "sync_done" PROVE Announced'
      <4>1. n # 1
        BY <2>5, <3>2
      <4>2. n - 1 \in 1 .. Len(posts')
        BY <2>2, <2>3, <4>1
      <4>3. posts'[n - 1] = "sync_done"
        BY <2>2, <2>3, <3>2, <4>1
      <4>4. QED
        BY <4>2, <4>3 DEF Announced
    <3>3. Announced => Announced'
      BY <3>2 DEF Announced
    <3>4. QED
      BY <2>1, <3>1, <3>3, ScanStays DEF Carried, BatchInPlace
  <2>6. QED
    BY <2>4, <2>5
<1>7. QED
  BY <1>1, <1>2, <1>3, <1>4, <1>5, <1>6, Zenon DEF WindowStep

LEMMA CarriedStep ==
  ASSUME Types, OnePlace, Carried, [Next]_vars, ~clash'
  PROVE  Carried'
<1>1. CASE UNCHANGED allButBad
  BY <1>1, BatchStays, ScanStays DEF Carried, allButBad, taskVars, syncVars, childVars, winVars, runVars, askVars
<1>2. QED
  BY <1>1, StepCases, CarriedByScan, CarriedByBatch, CarriedByWindow

-----------------------------------------------------------------------------
(* What a batch does. *)

\* What was asked for is in the batch, as the comparison says.
Asked ==
  /\ sync_items # << >> => swap \in sides
  /\ \A n \in 1 .. Len(sync_items) :
       /\ asked[n][1] = sync_items[n].id
       /\ sync_items[n].gen = diff /\ ~dups => ents[sync_items[n].id] = asked[n][2]

\* The log is where the batch is.
Logged ==
  /\ Len(log) = IF sync_items = << >> THEN 0 ELSE IF child = NoItem THEN sync_item_i - 1 ELSE sync_item_i
  /\ \A n \in 1 .. Len(log) :
       /\ log[n][1] = asked[n][1]
       /\ log[n][2] = "EQ" \/ \E s \in sides : log[n][2] = Acts(asked[n][2], s)

LEMMA AskedStep == Types /\ Asked /\ [Next]_vars => Asked'
<1> SUFFICES ASSUME Types, Asked, [Next]_vars PROVE Asked'
  OBVIOUS
<1> DEFINE comp == <<diff, dups, ents>>
           turn == <<swap, sides>>
           batch == <<sync_items, asked>>
<1>1. CASE UNCHANGED <<comp, turn, batch>>
  BY <1>1 DEF Asked
<1>2. /\ sync_items \in Seq(Items) /\ diff \in Nat /\ made \in Nat /\ diff <= made
      /\ ents \in Seq(Statuses) /\ Len(ents) \in Nat
  BY DEF Types, BatchTypes, ListTypes
<1>3. ASSUME NEW n \in 1 .. Len(sync_items)
      PROVE  /\ sync_items[n].gen \in Nat \ {0} /\ sync_items[n].gen <= made /\ sync_items[n].id \in Ids
             /\ sync_items[n].gen = diff => sync_items[n].id \in 1 .. Len(ents)
  <2>1. sync_items[n] \in Items
    BY <1>2
  <2>2. sync_items[n].gen <= made /\ (sync_items[n].gen = diff => sync_items[n].id <= Len(ents))
    BY DEF Types, Known
  <2>3. QED
    BY <1>2, <2>1, <2>2 DEF Items, Ids
<1>4. CASE ForgetDiff
  <2>1. diff' = 0 /\ Turn(FALSE) /\ UNCHANGED batch
    BY <1>4 DEF ForgetDiff, syncVars
  <2>2. QED
    BY <1>3, <2>1 DEF Asked, Turn
<1>5. CASE CompareBegun
  <2>1. diff' = made + 1 /\ UNCHANGED <<turn, batch>>
    BY <1>5 DEF CompareBegun, flagVars, syncVars
  <2>2. \A n \in 1 .. Len(sync_items) : sync_items[n].gen # diff'
    BY <1>2, <1>3, <2>1
  <2>3. QED
    BY <2>1, <2>2 DEF Asked
<1>6. CASE CompareNext
  <2>1. UNCHANGED <<diff, dups, turn, batch>> /\ ents' = Append(ents, Kinds[Len(ents) + 1])
    BY <1>6 DEF CompareNext, flagVars, syncVars
  <2>2. \A x \in 1 .. Len(ents) : ents'[x] = ents[x]
    BY <1>2, <2>1
  <2>3. QED
    BY <1>3, <2>1, <2>2 DEF Asked
<1>7. CASE WalkNext \/ DiffEnds
  <2>1. UNCHANGED <<diff, dups, turn, batch>> /\ (dups \/ UNCHANGED ents)
    BY <1>7 DEF WalkNext, DiffEnds, flagVars, syncVars
  <2>2. QED
    BY <2>1 DEF Asked
<1>8. CASE \/ TakeTask \/ CallHandler \/ FreeDiff \/ ScanOpen \/ ScanRound \/ ScanLater \/ DiffLater
           \/ ShowResult \/ UNCHANGED allButBad
  BY <1>1, <1>8 DEF TakeTask, CallHandler, FreeDiff, ScanOpen, ScanRound, ScanLater, DiffLater, ShowResult, allButBad,
     diffVars, flagVars, syncVars
<1>9. CASE BatchStep
  BY <1>1, <1>9 DEF BatchStep, ItemBegun, SyncEnds, Unwind, ItemEnded, RowsMarked, diffVars, flagVars, syncVars
<1>10. ASSUME NEW chosen, Begun(chosen) PROVE Asked'
  <2>1. /\ UNCHANGED comp /\ swap' = swap /\ sides' = {swap}
        /\ sync_items' = [n \in 1 .. Len(chosen) |-> [gen |-> diff, id |-> filter[chosen[n]]]]
        /\ asked' = [n \in 1 .. Len(chosen) |-> <<filter[chosen[n]], ents[filter[chosen[n]]]>>]
    BY <1>10 DEF Begun, diffVars
  <2>2. Len(sync_items') = Len(chosen)
    BY <1>10, <2>1 DEF Begun
  <2>3. QED
    BY <2>1, <2>2 DEF Asked
<1>11. CASE PressSwap
  BY <1>11 DEF PressSwap, Turn, diffVars, syncVars, Asked
<1>12. CASE RunPost
  <2>1. CASE sync_items' = << >>
    BY <2>1 DEF Asked
  <2>2. CASE UNCHANGED <<batch, sides>>
    BY <1>1, <1>12, <2>2 DEF RunPost, diffVars
  <2>3. QED
    BY <1>12, <2>1, <2>2, Zenon DEF RunPost
<1>13. CASE PressScan \/ PostScan \/ PressView \/ Drawn \/ RowsChosen \/ Quit
  BY <1>1, <1>13 DEF PressScan, PostScan, PressView, Drawn, RowsChosen, Quit, diffVars, flagVars, syncVars
<1>14. QED
  BY <1>4, <1>5, <1>6, <1>7, <1>8, <1>9, <1>10, <1>11, <1>12, <1>13, StepCases, Zenon DEF ScanStep, WindowStep

LEMMA LoggedStep ==
  ASSUME Types, Asked, OnePlace, Logged, [Next]_vars
  PROVE  Logged'
<1>1. /\ log \in Seq(Doings) /\ asked \in Seq(Doings) /\ Len(asked) = Len(sync_items) /\ sync_items \in Seq(Items)
      /\ sync_item_i \in Nat \ {0} /\ Len(log) \in Nat
  BY DEF Types, BatchTypes
<1>2. ASSUME UNCHANGED <<log, asked, sync_items, sync_item_i, child>>, sides \subseteq sides' PROVE Logged'
  BY <1>2 DEF Logged
<1>3. CASE UNCHANGED allButBad
  BY <1>2, <1>3 DEF allButBad, syncVars, childVars, flagVars
<1>4. CASE ScanStep
  BY <1>2, <1>4 DEF ScanStep, TakeTask, CallHandler, FreeDiff, ForgetDiff, Turn, ScanOpen, ScanRound, ScanLater,
     CompareBegun, CompareNext, WalkNext, DiffLater, DiffEnds, ShowResult, syncVars, childVars, flagVars
<1>5. CASE ItemBegun
  <2>1. /\ pc = "sync" /\ sync_item_i <= Len(sync_items) /\ child = NoItem /\ Item.gen = diff
        /\ ents[Item.id] \notin {"none", "twin"} /\ (dups => ents[Item.id] = "EQ")
        /\ log' = Append(log, <<Item.id, ActOf(Item.id)>>) /\ UNCHANGED <<sync_items, asked, sides>>
        /\ \/ sync_item_i' = sync_item_i + 1 /\ child' = NoItem
           \/ sync_item_i' = sync_item_i /\ child' = Item
    BY <1>5 DEF ItemBegun, Usable, DoNow, StartChild, flagVars
  <2>2. /\ sync_items # << >> /\ Len(log) = sync_item_i - 1 /\ sync_item_i \in 1 .. Len(sync_items)
        /\ Item # NoItem
    BY <2>1, ItemFacts DEF OnePlace, Logged
  <2>3. asked[sync_item_i][1] = Item.id /\ (~dups => ents[Item.id] = asked[sync_item_i][2]) /\ swap \in sides
    BY <2>1, <2>2 DEF Asked, Item
  <2>4. ActOf(Item.id) = "EQ" \/ ActOf(Item.id) = Acts(asked[sync_item_i][2], swap)
    <3>1. CASE dups
      BY <2>1, <3>1 DEF ActOf, Acts
    <3>2. CASE ~dups
      BY <2>3, <3>2 DEF ActOf
    <3>3. QED
      BY <3>1, <3>2
  <2>5. /\ Len(log') = sync_item_i /\ log'[sync_item_i] = <<Item.id, ActOf(Item.id)>>
        /\ \A n \in 1 .. Len(log) : log'[n] = log[n]
    BY <1>1, <2>1, <2>2
  <2>6. ASSUME NEW n \in 1 .. Len(log')
        PROVE  /\ log'[n][1] = asked[n][1]
               /\ log'[n][2] = "EQ" \/ \E s \in sides : log'[n][2] = Acts(asked[n][2], s)
    <3>1. CASE n = sync_item_i
      BY <2>3, <2>4, <2>5, <3>1
    <3>2. CASE n # sync_item_i
      <4>1. n \in 1 .. Len(log)
        BY <1>1, <2>2, <2>5, <3>2
      <4>2. QED
        BY <2>5, <4>1 DEF Logged
    <3>3. QED
      BY <3>1, <3>2
  <2>7. Len(log') = IF child' = NoItem THEN sync_item_i' - 1 ELSE sync_item_i'
    BY <1>1, <2>1, <2>2, <2>5
  <2>8. QED
    BY <2>1, <2>2, <2>6, <2>7 DEF Logged
<1>6. CASE SyncEnds \/ Unwind \/ RowsMarked
  BY <1>2, <1>6 DEF SyncEnds, Unwind, RowsMarked, syncVars, childVars, flagVars
<1>7. CASE ItemEnded
  <2>1. /\ child # NoItem /\ child' = NoItem /\ sync_item_i' = sync_item_i + 1 /\ sync_item_i <= Len(sync_items)
        /\ UNCHANGED <<log, asked, sync_items, sides>>
    BY <1>7 DEF ItemEnded, flagVars
  <2>2. sync_items # << >>
    BY <1>1, <2>1
  <2>3. QED
    BY <1>1, <2>1, <2>2 DEF Logged
<1>8. ASSUME NEW chosen, Begun(chosen) PROVE Logged'
  <2>1. sync_items = << >> /\ log' = << >> /\ sync_item_i' = 1 /\ child' = child
    BY <1>8 DEF Begun
  <2>2. child = NoItem
    <3>1. ~(sync_item_i <= Len(sync_items))
      BY <1>1, <2>1
    <3>2. QED
      BY <3>1 DEF OnePlace
  <2>3. QED
    BY <2>1, <2>2 DEF Logged
<1>9. CASE RunPost
  <2>1. CASE sync_items' = << >> /\ log' = << >>
    BY <2>1 DEF Logged
  <2>2. CASE UNCHANGED <<sync_items, asked, log, sides>>
    BY <1>2, <1>9, <2>2 DEF RunPost
  <2>3. QED
    BY <1>9, <2>1, <2>2, Zenon DEF RunPost
<1>10. CASE PressScan \/ PostScan \/ PressSwap \/ PressView \/ Drawn \/ RowsChosen \/ Quit
  BY <1>2, <1>10 DEF PressScan, PostScan, PressSwap, Turn, PressView, Drawn, RowsChosen, Quit, syncVars, childVars,
     flagVars
<1>11. QED
  BY <1>3, <1>4, <1>5, <1>6, <1>7, <1>8, <1>9, <1>10, StepCases, Zenon DEF BatchStep, WindowStep
-----------------------------------------------------------------------------
(* The marks of the entries. *)

\* What is marked as done is there and was done, and what is in progress has the child.
Truth ==
  \A x \in Ids :
    /\ mark[x] = "done" => x <= Len(ents) /\ (x \in ok \cup deleted \/ ents[x] = "twin")
    /\ mark[x] = "syncing" => child.id = x

\* What is still to be done in a batch is not done yet, and each entry is there once.
Once ==
  /\ \A m, n \in 1 .. Len(sync_items) : m # n => sync_items[m].id # sync_items[n].id
  /\ \A n \in 1 .. Len(sync_items) :
       n >= sync_item_i /\ sync_items[n].gen = diff /\ ~dups /\ mark[sync_items[n].id] = "done" =>
         sync_items[n].id \in deleted
  /\ child # NoItem /\ child.gen = diff => ~dups

\* What the callers of on_complete() are still to mark is not done.
Nested ==
  /\ nest # << >> => pc \in {"sync", "unwind"}
  /\ \A n \in 1 .. Len(nest) :
       /\ mark[nest[n].item.id] # "done" /\ mark[Pointed(nest[n])] # "done"
       /\ pc = "sync" => nest[n].at < sync_item_i /\ nest[n].at <= Len(sync_items)
                           /\ sync_items[nest[n].at].id = nest[n].item.id

\* The mark of an item that is begun.
LEMMA BegunMark ==
  ASSUME Types, ItemBegun
  PROVE  /\ ok \subseteq ok' /\ child = NoItem
         /\ \E m \in {"done", "error", "syncing"} :
              /\ mark' = [mark EXCEPT ![Item.id] = m]
              /\ m = "done" => Item.id \in ok' /\ nest' = nest
              /\ m # "done" => ~dups
              /\ IF m = "syncing" THEN child' = Item /\ sync_item_i' = sync_item_i /\ pc' = "unwind" /\ nest' = nest
                 ELSE /\ child' = NoItem /\ sync_item_i' = sync_item_i + 1 /\ pc' = pc
                      /\ nest' \in {nest, Append(nest, [at |-> sync_item_i, item |-> Item])}
<1>1. child = NoItem /\ (dups => ents[Item.id] = "EQ")
  BY DEF ItemBegun, Usable
<1>2. dups => ActOf(Item.id) = "EQ"
  BY <1>1 DEF ActOf, Acts
<1>3. CASE DoNow
  <2>1. /\ child' = NoItem /\ sync_item_i' = sync_item_i + 1 /\ pc' = pc /\ nest' = nest
        /\ \/ mark' = [mark EXCEPT ![Item.id] = "done"] /\ ok' = ok \cup {Item.id}
           \/ ents[Item.id] = "MOVE" /\ mark' = [mark EXCEPT ![Item.id] = "error"] /\ ok' = ok
    BY <1>1, <1>3 DEF DoNow
  <2>2. QED
    BY <1>1, <2>1
<1>4. CASE StartChild /\ UNCHANGED ok /\ ActOf(Item.id) \notin {"MOVE", "EQ"}
  <2>1. ~dups
    BY <1>2, <1>4
  <2>2. \/ /\ mark' = [mark EXCEPT ![Item.id] = "syncing"] /\ nest' = nest
           /\ child' = Item /\ sync_item_i' = sync_item_i /\ pc' = "unwind"
        \/ /\ mark' = [mark EXCEPT ![Item.id] = "error"]
           /\ nest' = Append(nest, [at |-> sync_item_i, item |-> Item])
           /\ child' = child /\ sync_item_i' = sync_item_i + 1 /\ pc' = pc
    BY <1>4 DEF StartChild
  <2>3. QED
    BY <1>1, <1>4, <2>1, <2>2
<1>5. QED
  BY <1>3, <1>4 DEF ItemBegun

\* The marks that the walk through the files leaves.
Walked(z) ==
  /\ mark'[z] = "done" => \/ mark[z] = "done" /\ (z <= Len(ents) => ents'[z] = ents[z])
                          \/ z <= Len(ents) /\ ents'[z] = "twin"
  /\ mark'[z] = "syncing" => mark[z] = "syncing"
LEMMA WalkMarks ==
  ASSUME Types, WalkNext \/ (DiffEnds /\ dups)
  PROVE  Len(ents') = Len(ents) /\ \A z \in Ids : Walked(z)
<1>1. /\ ents \in Seq(Statuses) /\ ents \in [1 .. Len(ents) -> Statuses] /\ mark \in [Ids -> Marks]
      /\ Len(ents) \in Nat
  BY DEF Types, ListTypes, BatchTypes
<1>2. ASSUME NEW z \in Ids, z <= Len(ents) PROVE z \in 1 .. Len(ents)
  BY <1>1, <1>2, KindsFacts DEF Ids
<1>3. Single(ce_prev) \/ \E x, y \in Ids : y <= Len(ents) /\ Pair(x, y)
  BY WalkNextFacts, Zenon DEF DiffEnds
<1>4. Len(ents') = Len(ents)
  BY <1>3, WalkFacts, Zenon
<1>5. CASE Single(ce_prev)
  <2> SUFFICES ASSUME NEW z \in Ids PROVE Walked(z)
    BY <1>4
  <2>1. CASE UNCHANGED <<ents, mark>>
    BY <2>1 DEF Walked
  <2>2. CASE ents' = [ents EXCEPT ![ce_prev] = "NEQ"] /\ mark' = [mark EXCEPT ![ce_prev] = "none"]
    <3>1. CASE z = ce_prev
      BY <1>1, <2>2, <3>1 DEF Walked
    <3>2. CASE z # ce_prev
      <4>1. mark'[z] = mark[z] /\ (z <= Len(ents) => ents'[z] = ents[z])
        BY <1>1, <1>2, <2>2, <3>2
      <4>2. QED
        BY <4>1 DEF Walked
    <3>3. QED
      BY <3>1, <3>2
  <2>3. QED
    BY <1>5, <2>1, <2>2 DEF Single
<1>6. ASSUME NEW x \in Ids, NEW y \in Ids, y <= Len(ents), Pair(x, y), NEW z \in Ids PROVE Walked(z)
  <2> DEFINE e == [ents EXCEPT ![x] = "EQ"]
             m == [mark EXCEPT ![x] = "none"]
  <2>1. ents' = [e EXCEPT ![y] = "twin"] /\ mark' = [m EXCEPT ![y] = "done"]
    BY <1>6 DEF Pair
  <2>2. e \in [1 .. Len(ents) -> Statuses] /\ m \in [Ids -> Marks]
    BY <1>1 DEF Statuses, Marks
  <2>3. \A w \in Ids : w # x => m[w] = mark[w] /\ (w <= Len(ents) => e[w] = ents[w])
    BY <1>1, <1>2
  <2>4. m[x] = "none"
    BY <1>1
  <2> HIDE DEF e, m
  <2>5. y \in 1 .. Len(ents)
    BY <1>2, <1>6
  <2>6. CASE z = y
    <3>1. ents'[z] = "twin" /\ mark'[z] = "done"
      BY <2>1, <2>2, <2>5, <2>6
    <3>2. QED
      BY <1>6, <2>6, <3>1 DEF Walked
  <2>7. CASE z # y
    <3>1. mark'[z] = m[z] /\ (z <= Len(ents) => ents'[z] = e[z])
      BY <1>2, <2>1, <2>2, <2>7
    <3>2. QED
      BY <2>3, <2>4, <3>1 DEF Walked
  <2>8. QED
    BY <2>6, <2>7
<1>7. QED
  BY <1>3, <1>4, <1>5, <1>6, Zenon

LEMMA TruthStep ==
  ASSUME Types, OnePlace, Truth, [Next]_vars
  PROVE  Truth'
<1>1. mark \in [Ids -> Marks] /\ Len(ents) \in Nat /\ Len(ents') \in Nat /\ NoItem.id \notin Ids
  <2>1. Types'
    BY TypesStep
  <2>2. mark \in [Ids -> Marks] /\ Len(ents) \in Nat
    BY DEF Types, BatchTypes, ListTypes
  <2>3. Len(ents') \in Nat
    BY <2>1 DEF Types, ListTypes
  <2>4. NoItem.id \notin Ids
    BY DEF NoItem, Ids
  <2>5. QED
    BY <2>2, <2>3, <2>4
<1>2. CASE UNCHANGED <<mark, ents, ok, deleted, child>>
  BY <1>2 DEF Truth
<1>3. CASE UNCHANGED allButBad
  BY <1>2, <1>3 DEF allButBad, diffVars, doneVars, childVars
<1>4. CASE ForgetDiff \/ CompareBegun
  <2>1. mark' = NoMarks
    BY <1>4 DEF ForgetDiff, CompareBegun
  <2>2. QED
    BY <2>1 DEF Truth, NoMarks
<1>5. CASE CompareNext
  <2>1. UNCHANGED <<mark, ok, deleted, child>> /\ ents' = Append(ents, Kinds[Len(ents) + 1])
    BY <1>5 DEF CompareNext, doneVars, childVars
  <2>2. Len(ents') = Len(ents) + 1 /\ \A x \in 1 .. Len(ents) : ents'[x] = ents[x]
    BY <1>1, <2>1 DEF Types, ListTypes
  <2>3. \A x \in Ids : x <= Len(ents) => x \in 1 .. Len(ents) /\ x <= Len(ents')
    BY <1>1, <2>2, KindsFacts DEF Ids
  <2>4. QED
    BY <2>1, <2>2, <2>3 DEF Truth
<1>6. CASE WalkNext \/ (DiffEnds /\ dups)
  <2>1. UNCHANGED <<ok, deleted, child>>
    BY <1>6 DEF WalkNext, DiffEnds, childVars
  <2>2. QED
    BY <1>6, <2>1, WalkMarks DEF Truth, Walked
<1>7. CASE DiffEnds /\ ~dups
  BY <1>2, <1>7 DEF DiffEnds, childVars
<1>8. CASE \/ TakeTask \/ CallHandler \/ FreeDiff \/ ScanOpen \/ ScanRound \/ ScanLater \/ DiffLater
           \/ ShowResult
  BY <1>2, <1>8 DEF TakeTask, CallHandler, FreeDiff, ScanOpen, ScanRound, ScanLater, DiffLater, ShowResult,
     diffVars, doneVars, childVars
<1>9. CASE ItemBegun
  <2>1. PICK m \in {"done", "error", "syncing"} :
              /\ mark' = [mark EXCEPT ![Item.id] = m]
              /\ m = "done" => Item.id \in ok'
              /\ IF m = "syncing" THEN child' = Item ELSE child' = NoItem
    BY <1>9, BegunMark, Zenon
  <2>2. ok \subseteq ok' /\ child = NoItem /\ UNCHANGED <<deleted, ents>>
    BY <1>9, BegunMark DEF ItemBegun, diffVars
  <2>3. Item.id \in Ids /\ Item.id <= Len(ents)
    <3>1. sync_item_i \in 1 .. Len(sync_items) /\ Item.id \in Ids /\ Item.gen = diff
      BY <1>9, ItemFacts DEF ItemBegun, Usable
    <3>2. QED
      BY <3>1 DEF Types, Known, Item
  <2>4. \A x \in Ids : mark[x] # "syncing"
    BY <1>1, <2>2 DEF Truth
  <2>5. QED
    BY <1>1, <2>1, <2>2, <2>3, <2>4 DEF Truth
<1>10. CASE Unwind
  <2>1. UNCHANGED <<ents, ok, deleted, child>> /\ (mark' = mark \/ \E x : mark' = [mark EXCEPT ![x] = "late"])
    BY <1>10 DEF Unwind, diffVars
  <2>2. QED
    BY <1>1, <2>1 DEF Truth
<1>11. CASE SyncEnds
  BY <1>2, <1>11 DEF SyncEnds, diffVars, doneVars, childVars
<1>12. CASE ItemEnded
  <2>1. PICK good \in BOOLEAN : Mark(good) /\ ok' = IF good THEN ok \cup {child.id} ELSE ok
    BY <1>12 DEF ItemEnded
  <2>2. Item = child /\ UNCHANGED <<deleted, ents>> /\ sync_item_i <= Len(sync_items) /\ Item.gen = diff
    BY <1>12 DEF ItemEnded, OnePlace, diffVars
  <2>3. Item.id \in Ids /\ Item.id <= Len(ents)
    <3>1. sync_item_i \in 1 .. Len(sync_items) /\ Item.id \in Ids
      BY <2>2, ItemFacts
    <3>2. QED
      BY <2>2, <3>1 DEF Types, Known, Item
  <2>4. ASSUME NEW x \in Ids, x # Item.id PROVE mark'[x] = mark[x] /\ mark[x] # "syncing"
    BY <1>1, <2>1, <2>2, <2>4 DEF Mark, Truth
  <2>5. mark'[Item.id] = IF good THEN "done" ELSE "error"
    BY <1>1, <2>1, <2>3 DEF Mark
  <2>6. QED
    BY <2>1, <2>2, <2>3, <2>4, <2>5 DEF Truth
<1>13. CASE RowsMarked
  <2>1. /\ mark' = [x \in Ids |-> IF x \in {filter[n] : n \in sel_indices} THEN "done" ELSE mark[x]]
        /\ deleted' = deleted \cup {filter[n] : n \in sel_indices} /\ ok \subseteq ok'
        /\ UNCHANGED <<ents, child>>
    BY <1>13 DEF RowsMarked, diffVars, childVars
  <2>2. ASSUME NEW n \in sel_indices PROVE filter[n] <= Len(ents)
    <3>1. ~(n > Len(filter)) /\ n \in 1 .. Len(Kinds) /\ Len(filter) \in Nat
      BY <1>13, <2>2 DEF RowsMarked, Types, BatchTypes, ListTypes
    <3>2. n \in 1 .. Len(filter)
      BY <3>1, KindsFacts
    <3>3. QED
      BY <3>2 DEF Types, ListTypes
  <2>3. QED
    BY <2>1, <2>2 DEF Truth
<1>14. CASE WindowStep
  BY <1>2, <1>14 DEF WindowStep, PressScan, PostScan, Begun, PressSwap, PressView, Drawn, RowsChosen, RunPost, Quit,
     diffVars, doneVars, childVars
<1>15. QED
  BY <1>3, <1>4, <1>5, <1>6, <1>7, <1>8, <1>9, <1>10, <1>11, <1>12, <1>13, <1>14, StepCases, Zenon
  DEF ScanStep, BatchStep

\* An item that is begun is not done, in a comparison of trees, or was deleted.
LEMMA OnceStep ==
  ASSUME Types, OnePlace, Once, [Next]_vars
  PROVE  Once'
<1>1. /\ mark \in [Ids -> Marks] /\ sync_items \in Seq(Items) /\ Len(sync_items) \in Nat
      /\ sync_item_i \in Nat \ {0} /\ diff \in Nat /\ made \in Nat
  BY DEF Types, BatchTypes, ListTypes
<1>2. ASSUME NEW n \in 1 .. Len(sync_items)
      PROVE  sync_items[n].gen \in Nat \ {0} /\ sync_items[n].gen <= made /\ sync_items[n].id \in Ids
  <2>1. sync_items[n] \in Items
    BY <1>1
  <2>2. QED
    BY <2>1 DEF Types, Known, Items
<1>3. child # NoItem => child.gen \in Nat \ {0} /\ child.gen <= made
  <2> SUFFICES ASSUME child # NoItem PROVE child.gen \in Nat \ {0} /\ child.gen <= made
    OBVIOUS
  <2>1. sync_item_i \in 1 .. Len(sync_items) /\ child = sync_items[sync_item_i]
    BY <1>1 DEF OnePlace, Item
  <2>2. QED
    BY <1>2, <2>1
<1>4. CASE UNCHANGED <<sync_items, sync_item_i, diff, dups, mark, deleted, child>>
  BY <1>4 DEF Once
<1>5. CASE UNCHANGED allButBad
  BY <1>4, <1>5 DEF allButBad, diffVars, syncVars, doneVars, childVars
<1>6. CASE ForgetDiff \/ CompareBegun
  <2>1. UNCHANGED <<sync_items, sync_item_i, child>> /\ (diff' = 0 \/ diff' = made + 1)
    BY <1>6 DEF ForgetDiff, CompareBegun, syncVars, childVars
  <2>2. \A n \in 1 .. Len(sync_items) : sync_items[n].gen # diff'
    BY <1>1, <1>2, <2>1
  <2>3. child # NoItem => child.gen # diff'
    BY <1>1, <1>3, <2>1
  <2>4. QED
    BY <2>1, <2>2, <2>3 DEF Once
<1>7. CASE WalkNext \/ (DiffEnds /\ dups)
  <2>1. UNCHANGED <<sync_items, sync_item_i, diff, dups, child>> /\ dups
    BY <1>7 DEF WalkNext, DiffEnds, syncVars, childVars
  <2>2. QED
    BY <2>1 DEF Once
<1>8. CASE DiffEnds /\ ~dups
  BY <1>4, <1>8 DEF DiffEnds, syncVars, childVars
<1>9. CASE \/ TakeTask \/ CallHandler \/ FreeDiff \/ ScanOpen \/ ScanRound \/ ScanLater \/ CompareNext
           \/ DiffLater \/ ShowResult
  BY <1>4, <1>9 DEF TakeTask, CallHandler, FreeDiff, ScanOpen, ScanRound, ScanLater, CompareNext, DiffLater,
     ShowResult, diffVars, syncVars, doneVars, childVars
<1>10. ASSUME NEW m, mark' = [mark EXCEPT ![Item.id] = m], m = "done" => sync_item_i' = sync_item_i + 1,
              sync_item_i' \in {sync_item_i, sync_item_i + 1}, sync_item_i \in 1 .. Len(sync_items),
              UNCHANGED <<sync_items, diff, dups, deleted>>,
              child' # NoItem /\ child'.gen = diff => ~dups
       PROVE  Once'
  <2> SUFFICES ASSUME NEW n \in 1 .. Len(sync_items), n >= sync_item_i', sync_items[n].gen = diff, ~dups,
                      mark'[sync_items[n].id] = "done"
               PROVE  sync_items[n].id \in deleted
    BY <1>10 DEF Once
  <2>1. n >= sync_item_i /\ (n = sync_item_i => m # "done")
    BY <1>1, <1>10
  <2>2. CASE n = sync_item_i
    BY <1>1, <1>2, <1>10, <2>1, <2>2 DEF Item
  <2>3. CASE n # sync_item_i
    <3>1. sync_items[n].id # Item.id
      BY <1>10, <2>3 DEF Once, Item
    <3>2. mark[sync_items[n].id] = "done"
      BY <1>1, <1>2, <1>10, <3>1
    <3>3. QED
      BY <2>1, <3>2 DEF Once
  <2>4. QED
    BY <2>2, <2>3
<1>11. CASE ItemBegun
  <2>1. PICK m \in {"done", "error", "syncing"} :
              /\ mark' = [mark EXCEPT ![Item.id] = m]
              /\ m # "done" => ~dups
              /\ IF m = "syncing" THEN child' = Item /\ sync_item_i' = sync_item_i
                 ELSE child' = NoItem /\ sync_item_i' = sync_item_i + 1
    BY <1>11, BegunMark, Zenon
  <2>2. UNCHANGED <<sync_items, diff, dups, deleted>> /\ sync_item_i \in 1 .. Len(sync_items)
    BY <1>1, <1>11 DEF ItemBegun, diffVars
  <2>3. m = "done" => sync_item_i' = sync_item_i + 1
    BY <2>1
  <2>4. child' # NoItem => ~dups
    BY <2>1
  <2>5. sync_item_i' \in {sync_item_i, sync_item_i + 1}
    BY <2>1
  <2>6. QED
    BY <1>10, <2>1, <2>2, <2>3, <2>4, <2>5
<1>12. CASE ItemEnded
  <2>1. PICK m : mark' = [mark EXCEPT ![Item.id] = m]
    BY <1>12, Zenon DEF ItemEnded, Mark
  <2>2. /\ UNCHANGED <<sync_items, diff, dups, deleted>> /\ sync_item_i \in 1 .. Len(sync_items)
        /\ sync_item_i' = sync_item_i + 1 /\ child' = NoItem
    BY <1>1, <1>12 DEF ItemEnded, diffVars
  <2>3. QED
    BY <1>10, <2>1, <2>2
<1>13. CASE Unwind
  <2>1. /\ UNCHANGED <<sync_items, sync_item_i, diff, dups, deleted, child>>
        /\ mark' = mark \/ \E x : mark' = [mark EXCEPT ![x] = "late"]
    BY <1>13 DEF Unwind, diffVars, syncVars
  <2>2. \A x \in Ids : mark'[x] = "done" => mark[x] = "done"
    BY <1>1, <2>1
  <2>3. QED
    BY <1>2, <2>1, <2>2 DEF Once
<1>14. CASE SyncEnds
  BY <1>4, <1>14 DEF SyncEnds, diffVars, syncVars, doneVars, childVars
<1>15. CASE RowsMarked
  <2>1. /\ mark' = [x \in Ids |-> IF x \in {filter[n] : n \in sel_indices} THEN "done" ELSE mark[x]]
        /\ deleted' = deleted \cup {filter[n] : n \in sel_indices}
        /\ UNCHANGED <<sync_items, sync_item_i, diff, dups, child>>
    BY <1>15 DEF RowsMarked, diffVars, syncVars, childVars
  <2>2. \A x \in Ids : mark'[x] = "done" => mark[x] = "done" \/ x \in deleted'
    BY <2>1
  <2>3. deleted \subseteq deleted'
    BY <2>1
  <2>4. QED
    BY <1>2, <2>1, <2>2, <2>3 DEF Once
<1>16. ASSUME NEW chosen, Begun(chosen) PROVE Once'
  <2>1. /\ UNCHANGED <<diff, dups, mark, deleted, child>> /\ sync_items = << >> /\ chosen \in Seq(Ids)
        /\ sync_items' = [n \in 1 .. Len(chosen) |-> [gen |-> diff, id |-> filter[chosen[n]]]]
        /\ \A n \in 1 .. Len(chosen) : chosen[n] <= Len(filter) /\ mark[filter[chosen[n]]] # "done"
        /\ \A m, n \in 1 .. Len(chosen) : m # n => chosen[m] # chosen[n]
    BY <1>16 DEF Begun, diffVars, doneVars
  <2>2. Len(sync_items') = Len(chosen) /\ \A n \in 1 .. Len(chosen) : sync_items'[n].id = filter[chosen[n]]
    BY <2>1
  <2>3. ASSUME NEW n \in 1 .. Len(chosen) PROVE chosen[n] \in 1 .. Len(filter)
    <3>1. chosen[n] \in Ids /\ chosen[n] <= Len(filter)
      BY <2>1, ElementFacts
    <3>2. Len(filter) \in Nat
      BY DEF Types, ListTypes
    <3>3. QED
      BY <3>1, <3>2, KindsFacts DEF Ids
  <2>4. \A m, n \in 1 .. Len(chosen) : m # n => filter[chosen[m]] # filter[chosen[n]]
    <3>1. \A m, n \in 1 .. Len(filter) : m # n => filter[m] # filter[n]
      BY DEF Types, ListTypes
    <3>2. QED
      BY <2>1, <2>3, <3>1, Zenon
  <2>5. child = NoItem
    BY <1>1, <2>1 DEF OnePlace
  <2>6. QED
    BY <2>1, <2>2, <2>4, <2>5 DEF Once
<1>17. CASE RunPost
  <2>1. UNCHANGED <<sync_item_i, diff, dups, mark, deleted, child>> /\ sync_items' \in {sync_items, << >>}
    BY <1>17 DEF RunPost, diffVars, doneVars
  <2>2. CASE sync_items' = sync_items
    BY <1>4, <2>1, <2>2
  <2>3. CASE sync_items' = << >>
    BY <2>1, <2>3 DEF Once
  <2>4. QED
    BY <2>1, <2>2, <2>3
<1>18. CASE PressScan \/ PostScan \/ PressSwap \/ PressView \/ Drawn \/ RowsChosen \/ Quit
  BY <1>4, <1>18 DEF PressScan, PostScan, PressSwap, PressView, Drawn, RowsChosen, Quit, diffVars, syncVars,
     doneVars, childVars
<1>19. QED
  BY <1>5, <1>6, <1>7, <1>8, <1>9, <1>11, <1>12, <1>13, <1>14, <1>15, <1>16, <1>17, <1>18, StepCases, Zenon
  DEF ScanStep, BatchStep, WindowStep

LEMMA NestedStep ==
  ASSUME Types, OnePlace, Once, Nested, [Next]_vars
  PROVE  Nested'
<1>1. /\ mark \in [Ids -> Marks] /\ sync_items \in Seq(Items) /\ Len(sync_items) \in Nat
      /\ sync_item_i \in Nat \ {0} /\ nest \in Seq([at : Nat \ {0}, item : Items]) /\ Len(nest) \in Nat
  BY DEF Types, BatchTypes
<1>2. ASSUME NEW n \in 1 .. Len(nest)
      PROVE  nest[n].at \in Nat \ {0} /\ nest[n].item.id \in Ids /\ Pointed(nest[n]) \in Ids
  <2>1. nest[n].at \in Nat \ {0} /\ nest[n].item.id \in Ids
    <3>1. nest[n] \in [at : Nat \ {0}, item : Items]
      BY <1>1, ElementFacts
    <3>2. QED
      BY <3>1 DEF Items
  <2>2. ASSUME NEW k \in DOMAIN sync_items PROVE sync_items[k].id \in Ids
    <3>1. sync_items[k] \in Items
      BY <1>1
    <3>2. QED
      BY <3>1 DEF Items
  <2>3. QED
    BY <2>1, <2>2 DEF Pointed
<1>3. ASSUME nest' = << >> PROVE Nested'
  BY <1>3 DEF Nested
<1>4. CASE UNCHANGED <<nest, mark, sync_items, sync_item_i, pc>>
  BY <1>4 DEF Nested, Pointed
<1>5. CASE UNCHANGED allButBad
  BY <1>4, <1>5 DEF allButBad, doneVars, syncVars, childVars, runVars
<1>6. CASE ScanStep
  <2>1. nest' = nest
    BY <1>6 DEF ScanStep, TakeTask, CallHandler, FreeDiff, ForgetDiff, ScanOpen, ScanRound, ScanLater, CompareBegun,
       CompareNext, WalkNext, DiffLater, DiffEnds, ShowResult, childVars
  <2>2. pc \notin {"sync", "unwind"}
    BY <1>6 DEF ScanStep, TakeTask, CallHandler, FreeDiff, ForgetDiff, ScanOpen, ScanRound, ScanLater, CompareBegun,
       CompareNext, WalkNext, DiffLater, DiffEnds, ShowResult
  <2>3. QED
    BY <1>3, <2>1, <2>2 DEF Nested
<1>7. CASE ItemEnded \/ RowsMarked
  BY <1>3, <1>7 DEF ItemEnded, RowsMarked, childVars, Nested
<1>8. CASE ItemBegun
  <2>1. PICK m \in {"done", "error", "syncing"} :
              /\ mark' = [mark EXCEPT ![Item.id] = m]
              /\ m = "done" => nest' = nest
              /\ IF m = "syncing" THEN sync_item_i' = sync_item_i /\ pc' = "unwind" /\ nest' = nest
                 ELSE /\ sync_item_i' = sync_item_i + 1 /\ pc' = pc
                      /\ nest' \in {nest, Append(nest, [at |-> sync_item_i, item |-> Item])}
    BY <1>8, BegunMark, Zenon
  <2>2. sync_items' = sync_items /\ pc = "sync" /\ sync_item_i \in 1 .. Len(sync_items)
    BY <1>1, <1>8 DEF ItemBegun
  <2>3. Item.id \in Ids
    BY <1>8, ItemFacts DEF ItemBegun
  <2>4. ASSUME NEW n \in 1 .. Len(nest)
        PROVE  /\ nest[n].at < sync_item_i /\ nest[n].at \in 1 .. Len(sync_items)
               /\ sync_items[nest[n].at].id = nest[n].item.id
               /\ Pointed(nest[n]) = nest[n].item.id /\ nest[n].item.id # Item.id
               /\ mark[nest[n].item.id] # "done"
    <3>1. /\ nest[n].at < sync_item_i /\ nest[n].at <= Len(sync_items)
          /\ sync_items[nest[n].at].id = nest[n].item.id /\ mark[nest[n].item.id] # "done"
      BY <2>2, <2>4 DEF Nested
    <3>2. nest[n].at \in 1 .. Len(sync_items) /\ nest[n].at # sync_item_i
      BY <1>1, <1>2, <3>1
    <3>3. sync_items[nest[n].at].id # Item.id
      BY <2>2, <3>2 DEF Once, Item
    <3>4. Pointed(nest[n]) = sync_items[nest[n].at].id
      BY <1>1, <3>2 DEF Pointed
    <3>5. QED
      BY <3>1, <3>2, <3>3, <3>4
  <2>5. ASSUME NEW n \in 1 .. Len(nest), NEW k \in {sync_item_i, sync_item_i + 1}
        PROVE  /\ mark'[nest[n].item.id] # "done" /\ mark'[Pointed(nest[n])] # "done"
               /\ nest[n].at < k /\ nest[n].at <= Len(sync_items)
               /\ sync_items[nest[n].at].id = nest[n].item.id
    <3>1. mark'[nest[n].item.id] = mark[nest[n].item.id]
      BY <1>1, <1>2, <2>1, <2>4
    <3>2. nest[n].at < k /\ nest[n].at <= Len(sync_items)
      BY <1>1, <2>4
    <3>3. QED
      BY <2>4, <3>1, <3>2
  <2>7. CASE nest' = nest
    <3>1. ASSUME NEW n \in 1 .. Len(nest) PROVE Pointed(nest[n])' = Pointed(nest[n])
      BY <2>2, <2>7 DEF Pointed
    <3>2. pc' \in {"sync", "unwind"} /\ sync_item_i' \in {sync_item_i, sync_item_i + 1}
      BY <2>1, <2>2
    <3>3. QED
      BY <2>2, <2>5, <2>7, <3>1, <3>2 DEF Nested
  <2>8. CASE nest' = Append(nest, [at |-> sync_item_i, item |-> Item]) /\ m = "error"
    <3> DEFINE el == [at |-> sync_item_i, item |-> Item]
    <3>1. /\ el.at = sync_item_i /\ el.item = Item /\ nest' = Append(nest, el)
          /\ pc' = "sync" /\ sync_item_i' = sync_item_i + 1
      BY <2>1, <2>2, <2>8
    <3> HIDE DEF el
    <3>2. /\ Len(nest') = Len(nest) + 1 /\ nest'[Len(nest) + 1] = el
          /\ \A n \in 1 .. Len(nest) : nest'[n] = nest[n]
      BY <1>1, <3>1
    <3>3. mark'[Item.id] = "error"
      BY <1>1, <2>1, <2>3, <2>8
    <3> SUFFICES ASSUME NEW n \in 1 .. Len(nest')
                 PROVE  /\ mark'[nest'[n].item.id] # "done" /\ mark'[Pointed(nest[n])'] # "done"
                        /\ nest'[n].at < sync_item_i' /\ nest'[n].at <= Len(sync_items')
                        /\ sync_items'[nest'[n].at].id = nest'[n].item.id
      BY <3>1 DEF Nested
    <3>4. CASE n \in 1 .. Len(nest)
      <4>1. nest'[n] = nest[n]
        BY <3>2, <3>4
      <4>2. Pointed(nest[n])' = Pointed(nest[n])
        BY <2>2, <4>1 DEF Pointed
      <4>3. QED
        BY <2>2, <2>5, <3>1, <3>4, <4>1, <4>2
    <3>5. CASE n = Len(nest) + 1
      <4>1. nest'[n] = el
        BY <3>2, <3>5
      <4>2. Pointed(nest[n])' = Item.id
        BY <1>1, <2>2, <3>1, <4>1 DEF Pointed, Item
      <4>3. sync_items'[nest'[n].at].id = nest'[n].item.id
        BY <2>2, <3>1, <4>1 DEF Item
      <4>4. nest'[n].at < sync_item_i' /\ nest'[n].at <= Len(sync_items')
        BY <1>1, <2>2, <3>1, <4>1
      <4>5. QED
        BY <3>1, <3>3, <4>1, <4>2, <4>3, <4>4
    <3>6. QED
      BY <1>1, <3>2, <3>4, <3>5
  <2>9. QED
    BY <2>1, <2>7, <2>8
<1>9. CASE SyncEnds
  <2>1. UNCHANGED <<nest, mark, sync_items>> /\ pc' = "unwind"
    BY <1>9 DEF SyncEnds, childVars, doneVars, syncVars
  <2>2. QED
    BY <2>1 DEF Nested, Pointed
<1>10. CASE Unwind
  <2>1. CASE nest = << >>
    BY <1>3, <1>10, <2>1 DEF Unwind
  <2>2. CASE nest # << >>
    <3>1. /\ pc = "unwind" /\ mark' = [mark EXCEPT ![Pointed(Last(nest))] = "late"] /\ nest' = Front(nest)
          /\ UNCHANGED <<sync_items, pc>>
      BY <1>10, <2>2 DEF Unwind, runVars, syncVars
    <3>2. Len(nest') = Len(nest) - 1 /\ \A n \in 1 .. Len(nest) - 1 : nest'[n] = nest[n]
      BY <1>1, <2>2, <3>1, FrontFacts
    <3>3. \A x \in Ids : mark[x] # "done" => mark'[x] # "done"
      BY <1>1, <3>1
    <3> SUFFICES ASSUME NEW n \in 1 .. Len(nest) - 1
                 PROVE  mark'[nest'[n].item.id] # "done" /\ mark'[Pointed(nest[n])'] # "done"
      BY <3>1, <3>2 DEF Nested
    <3>4. n \in 1 .. Len(nest) /\ nest'[n] = nest[n]
      <4>1. Len(nest) \in Nat
        BY <1>1
      <4>2. n \in 1 .. Len(nest)
        BY <4>1
      <4>3. QED
        BY <3>2, <4>2
    <3>5. Pointed(nest[n])' = Pointed(nest[n])
      BY <3>1, <3>4 DEF Pointed
    <3>6. QED
      BY <1>2, <3>3, <3>4, <3>5 DEF Nested
  <2>3. QED
    BY <2>1, <2>2
<1>11. ASSUME nest # << >>, UNCHANGED <<nest, mark, pc>>, pc # "sync",
              \A k \in DOMAIN sync_items' : mark[sync_items'[k].id] # "done"
       PROVE  Nested'
  <2> SUFFICES ASSUME NEW n \in 1 .. Len(nest)
               PROVE  mark[nest[n].item.id] # "done" /\ mark[Pointed(nest[n])'] # "done"
    BY <1>11 DEF Nested
  <2>1. mark[nest[n].item.id] # "done"
    BY DEF Nested
  <2>2. Pointed(nest[n])' = IF nest[n].at \in DOMAIN sync_items' THEN sync_items'[nest[n].at].id ELSE nest[n].item.id
    BY <1>11 DEF Pointed
  <2>3. QED
    BY <1>11, <2>1, <2>2
<1>12. ASSUME NEW chosen, Begun(chosen) PROVE Nested'
  <2>1. /\ UNCHANGED <<nest, mark, pc>> /\ sync_items = << >> /\ chosen \in Seq(Ids)
        /\ sync_items' = [n \in 1 .. Len(chosen) |-> [gen |-> diff, id |-> filter[chosen[n]]]]
        /\ \A n \in 1 .. Len(chosen) : mark[filter[chosen[n]]] # "done"
    BY <1>12 DEF Begun, doneVars, runVars
  <2>2. \A k \in DOMAIN sync_items' : mark[sync_items'[k].id] # "done"
    BY <2>1
  <2>3. pc # "sync"
    BY <2>1 DEF OnePlace
  <2>4. QED
    BY <1>3, <1>11, <2>1, <2>2, <2>3
<1>13. CASE RunPost
  <2>1. UNCHANGED <<nest, mark, sync_item_i, pc>>
    BY <1>13 DEF RunPost, doneVars, runVars
  <2>2. CASE Head(posts) = "sync_done"
    <3>1. posts \in Seq({"sync_done", "deleted"}) /\ posts # << >> /\ sync_items' = << >>
      BY <1>13, <2>2 DEF RunPost, Types, BatchTypes
    <3>2. Announced
      BY <2>2, <3>1 DEF Announced
    <3>3. pc # "sync" /\ DOMAIN sync_items' = {}
      BY <3>1, <3>2 DEF OnePlace
    <3>4. QED
      BY <1>3, <1>11, <2>1, <3>3
  <2>3. CASE Head(posts) # "sync_done"
    BY <1>4, <1>13, <2>1, <2>3 DEF RunPost
  <2>4. QED
    BY <2>2, <2>3
<1>14. CASE PressScan \/ PostScan \/ PressSwap \/ PressView \/ Drawn \/ RowsChosen \/ Quit
  BY <1>4, <1>14 DEF PressScan, PostScan, PressSwap, PressView, Drawn, RowsChosen, Quit, doneVars, syncVars,
     childVars, runVars
<1>15. QED
  BY <1>5, <1>6, <1>7, <1>8, <1>9, <1>10, <1>12, <1>13, <1>14, StepCases, Zenon DEF BatchStep, WindowStep

-----------------------------------------------------------------------------
(* The theorems. *)

\* What a batch does is known as long as no posted function was replaced.
GInv == Types /\ Asked /\ (~clash => OnePlace /\ Carried /\ Logged /\ Truth /\ Once /\ Nested)

LEMMA GInit == Init => GInv
<1> SUFFICES ASSUME Init PROVE GInv
  OBVIOUS
<1>1. Types
  BY InitTypes
<1>2. /\ sync_items = << >> /\ child = NoItem /\ nest = << >> /\ posts = << >> /\ log = << >>
      /\ pc = "idle" /\ handler = "none" /\ mark = NoMarks /\ result = "none"
  BY DEF Init
<1>3. Asked
  BY <1>2 DEF Asked
<1>4. OnePlace /\ Logged
  BY <1>2 DEF OnePlace, Logged, Announced
<1>5. Truth /\ Once /\ Nested
  BY <1>2 DEF Truth, Once, Nested, NoMarks
<1>6. Carried
  BY <1>2 DEF Carried
<1>7. QED
  BY <1>1, <1>3, <1>4, <1>5, <1>6 DEF GInv

LEMMA GStep == GInv /\ [Next]_vars => GInv'
<1> SUFFICES ASSUME GInv, [Next]_vars PROVE GInv'
  OBVIOUS
<1>1. Types' /\ Asked'
  BY TypesStep, AskedStep DEF GInv
<1>2. ASSUME ~clash' PROVE OnePlace' /\ Carried' /\ Logged' /\ Truth' /\ Once' /\ Nested'
  <2>1. ~clash
    BY <1>2, ClashStays DEF GInv
  <2>2. Types /\ Asked /\ OnePlace /\ Carried /\ Logged /\ Truth /\ Once /\ Nested
    BY <2>1 DEF GInv
  <2>3. QED
    BY <1>2, <2>1, <2>2, OnePlaceStep, CarriedStep, LoggedStep, TruthStep, OnceStep, NestedStep
<1>3. QED
  BY <1>1, <1>2 DEF GInv

LEMMA GInvHolds == Spec => []GInv
BY GInit, GStep, PTL DEF Spec

LEMMA AnnouncedFacts ==
  ASSUME Types
  PROVE  "sync_done" \in ToSet(posts) => Announced
<1>1. DOMAIN posts = 1 .. Len(posts)
  BY DEF Types, BatchTypes
<1>2. QED
  BY <1>1, Zenon DEF ToSet, Announced

\* Whatever is pressed while a batch is under way, the end of a command is put down to the
\* item it was started for, as long as no posted function was replaced; the variables keep
\* their types, and the index of the item never leaves the batch, in any case.
THEOREM GsyncSafe == Spec => []GsyncInv
<1>1. GInv => GsyncInv
  <2> SUFFICES ASSUME GInv PROVE GsyncInv
    OBVIOUS
  <2>1. Types
    BY DEF GInv
  <2>2. TypeOK
    <3>1. mark \in [Ids -> {"none", "syncing", "late", "error", "done"}]
      BY <2>1 DEF Types, BatchTypes, Marks
    <3>2. i \in 0 .. Slice /\ {lsnap, rsnap} \subseteq Nat \cup {None}
      BY <2>1 DEF Types, FlowTypes
    <3>3. linked \in BOOLEAN /\ handler \in {"none", "cmp", "dups", "sync"} /\ scan_state \in 0 .. 4
      BY <2>1 DEF Types, FlowTypes
    <3>4. pc \in {"idle", "call", "init", "free", "scan", "next", "diff", "diffnext", "show", "sync", "unwind"}
      BY <2>1 DEF Types, FlowTypes
    <3>5. Len(ents) <= Len(Kinds) /\ rows \in 0 .. Len(Kinds) /\ {dup_cur, ce_prev} \subseteq 0 .. Len(Kinds)
      BY <2>1 DEF Types, ListTypes
    <3>6. sync_item_i \in 1 .. Len(sync_items) + 1 \/ sync_items = << >>
      BY <2>1 DEF Types, BatchTypes
    <3>7. QED
      BY <3>1, <3>2, <3>3, <3>4, <3>5, <3>6, Zenon DEF TypeOK
  <2>3. ItemUnderWay
    <3> SUFFICES ASSUME ~clash, child # NoItem
                 PROVE  /\ sync_item_i <= Len(sync_items) /\ Item = child
                        /\ pc # "sync" /\ ~(linked /\ handler = "sync") /\ "sync_done" \notin ToSet(posts)
      BY DEF ItemUnderWay
    <3>1. OnePlace
      BY DEF GInv
    <3>2. "sync_done" \notin ToSet(posts)
      BY <2>1, <3>1, AnnouncedFacts DEF OnePlace
    <3>3. QED
      BY <3>1, <3>2 DEF OnePlace
  <2>4. QED
    BY <2>2, <2>3 DEF GsyncInv
<1>2. QED
  BY GInvHolds, <1>1, PTL

\* What a batch does is what the list showed when the user asked for it, item by item, in a
\* direction that the user has chosen since, for any list, any order of the buttons and any
\* failures, as long as no posted function was replaced.
THEOREM GsyncDoesAsShown == Spec => []DoneAsShown
<1>1. GInv => DoneAsShown
  <2> SUFFICES ASSUME GInv, ~clash
               PROVE  /\ Len(log) <= Len(asked)
                      /\ \A n \in DOMAIN log :
                           /\ log[n][1] = asked[n][1]
                           /\ log[n][2] = "EQ" \/ \E s \in sides : log[n][2] = Acts(asked[n][2], s)
    BY DEF DoneAsShown
  <2>1. Types /\ Logged /\ OnePlace
    BY DEF GInv
  <2>2. /\ log \in Seq(Doings) /\ Len(asked) = Len(sync_items) /\ Len(sync_items) \in Nat
        /\ sync_item_i \in Nat \ {0} /\ (sync_item_i <= Len(sync_items) + 1 \/ sync_items = << >>)
    BY <2>1 DEF Types, BatchTypes
  <2>3. Len(log) <= Len(asked)
    BY <2>1, <2>2 DEF Logged, OnePlace
  <2>4. DOMAIN log = 1 .. Len(log)
    BY <2>2
  <2>5. QED
    BY <2>1, <2>3, <2>4 DEF Logged
<1>2. QED
  BY GInvHolds, <1>1, PTL

\* When the end of a batch is announced every item of it was dealt with, also after a
\* command that could not be created, and nothing waits for a command.
THEOREM GsyncEndsWhole == Spec => []BatchIsWhole
<1>1. GInv => BatchIsWhole
  <2> SUFFICES ASSUME GInv, ~clash, "sync_done" \in ToSet(posts)
               PROVE  Len(log) = Len(asked) /\ child = NoItem /\ \A x \in Ids : mark[x] # "syncing"
    BY DEF BatchIsWhole
  <2>1. Types /\ Logged /\ OnePlace /\ Truth
    BY DEF GInv
  <2>2. child = NoItem /\ sync_items # << >> /\ sync_item_i = Len(sync_items) + 1
    BY <2>1, AnnouncedFacts DEF OnePlace
  <2>3. Len(asked) = Len(sync_items) /\ Len(sync_items) \in Nat
    BY <2>1 DEF Types, BatchTypes
  <2>4. Len(log) = Len(asked)
    BY <2>1, <2>2, <2>3 DEF Logged
  <2>5. \A x \in Ids : mark[x] # "syncing"
    BY <2>1, <2>2 DEF Truth, NoItem, Ids
  <2>6. QED
    BY <2>2, <2>4, <2>5
<1>2. QED
  BY GInvHolds, <1>1, PTL

\* Nothing that was started is forgotten: a batch and a scan are always in one of the places
\* that go on with them, whatever is pressed meanwhile, as long as no posted function was
\* replaced.
THEOREM GsyncGoesOn == Spec => []WorkGoesOn
<1>1. GInv => WorkGoesOn
  <2> SUFFICES ASSUME GInv, ~clash
               PROVE  /\ InProgress => BatchIsCarried
                      /\ result \in {"cmp", "dups"} => ScanIsCarried
    BY DEF WorkGoesOn
  <2>1. Carried /\ Types
    BY DEF GInv
  <2>2. Announced => "sync_done" \in ToSet(posts)
    <3>1. DOMAIN posts = 1 .. Len(posts)
      BY <2>1 DEF Types, BatchTypes
    <3>2. QED
      BY <3>1, Zenon DEF ToSet, Announced
  <2>3. QED
    BY <2>1, <2>2 DEF Carried, BatchInPlace, BatchIsCarried, InProgress
<1>2. QED
  BY GInvHolds, <1>1, PTL

\* An entry that is marked as done was synchronised, or was marked at the end of a deletion
\* or as the second of two equal files.
THEOREM GsyncMarksTruly == Spec => []MarksAreTrue
<1>1. GInv => MarksAreTrue
  <2> SUFFICES ASSUME GInv, ~clash, NEW x \in DOMAIN ents, mark[x] = "done"
               PROVE  x \in ok \cup deleted \/ ents[x] = "twin"
    BY DEF MarksAreTrue
  <2>1. Types /\ Truth
    BY DEF GInv
  <2>2. x \in Ids
    BY <2>1, KindsFacts DEF Types, ListTypes, Ids
  <2>3. QED
    BY <2>1, <2>2 DEF Truth
<1>2. QED
  BY GInvHolds, <1>1, PTL

\* Nothing that was done is begun again, or marked otherwise, while its comparison lives,
\* whatever rows the user selects: not by an item, the end of a command, or a caller that
\* marks what it has begun after the next batch was asked for.
THEOREM GsyncDoesOnce == Spec => DoneOnce
<1> DEFINE Kept == \A x \in DOMAIN ents : mark[x] = "done" /\ x \notin deleted => mark'[x] = "done"
<1>1. ASSUME GInv, [Next]_vars, ~clash', pc \notin {"free", "diff", "diffnext"} PROVE Kept
  <2>1. ~clash
    BY <1>1, ClashStays DEF GInv
  <2>2. Types /\ OnePlace /\ Once /\ Nested
    BY <1>1, <2>1 DEF GInv
  <2>3. mark \in [Ids -> Marks] /\ \A x \in DOMAIN ents : x \in Ids
    <3>1. mark \in [Ids -> Marks]
      BY <2>2 DEF Types, BatchTypes
    <3>2. DOMAIN ents = 1 .. Len(ents) /\ Len(ents) \in Nat /\ Len(ents) <= Len(Kinds)
      BY <2>2 DEF Types, ListTypes
    <3>3. QED
      BY <3>1, <3>2, KindsFacts DEF Ids
  <2>4. CASE UNCHANGED mark
    BY <2>4
  <2>5. ASSUME NEW id, NEW m, mark' = [mark EXCEPT ![id] = m], mark[id] = "done" /\ id \notin deleted => m = "done"
        PROVE  Kept
    BY <2>3, <2>5
  <2>6. CASE UNCHANGED allButBad
    BY <2>4, <2>6 DEF allButBad, doneVars
  <2>7. CASE ScanStep
    BY <1>1, <2>4, <2>7 DEF ScanStep, TakeTask, CallHandler, FreeDiff, ForgetDiff, ScanOpen, ScanRound, ScanLater,
       CompareBegun, CompareNext, WalkNext, DiffLater, DiffEnds, ShowResult, doneVars
  <2>8. ASSUME sync_item_i \in 1 .. Len(sync_items), Item.gen = diff, ~dups PROVE mark[Item.id] = "done" => Item.id \in deleted
    <3>1. sync_item_i >= sync_item_i
      BY <2>2 DEF Types, BatchTypes
    <3>2. QED
      BY <2>2, <2>8, <3>1 DEF Once, Item
  <2>9. CASE ItemBegun
    <3>1. PICK m : mark' = [mark EXCEPT ![Item.id] = m] /\ (m # "done" => ~dups)
      BY <2>2, <2>9, BegunMark, Zenon
    <3>2. sync_item_i \in 1 .. Len(sync_items) /\ Item.gen = diff
      BY <2>2, <2>9, ItemFacts DEF ItemBegun, Usable
    <3>3. QED
      BY <2>5, <2>8, <3>1, <3>2
  <2>10. CASE SyncEnds
    BY <2>4, <2>10 DEF SyncEnds, doneVars
  <2>11. CASE Unwind
    <3>1. CASE nest = << >>
      BY <2>4, <2>11, <3>1 DEF Unwind
    <3>2. CASE nest # << >>
      <4>1. mark' = [mark EXCEPT ![Pointed(Last(nest))] = "late"]
        BY <2>11, <3>2 DEF Unwind
      <4>2. Last(nest) = nest[Len(nest)] /\ Len(nest) \in 1 .. Len(nest)
        BY <2>2, <3>2, FrontFacts DEF Types, BatchTypes
      <4>3. mark[Pointed(Last(nest))] # "done"
        BY <2>2, <4>2 DEF Nested
      <4>4. QED
        BY <2>5, <4>1, <4>3
    <3>3. QED
      BY <3>1, <3>2
  <2>12. CASE ItemEnded
    <3>1. PICK m : mark' = [mark EXCEPT ![Item.id] = m]
      BY <2>12, Zenon DEF ItemEnded, Mark
    <3>2. child # NoItem /\ Item = child /\ Item.gen = diff /\ sync_item_i <= Len(sync_items)
      BY <2>2, <2>12 DEF ItemEnded, OnePlace
    <3>3. ~dups
      BY <2>2, <3>2 DEF Once
    <3>4. sync_item_i \in 1 .. Len(sync_items)
      BY <2>2, <3>2, ItemFacts
    <3>5. QED
      BY <2>5, <2>8, <3>1, <3>2, <3>3, <3>4
  <2>13. CASE RowsMarked
    BY <2>3, <2>13 DEF RowsMarked
  <2>14. CASE WindowStep
    BY <2>4, <2>14 DEF WindowStep, PressScan, PostScan, Begun, PressSwap, PressView, Drawn, RowsChosen, RunPost, Quit,
       doneVars
  <2>15. QED
    BY <1>1, <2>2, <2>6, <2>7, <2>9, <2>10, <2>11, <2>12, <2>13, <2>14, StepCases, Zenon DEF BatchStep
<1>2. GInv /\ [Next]_vars => [~clash' /\ pc \notin {"free", "diff", "diffnext"} => Kept]_vars
  BY <1>1
<1>3. QED
  BY GInvHolds, <1>2, PTL DEF Spec, DoneOnce
=============================================================================
