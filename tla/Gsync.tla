------------------------------- MODULE Gsync -------------------------------
(***************************************************************************)
(* "fcom gsync": fs/gsync.cpp.  The window runs on a thread of its own;    *)
(* scans, comparisons and synchronisations run on the worker as functions  *)
(* of one core_task object.  The two share the comparison, the list of     *)
(* items to synchronise and the flags, without a lock; the window only     *)
(* refuses a second synchronisation, and the user here presses any button  *)
(* at any time.                                                            *)
(*                                                                         *)
(* That leads to undefined behaviour.  The model is exact up to the step   *)
(* that uses what is not there: it says in "bad" what that was and stops.  *)
(* A comparison is a number and its entries (SyncDiff has their making);   *)
(* the entries of an older number are freed memory, or left behind by a    *)
(* scan that was asked for in the middle of another.  A child (Com) is one *)
(* step that ends well or badly, when the worker is free.                  *)
(* The sorting of the list and its texts, the counters of the check boxes, *)
(* their periodic display, the filters by name and date and the drawing of *)
(* single rows are left out.                                               *)
(***************************************************************************)
EXTENDS Integers, Sequences, FiniteSets, SequencesExt

CONSTANTS
  Kinds,      \* the statuses that a comparison gives to its entries
  Bytes,      \* the sizes of as many files, among which duplicates are looked for
  Sizes,      \* how many entries the left and the right tree may have
  Wildcards,  \* which of the two paths may have a '*': pairs of Booleans
  Slice,      \* 100: how much a function of the worker does before it lets others run
  MaxAsks,    \* bound on how often a scan or a deletion is asked for
  Failures    \* what may go wrong

ASSUME GsyncAssumption ==
  /\ Kinds \in Seq({"LEFT", "RIGHT", "NEQ", "MOVE"})
  /\ Bytes \in Seq(Nat) /\ Len(Bytes) = Len(Kinds)
  /\ Sizes \subseteq Nat \X Nat /\ Wildcards \subseteq BOOLEAN \X BOOLEAN
  /\ Slice \in Nat \ {0} /\ MaxAsks \in Nat
  /\ Failures \subseteq {"open", "read", "child", "create", "move", "trash"}

VARIABLES
  linked, handler,      \* g->core_task
  scan_state,           \* g->scan_state
  lsnap, rsnap,         \* entries still to be scanned, or None for NULL
  diff, dups,           \* number of g->diff, 0 for NULL; whether it is one of duplicates
  ents,                 \* sd->ents: the statuses of its entries so far
  dup_cur, ce_prev,     \* of the walk through the files, 0 for NULL
  mark,                 \* SYNCING, ERROR, DONE of every entry
  filter, rows,         \* sd->filter, and the number of rows that the list shows
  swap, show_all,       \* of g->show_flags
  sync_items, sync_item_i, sync_date,
  sel_indices, trash,   \* the rows last deleted; the entries of each deletion under way
  pc, fn, i,            \* the worker: where it is, in which function, and its loop counter
  nest,                 \* items whose sync() has returned only after on_complete()
  child,                \* the item a child works on
  gui, posts,           \* the window's thread, and what was posted to it
  gone,                 \* g is freed
  asks, made,           \* how many scans and deletions were asked for, and comparisons made
  bad,                  \* what undefined behaviour was reached, "none" before
  clash, sides, asked, log, ok, deleted, result, partial  \* history: see the properties

taskVars == <<linked, handler, clash>>
scanVars == <<scan_state, lsnap, rsnap>>
diffVars == <<diff, dups, ents, dup_cur, ce_prev, made, partial>>
listVars == <<filter, rows>>
syncVars == <<sync_items, sync_item_i, sync_date, asked>>
childVars == <<nest, child, log>>
delVars == <<sel_indices, trash>>
doneVars == <<mark, ok, deleted>>
flagVars == <<swap, show_all, sides>>
runVars == <<pc, fn, i>>
winVars == <<gui, posts, gone>>
askVars == <<asks, result>>
allButBad == <<taskVars, scanVars, diffVars, listVars, syncVars, childVars, delVars, doneVars, flagVars,
               runVars, winVars, askVars>>
vars == <<allButBad, bad>>

None == -1
NoItem == [gen |-> 0, id |-> 0]
Ids == 1 .. Len(Kinds)
NoMarks == [x \in Ids |-> "none"]

Init ==
  /\ linked = FALSE /\ handler = "none" /\ scan_state = 0 /\ lsnap = None /\ rsnap = None
  /\ diff = 0 /\ dups = FALSE /\ ents = << >> /\ dup_cur = 0 /\ ce_prev = 0
  /\ mark = NoMarks /\ filter = << >> /\ rows = 0 /\ swap = FALSE /\ show_all = FALSE
  /\ sync_items = << >> /\ sync_item_i = 1 /\ sync_date = FALSE /\ nest = << >> /\ child = NoItem
  /\ sel_indices = {} /\ trash = << >>
  /\ pc = "idle" /\ fn = "none" /\ i = 0 /\ gui = "idle" /\ posts = << >> /\ gone = FALSE
  /\ asks = 0 /\ made = 0 /\ bad = "none" /\ clash = FALSE /\ sides = {}
  /\ asked = << >> /\ log = << >> /\ ok = {} /\ deleted = {} /\ result = "none" /\ partial = FALSE

Ruin(what) == bad' = what /\ UNCHANGED allButBad

\* A function of the worker ends.
Return == pc' = "idle" /\ fn' = "none" /\ i' = 0

\* core_task_add(): a task that is linked already only gets another function, and the
\* function of one that was taken is read only when it is called.
Post(f) ==
  /\ linked' = TRUE /\ handler' = f
  /\ clash' = (clash \/ linked \/ pc = "call")

\* The direction, and those that there were since a batch began.
Turn(side) ==
  swap' = side /\ sides' = IF sync_items = << >> THEN sides ELSE sides \cup {side}

\* status_swap(): LEFT and RIGHT change places when the sides are swapped.
Acts(status, swapped) ==
  IF ~swapped THEN status
  ELSE CASE status = "LEFT" -> "RIGHT" [] status = "RIGHT" -> "LEFT" [] OTHER -> status

\* The elements of S in their order: this sequence and no other.
Listed(S) == {s \in [1 .. Cardinality(S) -> S] : \A m, n \in DOMAIN s : m < n => s[m] < s[n]}

\* redraw() with sync_view().  At first the list has neither what is done nor what is
\* equal; that the boxes are all ticked then stands for every other choice.
View(all) ==
  /\ filter' \in Listed({x \in DOMAIN ents : all \/ (mark[x] # "done" /\ ents[x] # "EQ")})
  /\ rows' = Len(filter')

-----------------------------------------------------------------------------
(* The worker: taking a task, scanning and comparing. *)

TakeTask ==
  /\ pc = "idle" /\ linked
  /\ linked' = FALSE /\ pc' = "call"
  /\ UNCHANGED <<handler, clash, scanVars, diffVars, listVars, syncVars, childVars, delVars, doneVars,
                 flagVars, fn, i, winVars, askVars, bad>>

\* A scan goes on where scan_state says.
Phase(state) ==
  IF state <= 4 THEN <<"init", "scan", "next", "diff", "diffnext">>[state + 1] ELSE "idle"
CallHandler ==
  /\ pc = "call"
  /\ pc' = IF handler = "sync" THEN "sync" ELSE Phase(scan_state)
  /\ fn' = handler /\ i' = 0
  /\ UNCHANGED <<taskVars, scanVars, diffVars, listVars, syncVars, childVars, delVars, doneVars, flagVars,
                 winVars, askVars, bad>>

\* scan_state++, which a window that has set it to 0 may be too early or too late for.
Advance(state) == scan_state' \in {scan_state + 1, state}

\* diff_reset() frees the comparison, and only then forgets it.
FreeDiff ==
  /\ pc = "init"
  /\ pc' = "free"
  /\ UNCHANGED <<taskVars, scanVars, diffVars, listVars, syncVars, childVars, delVars, doneVars, flagVars,
                 fn, i, winVars, askVars, bad>>
ForgetDiff ==
  /\ pc = "free"
  /\ diff' = 0 /\ ents' = << >> /\ filter' = << >> /\ lsnap' = None /\ rsnap' = None
  /\ mark' = NoMarks /\ ok' = {} /\ deleted' = {}
  /\ Turn(FALSE)
  /\ Advance(1) /\ pc' = "scan"
  /\ UNCHANGED <<taskVars, dups, dup_cur, ce_prev, made, partial, rows, syncVars, childVars, delVars,
                 show_all, fn, i, winVars, askVars, bad>>

\* What a scan comes to, unless another one was asked for meanwhile.
Result(r) ==
  result' = IF gui \in {"cmp", "dups"} \/ (linked /\ handler # "sync") THEN result ELSE r

\* scan(): with '*' the directories are scanned at once.  Whether there is anything left
\* to scan is what the last path said.
ScanOpen ==
  /\ pc = "scan"
  /\ \/ \E size \in Sizes, wild \in Wildcards :
          LET wildcard == IF fn = "dups" THEN wild[1] ELSE wild[2]
          IN /\ lsnap' = IF wild[1] THEN 0 ELSE size[1]
             /\ rsnap' = IF fn = "dups" THEN rsnap ELSE IF wild[2] THEN 0 ELSE size[2]
             /\ IF wildcard THEN scan_state' = 3 /\ pc' = "diff" ELSE Advance(2) /\ pc' = "next"
             /\ UNCHANGED <<fn, i, result>>
     \/ /\ "open" \in Failures
        /\ \/ lsnap' = None /\ UNCHANGED rsnap
           \/ fn # "dups" /\ (\E size \in Sizes : lsnap' = size[1]) /\ rsnap' = None
        /\ Return /\ Result("error") /\ UNCHANGED scan_state
  /\ UNCHANGED <<taskVars, diffVars, listVars, syncVars, childVars, delVars, doneVars, flagVars, winVars,
                 asks, bad>>

NoSnapshot == lsnap = None \/ (fn # "dups" /\ rsnap = None)
Rest(n) == IF n = 0 THEN 0 ELSE n - 1

\* What scan_next() returns: 0, 1 at the end, -1 for a directory that cannot be read.
Results(n) == IF n = 0 THEN {1} ELSE {0} \cup (IF "read" \in Failures THEN {-1} ELSE {})

\* One round of the loop over both trees ends it when neither has given an entry.
Scanned(l, r) == l # 0 /\ r # 0

ScanNext ==
  /\ pc = "next" /\ i < Slice
  /\ \/ NoSnapshot /\ Ruin("snapshot")
     \/ /\ ~NoSnapshot
        /\ lsnap' = Rest(lsnap) /\ rsnap' = IF fn = "dups" THEN rsnap ELSE Rest(rsnap)
        /\ \E l \in Results(lsnap), r \in IF fn = "dups" THEN {1} ELSE Results(rsnap) :
             IF Scanned(l, r)
             THEN pc' = "diff" /\ Advance(3) /\ UNCHANGED i
             ELSE i' = i + 1 /\ UNCHANGED <<pc, scan_state>>
        /\ UNCHANGED <<taskVars, diffVars, listVars, syncVars, childVars, delVars, doneVars, flagVars, fn,
                       winVars, askVars, bad>>

\* Mutant: the function returns without asking to be called again.
GoOnLater_Forgotten(f) == Return /\ UNCHANGED taskVars

\* A full slice: the function posts itself, but scan_dups__worker() posts the other one
\* while it scans.
GoOnLater(f) == Return /\ Post(f)

ScanLater ==
  /\ pc = "next" /\ i = Slice
  /\ GoOnLater("cmp")
  /\ UNCHANGED <<scanVars, diffVars, listVars, syncVars, childVars, delVars, doneVars, flagVars, winVars,
                 askVars, bad>>

\* The files with the largest first, in any order if equal.
BySize(S) ==
  {s \in [1 .. Cardinality(S) -> S] :
     \A m, n \in DOMAIN s : m < n => s[m] # s[n] /\ Bytes[s[m]] >= Bytes[s[n]]}

\* diff() or find_dups(), which has all the entries at once, to be walked through "filter".
DiffBegin ==
  /\ pc = "diff"
  /\ \/ NoSnapshot /\ Ruin("snapshot")
     \/ /\ ~NoSnapshot
        /\ made' = made + 1 /\ diff' = made + 1 /\ dups' = (fn = "dups")
        /\ ents' = IF fn = "dups" THEN [x \in Ids |-> "none"] ELSE << >>
        /\ filter' \in IF fn = "dups" THEN BySize(Ids) ELSE {<< >>}
        /\ dup_cur' = 0 /\ ce_prev' = 0
        /\ partial' = (lsnap # 0 \/ (fn # "dups" /\ rsnap # 0))
        /\ mark' = NoMarks /\ ok' = {} /\ deleted' = {}
        /\ Advance(4) /\ pc' = "diffnext" /\ i' = 0
        /\ UNCHANGED <<taskVars, lsnap, rsnap, rows, syncVars, childVars, delVars, flagVars, fn, winVars,
                       askVars, bad>>

\* next()
CompareNext ==
  /\ pc = "diffnext" /\ i < Slice /\ diff # 0 /\ ~dups /\ Len(ents) < Len(Kinds)
  /\ ents' = Append(ents, Kinds[Len(ents) + 1]) /\ i' = i + 1
  /\ UNCHANGED <<taskVars, scanVars, diff, dups, dup_cur, ce_prev, made, partial, listVars, syncVars,
                 childVars, delVars, doneVars, flagVars, pc, fn, winVars, askVars, bad>>

\* dups_scan_next(): what has the size of the file before is compared with it, and the
\* two are a pair, or that one is single.  Every status that is set drops the marks.
Single(x) ==
  IF x = 0 THEN UNCHANGED <<ents, mark>>
  ELSE ents' = [ents EXCEPT ![x] = "NEQ"] /\ mark' = [mark EXCEPT ![x] = "none"]
Pair(x, y) ==
  /\ ents' = [ents EXCEPT ![x] = "EQ", ![y] = "twin"]
  /\ mark' = [mark EXCEPT ![x] = "none", ![y] = "done"]
WalkNext ==
  /\ pc = "diffnext" /\ i < Slice /\ diff # 0 /\ dups /\ dup_cur < Len(filter)
  /\ LET ce == filter[dup_cur + 1]
     IN \/ ce_prev # 0 /\ Bytes[ce_prev] = Bytes[ce] /\ Pair(ce_prev, ce) /\ ce_prev' = 0
        \/ Single(ce_prev) /\ ce_prev' = ce
  /\ dup_cur' = dup_cur + 1 /\ i' = i + 1
  /\ UNCHANGED <<taskVars, scanVars, diff, dups, made, partial, listVars, syncVars, childVars, delVars,
                 ok, deleted, flagVars, pc, fn, winVars, askVars, bad>>

\* The window has made the list shorter than the walk has come.
WalkAstray ==
  /\ pc = "diffnext" /\ i < Slice
  /\ diff = 0 \/ (dups /\ dup_cur > Len(filter))
  /\ Ruin("walk")

DiffLater ==
  /\ pc = "diffnext" /\ i = Slice
  /\ GoOnLater(fn)
  /\ UNCHANGED <<scanVars, diffVars, listVars, syncVars, childVars, delVars, doneVars, flagVars, winVars,
                 askVars, bad>>

DiffEnds ==
  /\ pc = "diffnext" /\ i < Slice /\ diff # 0
  /\ IF dups
     THEN dup_cur = Len(filter) /\ Single(ce_prev) /\ filter' = << >>
     ELSE Len(ents) = Len(Kinds) /\ UNCHANGED <<ents, mark, filter>>
  /\ pc' = "show"
  /\ UNCHANGED <<taskVars, scanVars, diff, dups, dup_cur, ce_prev, made, partial, rows, syncVars, childVars,
                 delVars, ok, deleted, flagVars, fn, i, winVars, askVars, bad>>

ShowResult ==
  /\ pc = "show"
  /\ View(show_all)
  /\ Return /\ Result("list")
  /\ UNCHANGED <<taskVars, scanVars, diffVars, syncVars, childVars, delVars, doneVars, flagVars, winVars,
                 asks, bad>>

-----------------------------------------------------------------------------
(* The worker: sync__worker(). *)

Item == sync_items[sync_item_i]

\* sync_sync() uses the entry, which must have a status, and the target tree, which
\* duplicates have none of; and sync__worker() counts on being called once per batch.
Usable ==
  /\ child = NoItem /\ Item.gen = diff
  /\ ents[Item.id] \notin {"none", "twin"} /\ (dups => ents[Item.id] = "EQ")

\* For LEFT, NEQ and RIGHT a child is started.  When it cannot be created, on_complete()
\* is called before sync() returns 1: it goes on with the next item, and the caller marks
\* its own as in progress afterwards.
StartChild ==
  \/ /\ child' = Item /\ mark' = [mark EXCEPT ![Item.id] = "syncing"]
     /\ pc' = "unwind"
     /\ UNCHANGED <<sync_item_i, nest>>
  \/ /\ "create" \in Failures
     /\ mark' = [mark EXCEPT ![Item.id] = "error"]
     /\ nest' = Append(nest, [at |-> sync_item_i, item |-> Item])
     /\ sync_item_i' = sync_item_i + 1
     /\ UNCHANGED <<child, pc>>

\* A move is done at once, but never with "replace date"; what is equal needs nothing.
DoNow ==
  /\ sync_item_i' = sync_item_i + 1
  /\ \/ /\ ents[Item.id] = "EQ" \/ ~sync_date
        /\ mark' = [mark EXCEPT ![Item.id] = "done"] /\ ok' = ok \cup {Item.id}
     \/ /\ ents[Item.id] = "MOVE" /\ (sync_date \/ "move" \in Failures)
        /\ mark' = [mark EXCEPT ![Item.id] = "error"] /\ UNCHANGED ok
  /\ UNCHANGED <<child, pc, nest>>

\* Mutant: the direction is that of the comparison.
ActOf_Unswapped(id) == Acts(ents[id], FALSE)
ActOf(id) == Acts(ents[id], swap)

SyncItem ==
  /\ pc = "sync" /\ sync_item_i <= Len(sync_items)
  /\ \/ ~Usable /\ Ruin("target")
     \/ /\ Usable
        /\ log' = Append(log, <<Item.id, ActOf(Item.id)>>)
        /\ IF ActOf(Item.id) \in {"MOVE", "EQ"} THEN DoNow ELSE StartChild /\ UNCHANGED ok
        /\ UNCHANGED <<taskVars, scanVars, diffVars, listVars, sync_items, sync_date, asked, delVars,
                       deleted, flagVars, fn, i, winVars, askVars, bad>>

SyncEnds ==
  /\ pc = "sync" /\ sync_item_i > Len(sync_items)
  /\ posts' = Append(posts, "sync_done")
  /\ pc' = "unwind"
  /\ UNCHANGED <<taskVars, scanVars, diffVars, listVars, syncVars, childVars, delVars, doneVars, flagVars,
                 fn, i, gui, gone, askVars, bad>>

\* The callers of on_complete() return.  Each has a pointer to its item, where the next
\* batch may have its own by now: "late" is SYNCING on an entry that no child works on.
Pointed(el) == IF el.at \in DOMAIN sync_items THEN sync_items[el.at].id ELSE el.item.id
Unwind ==
  /\ pc = "unwind"
  /\ IF nest = << >> THEN Return /\ UNCHANGED <<nest, mark>>
     ELSE /\ mark' = [mark EXCEPT ![Pointed(Last(nest))] = "late"]
          /\ nest' = Front(nest) /\ UNCHANGED runVars
  /\ UNCHANGED <<taskVars, scanVars, diffVars, listVars, syncVars, child, log, delVars, ok, deleted, flagVars,
                 winVars, askVars, bad>>

\* Mutants: the next item is forgotten, or skipped.
GoOn_Not == sync_item_i' = sync_item_i + 1 /\ UNCHANGED pc
GoOn_Skips == sync_item_i' = sync_item_i + 2 /\ pc' = "sync"
GoOn == sync_item_i' = sync_item_i + 1 /\ pc' = "sync"

\* Mutant: the result is not looked at.
Mark_Done(good) == mark' = [mark EXCEPT ![Item.id] = "done"]
Mark(good) == mark' = [mark EXCEPT ![Item.id] = IF good THEN "done" ELSE "error"]

\* sync_entry_complete__worker(), called for a child when the worker is free: the item is
\* the one that is under way now.
ChildEnds ==
  /\ child # NoItem /\ pc = "idle"
  /\ \/ (sync_item_i <= Len(sync_items) => Item.gen # diff) /\ Ruin("item")
     \/ /\ sync_item_i <= Len(sync_items) /\ Item.gen = diff
        /\ child' = NoItem
        /\ \E good \in {TRUE, "child" \notin Failures} :
             /\ Mark(good)
             /\ ok' = IF good THEN ok \cup {child.id} ELSE ok
        /\ GoOn
        /\ UNCHANGED <<taskVars, scanVars, diffVars, listVars, sync_items, sync_date, asked, nest, log,
                       delVars, deleted, flagVars, fn, i, winVars, askVars, bad>>

\* selected_files_deleted__worker(): the result is not looked at, and the rows are looked
\* up again.
Missing(sel) == diff = 0 \/ \E n \in sel : n > Len(filter)
TrashEnds ==
  /\ trash # << >> /\ pc = "idle"
  /\ \/ Missing(sel_indices) /\ sel_indices # {} /\ Ruin("row")
     \/ /\ ~Missing(sel_indices) \/ sel_indices = {}
        /\ LET marked == {filter[n] : n \in sel_indices}
           IN /\ mark' = [x \in Ids |-> IF x \in marked THEN "done" ELSE mark[x]]
              /\ deleted' = deleted \cup marked
        /\ \E k \in DOMAIN trash :
             /\ trash' = RemoveAt(trash, k)
             /\ \E good \in {TRUE, "trash" \notin Failures} :
                  ok' = IF good /\ trash[k].gen = diff THEN ok \cup trash[k].ids ELSE ok
        /\ posts' = Append(posts, "deleted")
        /\ UNCHANGED <<taskVars, scanVars, diffVars, listVars, syncVars, childVars, sel_indices, flagVars,
                       runVars, gui, gone, askVars, bad>>

-----------------------------------------------------------------------------
(* The window: wmain_action() and what the worker posts to it. *)

PressScan ==
  /\ gui = "idle" /\ asks < MaxAsks
  /\ \E f \in {"cmp", "dups"} : gui' = f /\ result' = f
  /\ scan_state' = 0 /\ asks' = asks + 1
  /\ UNCHANGED <<taskVars, lsnap, rsnap, diffVars, listVars, syncVars, childVars, delVars, doneVars,
                 flagVars, runVars, posts, gone, bad>>
PostScan ==
  /\ gui \in {"cmp", "dups"}
  /\ Post(gui) /\ gui' = "idle"
  /\ UNCHANGED <<scanVars, diffVars, listVars, syncVars, childVars, delVars, doneVars, flagVars, runVars,
                 posts, gone, askVars, bad>>

\* Some rows of the list; entry_at() does not test what redraw() does, and the worker may
\* be filling the list.
Selections == (SUBSET (1 .. rows)) \ {{}}
Gone(sel) == Missing(sel) \/ pc \in {"free", "show"}

\* Mutant: what is done may be chosen again.
Chosen_All(sel) == sel

\* sync_prepare()
Chosen(sel) == {n \in sel : mark[filter[n]] # "done"}

\* Mutant: a second batch is not refused.
InProgress_Not == FALSE
InProgress == sync_items # << >>

\* sync_begin()
PressSync ==
  /\ gui = "idle" /\ ~InProgress
  /\ \E sel \in Selections :
       \/ Gone(sel) /\ Ruin("row")
       \/ /\ ~Missing(sel) /\ pc # "free"
          /\ \E chosen \in Listed(Chosen(sel)), date \in BOOLEAN :
               /\ sync_items' = [n \in DOMAIN chosen |-> [gen |-> diff, id |-> filter[chosen[n]]]]
               /\ asked' = [n \in DOMAIN chosen |-> <<filter[chosen[n]], ents[filter[chosen[n]]]>>]
               /\ sync_item_i' = 1 /\ sync_date' = date /\ log' = << >> /\ sides' = {swap}
               /\ IF chosen # << >> THEN Post("sync") ELSE UNCHANGED taskVars
          /\ UNCHANGED <<scanVars, diffVars, listVars, nest, child, delVars, doneVars, swap, show_all,
                         runVars, winVars, askVars, bad>>

\* redraw() tests g->diff and then uses it.
Redrawn == gui' = IF diff = 0 THEN "idle" ELSE "redraw"

\* src_dst_swap()
PressSwap ==
  /\ gui = "idle"
  /\ Turn(~swap) /\ Redrawn
  /\ UNCHANGED <<taskVars, scanVars, diffVars, listVars, syncVars, childVars, delVars, doneVars, show_all,
                 runVars, posts, gone, askVars, bad>>

\* show_x(), or any other choice of what the list shows
PressView ==
  /\ gui = "idle"
  /\ show_all' = ~show_all /\ Redrawn
  /\ UNCHANGED <<taskVars, scanVars, diffVars, listVars, syncVars, childVars, delVars, doneVars, swap, sides,
                 runVars, posts, gone, askVars, bad>>

\* The window draws what may be gone, or what the worker is making: an entry is counted
\* before it is filled in, and both fill the list.
Redraw ==
  /\ gui = "redraw"
  /\ \/ (diff = 0 \/ pc \in {"free", "diffnext", "show"}) /\ Ruin("comparison")
     \/ /\ diff # 0 /\ pc # "free"
        /\ View(show_all) /\ gui' = "idle"
        /\ UNCHANGED <<taskVars, scanVars, diffVars, syncVars, childVars, delVars, doneVars, flagVars, runVars,
                       posts, gone, askVars, bad>>

\* selected_file_del(), of the source or of the target: what the side does not have is
\* passed over.
Has(x, side) ==
  CASE ents[x] \in {"LEFT", "RIGHT"} -> Acts(ents[x], swap) = side
    [] dups -> ents[x] = "EQ" \/ side = Acts("LEFT", swap)
    [] OTHER -> TRUE
PressDelete ==
  /\ gui = "idle" /\ asks < MaxAsks
  /\ \E sel \in Selections, side \in {"LEFT", "RIGHT"} :
       \/ Gone(sel) /\ Ruin("row")
       \/ /\ ~Missing(sel) /\ pc # "free"
          /\ sel_indices' = sel /\ asks' = asks + 1
          /\ trash' = Append(trash, [gen |-> diff, ids |-> {x \in {filter[n] : n \in sel} : Has(x, side)}])
          /\ UNCHANGED <<taskVars, scanVars, diffVars, listVars, syncVars, childVars, doneVars, flagVars,
                         runVars, winVars, result, bad>>

\* sync_done() or selected_files_deleted(), in the order they were posted
RunPost ==
  /\ posts # << >> /\ gui = "idle"
  /\ posts' = Tail(posts)
  /\ IF Head(posts) = "sync_done"
     THEN sync_items' = << >> /\ asked' = << >> /\ log' = << >> /\ sides' = {} /\ UNCHANGED sel_indices
     ELSE sel_indices' = {} /\ UNCHANGED <<sync_items, asked, log, sides>>
  /\ UNCHANGED <<taskVars, scanVars, diffVars, listVars, sync_item_i, sync_date, nest, child, trash, doneVars,
                 swap, show_all, runVars, gui, gone, askVars, bad>>

\* The window is closed: gsync_signal() frees g, whatever the worker is doing with it.
Quit ==
  /\ gui = "idle"
  /\ gone' = TRUE
  /\ bad' = IF linked \/ pc # "idle" \/ child # NoItem \/ trash # << >> THEN "gsync" ELSE bad
  /\ UNCHANGED <<taskVars, scanVars, diffVars, listVars, syncVars, childVars, delVars, doneVars, flagVars,
                 runVars, gui, posts, askVars>>

Worker ==
  \/ TakeTask \/ CallHandler
  \/ FreeDiff \/ ForgetDiff \/ ScanOpen \/ ScanNext \/ ScanLater
  \/ DiffBegin \/ CompareNext \/ WalkNext \/ WalkAstray \/ DiffLater \/ DiffEnds \/ ShowResult
  \/ SyncItem \/ SyncEnds \/ Unwind \/ ChildEnds \/ TrashEnds
User ==
  PressScan \/ PressSync \/ PressSwap \/ PressView \/ PressDelete \/ Quit
Goes == ~gone /\ bad = "none"
Next == Goes /\ (Worker \/ PostScan \/ Redraw \/ RunPost \/ User)

\* The worker's loop goes on, children end, and the window's thread runs what it is given.
\* A task that is posted is taken although children end again and again.
Fairness ==
  /\ WF_vars(Goes /\ Worker) /\ SF_vars(Goes /\ TakeTask) /\ SF_vars(Goes /\ ChildEnds)
  /\ WF_vars(Goes /\ PostScan) /\ WF_vars(Goes /\ Redraw) /\ SF_vars(Goes /\ RunPost)

Spec == Init /\ [][Next]_vars /\ Fairness

-----------------------------------------------------------------------------
(* Properties.  "clash" says that the task was posted while it had still a *)
(* function to be called (one of the two is lost, or one called twice):    *)
(* what a batch does is stated for those that this has not happened to.    *)

\* The types of the variables: the index of the item never leaves the batch, whatever is
\* pressed.
TypeOK ==
  /\ linked \in BOOLEAN /\ handler \in {"none", "cmp", "dups", "sync"}
  /\ scan_state \in 0 .. 4 /\ {lsnap, rsnap} \subseteq Nat \cup {None}
  /\ Len(ents) <= Len(Kinds) /\ rows \in 0 .. Len(Kinds) /\ {dup_cur, ce_prev} \subseteq 0 .. Len(Kinds)
  /\ mark \in [Ids -> {"none", "syncing", "late", "error", "done"}]
  /\ sync_item_i \in 1 .. Len(sync_items) + 1 \/ sync_items = << >>
  /\ pc \in {"idle", "call", "init", "free", "scan", "next", "diff", "diffnext", "show", "sync", "unwind"}
  /\ i \in 0 .. Slice

\* The item that the end of a command will be put down to is the one the command was
\* started for, although only its index is kept (sync_entry_complete__worker()), and the
\* worker is not in the batch at the same time.
ItemUnderWay ==
  ~clash /\ child # NoItem =>
    /\ sync_item_i <= Len(sync_items) /\ Item = child
    /\ pc # "sync" /\ ~(linked /\ handler = "sync") /\ "sync_done" \notin ToSet(posts)

\* What holds at every step of the window and of the worker, whatever is pressed.
GsyncInv == TypeOK /\ ItemUnderWay

\* What is done to the files is what the list has shown when the user asked for it: the
\* same entries, in the same order, each once, in the direction of then or one that the
\* user has switched to since; or nothing, for two files that turned out to be equal.
DoneAsShown ==
  ~clash =>
    /\ Len(log) <= Len(asked)
    /\ \A n \in DOMAIN log :
         /\ log[n][1] = asked[n][1]
         /\ log[n][2] = "EQ" \/ \E s \in sides : log[n][2] = Acts(asked[n][2], s)

\* When the end of a batch is announced every item was dealt with, also those after one
\* whose command could not be created, and no entry waits for a command.
BatchIsWhole ==
  ~clash /\ "sync_done" \in ToSet(posts) =>
    Len(log) = Len(asked) /\ child = NoItem /\ \A x \in Ids : mark[x] # "syncing"

\* Nothing that was started is forgotten: a batch is in one of the places that go on with
\* it (sync__worker(), its child, the announcement of its end), and so is a scan that has
\* come neither to a list nor to an error, however often they are put off.
BatchIsCarried ==
  \/ handler = "sync" /\ (linked \/ pc = "call")
  \/ pc = "sync" \/ child # NoItem \/ "sync_done" \in ToSet(posts)
ScanIsCarried ==
  \/ gui \in {"cmp", "dups"}
  \/ handler \in {"cmp", "dups"} /\ (linked \/ pc = "call")
  \/ pc \in {"init", "free", "scan", "next", "diff", "diffnext", "show"}
WorkGoesOn ==
  ~clash => (InProgress => BatchIsCarried) /\ (result \in {"cmp", "dups"} => ScanIsCarried)

\* A mark tells the truth: what is marked as done was synchronised, unless it was marked
\* at the end of a deletion or as the second of two equal files.
MarksAreTrue ==
  ~clash => \A x \in DOMAIN ents : mark[x] = "done" => x \in ok \cup deleted \/ ents[x] = "twin"

\* What was done is not done again as long as the comparison lives and is not made
\* again: nothing but the walk through the duplicates takes its mark away.
DoneOnce ==
  [][~clash' /\ pc \notin {"free", "diff", "diffnext"} =>
       \A x \in DOMAIN ents : mark[x] = "done" /\ x \notin deleted => mark'[x] = "done"]_vars

\* "Create snapshot from directory" (fcom.h:577): two trees are compared after both were
\* scanned to the end, or what was not scanned looks as if the other side alone had it.
ComparesWhole == ~partial

\* "sync already in progress" (gsync.cpp:529): a batch that makes the window refuse
\* another one is posted, or under way, or about to be announced as complete.
RefusedWhileInProgress == InProgress => BatchIsCarried

\* "wait for on_complete() to be called" (gsync.cpp:618): when the worker leaves the
\* batch, what is marked as in progress is what the command under way is for.
WaitsForCommand ==
  ~clash /\ pc = "idle" => \A x \in DOMAIN ents : mark[x] \in {"syncing", "late"} => child.id = x

\* "Moved %L files to Trash" (gsync.cpp:758): what the end of a deletion marks as done was
\* deleted.
DeletedIsGone == deleted \subseteq ok

\* "Set 'EQ' status for the duplicate files; set 'NEQ' otherwise." (sync-cmp.h:352): when
\* the walk through the files has ended every file has its status.
DuplicatesAreSet == dups /\ pc = "show" => \A x \in DOMAIN ents : ents[x] # "none"

\* "Scan for Possible Duplicates" (gsync.ui:14): a scan goes on as the one that was asked for.
ScanKeepsKind ==
  linked /\ gui = "idle" /\ {handler, result} \subseteq {"cmp", "dups"} => handler = result

\* Every batch comes to an end, unless the window is closed, the program has crashed or the
\* posted function was replaced: each child's end starts the next item, and the last one
\* lets the window empty the list of items.
Stopped == gone \/ bad # "none" \/ clash
BatchEnds == InProgress ~> ~InProgress \/ Stopped

\* Every scan comes to a list or to an error, with the same exceptions: its function posts
\* itself again until the work is done.
ScanEnds == result \in {"cmp", "dups"} ~> result \in {"list", "error"} \/ Stopped

\* Whatever the user has started comes to its end (sync__worker(), scan__worker()),
\* whatever else is pressed meanwhile.
WorkEnds == BatchEnds /\ ScanEnds
=============================================================================
