-------------------------------- MODULE Sync --------------------------------
(***************************************************************************)
(* "fcom sync": sync_run() of fs/sync.cpp with fs/sync-scan.h and          *)
(* fs/sync-fsync.h.  The source and the target are scanned, compared       *)
(* (SyncDiff), the difference is shown, and then it is worked off entry by *)
(* entry: --add and --update run "copy" as a child, --delete runs "trash", *)
(* --move renames within the target.                                       *)
(*                                                                         *)
(* A child is one step here that ends well or badly: Com has the life of   *)
(* children, Copy what a copy leaves behind.  Snapshot files, --zip-expand *)
(* and --replace-date are left out, and nobody else changes the two trees. *)
(*                                                                         *)
(* MOVE_NO_NAME and MOVE_CHK_CONTENT have no option of "fcom sync": a      *)
(* command line with one of them and "compare" is the scan of "gsync".     *)
(***************************************************************************)
EXTENDS SyncDiff

CONSTANTS
  SourceTrees, TargetTrees,  \* what the two directories may contain
  Commands,                  \* command lines: sets of options
  Failures                   \* what may go wrong, a subset of FailureKinds

CommandOptions ==
  DiffOptions \cup {"compare", "add", "delete", "update", "move", "force"}
FailureKinds == {"scan", "copy", "trash", "signal"}

ASSUME SyncAssumption ==
  /\ \A t \in SourceTrees \cup TargetTrees :
       IsTree(t) /\ DOMAIN t \subseteq ToSet(Walk) /\ \A p \in DOMAIN t : IsNode(t[p])
  /\ Commands \subseteq SUBSET CommandOptions
  /\ Failures \subseteq FailureKinds

VARIABLES
  cmd,        \* the options of the command
  src, dst,   \* the two directories
  st,         \* s->st; "copy" and "trash" while a child runs
  idx,        \* s->sc.cmp_idx, counted from 1
  done,       \* s->sc.stats
  rc,         \* the exit code
  blind       \* history: a scan has missed something

vars == <<diffVars, cmd, src, dst, st, idx, done, rc, blind>>

Working == {"left", "right", "diff", "show", "sync"}
Waiting == {"copy", "trash"}

Init ==
  /\ cmd \in Commands
  /\ src \in SourceTrees /\ dst \in TargetTrees
  /\ left = NoTree /\ right = NoTree /\ options = {}
  /\ walk = {} /\ ents = << >> /\ moved = << >> /\ stats = NoStats
  /\ lname = NoPath /\ rname = NoPath
  /\ st = "left" /\ idx = 1
  /\ done = [s \in {"LEFT", "NEQ", "RIGHT"} |-> 0]
  /\ rc = 1 /\ blind = FALSE

-----------------------------------------------------------------------------
(* Scanning: scan_next() and add_dir(). *)

Below(t, p) == {q \in DOMAIN t : Within(p, q) /\ q # p}
Restricted(t, S) == [p \in S |-> t[p]]

\* A directory that cannot be read has no children, the root included; an entry whose
\* attributes cannot be read is an empty file of no date.  The scan goes on.
Unreadable(t, p) == Restricted(t, DOMAIN t \ Below(t, p))
Unknown(t, p) ==
  [Unreadable(t, p) EXCEPT ![p] = [dir |-> FALSE, size |-> 0, mtime |-> 0, attr |-> 0, data |-> "unknown"]]
Misread(t) ==
  {NoTree} \cup {Unknown(t, p) : p \in DOMAIN t} \cup {Unreadable(t, p) : p \in {q \in DOMAIN t : t[q].dir}}
\* (At most one of the two scans goes wrong.)
Scanned(t) == {t} \cup (IF "scan" \in Failures /\ ~blind THEN Misread(t) ELSE {})

ScanLeft ==
  /\ st = "left"
  /\ \E t \in Scanned(src) : left' = t /\ blind' = (t # src)
  /\ st' = "right"
  /\ UNCHANGED <<right, options, walk, ents, moved, stats, lname, rname, cmd, src, dst, idx, done, rc>>

ScanRight ==
  /\ st = "right"
  /\ \E t \in Scanned(dst) :
       /\ DiffBegin(left, t, cmd \cap DiffOptions)
       /\ blind' = (blind \/ t # dst)
  /\ st' = "diff"
  /\ UNCHANGED <<cmd, src, dst, idx, done, rc>>

Diff ==
  /\ st = "diff"
  /\ IF walk # {}
     THEN DiffNext /\ UNCHANGED st
     ELSE st' = "show" /\ UNCHANGED diffVars
  /\ UNCHANGED <<cmd, src, dst, idx, done, rc, blind>>

\* "compare": --diff ends here.
Show ==
  /\ st = "show"
  /\ IF "compare" \in cmd THEN st' = "over" /\ rc' = 0 ELSE st' = "sync" /\ UNCHANGED rc
  /\ UNCHANGED <<diffVars, cmd, src, dst, idx, done, blind>>

-----------------------------------------------------------------------------
(* The files. *)

Put(t, p, n) == [q \in DOMAIN t \cup {p} |-> IF q = p THEN n ELSE t[q]]

\* ffdir_make_path(): the missing parents of p are made.
Blocked(t, p) == \E d \in Parents(p) \cap DOMAIN t : ~t[d].dir
NewDir == [dir |-> TRUE, size |-> 0, mtime |-> 0, attr |-> 0, data |-> "dir"]
WithParents(t, p) ==
  [q \in DOMAIN t \cup Parents(p) |-> IF q \in DOMAIN t THEN t[q] ELSE NewDir]
Without(t, p) == Restricted(t, {q \in DOMAIN t : ~Within(p, q)})

\* rename() of a file, or of a directory with all that is in it.
Renamed(t, old, new) ==
  LET Old(q) == old \o SubSeq(q, Len(new) + 1, Len(q))
      new_paths == {new \o SubSeq(q, Len(old) + 1, Len(q)) : q \in {x \in DOMAIN t : Within(old, x)}}
      kept == DOMAIN t \ {q \in DOMAIN t : Within(old, q)}
  IN [q \in kept \cup new_paths |-> IF q \in new_paths THEN t[Old(q)] ELSE t[q]]

\* Mutant: without FCOM_FILE_MOVE_SAFE.
Moved_Over(t, old, new) ==
  LET u == WithParents(t, new)
  IN IF Blocked(t, new) THEN t ELSE IF old \in DOMAIN t THEN Renamed(u, old, new) ELSE u

\* file_move() with FCOM_FILE_MOVE_SAFE.
Moved(t, old, new) ==
  LET u == WithParents(t, new)
  IN IF new \in DOMAIN t \/ Blocked(t, new) THEN t
     ELSE IF old \in DOMAIN t THEN Renamed(u, old, new)
     ELSE u

\* What a copy of p makes of the target: a directory may be there already, under
\* whatever type; a file only with "overwrite".
CanCopy(p, overwrite) ==
  IF src[p].dir THEN p \in DOMAIN dst \/ ~Blocked(dst, p)
  ELSE /\ ~Blocked(dst, p)
       /\ p \in DOMAIN dst => overwrite /\ ~dst[p].dir
Copied(p) ==
  IF src[p].dir /\ p \in DOMAIN dst THEN dst
  ELSE Put(WithParents(dst, p), p, IF src[p].dir THEN NewDir ELSE src[p])

-----------------------------------------------------------------------------
(* sync1() *)

Current == ents[idx]
\* The option that asks for what a status calls for.
Asked ==
  [LEFT |-> "add", RIGHT |-> "delete", NEQ |-> "update", MOVE |-> "move", EQ |-> "nothing"]

InSync == st = "sync"

Finish ==
  /\ InSync /\ idx > Len(ents)
  /\ st' = "over" /\ rc' = 0
  /\ UNCHANGED <<diffVars, cmd, src, dst, idx, done, blind>>

\* What is equal, or not asked for, is passed over.
PassOver ==
  /\ InSync /\ idx <= Len(ents)
  /\ Asked[Current.status] \notin cmd
  /\ idx' = idx + 1
  /\ UNCHANGED <<diffVars, cmd, src, dst, st, done, rc, blind>>

\* sync_copy_async(), sync_trash_async()
StartChild ==
  /\ InSync /\ idx <= Len(ents)
  /\ Asked[Current.status] \in cmd
  /\ Current.status \in {"LEFT", "NEQ", "RIGHT"}
  /\ st' = IF Current.status = "RIGHT" THEN "trash" ELSE "copy"
  /\ UNCHANGED <<diffVars, cmd, src, dst, idx, done, rc, blind>>

\* sync_move(): its result is not looked at.  A double has one name only: without a
\* right one the rename fails, after the parents of the left one were made; without a
\* left one sync_move() follows the null pointer ce->lb.
MoveFile ==
  /\ InSync /\ idx <= Len(ents)
  /\ Current.status = "MOVE" /\ "move" \in cmd
  /\ IF Current.l = NoPath
     THEN st' = "crashed" /\ UNCHANGED <<dst, idx>>
     ELSE dst' = Moved(dst, Current.r, Current.l) /\ idx' = idx + 1 /\ UNCHANGED st
  /\ UNCHANGED <<diffVars, cmd, src, done, rc, blind>>

-----------------------------------------------------------------------------
(* The children and sync_on_op_complete(). *)

ChildDone ==
  /\ done' = [done EXCEPT ![Current.status] = @ + 1]
  /\ idx' = idx + 1
  /\ st' = "sync"
  /\ UNCHANGED rc

\* Mutant: the result of a child is not looked at.
ChildFailed_GoesOn ==
  /\ st' = "sync" /\ idx' = idx + 1
  /\ UNCHANGED <<done, rc>>

ChildFailed ==
  /\ st' = "over" /\ rc' = 1
  /\ UNCHANGED <<done, idx>>

Overwrite == "force" \in cmd \/ Current.status = "NEQ"

CopyEnds ==
  /\ st = "copy"
  /\ CanCopy(Current.l, Overwrite) /\ dst' = Copied(Current.l)
  /\ ChildDone
  /\ UNCHANGED <<diffVars, cmd, src, blind>>

\* What a failed copy leaves: the target as it was, new parents, an empty file that only
\* reserves the name, or no target where it had overwritten one.
Emptied(n) == [n EXCEPT !.size = 0, !.data = "none"]
CopyFails ==
  /\ st = "copy"
  /\ "copy" \in Failures \/ ~CanCopy(Current.l, Overwrite) \/ "signal" \in Failures
  /\ \/ UNCHANGED dst
     \/ ~Blocked(dst, Current.l) /\ dst' = WithParents(dst, Current.l)
     \/ /\ ~src[Current.l].dir /\ CanCopy(Current.l, Overwrite)
        /\ \/ dst' = Without(dst, Current.l)
           \/ dst' = Put(WithParents(dst, Current.l), Current.l, Emptied(src[Current.l]))
  /\ ChildFailed
  /\ UNCHANGED <<diffVars, cmd, src, blind>>

\* Into the trash with all that is in it; what cannot go there is deleted with "force"
\* if it is a file.
TrashEnds ==
  /\ st = "trash"
  /\ Current.r \in DOMAIN dst /\ dst' = Without(dst, Current.r)
  /\ ChildDone
  /\ UNCHANGED <<diffVars, cmd, src, blind>>

TrashFails ==
  /\ st = "trash"
  /\ "trash" \in Failures \/ Current.r \notin DOMAIN dst \/ "signal" \in Failures
  /\ ChildFailed
  /\ UNCHANGED <<diffVars, cmd, src, dst, blind>>

\* sync_signal() sets s->stop, which the loop tests before every state.  (The child that
\* runs gets the signal too: it fails, or has just ended.)
Signal ==
  /\ "signal" \in Failures
  /\ st \in Working
  /\ st' = "over" /\ rc' = 1
  /\ UNCHANGED <<diffVars, cmd, src, dst, idx, done, blind>>

Next ==
  \/ ScanLeft \/ ScanRight \/ Diff \/ Show
  \/ Finish \/ PassOver \/ StartChild \/ MoveFile
  \/ CopyEnds \/ CopyFails \/ TrashEnds \/ TrashFails
  \/ Signal

Spec == Init /\ [][Next]_vars

-----------------------------------------------------------------------------
(* Properties. *)

\* The types of the variables: what was scanned, and what the target becomes by all the
\* renames and removals, are trees, and no counter of the comparison is below 0.
TypeOK ==
  /\ IsTree(left) /\ IsTree(right) /\ IsTree(dst)
  /\ options \subseteq DiffOptions
  /\ \A i \in 1 .. Len(ents) :
       /\ ents[i].status \in Statuses
       /\ ents[i].flags \subseteq Details \cup {"SKIP"}
       /\ ents[i].l \in DOMAIN left \cup {NoPath} /\ ents[i].r \in DOMAIN right \cup {NoPath}
  /\ stats \in [Statuses \cup {"entries"} -> Nat]
  /\ st \in Working \cup Waiting \cup {"over", "crashed"}
  /\ st \in Waiting => idx \in 1 .. Len(ents)
  /\ rc \in {0, 1}

\* An exit code of 0 means that everything asked for was done: what only the source has
\* is in the target, what differs is as in the source, what only the target has is gone.
\* (Whether a file was moved is not looked at, and of a directory only that there is
\* something of its name.)
Arrived(p) == p \in DOMAIN dst /\ (~src[p].dir => dst[p] = src[p])
SuccessIsComplete ==
  st = "over" /\ rc = 0 /\ "compare" \notin cmd /\ ~blind =>
    \A d \in Entries :
      /\ d.status = "LEFT" /\ "add" \in cmd => Arrived(d.l)
      /\ d.status = "NEQ" /\ "update" \in cmd => Arrived(d.l)
      /\ d.status = "RIGHT" /\ "delete" \in cmd => d.r \notin DOMAIN dst

\* Whatever is moved or put into the trash, and in whatever order: a path that the source
\* has too keeps its file in the target.  Only a copy that may overwrite touches it.
SharedFilesStay ==
  [][~blind /\ (st # "copy" \/ cmd \cap {"update", "force"} = {}) =>
       \A p \in DOMAIN src \cap DOMAIN dst : p \in DOMAIN dst' /\ dst'[p] = dst[p]]_vars

\* "moved-double" (fcom.h:517): the second entry of a moved file only stands for the first
\* one, which has both names; a move that is carried out has both.
MoveHasBoth ==
  InSync /\ idx <= Len(ents) /\ Current.status = "MOVE" /\ "move" \in cmd =>
    Current.l \in DOMAIN left /\ Current.r \in DOMAIN right

\* At every step: trees stay trees, the list has every path once and the counters
\* agree with it.
SyncInv == TypeOK /\ NothingTwice
=============================================================================
