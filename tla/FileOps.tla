------------------------------- MODULE FileOps -------------------------------
(***************************************************************************)
(* "fcom md5" (with --update and --check), "fcom move" and "fcom trash":   *)
(* loops over their input that read, rename or remove one file after the   *)
(* other.                                                                  *)
(*                                                                         *)
(* A path is a sequence of names, a name a sequence of words: "a - b" is   *)
(* <<"a", "b">>.  What is on the disk is given by where everything is; the *)
(* input is walked as core->com->input_next() does: a directory is listed  *)
(* by its descriptor, the entries get the name it was opened by.           *)
(*                                                                         *)
(* An action is a state of one of the loops; "stop" is tested at the       *)
(* loop's top.  Left out: short writes of the list of hashes, and the way  *)
(* a number of the list is written.                                        *)
(***************************************************************************)
EXTENDS Integers, SequencesExt, FiniteSetsExt

CONSTANT Commands  \* the command lines: [op, how, search, opt, nodes, tops, known, lists, fails]

Ops == {"md5", "update", "check", "move", "trash"}
Hows == {"move", "tree", "unbranch", "flat"}  \* the target of a move
Options == {"force", "skip", "test", "wipe", "rename"}
Kinds == {"file", "dir", "excluded", "broken"}  \* input_allowed() refuses it; read() fails
Failures == {"names", "scan", "open", "create", "write", "probe", "move", "wipe", "trash", "del", "signal"}

ASSUME FileOpsAssumption ==
  /\ \A c \in Commands :
       /\ c.op \in Ops /\ c.how \in Hows /\ c.search \in BOOLEAN
       /\ c.opt \subseteq Options /\ c.fails \subseteq Failures /\ c.tops # <<>>
       /\ \A n \in DOMAIN c.nodes : c.nodes[n].kind \in Kinds /\ c.nodes[n].size \in Nat
       /\ \A n, m \in DOMAIN c.nodes : n # m => c.nodes[n].path # c.nodes[m].path

VARIABLES
  cmd,
  where,   \* the path of every file and directory, or Trashed or Deleted
  todo,    \* what the walk has still to give: [path, base]
  given,   \* the entry it gave last
  isdir,   \* input_dir() was called for that entry: the directory, or 0
  st, stop, rc,
  out,     \* move: the target; md5: the lines that were written, as <<path, sum>>
  opened,  \* md5: "no", "yes", or "failed": m->opened, and what is open
  hashed,  \* md5: <<the chunks of the file that are read, what m->hash has got>>
  errs,    \* md5: err, or the sum of the numbers of errors
  place,   \* check: the lines of the list that are done; trash: the names
  wiped,   \* trash: the files that were overwritten
  counts   \* trash: <<n_trashed, n_deleted>>

walk == <<todo, given, isdir>>
loop == <<cmd, stop>>
hash == <<opened, hashed, errs>>
bin == <<wiped, counts>>
vars == <<loop, st, rc, where, walk, out, hash, place, bin>>

Trashed == <<>>
Deleted == <<<<>>>>
Chdir == <<"C">>            \* -C
Obfuscated == <<"0">>       \* "00000000.0000"
MayFail(f) == f \in cmd.fails
Is(ops) == cmd.op \in ops
Has(o) == o \in cmd.opt
Nodes == DOMAIN cmd.nodes
Kind(n) == cmd.nodes[n].kind
At(path) == {n \in Nodes : where[n] = path}
Top(path) == [path |-> path, base |-> <<>>]

Init ==
  /\ cmd \in Commands
  /\ where = [n \in DOMAIN cmd.nodes |-> cmd.nodes[n].path]
  /\ todo = [k \in DOMAIN cmd.tops |-> Top(cmd.tops[k])] /\ given = Top(<<>>) /\ isdir = 0
  /\ st = "in" /\ stop = FALSE /\ rc = 1
  /\ out = <<>> /\ opened = "no" /\ hashed = <<0, <<>>>> /\ errs = 0 /\ place = 0
  /\ wiped = {} /\ counts = <<0, 0>>

Is_(s) == st = s /\ ~stop
Goto(s) == st' = s /\ UNCHANGED <<loop, rc>>
GoEnd(code) == st' = "end" /\ rc' = code /\ UNCHANGED loop

-----------------------------------------------------------------------------
(***************************************************************************)
(* cmd_input_next()                                                        *)
(***************************************************************************)
\* The entries of directory d as it is now, under the name it was opened by.
Children(d) == {n \in Nodes : where[n] # <<>> /\ Front(where[n]) = where[d]}
Listed(order) ==
  [k \in DOMAIN order |->
     [path |-> Append(given.path, Last(where[order[k]])),
      base |-> IF given.base = <<>> THEN given.path ELSE given.base]]
Attached == IF isdir = 0 THEN {todo} ELSE {Listed(s) \o todo : s \in SetToSeqs(Children(isdir))}

NextEntry ==
  \E list \in Attached :
    /\ list # <<>> /\ given' = Head(list) /\ todo' = Tail(list)
NoMore == <<>> \in Attached /\ isdir' = 0 /\ UNCHANGED <<todo, given>>
\* The file with the names cannot be read, again and again; ffdirscan_open() fails.
InputFails ==
  /\ IF isdir = 0 THEN MayFail("names") /\ given = Top(<<>>) ELSE MayFail("scan")
  /\ isdir' = 0 /\ UNCHANGED <<todo, given>>

\* open() and info() of the entry that is given, and whether it is passed over.
Opens(n) == At(given'.path) = {n}
CannotOpen == At(given'.path) = {} \/ MayFail("open")
ListsDir(n) == isdir' = IF Kind(n) = "dir" THEN n ELSE 0

-----------------------------------------------------------------------------
(***************************************************************************)
(* move                                                                    *)
(***************************************************************************)
Replaced(name) == [k \in DOMAIN name |-> IF name[k] = "old" THEN "new" ELSE name[k]]
\* name_tree(), name_move(), name_unbranch(), name_unbranch_flat(), replace()
Target(e) ==
  LET above == IF e.base = <<>> THEN <<>> ELSE Front(e.base)
      path == CASE cmd.how = "tree" -> <<Chdir>> \o e.path
                [] cmd.how = "unbranch" -> Append(above, FlattenSeq(SubSeq(e.path, Len(above) + 1, Len(e.path))))
                [] cmd.how = "flat" -> Append(above, Last(e.path))
                [] cmd.how = "move" /\ cmd.search -> e.path
                [] OTHER -> <<Chdir, Last(e.path)>>
  IN IF cmd.search /\ cmd.how # "tree" THEN Append(Front(path), Replaced(Last(path))) ELSE path
\* With neither --unbranch nor --search the input is not opened.
Walks == cmd.how # "tree" /\ (cmd.how # "move" \/ cmd.search)
InPlace == cmd.how = "move" /\ cmd.search

\* move_input_next()
MoveNext ==
  /\ Is({"move"}) /\ Is_("in")
  /\ \/ /\ NextEntry /\ ~Walks /\ isdir' = 0
        /\ out' = Target(given') /\ Goto("move")
     \/ /\ NextEntry /\ Walks
        /\ \/ \E n \in Nodes :
                /\ Opens(n)
                /\ \/ Kind(n) = "excluded" /\ isdir' = 0 /\ Goto("in") /\ UNCHANGED out
                   \/ /\ Kind(n) # "excluded" /\ ListsDir(n)
                      /\ IF Kind(n) = "dir" /\ ~InPlace THEN Goto("in") /\ UNCHANGED out
                                                        ELSE out' = Target(given') /\ Goto("move")
           \/ CannotOpen /\ isdir' = 0 /\ GoEnd(1) /\ UNCHANGED out
     \/ NoMore /\ GoEnd(0) /\ UNCHANGED out
     \/ InputFails /\ GoEnd(1) /\ UNCHANGED out
  /\ UNCHANGED <<where, hash, place, bin>>

\* file_move() of what is at path "from": with it goes what is below it.
Below(path) == {n \in Nodes : IsPrefix(path, where[n])}
Relocated(from, to) ==
  [n \in Nodes |-> IF n \in Below(from) THEN to \o SubSeq(where[n], Len(from) + 1, Len(where[n])) ELSE where[n]]
Blocked(to) == \E n \in Nodes : Kind(n) # "dir" /\ IsStrictPrefix(where[n], to)
\* rename() replaces a file at the target; mutant: without FCOM_FILE_MOVE_SAFE.
Renamed_Over(from, to) ==
  /\ At(from) # {} /\ ~Blocked(to) /\ ~IsPrefix(from, to)
  /\ \A n \in At(from) \cup At(to) : Kind(n) # "dir"
  /\ where' = [n \in Nodes |-> IF n \in At(to) THEN Deleted ELSE Relocated(from, to)[n]]

\* FCOM_FILE_MOVE_SAFE: what is at the target must not open.
Renamed(from, to) ==
  /\ At(from) # {} /\ ~Blocked(to) /\ ~IsPrefix(from, to)
  /\ \/ At(to) = {} /\ where' = Relocated(from, to)
     \/ MayFail("probe") /\ Renamed_Over(from, to)
CannotRename(from, to) ==
  At(from) = {} \/ At(to) # {} \/ Blocked(to) \/ IsPrefix(from, to) \/ MayFail("move")

\* Mutant: a move that fails is tried again.
MoveFailed_Retries == IF Has("skip") THEN Goto("in") ELSE Goto("move")

MoveFailed == IF Has("skip") THEN Goto("in") ELSE GoEnd(1)

\* move_process()
MoveFile ==
  /\ Is({"move"}) /\ st = "move"
  /\ LET from == given.path
     IN \/ (from = out \/ Has("test")) /\ Goto("in") /\ UNCHANGED where
        \/ from # out /\ ~Has("test")
           /\ \/ Renamed(from, out) /\ Goto("in")
              \/ /\ CannotRename(from, out) /\ UNCHANGED where
                 /\ MoveFailed
  /\ UNCHANGED <<walk, out, hash, place, bin>>

-----------------------------------------------------------------------------
(***************************************************************************)
(* trash                                                                   *)
(***************************************************************************)
OneByOne == cmd.opt \cap {"wipe", "rename"} # {}

\* The input is collected first (t->names is cmd.tops, nothing is opened).
TrashNext ==
  /\ Is({"trash"}) /\ Is_("in")
  /\ \/ NextEntry /\ isdir' = 0 /\ Goto("in")
     \/ NoMore /\ Goto(IF OneByOne THEN "each" ELSE "all")
     \/ InputFails /\ GoEnd(1)
  /\ UNCHANGED <<where, out, hash, place, bin>>

Removed(set, to) == [n \in Nodes |-> IF n \in set THEN to ELSE where[n]]
Name == cmd.tops[place + 1]
Trashes == MayFail("trash") \/ At(Name) = {}
OneMore == place' = place + 1
Again == IF place + 1 = Len(cmd.tops) THEN "counted" ELSE st

\* f_trash() of all names; it goes on after an error, and tests no "stop".
TrashAll ==
  /\ Is({"trash"}) /\ st = "all" /\ (stop => place > 0)
  /\ OneMore /\ st' = Again /\ UNCHANGED <<loop, rc>>
  /\ \/ At(Name) # {} /\ where' = Removed(Below(Name), Trashed) /\ UNCHANGED errs
     \/ Trashes /\ errs' = 1 /\ UNCHANGED where
  /\ UNCHANGED <<walk, out, opened, hashed, bin>>

\* f_del() of all names: del() removes no directory.
DelAll ==
  /\ Is({"trash"}) /\ st = "del"
  /\ OneMore /\ UNCHANGED <<loop, rc>> /\ st' = (IF place + 1 = Len(cmd.tops) THEN "deleted" ELSE "del")
  /\ \/ \E n \in At(Name) : Kind(n) # "dir" /\ where' = Removed({n}, Deleted)
                            /\ counts' = <<counts[1], counts[2] + 1>>
     \/ /\ MayFail("del") \/ At(Name) = {} \/ \E n \in At(Name) : Kind(n) = "dir"
        /\ UNCHANGED <<where, counts>>
  /\ UNCHANGED <<walk, out, hash, wiped>>

\* Mutant: an error of f_trash() is not looked at.
AllTrashed_Always == TRUE

AllTrashed == errs = 0
MayDelete == Has("force") /\ ~Has("test")

\* trash_all() after f_trash(), and after f_del().
AllCounted ==
  /\ Is({"trash"}) /\ st = "counted"
  /\ \/ AllTrashed /\ counts' = <<Len(cmd.tops), counts[2]>> /\ Goto("done") /\ UNCHANGED place
     \/ ~AllTrashed /\ MayDelete /\ place' = 0 /\ Goto("del") /\ UNCHANGED counts
     \/ ~AllTrashed /\ ~MayDelete /\ GoEnd(1) /\ UNCHANGED <<counts, place>>
  /\ UNCHANGED <<where, walk, out, hash, wiped>>
AllDeleted ==
  /\ Is({"trash"}) /\ st = "deleted"
  /\ IF counts[2] = 0 THEN GoEnd(1) ELSE Goto("done")
  /\ UNCHANGED <<where, walk, out, hash, place, bin>>

\* trash_process(), one file: f_wipe(), the new name, f_trash(), del().
NewName == IF Has("rename") THEN Append(Front(Name), Obfuscated) ELSE Name
EachFails(n) ==
  \/ Has("wipe") /\ (Kind(n) = "dir" \/ MayFail("wipe"))
  \/ Has("rename") /\ CannotRename(Name, NewName)
EachGoesOn(n) ==
  /\ Has("wipe") => Kind(n) # "dir"
  /\ Has("rename") => At(NewName) = {} /\ ~Blocked(NewName)
\* "stop" is tested at the loop's top, and before each write of --wipe.
Interruptible ==
  CASE st \in {"move", "counted", "del", "deleted"} -> FALSE
    [] st = "all" -> place = 0
    [] st = "each" -> place = 0 \/ (Has("wipe") /\ \E n \in At(Name) : cmd.nodes[n].size > 0)
    [] OTHER -> TRUE
TrashEach ==
  /\ Is({"trash"}) /\ st = "each" /\ (stop => ~Interruptible)
  /\ \/ At(Name) = {} /\ GoEnd(1) /\ UNCHANGED <<where, place, bin>>
     \/ \E n \in At(Name) :
          /\ wiped' = (IF Has("wipe") /\ Kind(n) # "dir" THEN wiped \cup {n} ELSE wiped)
          /\ \/ EachFails(n) /\ GoEnd(1) /\ UNCHANGED <<where, counts, place>>
             \/ /\ EachGoesOn(n) /\ OneMore /\ UNCHANGED <<loop, rc>>
                /\ st' = (IF place + 1 = Len(cmd.tops) THEN "done" ELSE "each")
                /\ \/ where' = Removed(Below(Name), Trashed) /\ counts' = <<counts[1] + 1, counts[2]>>
                   \/ MayFail("trash") /\ MayDelete /\ Kind(n) # "dir"
                      /\ where' = Removed({n}, Deleted) /\ counts' = <<counts[1], counts[2] + 1>>
                   \/ MayFail("trash") /\ (~MayDelete \/ Kind(n) = "dir" \/ MayFail("del"))
                      /\ where' = Relocated(Name, NewName) /\ UNCHANGED counts
  /\ UNCHANGED <<walk, out, hash>>

\* trash_done(); what was skipped is only printed.
TrashDone ==
  /\ Is({"trash"}) /\ Is_("done")
  /\ GoEnd(0) /\ UNCHANGED <<where, walk, out, hash, place, bin>>

-----------------------------------------------------------------------------
(***************************************************************************)
(* md5, md5 --update                                                       *)
(***************************************************************************)
\* The hash of some chunks is the sequence of the files they are from.
Whole(n) == [k \in 1 .. cmd.nodes[n].size |-> n]
Line(path, sum) == out' = Append(out, <<path, sum>>)

\* Mutant: the hash goes on with what it has got.
FreshHash_Not == hashed' = <<0, hashed[2]>>

\* fcom_md5.create()
FreshHash == hashed' = <<0, <<>>>>

Update(n) == hashed' = <<hashed[1] + 1, Append(hashed[2], n)>>

\* m->opened is set before the output is opened, and nobody tries again.
OpensOutput == IF opened # "no" THEN UNCHANGED opened
               ELSE opened' = "yes" \/ (MayFail("create") /\ opened' = "failed")
IsKnown(path) == Is({"update"}) /\ path \in DOMAIN cmd.known

\* md5_open() of a file.
HashFile(path) ==
  /\ OpensOutput
  /\ \/ opened = "no" /\ opened' = "failed" /\ errs' = 1 /\ Goto("in") /\ UNCHANGED <<out, hashed>>
     \/ /\ ~(opened = "no" /\ opened' = "failed") /\ IsKnown(path)
        /\ \/ opened' = "yes" /\ Line(path, cmd.known[path]) /\ UNCHANGED errs
           \/ (opened' = "failed" \/ MayFail("write")) /\ errs' = 1 /\ UNCHANGED out
        /\ Goto("in") /\ UNCHANGED hashed
     \/ /\ ~(opened = "no" /\ opened' = "failed") /\ ~IsKnown(path)
        /\ FreshHash /\ Goto("read") /\ UNCHANGED <<out, errs>>

\* md5_open(): an error is noted, and the walk goes on.
HashNext ==
  /\ Is({"md5", "update"}) /\ Is_("in")
  /\ \/ /\ NextEntry
        /\ \/ \E n \in Nodes :
                /\ Opens(n) /\ ListsDir(n)
                /\ IF Kind(n) \in {"excluded", "dir"} THEN Goto("in") /\ UNCHANGED <<out, hash>>
                                                      ELSE HashFile(given'.path)
           \/ CannotOpen /\ isdir' = 0 /\ errs' = 1 /\ Goto("in") /\ UNCHANGED <<out, opened, hashed>>
     \/ NoMore /\ GoEnd(errs) /\ UNCHANGED <<out, hash>>
     \/ InputFails /\ errs' = 1 /\ Goto("in") /\ UNCHANGED <<out, opened, hashed>>
  /\ UNCHANGED <<where, place, bin>>

\* md5_process(), md5_result().  md5_process() returns -1 after an error and the
\* loop knows only 'erro': the file stays where it is, and so does this state.
HashRead ==
  /\ Is({"md5", "update"}) /\ Is_("read")
  /\ \E n \in At(given.path) :
       /\ Kind(n) # "broken"
       /\ \/ hashed[1] < cmd.nodes[n].size /\ Update(n) /\ Goto("read") /\ UNCHANGED out
          \/ /\ hashed[1] = cmd.nodes[n].size /\ UNCHANGED hashed
             /\ \/ opened = "yes" /\ Line(given.path, hashed[2]) /\ Goto("in")
                \/ (opened = "failed" \/ MayFail("write")) /\ GoEnd(1) /\ UNCHANGED out
  /\ UNCHANGED <<where, walk, opened, errs, place, bin>>

-----------------------------------------------------------------------------
(***************************************************************************)
(* md5 --check.  cmd.lists has the lines of a list: Bad, Short or          *)
(* <<path, sum>>; a Short one is not as long as a sum.                     *)
(***************************************************************************)
Bad == <<>>
Short == <<"short">>
List == cmd.lists[given.path]
Entry == List[place]
\* errs is n_err_format + n_err_io + n_err_verify.
Counts(n) == errs' = errs + n

\* Mutant: a short line is taken off the data without a look at what is left.
AfterBad_Past(line) == IF line = Short THEN place + 2 ELSE place + 1

\* md5sum_read() looks for the end of the line where the name should begin:
\* with a Short line it takes the next one.
AfterBad(line) == IF line = Short /\ place + 1 < Len(List) THEN place + 2 ELSE place + 1

\* md5_chksum_file_read()
CheckList ==
  /\ Is({"check"}) /\ Is_("in")
  /\ \/ /\ NextEntry /\ isdir' = 0 /\ place' = 0
        /\ \/ given'.path \in DOMAIN cmd.lists /\ Goto("next") /\ UNCHANGED errs
           \/ (given'.path \notin DOMAIN cmd.lists \/ MayFail("open")) /\ Counts(1) /\ Goto("in")
     \/ NoMore /\ GoEnd(IF errs = 0 THEN 0 ELSE 1) /\ UNCHANGED <<errs, place>>
     \/ InputFails /\ GoEnd(1) /\ UNCHANGED <<errs, place>>
  /\ UNCHANGED <<where, out, opened, hashed, bin>>

\* md5_chksum_next(), md5_file_open()
CheckLine ==
  /\ Is({"check"}) /\ Is_("next")
  /\ \/ place = Len(List) /\ Goto("in") /\ UNCHANGED <<place, hashed, errs>>
     \/ /\ place < Len(List)
        /\ LET line == List[place + 1]
           IN IF line \in {Bad, Short}
              THEN /\ place' = AfterBad(line) /\ Counts(1) /\ Goto("next") /\ UNCHANGED hashed
              ELSE /\ place' = place + 1
                   /\ \/ At(line[1]) # {} /\ FreshHash /\ Goto("read") /\ UNCHANGED errs
                      \/ (At(line[1]) = {} \/ MayFail("open")) /\ Counts(1) /\ Goto("next") /\ UNCHANGED hashed
  /\ UNCHANGED <<where, walk, out, opened, bin>>

\* Mutant: a wrong sum is only printed.
Differs_Printed(sum) == FALSE

\* md5_file_verify()
Differs(sum) == sum # Entry[2]

\* md5_file_process(): a directory opens, but it cannot be read.
CheckRead ==
  /\ Is({"check"}) /\ Is_("read")
  /\ \E n \in At(Entry[1]) :
       \/ Kind(n) \in {"broken", "dir"} /\ Counts(1) /\ Goto("next") /\ UNCHANGED hashed
       \/ /\ Kind(n) \notin {"broken", "dir"} /\ hashed[1] < cmd.nodes[n].size
          /\ Update(n) /\ Goto("read") /\ UNCHANGED errs
       \/ /\ Kind(n) \notin {"broken", "dir"} /\ hashed[1] = cmd.nodes[n].size
          /\ Counts(IF Differs(hashed[2]) THEN 1 ELSE 0) /\ Goto("next") /\ UNCHANGED hashed
  /\ UNCHANGED <<where, walk, out, opened, place, bin>>

-----------------------------------------------------------------------------
\* "while (!FFINT_READONCE(stop))": rc is 1 from the start.
Stop ==
  /\ stop /\ st # "end" /\ Interruptible
  /\ GoEnd(1) /\ UNCHANGED <<where, walk, out, hash, place, bin>>

\* Ctrl+C, while the operation is there.
Signal ==
  /\ MayFail("signal") /\ ~stop /\ st # "end"
  /\ stop' = TRUE /\ UNCHANGED <<cmd, st, rc, where, walk, out, hash, place, bin>>

MoveRun == MoveNext \/ MoveFile
TrashRun == TrashNext \/ TrashAll \/ AllCounted \/ DelAll \/ AllDeleted \/ TrashEach \/ TrashDone
Md5Run == HashNext \/ HashRead \/ CheckList \/ CheckLine \/ CheckRead
Step == MoveRun \/ TrashRun \/ Md5Run \/ Stop
Next == Step \/ Signal

Spec == Init /\ [][Next]_vars
\* The thread that runs the operation goes on; nobody has to send a signal.
FairSpec == Spec /\ WF_vars(Step)

-----------------------------------------------------------------------------
Names == ToSet(cmd.tops)
\* What the input names, itself or with a directory above it.
Inside(n) == \E t \in Names : IsPrefix(t, cmd.nodes[n].path)
\* The walk gets to it: no directory above it is excluded.
Reached(n) ==
  Inside(n) /\ \A d \in Nodes : Kind(d) = "excluded" => ~IsPrefix(cmd.nodes[d].path, cmd.nodes[n].path)
EntryOf(n) ==
  LET t == CHOOSE t \in Names : IsPrefix(t, cmd.nodes[n].path)
  IN [path |-> cmd.nodes[n].path, base |-> IF t = cmd.nodes[n].path THEN <<>> ELSE t]
Gone == {t \in Names : \A n \in Nodes : cmd.nodes[n].path = t => where[n] \in {Trashed, Deleted}}

MayReplace == Is({"move"}) /\ MayFail("probe")

\* The states of the loops; not more files are counted than were given, and a
\* line of a list is looked at after it was read (md5_run(), trash_run()).
TypeOK ==
  /\ cmd \in Commands /\ stop \in BOOLEAN /\ rc \in {0, 1}
  /\ st \in {"in", "move", "all", "counted", "del", "deleted", "each", "done", "read", "next", "end"}
  /\ opened \in {"no", "yes", "failed"} /\ errs \in Nat /\ place \in Nat
  /\ wiped \subseteq Nodes /\ isdir \in Nodes \cup {0}
  /\ counts[1] + counts[2] <= Len(cmd.tops)
  /\ Is({"check"}) /\ st \in {"next", "read"} => place <= Len(List)

\* What the input does not name stays where and as it is; only "trash" removes
\* anything, and it deletes from the disk only with -f; no two files get the
\* same path, so a move never replaces a file, if FCOM_FILE_MOVE_SAFE can open
\* what is at the target (file_move(), f_del()).
NothingIsLost ==
  /\ \A n \in Nodes :
       /\ ~Inside(n) /\ ~MayReplace => where[n] = cmd.nodes[n].path /\ n \notin wiped
       /\ where[n] = Trashed => Is({"trash"})
       /\ where[n] = Deleted => (Is({"trash"}) /\ MayDelete) \/ MayReplace
  /\ \A n, m \in Nodes : n # m /\ where[n] = where[m] => where[n] \in {Trashed, Deleted}

\* Exit code 0: a hash for every file the walk gets to; every line of every list
\* checked, and right; every file at the place its name gives, unless errors are
\* skipped or nothing is written; of what was to go to trash, as much is gone as
\* the summary says, everything without -f, --wipe and --rename (md5_run(),
\* move_run(), trash_run()).
SuccessIsDone ==
  st = "end" /\ rc = 0 =>
    CASE Is({"md5", "update"}) ->
           \A n \in Nodes : Kind(n) = "file" /\ Reached(n) => \E k \in DOMAIN out : out[k][1] = cmd.nodes[n].path
      [] Is({"check"}) ->
           \A t \in Names : t \in DOMAIN cmd.lists /\ \A k \in DOMAIN cmd.lists[t] :
             LET line == cmd.lists[t][k]
             IN line \notin {Bad, Short} /\ \E n \in At(line[1]) : Kind(n) = "file" /\ line[2] = Whole(n)
      [] Is({"move"}) ->
           Has("skip") \/ Has("test") \/ \A n \in Nodes :
             (IF Walks THEN Reached(n) /\ (Kind(n) = "file" \/ (Kind(n) = "dir" /\ InPlace))
                       ELSE cmd.nodes[n].path \in Names)
             => where[n] = Target(EntryOf(n))
      [] OTHER ->
           LET n == counts[1] + counts[2]
           IN IF OneByOne THEN n = Cardinality(Gone)
              ELSE n \in 1 .. Cardinality(Gone) /\ (MayDelete \/ Gone = Names)

\* Every line that is written has the hash of the whole of its file and of
\* nothing else, or the one the list of --update has (md5_result(), md5_open()).
LinesAreTrue ==
  \A k \in DOMAIN out : Is({"md5", "update"}) =>
    LET path == out[k][1]
    IN IF IsKnown(path) THEN out[k][2] = cmd.known[path]
       ELSE \E n \in At(path) : out[k][2] = Whole(n)

\* What holds in every state of the loops, whatever their result: the parts above.
FileOpsInv == TypeOK /\ NothingIsLost /\ LinesAreTrue

\* "Test mode: don't actually write anything" (help.txt:79).  Does not hold:
\* trash looks at the option only before it deletes (trash_all()).
TestChangesNothing == Has("test") => \A n \in Nodes : where[n] = cmd.nodes[n].path /\ n \notin wiped

\* FCOM_FILE_MOVE_SAFE: a move never replaces a file.  Does not hold: one that
\* cannot be opened for reading is taken for none (file_move()).
ReplacesNothing == Is({"move"}) => \A n \in Nodes : where[n] # Deleted

\* The operation comes to its end (md5_run(), move_run(), trash_run()).
Ends == <>(st = "end")
=============================================================================
