------------------------------- MODULE Archive -------------------------------
(***************************************************************************)
(* "fcom tar", "zip", "zip --each" and "iso": the loops around the format  *)
(* writers, and the archives they leave.                                   *)
(*                                                                         *)
(* The input is a forest of entries, walked as core->com->input_next()     *)
(* does: what is in a directory comes after it if the operation has called *)
(* input_dir() for it.  Entries are numbered as a walk into everything     *)
(* would meet them.  The format writers are outside the source; of one it  *)
(* remains which pieces of the archive it gives out, in which order and at *)
(* which offsets, and when it asks for what (lib).                         *)
(*                                                                         *)
(* An action is a state of the loop (see Codec for "stop" and ASYNC reads).*)
(* Left out: --test, --stdout, and an archive inside its own input.        *)
(***************************************************************************)
EXTENDS Output

CONSTANTS
  Commands   \* the command lines: [op, tree, tops, overwrite]

Ops == {"tar", "zip", "each", "iso"}
\* "gone": it does not exist; "excluded": input_allowed() refuses it;
\* "nameless": a directory such as ".", which the writer passes over (-2).
Kinds == {"file", "dir", "link", "gone", "excluded", "nameless"}
FailureKinds ==
  {"input", "open", "info", "readlink", "read", "create", "write", "flush", "short", "signal"}

\* The entries of s, and what is below them, are m .. n in this order; "last" is the
\* last entry below one, or the entry itself.
Chain(tree, s, m, n) ==
  /\ IF s = <<>> THEN m = n + 1 ELSE s[1] = m /\ tree[s[Len(s)]].last = n
  /\ \A k \in 1 .. Len(s) : s[k] \in m .. n
  /\ \A k \in 1 .. Len(s) - 1 : s[k + 1] = tree[s[k]].last + 1
  /\ \A j, k \in 1 .. Len(s) : j < k => tree[s[j]].last < s[k]
Forest(tree, tops) ==
  /\ Chain(tree, tops, 1, Len(tree))
  /\ \A e \in 1 .. Len(tree) :
       /\ tree[e].last \in e .. Len(tree) /\ Chain(tree, tree[e].sub, e + 1, tree[e].last)
       /\ \A d \in e .. tree[e].last : tree[d].last <= tree[e].last
       /\ \A k \in 1 .. Len(tops) : e < tops[k] => tree[e].last < tops[k]

ASSUME ArchiveAssumption ==
  /\ \A c \in Commands :
       /\ c.op \in Ops /\ c.overwrite \in BOOLEAN
       /\ c.tree \in Seq([kind : Kinds, size : Nat, sub : Seq(Nat), last : Nat])
       /\ c.tops \in Seq(Nat) /\ Forest(c.tree, c.tops)
  /\ Failures \subseteq FailureKinds

VARIABLES
  cmd,      \* the command
  st,       \* t->st
  todo,     \* the entries that the walk has still to give
  isdir,    \* input_dir() was called for the entry that was given last
  cur,      \* the entry in hand
  top,      \* how many entries of the command line were given
  off,      \* chunks of it that were read
  buf,      \* a chunk that was read and not yet processed, or 0
  lib,      \* the format writer: see LibInit
  piece,    \* what is being written
  woff,     \* z->woff
  list, at, \* iso: c->fnames, c->fnames_i
  nfile, complete,  \* zip --each: z->nfile, z->input_complete
  missing,  \* in_file_notfound
  name,     \* which archive t->oname is
  del,      \* del_on_close
  stop, rc

walk == <<todo, isdir, cur, top>>
reader == <<off, buf>>
writer == <<lib, piece, woff>>
many == <<list, at, nfile, complete>>
result == <<name, del>>
vars == <<cmd, st, walk, reader, writer, many, missing, result, stop, rc, outvars>>

Kind(e) == cmd.tree[e].kind
IsDir(e) == Kind(e) \in {"dir", "nameless"}
IsLink(e) == Kind(e) = "link"
Is(ops) == cmd.op \in ops
Zips == Is({"zip", "each"})
Archives == IF cmd.op = "each" THEN 1 .. Len(cmd.tops) ELSE {1}

\* What has been added and is not finished, whether it is finished, where its
\* header is, where the archive ends, and how far the end of the archive is.
LibInit == [member |-> 0, fin |-> FALSE, fixed |-> FALSE, head |-> FALSE, hdr |-> 0, end |-> 0,
            ending |-> FALSE, ended |-> FALSE]

Init ==
  /\ cmd \in Commands
  /\ OutputInit(Archives)
  /\ st = (IF cmd.op = "each" THEN "in" ELSE "outopen")
  /\ todo = cmd.tops /\ isdir = FALSE /\ cur = 0 /\ top = 0 /\ off = 0 /\ buf = 0
  /\ lib = LibInit /\ piece = Nothing /\ woff = -1
  /\ list = <<>> /\ at = 0 /\ nfile = 0 /\ complete = FALSE
  /\ missing = FALSE /\ name = 0 /\ del = FALSE /\ stop = FALSE /\ rc = 0

At(s) == st = s /\ ~stop
Goto(s) == st' = s /\ UNCHANGED <<cmd, stop, rc>>
GoEnd(code) == st' = "end" /\ rc' = code /\ UNCHANGED <<cmd, stop>>

-----------------------------------------------------------------------------
(***************************************************************************)
(* Walking the input                                                       *)
(***************************************************************************)
\* cmd_input_next(): the directory of before is read and attached first.
Attached == IF isdir THEN cmd.tree[cur].sub \o todo ELSE todo
IsTop(e) == e \in ToSet(cmd.tops)

\* The next entry is given; "then" says what comes of it.
Given(then) ==
  /\ Attached # <<>>
  /\ cur' = Head(Attached) /\ todo' = Tail(Attached) /\ isdir' = FALSE
  /\ top' = (IF IsTop(Head(Attached)) THEN top + 1 ELSE top)
  /\ Goto(then)
NoMore == Attached = <<>> /\ isdir' = FALSE /\ todo' = <<>> /\ UNCHANGED <<cur, top>>
InputFails == MayFail("input") /\ GoEnd(1) /\ UNCHANGED walk

\* I_IN of tar, zip and iso: at the end of the input the writer is told to
\* finish, except by iso, which has only made its list.
TellFinish == lib' = [lib EXCEPT !.ending = TRUE]
NextEntry ==
  /\ ~Is({"each"}) /\ At("in")
  /\ \/ Given("info") /\ UNCHANGED lib
     \/ NoMore /\ Goto("proc") /\ (IF Is({"iso"}) THEN UNCHANGED lib ELSE TellFinish)
     \/ InputFails /\ UNCHANGED lib
  /\ UNCHANGED <<reader, piece, woff, many, missing, result, outvars>>

\* I_IN of zip --each: an entry of the command line ends the archive before it.
NextOfEach ==
  /\ Is({"each"}) /\ At("in")
  /\ \/ NoMore /\ TellFinish /\ complete' = TRUE /\ Goto("proc")
     \/ /\ Attached # <<>> /\ UNCHANGED complete
        /\ IF ~IsTop(Head(Attached)) THEN Given("info") /\ UNCHANGED lib
           ELSE IF nfile # 0 THEN Given("proc") /\ TellFinish
           ELSE Given("outopen") /\ UNCHANGED lib
     \/ InputFails /\ UNCHANGED <<lib, complete>>
  /\ UNCHANGED <<reader, piece, woff, list, at, nfile, missing, result, outvars>>

\* What tar, and what zip and iso, make of an entry that cannot be opened.
CannotOpen ==
  \/ /\ (Kind(cur) = "gone" /\ Is({"tar"})) \/ MayFail("open") \/ MayFail("info")
     /\ GoEnd(1) /\ UNCHANGED missing
  \/ Kind(cur) = "gone" /\ ~Is({"tar"}) /\ missing' = TRUE /\ Goto("in")

\* I_INFO: open(), info(), input_allowed(), input_dir(); iso adds the entry.
Info ==
  /\ At("info") /\ off' = 0
  /\ \/ /\ Kind(cur) # "gone" /\ isdir' = IsDir(cur)
        /\ IF Kind(cur) = "excluded" THEN Goto("in") /\ UNCHANGED list
           ELSE IF ~Is({"iso"}) THEN Goto("add") /\ UNCHANGED list
           ELSE Goto("in") /\ list' = (IF IsDir(cur) THEN list ELSE Append(list, cur))
        /\ UNCHANGED missing
     \/ CannotOpen /\ UNCHANGED <<isdir, list>>
  /\ UNCHANGED <<todo, cur, top, buf, writer, at, nfile, complete, result, outvars>>

-----------------------------------------------------------------------------
(***************************************************************************)
(* The format writers                                                      *)
(***************************************************************************)
HeadOf(e) == <<e, 0>>      \* a member's header,
ChunkOf(e, k) == <<e, k>>  \* its data,
FixedHead(e) == <<e, -1>>  \* its header with the sizes and the checksum,
Trailer == <<0, 0>>        \* the end of the archive; iso: its tables,
Reserved == <<0, 1>>       \* and their place before they are known

\* fileadd()
Added(e) == [lib EXCEPT !.member = e, !.fin = FALSE, !.fixed = FALSE, !.head = TRUE]
\* Mutant: the writer is not told that the entry has ended.
Finished_Not(l) == l

\* filefinish()
Finished(l) == [l EXCEPT !.fin = TRUE]

\* process() gives DATA: a piece for offset o, after which the archive has n pieces.
Gives(p, o, n) ==
  /\ piece' = p /\ woff' = o /\ Goto("write")
  /\ lib' = [lib EXCEPT !.end = n,
                        !.head = FALSE, !.hdr = IF lib.head THEN lib.end ELSE @,
                        !.fixed = @ \/ (lib.member # 0 /\ p = FixedHead(lib.member)),
                        !.ended = @ \/ p = Trailer]
GivesNext(p) == Gives(p, woff, lib.end + 1) /\ UNCHANGED buf
GivesData == buf # 0 /\ Gives(ChunkOf(lib.member, buf), woff, lib.end + 1) /\ buf' = 0
Asks(s) == Goto(s) /\ UNCHANGED <<buf, piece, lib, woff>>

\* tar_write()
TarProc ==
  /\ Is({"tar"}) /\ At("proc")
  /\ \/ lib.head /\ GivesNext(HeadOf(lib.member))
     \/ ~lib.head /\ GivesData
     \/ ~lib.head /\ buf = 0 /\ lib.member # 0 /\ ~lib.fin /\ Asks("read")
     \/ ~lib.head /\ buf = 0 /\ lib.member # 0 /\ lib.fin
        /\ lib' = [lib EXCEPT !.member = 0] /\ Goto("in") /\ UNCHANGED <<buf, piece, woff>>
     \/ lib.member = 0 /\ lib.ending /\ ~lib.ended /\ GivesNext(Trailer)
     \/ lib.member = 0 /\ lib.ended /\ Asks("flush")
  /\ UNCHANGED <<walk, off, many, missing, result, outvars>>

\* zip_write(); a member's header is written again when its data are done, and
\* FFZIPWRITE_SEEK leads back to the end.
ZipProc ==
  /\ Zips /\ At("proc")
  /\ \/ lib.head /\ GivesNext(HeadOf(lib.member))
     \/ ~lib.head /\ GivesData
     \/ ~lib.head /\ buf = 0 /\ lib.member # 0 /\ ~lib.fin /\ Asks("read")
     \/ ~lib.head /\ buf = 0 /\ lib.member # 0 /\ lib.fin /\ ~lib.fixed
        /\ Gives(FixedHead(lib.member), lib.hdr, lib.end) /\ UNCHANGED buf
     \/ ~lib.head /\ buf = 0 /\ lib.member # 0 /\ lib.fin /\ lib.fixed
        /\ woff' = lib.end /\ lib' = [lib EXCEPT !.member = 0] /\ Goto("in") /\ UNCHANGED <<buf, piece>>
     \/ lib.member = 0 /\ lib.ending /\ ~lib.ended /\ GivesNext(Trailer)
     \/ lib.member = 0 /\ lib.ended /\ Asks("done")
  /\ UNCHANGED <<walk, off, many, missing, result, outvars>>

\* iso_write(): the place for the tables, the files, and the tables at offset 0.
IsoProc ==
  /\ Is({"iso"}) /\ At("proc")
  /\ \/ lib.end = 0 /\ GivesNext(Reserved)
     \/ lib.end > 0 /\ GivesData
     \/ lib.end > 0 /\ buf = 0 /\ ~lib.ending /\ lib.member # 0 /\ Asks("read")
     \/ lib.end > 0 /\ buf = 0 /\ ~lib.ending /\ lib.member = 0 /\ Asks("nextopen")
     \/ lib.ending /\ ~lib.ended /\ Gives(Trailer, 0, lib.end) /\ UNCHANGED buf
     \/ lib.ended /\ Asks("done")
  /\ UNCHANGED <<walk, off, many, missing, result, outvars>>

-----------------------------------------------------------------------------
(***************************************************************************)
(* The other states                                                        *)
(***************************************************************************)
\* Mutant: del_on_close is set whether the archive could be opened or not.
OpenFailed_Deletes == OpenFails(name', cmd.overwrite) /\ GoEnd(1) /\ del' = TRUE /\ UNCHANGED woff

OpenFailed == OpenFails(name', cmd.overwrite) /\ GoEnd(1) /\ UNCHANGED <<woff, del>>

\* I_OUT_OPEN of zip --each comes once more when the input is complete.
OpenArchive ==
  /\ At("outopen")
  /\ IF complete
       THEN GoEnd(IF missing THEN 1 ELSE 0) /\ UNCHANGED <<woff, nfile, result, outvars>>
       ELSE /\ name' = (IF Is({"each"}) THEN top ELSE 1)
            /\ nfile' = (IF Is({"each"}) THEN nfile + 1 ELSE nfile)
            /\ \/ /\ OpenFile(name', cmd.overwrite) /\ del' = TRUE /\ woff' = -1
                  /\ Goto(IF Is({"each"}) THEN "info" ELSE "in")
               \/ OpenFailed
  /\ UNCHANGED <<walk, reader, lib, piece, list, at, complete, missing>>

\* Mutant: a link is read like a file.
TarReads_Links(e) == ~IsDir(e)

\* tar_file_add() and what follows: directories and links have no data.
TarReads(e) == ~IsDir(e) /\ ~IsLink(e)
TarAdd ==
  /\ Is({"tar"}) /\ At("add")
  /\ \/ Kind(cur) = "nameless" /\ Goto("in") /\ UNCHANGED lib
     \/ Kind(cur) # "nameless"
        /\ IF TarReads(cur) THEN lib' = Added(cur) /\ Goto("read")
                            ELSE lib' = Finished(Added(cur)) /\ Goto("proc")
     \/ IsLink(cur) /\ MayFail("readlink") /\ GoEnd(1) /\ UNCHANGED lib
  /\ UNCHANGED <<walk, reader, piece, woff, many, missing, result, outvars>>

\* zip_file_add() and what follows: only directories have no data.
ZipAdd ==
  /\ Zips /\ At("add")
  /\ IF Kind(cur) = "nameless" THEN Goto("in") /\ UNCHANGED lib
     ELSE IF IsDir(cur) THEN lib' = Finished(Added(cur)) /\ Goto("proc")
     ELSE lib' = Added(cur) /\ Goto("read")
  /\ UNCHANGED <<walk, reader, piece, woff, many, missing, result, outvars>>

\* I_FILEREAD of tar and zip
ReadEntry ==
  /\ ~Is({"iso"}) /\ At("read")
  /\ \/ off < cmd.tree[cur].size /\ off' = off + 1 /\ buf' = off + 1 /\ UNCHANGED lib /\ Goto("proc")
     \/ off = cmd.tree[cur].size /\ lib' = Finished(lib) /\ UNCHANGED reader /\ Goto("proc")
     \/ MayFail("read") /\ GoEnd(1) /\ UNCHANGED <<reader, lib>>
  /\ UNCHANGED <<walk, piece, woff, many, missing, result, outvars>>

\* I_IN_NEXT_OPEN of iso: the files of the list are opened a second time.
IsoNextOpen ==
  /\ Is({"iso"}) /\ At("nextopen")
  /\ \/ at = Len(list) /\ TellFinish /\ Goto("proc") /\ UNCHANGED <<at, cur, off>>
     \/ /\ at < Len(list) /\ at' = at + 1 /\ cur' = list[at + 1] /\ off' = 0
        /\ \/ lib' = [lib EXCEPT !.member = cur'] /\ Goto("read")
           \/ MayFail("open") /\ GoEnd(1) /\ UNCHANGED lib
  /\ UNCHANGED <<todo, isdir, top, buf, piece, woff, list, nfile, complete, missing, result, outvars>>

\* I_FILEREAD of iso: the writer is not told that a file has ended.
IsoRead ==
  /\ Is({"iso"}) /\ At("read")
  /\ \/ off < cmd.tree[cur].size /\ off' = off + 1 /\ buf' = off + 1 /\ Goto("proc")
     \/ off = cmd.tree[cur].size /\ Goto("nextopen") /\ UNCHANGED reader
     \/ MayFail("read") /\ GoEnd(1) /\ UNCHANGED reader
  /\ UNCHANGED <<walk, writer, many, missing, result, outvars>>

\* Mutant: woff is reset before the result of the write is looked at.
WoffAfterPart_Reset == -1

\* zip_file_write() keeps woff for the call that repeats it
WoffAfterPart == woff

\* I_WRITE
Write ==
  /\ At("write")
  /\ \/ WriteWhole(piece, woff) /\ woff' = -1 /\ Goto("proc")
     \/ WritePart(piece) /\ woff' = WoffAfterPart /\ Goto("write")
     \/ MayFail("write") /\ GoEnd(1) /\ UNCHANGED <<woff, outvars>>
  /\ UNCHANGED <<walk, reader, lib, piece, many, missing, result>>

\* I_FLUSH of tar; only an error is looked at.
TarFlush ==
  /\ Is({"tar"}) /\ At("flush")
  /\ \/ Flush(FALSE) /\ Goto("done")
     \/ Flush(TRUE) /\ GoEnd(1)
  /\ UNCHANGED <<walk, reader, writer, many, missing, result>>

\* I_DONE of tar, zip and iso
Done ==
  /\ ~Is({"each"}) /\ At("done")
  /\ Close /\ del' = FALSE /\ GoEnd(IF missing THEN 1 ELSE 0)
  /\ UNCHANGED <<walk, reader, writer, many, missing, name>>

\* Mutant: the next archive is not opened.
AfterArchive_Info == "info"

AfterArchive == "outopen"

\* zip_done() makes the writer anew for the next archive.
ZipDone ==
  /\ Is({"each"}) /\ At("done")
  /\ Close /\ del' = FALSE /\ name' = 0 /\ lib' = LibInit /\ Goto(AfterArchive)
  /\ UNCHANGED <<walk, reader, piece, woff, many, missing>>

Stop ==
  /\ stop /\ st \notin {"end", "over"} /\ GoEnd(1)
  /\ UNCHANGED <<walk, reader, writer, many, missing, result, outvars>>

\* tar_close(), zip_close(), iso_close() and complete()
Finish ==
  /\ st = "end" /\ st' = "over" /\ Destroy(del, name)
  /\ UNCHANGED <<cmd, stop, rc, walk, reader, writer, many, missing, result>>

\* tar_signal(), zip_signal(), iso_signal()
Signal ==
  /\ MayFail("signal") /\ ~stop /\ st # "over" /\ stop' = TRUE
  /\ UNCHANGED <<cmd, st, rc, walk, reader, writer, many, missing, result, outvars>>

\* tar_run(), zip_run(), zip_run_each(), iso_run()
TarRun == Is({"tar"}) /\ (OpenArchive \/ NextEntry \/ Info \/ TarAdd \/ ReadEntry \/ TarProc \/ Write \/ TarFlush \/ Done)
ZipRun == Is({"zip"}) /\ (OpenArchive \/ NextEntry \/ Info \/ ZipAdd \/ ReadEntry \/ ZipProc \/ Write \/ Done)
ZipRunEach == Is({"each"}) /\ (NextOfEach \/ OpenArchive \/ Info \/ ZipAdd \/ ReadEntry \/ ZipProc \/ Write \/ ZipDone)
IsoRun == Is({"iso"}) /\ (OpenArchive \/ NextEntry \/ Info \/ IsoProc \/ IsoNextOpen \/ IsoRead \/ Write \/ Done)

Step == TarRun \/ ZipRun \/ ZipRunEach \/ IsoRun \/ Stop \/ Finish
Next == Step \/ Signal
Spec == Init /\ [][Next]_vars
FairSpec == Spec /\ WF_vars(Step)

-----------------------------------------------------------------------------
(***************************************************************************)
(* Properties                                                              *)
(***************************************************************************)
\* What archive a is made of: the entries below directories only.
Extent(a) == IF Is({"each"}) THEN cmd.tops[a] .. cmd.tree[cmd.tops[a]].last ELSE 1 .. Len(cmd.tree)
Reached(a) == {e \in Extent(a) : \A d \in 1 .. e - 1 : e <= cmd.tree[d].last => IsDir(d)}

\* The pieces of an entry: its header and its data, if it is there, allowed and has
\* a name.
HeaderOf == IF Is({"tar"}) THEN {0} ELSE IF Zips THEN {-1} ELSE {}
HasData(e) == IF Is({"tar"}) THEN Kind(e) = "file" ELSE ~IsDir(e)
PartsOf(e) ==
  IF Kind(e) \in {"gone", "excluded", "nameless"} THEN {}
  ELSE HeaderOf \cup (IF HasData(e) THEN 1 .. cmd.tree[e].size ELSE {})
PiecesOf(a) == UNION {{<<e, k>> : k \in PartsOf(e)} : e \in Reached(a)}

\* The pieces of s are those of S, each once and in order.
Before(p, q) == p[1] < q[1] \/ (p[1] = q[1] /\ p[2] < q[2])
Holds(s, S) ==
  /\ \A k \in DOMAIN s : s[k] \in S
  /\ \A p \in S : \E k \in DOMAIN s : s[k] = p
  /\ \A j, k \in DOMAIN s : j < k => Before(s[j], s[k])
WholeArchive(a, s) ==
  /\ s # <<>>
  /\ IF Is({"iso"}) THEN s[1] = Trailer /\ Holds(Tail(s), PiecesOf(a))
                    ELSE Last(s) = Trailer /\ Holds(Front(s), PiecesOf(a))

\* The variables keep to their types.
TypeOK ==
  /\ name \in {0} \cup Archives /\ top \in 0 .. Len(cmd.tops)
  /\ st \in {"outopen", "in", "info", "add", "read", "nextopen", "proc", "write", "flush", "done", "end", "over"}
  /\ {isdir, complete, missing, del, stop, lost} \subseteq BOOLEAN /\ rc \in {0, 1}
  /\ woff >= -1 /\ nfile \in 0 .. Len(cmd.tops) /\ at \in 0 .. Len(list)
  /\ st \in {"write", "flush"} /\ Archives # {} => IsOpen /\ del

\* Exit code 0 means that every entry existed and that every archive holds exactly
\* the entries to be packed, each whole, once and in order, with its header as it
\* is when the sizes are known, and its end.  tar knows of every error; zip and iso
\* do not look at the error of the last flush.
SuccessIsWhole ==
  (st = "over" /\ rc = 0 /\ (Is({"tar"}) \/ ~lost)) =>
    \A a \in Archives :
      /\ \A e \in Reached(a) : Kind(e) # "gone"
      /\ disk[a].kind = "new" /\ WholeArchive(a, disk[a].has)

\* Whatever the result, an archive that is left behind is complete: del_on_close
\* is set while one is unfinished, and zip --each keeps those it has finished.
KeptIsWhole ==
  (st = "over" /\ ~lost) =>
    \A a \in Archives : disk[a].kind = "new" => WholeArchive(a, disk[a].has)

\* What holds in every state of the loops: the parts above.
ArchiveInv == TypeOK /\ SuccessIsWhole /\ KeptIsWhole

\* Without --overwrite no step changes a file that was there before.
OldFilesStay ==
  [][\A a \in Archives : (disk[a] = Old /\ ~cmd.overwrite) => disk'[a] = Old]_vars

\* The operation completes.
Ends == <>(st = "over")
=============================================================================
