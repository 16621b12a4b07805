------------------------------- MODULE Extract -------------------------------
(***************************************************************************)
(* "fcom untar", "unzip" (with --skip and --recovery), "un7z" and "uniso": *)
(* the loops around the format readers, and the files they leave.          *)
(*                                                                         *)
(* An archive is a sequence of chunks; the readers are outside the source  *)
(* and take one chunk after the other.  tar: every member is a "head" and  *)
(* its "data", then "end", and maybe "pad", the zero blocks that fill the  *)
(* last record.  zip: the same with an "index" last.  7z: "start", the     *)
(* data, the "index"; iso: the "index" and the data.  A chunk that is not  *)
(* ok is refused.  A read returns one chunk or several.                    *)
(*                                                                         *)
(* An action is a state of the loop (see Codec for "stop" and ASYNC reads).*)
(* Left out: --list, --test, directories among the inputs.                 *)
(***************************************************************************)
EXTENDS Output

CONSTANTS
  Commands   \* the command lines: [op, files, chosen, skip, recovery, overwrite]

Ops == {"untar", "unzip", "un7z", "uniso"}
Kinds == {"file", "dir", "slink", "hlink", "odd"}
ChunkKinds == {"head", "data", "end", "pad", "index", "start"}
FailureKinds ==
  {"input", "open", "info", "read", "mkdir", "link", "create", "write", "flush", "short", "signal"}

\* chosen: the names given with -m, or {} for all.
ASSUME ExtractAssumption ==
  /\ \A c \in Commands :
       /\ c.op \in Ops /\ {c.skip, c.recovery, c.overwrite} \subseteq BOOLEAN
       /\ \A f \in DOMAIN c.files :
            /\ \A m \in DOMAIN c.files[f].members :
                 LET mm == c.files[f].members[m]
                 IN /\ mm.name \in Nat \ {0} /\ mm.kind \in Kinds /\ mm.size \in Nat
                    /\ c.op # "untar" => mm.kind \in {"file", "dir"}
            /\ \A p \in DOMAIN c.files[f].chunks :
                 LET ch == c.files[f].chunks[p]
                 IN ch.kind \in ChunkKinds /\ ch.ok \in BOOLEAN /\ (ch.kind = "head" => ch.m \in DOMAIN c.files[f].members)
       /\ (c.skip \/ c.recovery) => c.op = "unzip"
  /\ Failures \subseteq FailureKinds

VARIABLES
  cmd,     \* the command
  st,      \* t->state
  cur,     \* the current archive
  off,     \* where the next read begins,
  roff,    \* unless the reader has asked for a chunk (0: it has not)
  buf,     \* the chunks that were read and not yet taken: <<archive, place>>
  phase,   \* what the reader is at: "start", "index", "recovery" or "files"
  files,   \* the members to unpack: zip: the places of their heads; 7z, iso: numbers
  ifile,   \* how many of them are done
  mem,     \* the member being read, or 0,
  got,     \* how many of its chunks were taken,
  place,   \* and where the next chunk is
  piece,   \* what is being written
  oname,   \* the name of t->oname, or NoName
  del,     \* del_on_close
  stop, rc

reader == <<off, roff, buf>>
lib == <<phase, files, ifile, mem, got, place>>
result == <<piece, oname, del>>
vars == <<cmd, st, cur, reader, lib, result, stop, rc, outvars>>

NoName == 0
Chunks == cmd.files[cur].chunks
Members == cmd.files[cur].members
ChunkAt(b) == cmd.files[b[1]].chunks[b[2]]
MemberAt(b) == cmd.files[b[1]].members[ChunkAt(b).m]
Is(ops) == cmd.op \in ops
HasData(m) == m.kind \in {"file", "odd"}
Size(m) == IF HasData(m) THEN m.size ELSE 0
\* members_find()
IsChosen(m) == cmd.chosen = {} \/ m.name \in cmd.chosen
Names(c) ==
  UNION {{c.files[f].members[m].name : m \in {k \in DOMAIN c.files[f].members : c.files[f].members[k].kind # "dir"}} :
         f \in DOMAIN c.files}

Init ==
  /\ cmd \in Commands
  /\ OutputInit(Names(cmd))
  /\ st = "in" /\ cur = 0 /\ stop = FALSE /\ rc = 0
  /\ off = 0 /\ roff = 0 /\ buf = <<>>
  /\ phase = "start" /\ files = <<>> /\ ifile = 0 /\ mem = 0 /\ got = 0 /\ place = 0
  /\ piece = Nothing /\ oname = NoName /\ del = FALSE

At(s) == st = s /\ ~stop
Goto(s) == st' = s /\ UNCHANGED <<cmd, cur, stop, rc>>
GoEnd(code) == st' = "end" /\ rc' = code /\ UNCHANGED <<cmd, cur, stop>>
\* An error ends the operation; some are passed over with --skip.
Fails(then) == IF cmd.skip THEN Goto(then) ELSE GoEnd(1)

-----------------------------------------------------------------------------
(***************************************************************************)
(* The next archive, and its chunks                                        *)
(***************************************************************************)
FirstPhase ==
  CASE Is({"unzip"}) -> IF cmd.recovery THEN "recovery" ELSE "index"
    [] Is({"uniso"}) -> "index"
    [] OTHER -> "start"

\* untar_reset() does nothing; fftarread_open().
UntarReset == roff' = 0 /\ UNCHANGED <<buf, files, ifile>>
\* un7z_reset(); the data that were read stay.
Un7zReset == roff' = 0 /\ files' = <<>> /\ ifile' = 0 /\ UNCHANGED buf
\* Nothing but the reader is reset.
UnisoReset == files' = <<>> /\ ifile' = 0 /\ UNCHANGED <<roff, buf>>
\* unzip_reset()
UnzipReset == roff' = 0 /\ buf' = <<>> /\ files' = <<>> /\ ifile' = 0
Reset ==
  \/ Is({"untar"}) /\ UntarReset
  \/ Is({"un7z"}) /\ Un7zReset
  \/ Is({"uniso"}) /\ UnisoReset
  \/ Is({"unzip"}) /\ UnzipReset

\* I_IN and I_INFO; unzip_input_open_next()
NextArchive ==
  /\ At("in")
  /\ \/ cur = Len(cmd.files) /\ GoEnd(0) /\ UNCHANGED <<reader, lib>>
     \/ /\ cur < Len(cmd.files) /\ cur' = cur + 1 /\ UNCHANGED <<cmd, stop>>
        /\ \/ /\ st' = "parse" /\ off' = 0 /\ Reset /\ UNCHANGED rc
              /\ phase' = FirstPhase /\ mem' = 0 /\ got' = 0 /\ place' = 0
           \/ /\ MayFail("open") \/ MayFail("info")
              /\ IF cmd.skip THEN st' = "in" /\ UNCHANGED rc ELSE st' = "end" /\ rc' = 1
              /\ UNCHANGED <<reader, lib>>
     \/ cur = 0 /\ MayFail("input") /\ Goto("refused") /\ UNCHANGED <<reader, lib>>
  /\ UNCHANGED <<result, outvars>>

\* input_next() could not read the list of names, and keeps cmd->input_fd: with --skip
\* the same list is read again.
Refused ==
  /\ At("refused") /\ Fails("in")
  /\ UNCHANGED <<reader, lib, result, outvars>>

\* I_FILEREAD; unzip_file_read(): with --skip an error leads to the next archive.
From == IF roff # 0 THEN roff - 1 ELSE off
ReadArchive ==
  /\ At("read")
  /\ \/ /\ From < Len(Chunks)
        /\ \E n \in 1 .. (Len(Chunks) - From) :
             /\ buf' = [k \in 1 .. n |-> <<cur, From + k>>]
             /\ off' = From + n /\ roff' = 0
        /\ Goto("parse")
     \/ (From >= Len(Chunks) \/ MayFail("read")) /\ Fails("in") /\ UNCHANGED reader
  /\ UNCHANGED <<lib, result, outvars>>

\* MORE, or SEEK to a place that is not the next in the buffer.
Take == buf' = Tail(buf) /\ UNCHANGED <<off, roff>>
AsksFor(p) == roff' = p /\ Goto("read") /\ UNCHANGED <<off, buf>>
Ready(p) == buf # <<>> /\ Head(buf) = <<cur, p>>
NextIs(kinds) == buf # <<>> /\ ChunkAt(Head(buf)).kind \in kinds /\ ChunkAt(Head(buf)).ok

-----------------------------------------------------------------------------
(***************************************************************************)
(* Members                                                                 *)
(***************************************************************************)
Current == Members[mem]
Done == mem # 0 /\ got = Size(Current)

\* Mutant: a file is not opened before its data come.
AfterHeader_Parse == "parse"

AfterHeader == "outopen"

\* FILEHEADER of a member that is wanted.
Begins(m) == mem' = m /\ got' = 0 /\ oname' = Members[m].name

\* DATA
Data == NextIs({"data"}) /\ ChunkAt(Head(buf)).m = mem
Writes == piece' = Head(buf) /\ Goto("write")

\* I_OUT_OPEN for a directory, a link and a file; what follows an error differs.
MakeDir(then) ==
  /\ Current.kind = "dir" /\ UNCHANGED <<disk, obj, lost, del>> /\ then
MakeLink ==
  /\ Current.kind \in {"slink", "hlink"}
  /\ CanCreate(disk, oname, cmd.overwrite /\ Current.kind = "slink")
  /\ disk' = [disk EXCEPT ![oname] = New(<<<<cur, mem>>>>)]
  /\ Goto("parse") /\ UNCHANGED <<obj, lost, del>>
LinkFails ==
  /\ Current.kind \in {"slink", "hlink"}
  /\ ~CanCreate(disk, oname, cmd.overwrite /\ Current.kind = "slink") \/ MayFail("link")
  /\ GoEnd(1) /\ UNCHANGED <<disk, obj, lost, del>>
\* trunc() to the member's size, which its data fill, is left out.
MakeFile ==
  /\ Current.kind = "file" /\ OpenFile(oname, cmd.overwrite) /\ del' = TRUE /\ Goto("parse")

\* Mutant: a file that was begun is not removed.
FileErr_Keeps == CloseDelete(FALSE, oname)

\* unzip_file_err()
FileErr == CloseDelete(del, oname)

\* Mutant: the member is tried again.
AfterErr_Same == ifile

AfterErr == ifile + 1

\* What --skip does after an error of a member.
SkipMember ==
  /\ FileErr /\ del' = FALSE /\ ifile' = AfterErr
  /\ Goto("next") /\ UNCHANGED <<phase, files, mem, got, place, piece, oname>>
MemberFails ==
  \/ cmd.skip /\ SkipMember
  \/ ~cmd.skip /\ GoEnd(1) /\ UNCHANGED <<lib, result, outvars>>

OpenOut ==
  /\ At("outopen")
  /\ \/ MakeDir(Goto("parse")) /\ UNCHANGED <<lib, piece, oname>>
     \/ Current.kind = "dir" /\ MayFail("mkdir") /\ MemberFails
     \/ (MakeLink \/ LinkFails \/ MakeFile) /\ UNCHANGED <<lib, piece, oname>>
     \/ /\ Current.kind = "file" /\ (~CanCreate(disk, oname, cmd.overwrite) \/ MayFail("create"))
        /\ \/ cmd.skip /\ SkipMember
           \/ ~cmd.skip /\ OpenFails(oname, cmd.overwrite) /\ GoEnd(1) /\ UNCHANGED <<lib, result>>
  /\ UNCHANGED reader

\* I_WRITE; an error ends the operation with --skip too.
Write ==
  /\ At("write")
  /\ \/ WriteWhole(piece, -1) /\ Goto("parse")
     \/ WritePart(piece) /\ Goto("write")
     \/ MayFail("write") /\ GoEnd(1) /\ UNCHANGED outvars
  /\ UNCHANGED <<reader, lib, result>>

\* Mutant: del_on_close stays set.
DelAfterDone_Set == del

DelAfterDone == FALSE

\* FILEDONE of a member that is not a directory.
Complete == Close /\ del' = DelAfterDone
Stays == UNCHANGED <<outvars, del>>

-----------------------------------------------------------------------------
(***************************************************************************)
(* untar                                                                   *)
(***************************************************************************)
\* Mutant: links are passed over.
IsUnpacked_FilesOnly(m) == IsChosen(m) /\ m.kind \in {"file", "dir"}

\* members_find(), and the types that untar knows.
IsUnpacked(m) == IsChosen(m) /\ m.kind # "odd"

\* A member that is not chosen, or of an odd type, leaves oname as it is: NULL
\* after a file, the name after a directory.
UntarHeader ==
  /\ mem = 0 /\ NextIs({"head"}) /\ Take
  /\ LET m == ChunkAt(Head(buf)).m
     IN IF IsUnpacked(Members[m])
          THEN Begins(m) /\ Goto(AfterHeader)
          ELSE mem' = m /\ got' = 0 /\ Goto("parse") /\ UNCHANGED oname
  /\ UNCHANGED <<piece, del, outvars>>
UntarData ==
  /\ mem # 0 /\ ~Done /\ Data /\ Take /\ got' = got + 1
  /\ IF oname = NoName THEN Goto("parse") /\ UNCHANGED piece ELSE Writes
  /\ UNCHANGED <<mem, oname, del, outvars>>
UntarFileDone ==
  /\ Done /\ mem' = 0
  /\ IF oname # NoName /\ Current.kind # "dir"
       THEN Complete /\ oname' = NoName ELSE Stays /\ UNCHANGED oname
  /\ Goto("parse") /\ UNCHANGED <<reader, got, piece>>
\* DONE: what is left in the buffer is given to the reader of the next archive.
UntarDone ==
  /\ mem = 0 /\ NextIs({"end", "pad"}) /\ Take /\ Goto("in")
  /\ UNCHANGED <<mem, got, result, outvars>>
UntarMore == ~Done /\ buf = <<>> /\ AsksFor(0) /\ UNCHANGED <<mem, got, result, outvars>>
UntarRefuses ==
  /\ ~Done /\ buf # <<>> /\ ~ChunkAt(Head(buf)).ok
  /\ GoEnd(1) /\ UNCHANGED <<reader, mem, got, result, outvars>>

\* untar_read(), untar_run()
UntarRun ==
  /\ Is({"untar"})
  /\ \/ NextArchive \/ Refused \/ ReadArchive \/ OpenOut \/ Write
     \/ /\ At("parse") /\ UNCHANGED <<phase, files, ifile, place>>
        /\ UntarHeader \/ UntarData \/ UntarFileDone \/ UntarDone \/ UntarMore \/ UntarRefuses

-----------------------------------------------------------------------------
(***************************************************************************)
(* unzip, un7z, uniso: an index first, then every chosen member            *)
(***************************************************************************)
PlacesOf(kind) == SelectSeq([p \in DOMAIN Chunks |-> p], LAMBDA p : Chunks[p].kind = kind)
HeadPlaces == SelectSeq(PlacesOf("head"), LAMBDA p : IsChosen(Members[Chunks[p].m]))
ChosenMembers == SelectSeq([m \in DOMAIN Members |-> m], LAMBDA m : IsChosen(Members[m]))
FirstData(m) ==
  LET own == {p \in DOMAIN Chunks : Chunks[p].kind = "data" /\ Chunks[p].m = m}
  IN IF own = {} THEN 0 ELSE CHOOSE p \in own : \A q \in own : p <= q
IndexPlace == IF Is({"uniso"}) THEN 1 ELSE Len(Chunks)

\* ff7zread_open(): the archive begins with its start header.
Un7zStart ==
  /\ phase = "start"
  /\ \/ buf = <<>> /\ AsksFor(0) /\ UNCHANGED phase
     \/ NextIs({"start"}) /\ Take /\ phase' = "index" /\ Goto("parse")
     \/ buf # <<>> /\ ~NextIs({"start"}) /\ GoEnd(1) /\ UNCHANGED <<reader, phase>>
  /\ UNCHANGED <<files, ifile, mem, got, place, result, outvars>>

\* FILEINFO and DONE of zip; FILEMETA and LISTEND of iso; the first FILEHEADER of 7z.
ReadIndex ==
  /\ phase = "index"
  /\ \/ ~Ready(IndexPlace) /\ AsksFor(IndexPlace) /\ UNCHANGED <<lib, result, outvars>>
     \/ /\ Ready(IndexPlace) /\ NextIs({"index"}) /\ Take
        /\ files' = (IF Is({"unzip"}) THEN HeadPlaces ELSE ChosenMembers)
        /\ phase' = "files" /\ Goto("next")
        /\ UNCHANGED <<ifile, mem, got, place, result, outvars>>
     \/ Ready(IndexPlace) /\ ~NextIs({"index"}) /\ MemberFails /\ UNCHANGED reader

\* unzip_recovery_list(): the heads in the buffer with all their data; their
\* offsets count from the beginning of the buffer.
WholeIn(k) ==
  /\ ChunkAt(buf[k]).kind = "head" /\ ChunkAt(buf[k]).ok
  /\ k + Size(MemberAt(buf[k])) <= Len(buf) /\ IsChosen(MemberAt(buf[k]))
RecoveryList ==
  /\ phase = "recovery"
  /\ files' = files \o SelectSeq([k \in DOMAIN buf |-> k], WholeIn)
  /\ IF off = Len(Chunks) /\ buf # <<>>
       THEN phase' = "files" /\ Goto("next") /\ UNCHANGED reader
       ELSE AsksFor(0) /\ UNCHANGED phase
  /\ UNCHANGED <<ifile, mem, got, place, result, outvars>>

\* I_FILE_NEXT of unzip; ff7zread_nextfile(), ffisoread_nextfile().  After an error
\* in the index ifile is beyond the list, and what is there is undefined.
NextMember ==
  /\ At("next")
  /\ IF ifile = Len(files) THEN Goto("in") /\ UNCHANGED <<ifile, mem, got, place, oname>>
     ELSE IF ifile > Len(files)
       THEN st' = "crashed" /\ UNCHANGED <<cmd, cur, stop, rc, ifile, mem, got, place, oname>>
     ELSE IF Is({"unzip"})
       THEN mem' = 0 /\ place' = files[ifile + 1] /\ Goto("parse") /\ UNCHANGED <<ifile, got, oname>>
     ELSE /\ Begins(files[ifile + 1]) /\ place' = FirstData(files[ifile + 1])
          /\ ifile' = ifile + 1 /\ Goto(AfterHeader)
  /\ UNCHANGED <<reader, phase, files, piece, del, outvars>>

UnzipHeader ==
  /\ phase = "files" /\ mem = 0 /\ Is({"unzip"})
  /\ \/ ~Ready(place) /\ AsksFor(place) /\ UNCHANGED <<lib, result, outvars>>
     \/ /\ Ready(place) /\ NextIs({"head"}) /\ Take
        /\ Begins(ChunkAt(Head(buf)).m) /\ place' = place + 1 /\ Goto(AfterHeader)
        /\ UNCHANGED <<phase, files, ifile, piece, del, outvars>>
     \/ Ready(place) /\ ~NextIs({"head"}) /\ MemberFails /\ UNCHANGED reader

MemberData ==
  /\ phase = "files" /\ mem # 0 /\ ~Done
  /\ \/ ~Ready(place) /\ AsksFor(place) /\ UNCHANGED <<lib, result, outvars>>
     \/ /\ Ready(place) /\ Data /\ Take /\ Writes /\ got' = got + 1 /\ place' = place + 1
        /\ UNCHANGED <<phase, files, ifile, mem, oname, del, outvars>>
     \/ Ready(place) /\ ~Data /\ MemberFails /\ UNCHANGED reader

\* FILEDONE; unzip_file_done()
MemberDone ==
  /\ phase = "files" /\ Done
  /\ IF Current.kind = "dir" THEN Stays ELSE Complete
  /\ ifile' = (IF Is({"unzip"}) THEN ifile + 1 ELSE ifile) /\ mem' = 0
  /\ Goto("next") /\ UNCHANGED <<reader, phase, files, got, place, piece, oname>>

IndexedRun == NextArchive \/ Refused \/ ReadArchive \/ OpenOut \/ Write \/ NextMember

\* unzip_run(), un7z_run(), uniso_run()
UnzipRun == Is({"unzip"}) /\ (IndexedRun \/ (At("parse") /\ (ReadIndex \/ RecoveryList \/ UnzipHeader \/ MemberData \/ MemberDone)))
Un7zRun == Is({"un7z"}) /\ (IndexedRun \/ (At("parse") /\ (Un7zStart \/ ReadIndex \/ MemberData \/ MemberDone)))
UnisoRun == Is({"uniso"}) /\ (IndexedRun \/ (At("parse") /\ (ReadIndex \/ MemberData \/ MemberDone)))

Stop ==
  /\ stop /\ st \notin {"end", "over", "crashed"} /\ GoEnd(1)
  /\ UNCHANGED <<reader, lib, result, outvars>>

\* untar_close(), unzip_close(), un7z_close(), uniso_close() and complete()
Finish ==
  /\ st = "end" /\ st' = "over" /\ Destroy(del, oname)
  /\ UNCHANGED <<cmd, cur, stop, rc, reader, lib, result>>

\* untar_signal(), ...
Signal ==
  /\ MayFail("signal") /\ ~stop /\ st # "over" /\ stop' = TRUE
  /\ UNCHANGED <<cmd, st, cur, rc, reader, lib, result, outvars>>

Step == UntarRun \/ UnzipRun \/ Un7zRun \/ UnisoRun \/ Stop \/ Finish
Next == Step \/ Signal
Spec == Init /\ [][Next]_vars
FairSpec == Spec /\ WF_vars(Step)

-----------------------------------------------------------------------------
(***************************************************************************)
(* Properties                                                              *)
(***************************************************************************)
\* The members that must be unpacked, and what is in a file then.
Wanted ==
  {<<f, m>> \in UNION {{f} \X DOMAIN cmd.files[f].members : f \in DOMAIN cmd.files} :
     LET mm == cmd.files[f].members[m] IN IsChosen(mm) /\ mm.kind \in {"file", "slink", "hlink"}}
NameOf(w) == cmd.files[w[1]].members[w[2]].name
DataOf(w) ==
  LET ch == cmd.files[w[1]].chunks
  IN IF cmd.files[w[1]].members[w[2]].kind # "file" THEN <<w>>
     ELSE SelectSeq([p \in DOMAIN ch |-> <<w[1], p>>], LAMBDA b : ch[b[2]].kind = "data" /\ ch[b[2]].m = w[2])
Later(w, v) == w[1] > v[1] \/ (w[1] = v[1] /\ w[2] > v[2])
Hidden(w) == \E v \in Wanted : NameOf(v) = NameOf(w) /\ Later(v, w)

\* The variables keep to their types; nothing beyond the list is used.
TypeOK ==
  /\ cur \in 0 .. Len(cmd.files)
  /\ st \in {"in", "refused", "parse", "read", "next", "outopen", "write", "end", "over"}
  /\ phase \in {"start", "index", "recovery", "files"}
  /\ ifile \in 0 .. Len(files) /\ off \in Nat /\ roff \in Nat
  /\ (mem # 0) => got <= Size(Current)
  /\ {del, stop, lost} \subseteq BOOLEAN /\ rc \in {0, 1}
  /\ (st = "write") => (IsOpen /\ del)

\* Exit code 0 means that every chosen member of every archive is unpacked, each
\* with all its data and nothing else; of several with one name the last one.
SuccessIsWhole ==
  (st = "over" /\ rc = 0 /\ ~lost /\ ~cmd.skip /\ ~cmd.recovery) =>
    \A w \in Wanted : Hidden(w) \/ disk[NameOf(w)] = New(DataOf(w))

\* Whatever the result, and with --skip and --recovery too, a file that is left
\* behind is a member with all its data: del_on_close follows the output through
\* errors that are passed over.
NoHalfFile ==
  (st = "over" /\ ~lost) =>
    \A n \in DOMAIN disk :
      disk[n].kind = "new" => \E w \in Wanted : NameOf(w) = n /\ disk[n].has = DataOf(w)

\* What holds in every state of the loops: the parts above.
ExtractInv == TypeOK /\ SuccessIsWhole /\ NoHalfFile

\* Without --overwrite no step changes or removes a file that was there before.
OldFilesStay ==
  [][\A n \in DOMAIN disk : (disk[n] = Old /\ ~cmd.overwrite) => disk'[n] = Old]_vars

\* The operation completes, except that "unzip --skip" may be refused its list of names
\* for ever.
Ends == <>(st = "over") \/ (cmd.skip /\ []<>(st = "refused"))

\* "Skip files on error" (unzip.c): the operation passes over what it cannot read and
\* comes to its end.
SkipEnds == cmd.skip => <>(st = "over")
=============================================================================
