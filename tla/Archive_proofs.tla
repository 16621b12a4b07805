--------------------------- MODULE Archive_proofs ---------------------------
(***************************************************************************)
(* For every input, command line and set of failures: an operation that    *)
(* writes archives touches no older file unless --overwrite is given; one  *)
(* that ends with 0 has put exactly what was to be packed into every       *)
(* archive, in order; and no archive is left behind that is not whole.     *)
(*                                                                         *)
(* The first:                                                              *)
(* A file is written while it is open, and deleted by its name if          *)
(* del_on_close is set.  What is open was created by this run, so the      *)
(* point is the name: t->oname changes from archive to archive, and must   *)
(* not while del_on_close is set for the one before.                       *)
(*                                                                         *)
(* The others: a mark, an entry and a part of it, says how far the archive *)
(* was written; what is in the cache and in hand is exactly what belongs   *)
(* into the archive before the mark (Content).  Each step moves the mark   *)
(* over what it has written, or over what does not belong there; at the    *)
(* end nothing is behind it.  This needs to know where the walk, the       *)
(* format writer and the list of iso are in every state (Control).         *)
(***************************************************************************)
EXTENDS Archive, TLAPS

-----------------------------------------------------------------------------
(* What the calls of the output object do to files that are not the
   operation's own *)

\* A file is a record, so that writing to it leaves its kind.
IsFile(r) == DOMAIN r = {"kind", "has"}
IsDisk(d) == d = [n \in DOMAIN d |-> d[n]] /\ \A n \in DOMAIN d : IsFile(d[n])

\* What is under a name is not the user's older file.
Own(d, n) == n \in DOMAIN d => d[n].kind # "old"

\* The output object, and that without "overwrite" its file is the operation's own.
Ready(overwrite) ==
  /\ IsDisk(disk) /\ Closed \notin DOMAIN disk
  /\ DOMAIN obj = {"name", "at", "cache", "owed"}
  /\ ~overwrite => Own(disk, obj.name)

\* The files of e are those of d, except that n may have been written to.
SameBut(d, e, n) ==
  /\ DOMAIN e = DOMAIN d
  /\ \A k \in DOMAIN d : e[k].kind = d[k].kind /\ (k # n => e[k] = d[k])

\* A step from d to e that changes no older file, and makes none.
Spares(d, e) ==
  /\ DOMAIN e = DOMAIN d
  /\ \A n \in DOMAIN d : d[n] = Old => e[n] = Old
  /\ \A n : Own(d, n) => Own(e, n)

\* file_flush() writes to the open file only, and leaves its kind.
LEMMA FlushingsSafe ==
  ASSUME IsDisk(disk), NEW f \in Flushings
  PROVE  IsDisk(f.disk) /\ SameBut(disk, f.disk, obj.name)
<1> DEFINE D == [disk EXCEPT ![obj.name].has = Flushed(@)]
<1>1. f.disk = disk \/ f.disk = D
  BY DEF Flushings
<1>2. CASE f.disk = disk
  BY <1>2 DEF SameBut
<1>3. CASE f.disk = D
  <2> DEFINE h == Flushed(disk[obj.name].has)
  <2>1. D = [n \in DOMAIN disk |-> IF n = obj.name THEN [disk[n] EXCEPT !.has = h] ELSE disk[n]]
    OBVIOUS
  <2> HIDE DEF h
  <2>2. \A n \in DOMAIN disk : DOMAIN [disk[n] EXCEPT !.has = h] = {"kind", "has"}
                               /\ [disk[n] EXCEPT !.has = h].kind = disk[n].kind
    BY DEF IsDisk, IsFile
  <2>3. DOMAIN D = DOMAIN disk
    BY <2>1
  <2>4. \A n \in DOMAIN disk : D[n] = IF n = obj.name THEN [disk[n] EXCEPT !.has = h] ELSE disk[n]
    BY <2>1
  <2>5. D = [n \in DOMAIN D |-> D[n]]
    BY <2>1
  <2> HIDE DEF D
  <2>6. IsDisk(D)
    BY <2>2, <2>3, <2>4, <2>5 DEF IsDisk, IsFile
  <2>7. SameBut(disk, D, obj.name)
    BY <2>2, <2>3, <2>4 DEF SameBut
  <2>8. QED
    BY <1>3, <2>6, <2>7
<1>4. QED
  BY <1>1, <1>2, <1>3

\* So does every call that flushes, if the open file is the operation's own.
LEMMA FlushingsSpare ==
  ASSUME NEW ow, ~ow, Ready(ow), NEW f \in Flushings
  PROVE  Spares(disk, f.disk)
<1>1. SameBut(disk, f.disk, obj.name)
  BY FlushingsSafe DEF Ready
<1>2. \A n \in DOMAIN disk : disk[n] = Old => n # obj.name
  BY DEF Ready, Own, Old
<1>3. QED
  BY <1>1, <1>2 DEF Spares, SameBut, Own

\* file_flush(), file_close(), a refused file_open() and file_write() of whole pieces
\* or parts leave the object ready and older files as they are.
LEMMA CallsSpare ==
  ASSUME NEW ow, Ready(ow), NEW n, NEW x, NEW o, NEW err,
         \/ FlushUnchecked \/ Flush(err) \/ Close \/ OpenFails(n, ow)
         \/ WriteWhole(x, o) \/ WritePart(x)
         \/ UNCHANGED outvars
  PROVE  Ready(ow)' /\ DOMAIN disk' = DOMAIN disk /\ (~ow => Spares(disk, disk'))
<1>1. CASE UNCHANGED outvars
  BY <1>1 DEF outvars, Ready, Spares
<1>2. CASE WriteWhole(x, o) \/ WritePart(x)
  <2>1. disk' = disk /\ obj'.name = obj.name /\ DOMAIN obj' = DOMAIN obj
    BY <1>2 DEF WriteWhole, WritePart, Ready
  <2>2. QED
    BY <2>1 DEF Ready, Spares
<1>3. CASE FlushUnchecked \/ Flush(err) \/ Close \/ OpenFails(n, ow)
  <2>1. PICK f \in Flushings :
          /\ disk' = f.disk
          /\ obj' = [obj EXCEPT !.cache = f.cache] \/ obj' = [NoObject EXCEPT !.cache = f.cache]
    BY <1>3 DEF FlushUnchecked, Flush, Close, OpenFails
  <2>2. IsDisk(disk') /\ SameBut(disk, disk', obj.name)
    BY <2>1, FlushingsSafe DEF Ready
  <2>3. ~ow => Spares(disk, disk')
    BY <2>1, FlushingsSpare
  <2>4. DOMAIN obj' = {"name", "at", "cache", "owed"} /\ obj'.name \in {obj.name, Closed}
    BY <2>1 DEF Ready, NoObject
  <2>5. Closed \notin DOMAIN disk'
    BY <2>2 DEF SameBut, Ready
  <2>6. ~ow => Own(disk', obj'.name)
    BY <2>3, <2>4, <2>5 DEF Spares, Own, Ready
  <2>7. QED
    BY <2>2, <2>3, <2>4, <2>5, <2>6 DEF Ready, SameBut
<1>4. QED
  BY <1>1, <1>2, <1>3

\* The same of a file_open() that is refused.
LEMMA OpenFailsSpares ==
  ASSUME NEW ow, Ready(ow), NEW n, OpenFails(n, ow)
  PROVE  Ready(ow)' /\ DOMAIN disk' = DOMAIN disk /\ (~ow => Spares(disk, disk'))
  BY CallsSpare

\* file_open() makes the file: without "overwrite" there was none.
LEMMA OpenFileSpares ==
  ASSUME NEW ow, Ready(ow), NEW n, OpenFile(n, ow)
  PROVE  Ready(ow)' /\ DOMAIN disk' = DOMAIN disk /\ (~ow => Spares(disk, disk') /\ Own(disk', n))
<1>1. PICK f \in Flushings :
        /\ CanCreate(f.disk, n, ow)
        /\ disk' = [f.disk EXCEPT ![n] = New(<<>>)]
        /\ obj' = [NoObject EXCEPT !.name = n, !.cache = f.cache]
  BY DEF OpenFile
<1>2. IsDisk(f.disk) /\ SameBut(disk, f.disk, obj.name)
  BY <1>1, FlushingsSafe DEF Ready
<1>3. DOMAIN disk' = DOMAIN f.disk /\ \A k \in DOMAIN f.disk : disk'[k] = IF k = n THEN New(<<>>) ELSE f.disk[k]
  BY <1>1, <1>2 DEF IsDisk
<1>4. disk' = [k \in DOMAIN disk' |-> disk'[k]]
  BY <1>1
<1>5. IsDisk(disk') /\ Own(disk', n)
  BY <1>2, <1>3, <1>4 DEF IsDisk, IsFile, New, Own
<1>6. ASSUME ~ow PROVE Spares(disk, disk')
  <2>1. Spares(disk, f.disk)
    BY <1>1, <1>6, FlushingsSpare
  <2>2. f.disk[n] # Old
    BY <1>1, <1>6 DEF CanCreate, Absent, Old
  <2>3. QED
    BY <1>3, <2>1, <2>2 DEF Spares, Own, New
<1>7. DOMAIN obj' = {"name", "at", "cache", "owed"} /\ obj'.name = n
  BY <1>1 DEF NoObject
<1>8. Closed \notin DOMAIN disk'
  BY <1>2, <1>3 DEF SameBut, Ready
<1>9. QED
  BY <1>2, <1>3, <1>5, <1>6, <1>7, <1>8 DEF Ready, SameBut

\* close() and destroy() delete what del() is told to, if that is the operation's own.
LEMMA DeletesSpare ==
  ASSUME NEW ow, Ready(ow), NEW gone, NEW n, ~ow /\ gone => Own(disk, n),
         CloseDelete(gone, n) \/ Destroy(gone, n)
  PROVE  Ready(ow)' /\ DOMAIN disk' = DOMAIN disk /\ (~ow => Spares(disk, disk'))
<1>1. PICK f \in Flushings :
        /\ disk' = (IF gone THEN Without(f.disk, n) ELSE f.disk)
        /\ obj' = [NoObject EXCEPT !.cache = f.cache] \/ obj' = NoObject
  BY DEF CloseDelete, Destroy
<1>2. IsDisk(f.disk) /\ SameBut(disk, f.disk, obj.name)
  BY <1>1, FlushingsSafe DEF Ready
<1>3. DOMAIN obj' = {"name", "at", "cache", "owed"} /\ obj'.name = Closed
  BY <1>1 DEF NoObject
<1>4. CASE disk' = f.disk
  BY <1>1, <1>2, <1>3, <1>4, FlushingsSpare DEF Ready, SameBut, Own
<1>5. CASE gone /\ n \in DOMAIN f.disk /\ disk' = [f.disk EXCEPT ![n] = Absent]
  <2>1. DOMAIN disk' = DOMAIN f.disk /\ \A k \in DOMAIN f.disk : disk'[k] = IF k = n THEN Absent ELSE f.disk[k]
    BY <1>2, <1>5 DEF IsDisk
  <2>2. disk' = [k \in DOMAIN disk' |-> disk'[k]]
    BY <1>5
  <2>3. IsDisk(disk')
    BY <1>2, <2>1, <2>2 DEF IsDisk, IsFile, Absent
  <2>4. Closed \notin DOMAIN disk'
    BY <1>2, <2>1 DEF SameBut, Ready
  <2>5. ASSUME ~ow PROVE Spares(disk, disk')
    <3>1. Spares(disk, f.disk)
      BY <1>1, <2>5, FlushingsSpare
    <3>2. disk[n] # Old
      BY <1>2, <1>5, <2>5 DEF Own, Old, SameBut
    <3>3. QED
      BY <2>1, <3>1, <3>2 DEF Spares, Own, Absent
  <2>6. QED
    BY <1>2, <1>3, <2>1, <2>3, <2>4, <2>5 DEF Ready, Own, SameBut
<1>6. QED
  BY <1>1, <1>4, <1>5 DEF Without

-----------------------------------------------------------------------------
(* The operation *)

\* What is to be deleted is the operation's own, and del_on_close is not set
\* when the next archive is named.
NamesSafe ==
  /\ nfile \in Nat
  /\ del /\ ~cmd.overwrite => Own(disk, name)
  /\ st = "outopen" => ~del
  /\ Is({"each"}) /\ nfile = 0 => ~del

ArchiveSafe == Ready(cmd.overwrite) /\ DOMAIN disk = Archives /\ NamesSafe

\* What a step has to show: the invariant, and that it spared older files.
StepIsSafe == ArchiveSafe' /\ (~cmd.overwrite => Spares(disk, disk'))

LEMMA InitSafe == Init => ArchiveSafe
<1> SUFFICES ASSUME Init PROVE ArchiveSafe
  OBVIOUS
<1>1. disk \in [Archives -> {Absent, Old}] /\ obj = NoObject
  BY DEF Init, OutputInit
<1>2. Closed \notin Archives
  <2>1. cmd.tops \in Seq(Nat)
    BY ArchiveAssumption DEF Init
  <2>2. Len(cmd.tops) \in Nat
    BY <2>1
  <2>3. QED
    BY <2>2 DEF Archives, Closed
<1>3. \A n \in Archives : IsFile(disk[n])
  BY <1>1 DEF IsFile, Absent, Old
<1>4. Ready(cmd.overwrite)
  BY <1>1, <1>2, <1>3 DEF Ready, IsDisk, NoObject, Own
<1>5. QED
  BY <1>1, <1>4 DEF ArchiveSafe, NamesSafe, Init

\* Steps of the walk, the reader and the format writers: no file is touched.
LEMMA LoopStep ==
  ASSUME ArchiveSafe, UNCHANGED <<cmd, name, del, nfile, outvars>>,
         st' = "outopen" => ~del
  PROVE  StepIsSafe
<1>1. Ready(cmd.overwrite)' /\ (~cmd.overwrite => Spares(disk, disk')) /\ disk' = disk
  BY DEF ArchiveSafe, Ready, Spares, outvars
<1>2. QED
  BY <1>1 DEF ArchiveSafe, NamesSafe, StepIsSafe, Archives, Is

\* Steps that write, or close an archive that is complete.
LEMMA WriteStep ==
  ASSUME ArchiveSafe, UNCHANGED <<cmd, nfile>>, NEW piece_, NEW o, NEW err,
         \/ FlushUnchecked \/ Flush(err) \/ Close
         \/ WriteWhole(piece_, o) \/ WritePart(piece_) \/ UNCHANGED outvars,
         ~del' \/ (del' = del /\ name' = name),
         st' = "outopen" => ~del'
  PROVE  StepIsSafe
<1>1. Ready(cmd.overwrite)' /\ DOMAIN disk' = DOMAIN disk /\ (~cmd.overwrite => Spares(disk, disk'))
  BY CallsSpare DEF ArchiveSafe, Ready
<1>2. QED
  BY <1>1 DEF ArchiveSafe, NamesSafe, StepIsSafe, Archives, Is, Spares

\* I_OUT_OPEN names the archive when nothing is to be deleted.
LEMMA OpenStep == ASSUME ArchiveSafe, OpenArchive PROVE StepIsSafe
<1> USE DEF OpenArchive, At
<1>1. UNCHANGED cmd /\ st = "outopen" /\ ~del
  BY DEF Goto, GoEnd, OpenFailed, ArchiveSafe, NamesSafe
<1>2. CASE complete
  BY <1>1, <1>2, LoopStep DEF GoEnd, result
<1>3. ASSUME ~complete, NEW n, n = name', OpenFile(n, cmd.overwrite), del', st' # "outopen",
             nfile' = IF Is({"each"}) THEN nfile + 1 ELSE nfile
      PROVE  StepIsSafe
  <2>1. /\ Ready(cmd.overwrite)' /\ DOMAIN disk' = DOMAIN disk
        /\ ~cmd.overwrite => Spares(disk, disk') /\ Own(disk', n)
    BY <1>1, <1>3, OpenFileSpares DEF ArchiveSafe, Ready
  <2>2. QED
    BY <1>1, <1>3, <2>1 DEF ArchiveSafe, NamesSafe, StepIsSafe, Archives, Is
<1>4. ASSUME ~complete, NEW n, OpenFails(n, cmd.overwrite), del' = del, st' # "outopen",
             nfile' = IF Is({"each"}) THEN nfile + 1 ELSE nfile
      PROVE  StepIsSafe
  <2>1. /\ Ready(cmd.overwrite)' /\ DOMAIN disk' = DOMAIN disk
        /\ ~cmd.overwrite => Spares(disk, disk')
    BY <1>1, <1>4, OpenFailsSpares DEF ArchiveSafe, Ready
  <2>2. QED
    BY <1>1, <1>4, <2>1 DEF ArchiveSafe, NamesSafe, StepIsSafe, Archives, Is
<1>5. QED
  BY <1>1, <1>2, <1>3, <1>4 DEF Goto, GoEnd, OpenFailed

\* tar_close(), zip_close(), iso_close()
LEMMA FinishStep == ASSUME ArchiveSafe, Finish PROVE StepIsSafe
<1>1. UNCHANGED <<cmd, name, del, nfile>> /\ Destroy(del, name) /\ st' # "outopen"
  BY DEF Finish, many, result
<1>2. /\ Ready(cmd.overwrite)' /\ DOMAIN disk' = DOMAIN disk
      /\ ~cmd.overwrite => Spares(disk, disk')
  BY <1>1, DeletesSpare DEF ArchiveSafe, NamesSafe, Ready
<1>3. QED
  BY <1>1, <1>2 DEF ArchiveSafe, NamesSafe, StepIsSafe, Archives, Is, Spares

LEMMA NextStep == ASSUME ArchiveSafe, [Next]_vars PROVE StepIsSafe
<1> USE DEF At, Goto, GoEnd, outvars, walk, reader, writer, many, result
<1>1. CASE UNCHANGED vars \/ Signal \/ Stop
  BY <1>1, LoopStep DEF vars, Signal, Stop, ArchiveSafe, NamesSafe
<1>2. CASE NextEntry \/ Info
  BY <1>2, LoopStep DEF NextEntry, Info, Given, InputFails, CannotOpen
<1>3. CASE NextOfEach
  <2>1. UNCHANGED <<cmd, name, del, nfile, outvars>>
    BY <1>3 DEF NextOfEach, Given, InputFails
  <2>2. st' = "outopen" => nfile = 0 /\ Is({"each"})
    BY <1>3 DEF NextOfEach, Given, InputFails
  <2>3. QED
    BY <2>1, <2>2, LoopStep DEF ArchiveSafe, NamesSafe
<1>4. CASE TarAdd \/ ZipAdd
  BY <1>4, LoopStep DEF TarAdd, ZipAdd
<1>5. CASE ReadEntry \/ IsoNextOpen \/ IsoRead
  BY <1>5, LoopStep DEF ReadEntry, IsoNextOpen, IsoRead
<1>6. CASE TarProc \/ ZipProc \/ IsoProc
  BY <1>6, LoopStep DEF TarProc, ZipProc, IsoProc, Gives, GivesNext, GivesData, Asks
<1>7. CASE OpenArchive
  BY <1>7, OpenStep
<1>8. CASE Write
  BY <1>8, WriteStep DEF Write
<1>9. CASE TarFlush
  BY <1>9, WriteStep DEF TarFlush
<1>10. CASE Done \/ ZipDone
  BY <1>10, WriteStep DEF Done, ZipDone
<1>11. CASE Finish
  BY <1>11, FinishStep
<1>12. QED
  BY <1>1, <1>2, <1>3, <1>4, <1>5, <1>6, <1>7, <1>8, <1>9, <1>10, <1>11
  DEF Next, Step, TarRun, ZipRun, ZipRunEach, IsoRun

\* The invariant of the names: what is open or to be deleted is the operation's own.
THEOREM ArchiveInvariant == Spec => []ArchiveSafe
<1>1. ArchiveSafe /\ [Next]_vars => ArchiveSafe'
  BY NextStep DEF StepIsSafe
<1>2. QED
  BY <1>1, InitSafe, PTL DEF Spec

\* Whatever fails, and whenever the operation is stopped, tar, zip, zip --each and
\* iso leave every older file as it is if there is no --overwrite.
THEOREM ArchiveSparesOldFiles == Spec => OldFilesStay
<1>1. ArchiveSafe /\ [Next]_vars =>
        [\A a \in Archives : (disk[a] = Old /\ ~cmd.overwrite) => disk'[a] = Old]_vars
  BY NextStep DEF StepIsSafe, ArchiveSafe, Spares
<1>2. QED
  BY <1>1, ArchiveInvariant, PTL DEF Spec, OldFilesStay

-----------------------------------------------------------------------------
(* A forest, and the walk through it *)

\* The entry that comes behind e and all that is below it.
Past(t, e) == IF e = 0 THEN 1 ELSE t[e].last + 1
DirIn(t, e) == t[e].kind \in {"dir", "nameless"}
\* Entry e is below directories only.
ReachIn(t, e) == \A d \in 1 .. e - 1 : e <= t[d].last => DirIn(t, d)
\* None of the entries m .. n is.
Bare(t, m, n) == \A x \in m .. n : ~ReachIn(t, x)

\* What the assumptions say of a command.
Nested(t) ==
  /\ Len(t) \in Nat
  /\ \A e \in 1 .. Len(t) :
       /\ t[e].last \in e .. Len(t) /\ t[e].kind \in Kinds /\ t[e].size \in Nat
       /\ \A d \in e .. t[e].last : t[d].last <= t[e].last
Subs(t) == \A e \in 1 .. Len(t) : t[e].sub \in Seq(Nat) /\ Chain(t, t[e].sub, e + 1, t[e].last)
TopsIn(c) ==
  /\ Len(c.tops) \in Nat
  /\ \A k \in 1 .. Len(c.tops) : c.tops[k] \in 1 .. Len(c.tree)
  /\ Len(c.tree) # 0 => Len(c.tops) # 0 /\ c.tops[1] = 1 /\ c.tree[c.tops[Len(c.tops)]].last = Len(c.tree)
  /\ \A k \in 1 .. Len(c.tops) - 1 : c.tops[k + 1] = c.tree[c.tops[k]].last + 1
  /\ \A j, k \in 1 .. Len(c.tops) : j < k => c.tops[j] < c.tops[k]
  /\ \A e \in 1 .. Len(c.tree), k \in 1 .. Len(c.tops) : e < c.tops[k] => c.tree[e].last < c.tops[k]

\* What the walk has given (e last, with n names of the command line), and what it has
\* still to give; d says whether input_dir() was called for e.
Walked(c, w, d, e, n) ==
  /\ w \in Seq(Nat) /\ Chain(c.tree, w, Past(c.tree, e), Len(c.tree))
  /\ e \in 0 .. Len(c.tree) /\ n \in 0 .. Len(c.tops)
  /\ e # 0 => ReachIn(c.tree, e)
  /\ d => e # 0 /\ DirIn(c.tree, e)
  /\ \A k \in 1 .. Len(c.tops) : c.tops[k] <= e <=> k <= n
Skips(t, d, e) == d \/ Bare(t, e + 1, Past(t, e) - 1)

LEMMA Items ==
  ASSUME NEW S, NEW s \in Seq(S)
  PROVE  Len(s) \in Nat /\ \A k \in 1 .. Len(s) : s[k] \in S
  OBVIOUS

LEMMA CommandIs ==
  ASSUME NEW c \in Commands
  PROVE  /\ Nested(c.tree) /\ Subs(c.tree) /\ TopsIn(c)
         /\ c.op \in Ops /\ c.overwrite \in BOOLEAN
         /\ c.tops \in Seq(Nat) /\ Chain(c.tree, c.tops, 1, Len(c.tree))
<1>1. /\ c.op \in Ops /\ c.overwrite \in BOOLEAN
      /\ c.tree \in Seq([kind : Kinds, size : Nat, sub : Seq(Nat), last : Nat])
      /\ c.tops \in Seq(Nat) /\ Forest(c.tree, c.tops)
  BY ArchiveAssumption
<1>2. Len(c.tree) \in Nat /\ \A e \in 1 .. Len(c.tree) : c.tree[e] \in [kind : Kinds, size : Nat, sub : Seq(Nat), last : Nat]
  BY <1>1, Items
<1>3. \A e \in 1 .. Len(c.tree) : c.tree[e].kind \in Kinds /\ c.tree[e].size \in Nat /\ c.tree[e].sub \in Seq(Nat)
  BY <1>2
<1>4. Nested(c.tree)
  BY <1>1, <1>2, <1>3 DEF Nested, Forest
<1>5. Subs(c.tree)
  BY <1>1, <1>3 DEF Subs, Forest
<1>6. Chain(c.tree, c.tops, 1, Len(c.tree)) /\ Len(c.tops) \in Nat
  BY <1>1 DEF Forest
<1>7. Len(c.tops) # 0 <=> c.tops # <<>>
  BY <1>1
<1>8. \A k \in 1 .. Len(c.tops) : c.tops[k] \in 1 .. Len(c.tree)
  BY <1>6 DEF Chain
<1>9. Len(c.tree) # 0 => Len(c.tops) # 0 /\ c.tops[1] = 1 /\ c.tree[c.tops[Len(c.tops)]].last = Len(c.tree)
  BY <1>2, <1>6, <1>7 DEF Chain
<1>10. \A j, k \in 1 .. Len(c.tops) : j < k => c.tops[j] < c.tops[k]
  <2> TAKE j, k \in 1 .. Len(c.tops)
  <2>1. j < k => c.tree[c.tops[j]].last < c.tops[k]
    BY <1>6 DEF Chain
  <2>2. c.tops[j] \in 1 .. Len(c.tree) /\ c.tops[k] \in 1 .. Len(c.tree)
    BY <1>8
  <2>3. c.tree[c.tops[j]].last \in c.tops[j] .. Len(c.tree)
    BY <2>2, <1>4 DEF Nested
  <2>4. PICK a, b, l, z : a = c.tops[j] /\ b = c.tops[k] /\ l = c.tree[c.tops[j]].last /\ z = Len(c.tree)
    OBVIOUS
  <2>5. a \in 1 .. z /\ b \in 1 .. z /\ l \in a .. z
    BY <2>2, <2>3, <2>4
  <2>6. l < b => a < b
    BY <2>5
  <2>7. QED
    BY <2>1, <2>4, <2>6
<1>11. TopsIn(c)
  <2>1. \A k \in 1 .. Len(c.tops) - 1 : c.tops[k + 1] = c.tree[c.tops[k]].last + 1
    BY <1>6 DEF Chain
  <2>2. \A e \in 1 .. Len(c.tree), k \in 1 .. Len(c.tops) : e < c.tops[k] => c.tree[e].last < c.tops[k]
    BY <1>1 DEF Forest
  <2>3. QED
    BY <1>6, <1>8, <1>9, <1>10, <2>1, <2>2 DEF TopsIn
<1>12. QED
  BY <1>1, <1>4, <1>5, <1>6, <1>11

\* The rest of a chain, and two chains.
LEMMA ChainTail ==
  ASSUME NEW t, Nested(t), NEW s \in Seq(Nat), NEW m \in Nat, NEW n \in Nat, m >= 1, n <= Len(t),
         Chain(t, s, m, n), s # <<>>
  PROVE  /\ Head(s) = m /\ m <= n /\ Tail(s) \in Seq(Nat)
         /\ Chain(t, Tail(s), t[m].last + 1, n)
<1>1. Len(s) \in Nat /\ Len(s) >= 1 /\ Head(s) = s[1]
  OBVIOUS
<1>2. s[1] = m /\ t[s[Len(s)]].last = n /\ \A k \in 1 .. Len(s) : s[k] \in m .. n
  BY <1>1 DEF Chain
<1>3. m <= n /\ m \in 1 .. Len(t)
  BY <1>1, <1>2 DEF Nested
<1>4. Tail(s) \in Seq(Nat) /\ Len(Tail(s)) = Len(s) - 1 /\ \A k \in 1 .. Len(s) - 1 : Tail(s)[k] = s[k + 1]
  OBVIOUS
<1>5. /\ \A k \in 1 .. Len(s) - 1 : s[k + 1] = t[s[k]].last + 1
      /\ \A j, k \in 1 .. Len(s) : j < k => t[s[j]].last < s[k]
  BY DEF Chain
<1>6. t[m].last \in m .. Len(t)
  BY <1>3 DEF Nested
<1> DEFINE r == Tail(s)
<1>7. r = <<>> <=> Len(r) = 0
  <2>1. r \in Seq(Nat)
    BY <1>4
  <2> HIDE DEF r
  <2>2. QED
    BY <2>1
<1> HIDE DEF r
<1>8. IF r = <<>> THEN t[m].last + 1 = n + 1 ELSE r[1] = t[m].last + 1 /\ t[r[Len(r)]].last = n
  <2>1. CASE r = <<>>
    BY <1>1, <1>2, <1>4, <1>7, <2>1 DEF r
  <2>2. CASE r # <<>>
    <3>1. Len(s) >= 2
      BY <1>1, <1>4, <1>7, <2>2 DEF r
    <3>2. r[1] = s[2] /\ r[Len(r)] = s[Len(s)]
      BY <1>1, <1>4, <3>1 DEF r
    <3>3. s[1 + 1] = t[s[1]].last + 1
      BY <1>1, <1>5, <3>1
    <3>4. QED
      BY <1>2, <2>2, <3>2, <3>3
  <2>3. QED
    BY <2>1, <2>2
<1>9. \A k \in 1 .. Len(r) : r[k] \in t[m].last + 1 .. n
  <2> TAKE k \in 1 .. Len(r)
  <2>1. r[k] = s[k + 1] /\ k + 1 \in 1 .. Len(s) /\ 1 \in 1 .. Len(s)
    BY <1>1, <1>4 DEF r
  <2>2. t[s[1]].last < s[k + 1]
    BY <1>1, <1>4, <1>5, <2>1
  <2>3. PICK a, l : a = s[k + 1] /\ l = t[m].last
    OBVIOUS
  <2>4. l \in Int
    BY <1>6, <2>3
  <2>5. l < a /\ a \in m .. n
    BY <1>2, <2>1, <2>2, <2>3
  <2>6. a \in l + 1 .. n
    BY <2>4, <2>5
  <2>7. QED
    BY <2>1, <2>3, <2>6
<1>10. \A k \in 1 .. Len(r) - 1 : r[k + 1] = t[r[k]].last + 1
  <2> TAKE k \in 1 .. Len(r) - 1
  <2>1. Len(r) = Len(s) - 1 /\ \A i \in 1 .. Len(s) - 1 : r[i] = s[i + 1]
    BY <1>4 DEF r
  <2>2. k \in 1 .. Len(s) - 1 /\ k + 1 \in 1 .. Len(s) - 1
    BY <1>4, <2>1
  <2>3. r[k] = s[k + 1] /\ r[k + 1] = s[(k + 1) + 1]
    BY <2>1, <2>2
  <2>4. s[(k + 1) + 1] = t[s[k + 1]].last + 1
    BY <1>5, <2>2
  <2>5. QED
    BY <2>3, <2>4
<1>11. \A j, k \in 1 .. Len(r) : j < k => t[r[j]].last < r[k]
  <2> TAKE j, k \in 1 .. Len(r)
  <2> HAVE j < k
  <2>1. Len(r) = Len(s) - 1 /\ \A i \in 1 .. Len(s) - 1 : r[i] = s[i + 1]
    BY <1>4 DEF r
  <2>2. r[j] = s[j + 1] /\ r[k] = s[k + 1]
    BY <2>1
  <2>3. j + 1 \in 1 .. Len(s) /\ k + 1 \in 1 .. Len(s) /\ j + 1 < k + 1
    BY <1>4, <2>1
  <2>4. t[s[j + 1]].last < s[k + 1]
    BY <1>5, <2>3
  <2>5. QED
    BY <2>2, <2>4
<1>12. Chain(t, r, t[m].last + 1, n)
  BY <1>8, <1>9, <1>10, <1>11 DEF Chain
<1>13. QED
  BY <1>1, <1>2, <1>3, <1>4, <1>12 DEF r

\* The end of what an entry holds is a number, the place of an entry.
LEMMA LastIsNumber ==
  ASSUME NEW t, Nested(t)
  PROVE  Len(t) \in Nat /\ \A e \in 1 .. Len(t) : t[e].last \in Int
<1>1. Len(t) \in Nat /\ \A e \in 1 .. Len(t) : t[e].last \in e .. Len(t)
  BY DEF Nested
<1>2. ASSUME NEW e \in 1 .. Len(t) PROVE t[e].last \in Int
  <2>1. PICK a, b : a = t[e].last /\ b = Len(t)
    OBVIOUS
  <2>2. a \in e .. b
    BY <1>1, <2>1
  <2>3. a \in Int
    BY <2>2
  <2>4. QED
    BY <2>1, <2>3
<1>3. QED
  BY <1>1, <1>2

\* Two walks one after the other are a walk.
LEMMA ChainCat ==
  ASSUME NEW t, Nested(t), NEW s \in Seq(Nat), NEW r \in Seq(Nat), NEW m \in Nat, NEW n \in Nat, NEW h \in Nat, NEW q \in Nat,
         m >= 1, m <= n + 1, h = n + 1, n <= q, q <= Len(t), Chain(t, s, m, n), Chain(t, r, h, q)
  PROVE  Chain(t, s \o r, m, q)
<1>1. CASE s = <<>>
  <2>1. s \o r = r /\ m = h
    BY <1>1 DEF Chain
  <2>2. QED
    BY <2>1
<1>2. CASE r = <<>>
  <2>1. s \o r = s /\ n = q
    BY <1>2 DEF Chain
  <2>2. QED
    BY <2>1
<1>3. CASE s # <<>> /\ r # <<>>
  <2> DEFINE u == s \o r
  <2>1. /\ Len(s) \in Nat /\ Len(r) \in Nat /\ Len(s) >= 1 /\ Len(r) >= 1 /\ Len(u) = Len(s) + Len(r)
        /\ \A k \in 1 .. Len(u) : u[k] = IF k <= Len(s) THEN s[k] ELSE r[k - Len(s)]
        /\ u # <<>>
    BY <1>3
  <2>2. /\ s[1] = m /\ t[s[Len(s)]].last = n /\ \A k \in 1 .. Len(s) : s[k] \in m .. n
        /\ \A k \in 1 .. Len(s) - 1 : s[k + 1] = t[s[k]].last + 1
        /\ \A j, k \in 1 .. Len(s) : j < k => t[s[j]].last < s[k]
    BY <1>3 DEF Chain
  <2>3. /\ r[1] = n + 1 /\ t[r[Len(r)]].last = q /\ \A k \in 1 .. Len(r) : r[k] \in n + 1 .. q
        /\ \A k \in 1 .. Len(r) - 1 : r[k + 1] = t[r[k]].last + 1
        /\ \A j, k \in 1 .. Len(r) : j < k => t[r[j]].last < r[k]
    BY <1>3 DEF Chain
  <2>0. Len(s) \in Nat /\ Len(r) \in Nat /\ Len(s) >= 1 /\ Len(r) >= 1 /\ Len(u) = Len(s) + Len(r)
    BY <2>1
  <2> HIDE DEF u
  <2>4. u[1] = m /\ t[u[Len(u)]].last = q
    <3>1. u[1] = s[1]
      BY <2>1
    <3>2. u[Len(u)] = r[Len(r)]
      <4>1. Len(u) \in 1 .. Len(u) /\ ~(Len(u) <= Len(s)) /\ Len(u) - Len(s) = Len(r)
        BY <2>1
      <4>2. QED
        BY <2>1, <4>1
    <3>3. QED
      BY <2>2, <2>3, <3>1, <3>2
  <2>5. \A k \in 1 .. Len(u) : u[k] \in m .. q
    <3> TAKE k \in 1 .. Len(u)
    <3>1. CASE k <= Len(s)
      <4>1. k \in 1 .. Len(s) /\ u[k] = s[k]
        BY <2>1, <3>1
      <4>2. s[k] \in m .. n
        BY <2>2, <4>1
      <4>3. QED
        BY <4>1, <4>2
    <3>2. CASE k > Len(s)
      <4>1. k - Len(s) \in 1 .. Len(r) /\ u[k] = r[k - Len(s)]
        BY <2>1, <3>2
      <4>2. r[k - Len(s)] \in n + 1 .. q
        BY <2>3, <4>1
      <4>3. QED
        BY <4>1, <4>2
    <3>3. QED
      BY <2>1, <3>1, <3>2
  <2>6. \A k \in 1 .. Len(u) - 1 : u[k + 1] = t[u[k]].last + 1
    <3> TAKE k \in 1 .. Len(u) - 1
    <3>1. CASE k < Len(s)
      <4>1. PICK i : i = k + 1
        OBVIOUS
      <4>2. k \in 1 .. Len(s) - 1 /\ k \in 1 .. Len(u) /\ k <= Len(s)
        <5>1. PICK a, b : a = Len(s) /\ b = Len(u)
          OBVIOUS
        <5>2. a \in Nat /\ b \in Nat /\ k \in 1 .. b - 1 /\ k < a
          BY <2>0, <3>1, <5>1
        <5>3. k \in 1 .. a - 1 /\ k \in 1 .. b /\ k <= a
          BY <5>2
        <5>4. QED
          BY <5>1, <5>3
      <4>3. i \in 1 .. Len(u) /\ i <= Len(s)
        BY <2>0, <3>1, <4>1
      <4>4. u[k] = s[k]
        BY <2>1, <4>2
      <4>5. u[i] = s[i]
        BY <2>1, <4>3
      <4>6. s[k + 1] = t[s[k]].last + 1
        BY <2>2, <4>2
      <4>7. QED
        BY <4>1, <4>4, <4>5, <4>6
    <3>2. CASE k = Len(s)
      <4>1. u[k] = s[Len(s)]
        BY <2>1, <3>2
      <4>2. PICK i : i = k + 1
        OBVIOUS
      <4>3. i \in 1 .. Len(u) /\ ~(i <= Len(s)) /\ i - Len(s) = 1
        BY <2>0, <3>2, <4>2
      <4>4. u[i] = r[i - Len(s)]
        BY <2>1, <4>3
      <4>5. u[k + 1] = r[1]
        BY <4>2, <4>3, <4>4
      <4>6. QED
        BY <2>2, <2>3, <4>1, <4>5, <3>2
    <3>3. CASE k > Len(s)
      <4>1. k - Len(s) \in 1 .. Len(r) - 1 /\ (k + 1) - Len(s) = (k - Len(s)) + 1
        BY <2>0, <3>3
      <4>2. k + 1 \in 1 .. Len(u) /\ ~(k + 1 <= Len(s)) /\ k \in 1 .. Len(u) /\ ~(k <= Len(s))
        BY <2>0, <3>3
      <4>3. u[k + 1] = r[(k + 1) - Len(s)]
        BY <2>1, <4>2
      <4>4. u[k] = r[k - Len(s)]
        BY <2>1, <4>2
      <4>5. r[(k - Len(s)) + 1] = t[r[k - Len(s)]].last + 1
        BY <2>3, <4>1
      <4>6. QED
        BY <4>1, <4>3, <4>4, <4>5
    <3>4. QED
      BY <2>1, <3>1, <3>2, <3>3
  <2>61. \A x \in m .. n : x \in 1 .. Len(t)
    <3>1. PICK l : l = Len(t)
      OBVIOUS
    <3>2. l \in Int /\ q <= l
      BY <3>1, LastIsNumber
    <3>3. \A x \in m .. n : x \in 1 .. l
      BY <3>2
    <3>4. QED
      BY <3>1, <3>3
  <2>7. \A j \in 1 .. Len(s) : t[s[j]].last <= n
    <3> TAKE j \in 1 .. Len(s)
    <3>1. CASE j = Len(s)
      BY <2>1, <2>2, <3>1
    <3>2. CASE j < Len(s)
      <4>1. j \in 1 .. Len(s) /\ Len(s) \in 1 .. Len(s)
        BY <2>0
      <4>2. t[s[j]].last < s[Len(s)]
        BY <2>2, <3>2, <4>1
      <4>3. s[Len(s)] \in m .. n /\ s[j] \in m .. n
        BY <2>2, <4>1
      <4>4. Len(t) \in Nat /\ \A e \in 1 .. Len(t) : t[e].last \in Int
        BY LastIsNumber
      <4>5. s[j] \in 1 .. Len(t)
        BY <2>61, <4>3
      <4>6. t[s[j]].last \in Int
        BY <4>4, <4>5
      <4>7. PICK a, b : a = t[s[j]].last /\ b = s[Len(s)]
        OBVIOUS
      <4>8. a \in Int
        BY <4>6, <4>7
      <4>9. b \in Int /\ b <= n
        BY <4>3, <4>7
      <4>10. a < b
        BY <4>2, <4>7
      <4>11. a <= n
        BY <4>8, <4>9, <4>10
      <4>12. QED
        BY <4>7, <4>11
    <3>3. QED
      BY <2>1, <3>1, <3>2
  <2>8. \A j, k \in 1 .. Len(u) : j < k => t[u[j]].last < u[k]
    <3> TAKE j, k \in 1 .. Len(u)
    <3> HAVE j < k
    <3>1. CASE k <= Len(s)
      <4>1. k \in 1 .. Len(s) /\ j \in 1 .. Len(s) /\ u[k] = s[k] /\ u[j] = s[j]
        BY <2>1, <3>1
      <4>2. QED
        BY <2>2, <4>1
    <3>2. CASE j <= Len(s) /\ k > Len(s)
      <4>1. k - Len(s) \in 1 .. Len(r) /\ u[k] = r[k - Len(s)] /\ u[j] = s[j] /\ j \in 1 .. Len(s)
        BY <2>1, <3>2
      <4>2. u[k] \in n + 1 .. q /\ t[s[j]].last <= n /\ s[j] \in m .. n
        BY <2>2, <2>3, <2>7, <4>1
      <4>3. Len(t) \in Nat /\ \A e \in 1 .. Len(t) : t[e].last \in Int
        BY LastIsNumber
      <4>4. s[j] \in 1 .. Len(t)
        BY <2>61, <4>2
      <4>5. t[s[j]].last \in Int
        BY <4>3, <4>4
      <4>6. PICK a, b : a = t[s[j]].last /\ b = u[k]
        OBVIOUS
      <4>7. a \in Int
        BY <4>5, <4>6
      <4>8. a <= n /\ b \in n + 1 .. q
        BY <4>2, <4>6
      <4>9. a < b
        BY <4>7, <4>8
      <4>10. t[u[j]].last = a
        BY <4>1, <4>6
      <4>11. QED
        BY <4>6, <4>9, <4>10
    <3>3. CASE j > Len(s)
      <4>1. j - Len(s) \in 1 .. Len(r) /\ k - Len(s) \in 1 .. Len(r) /\ j - Len(s) < k - Len(s)
        BY <2>0, <3>3
      <4>2. ~(j <= Len(s)) /\ ~(k <= Len(s))
        BY <2>0, <3>3
      <4>3. u[j] = r[j - Len(s)]
        BY <2>1, <4>2
      <4>4. u[k] = r[k - Len(s)]
        BY <2>1, <4>2
      <4>5. t[r[j - Len(s)]].last < r[k - Len(s)]
        BY <2>3, <4>1
      <4>6. QED
        BY <4>3, <4>4, <4>5
    <3>4. QED
      BY <2>1, <3>1, <3>2, <3>3
  <2>9. Chain(t, u, m, q)
    BY <2>1, <2>4, <2>5, <2>6, <2>8 DEF Chain
  <2>10. QED
    BY <2>9 DEF u
<1>4. QED
  BY <1>1, <1>2, <1>3

\* The entry that the walk gives next, and those that it passes over.
Ahead(c, w, d, e) == IF d THEN c.tree[e].sub \o w ELSE w

LEMMA AheadIs ==
  ASSUME NEW c \in Commands, NEW w, NEW d \in BOOLEAN, NEW e, NEW n, Walked(c, w, d, e, n)
  PROVE  /\ Ahead(c, w, d, e) \in Seq(Nat)
         /\ Chain(c.tree, Ahead(c, w, d, e), IF d THEN e + 1 ELSE Past(c.tree, e), Len(c.tree))
         /\ Past(c.tree, e) \in e + 1 .. Len(c.tree) + 1
<1>1. Nested(c.tree) /\ Subs(c.tree) /\ Len(c.tree) \in Nat
  BY CommandIs DEF Nested
<1>2. /\ w \in Seq(Nat) /\ Chain(c.tree, w, Past(c.tree, e), Len(c.tree))
      /\ e \in 0 .. Len(c.tree) /\ (d => e # 0)
  BY DEF Walked
<1>3. Past(c.tree, e) \in e + 1 .. Len(c.tree) + 1
  <2>1. CASE e = 0
    BY <1>1, <2>1 DEF Past
  <2>2. CASE e # 0
    BY <1>1, <1>2, <2>2 DEF Past, Nested
  <2>3. QED
    BY <2>1, <2>2
<1>4. CASE ~d
  BY <1>2, <1>3, <1>4 DEF Ahead
<1>5. CASE d
  <2>1. e \in 1 .. Len(c.tree)
    BY <1>1, <1>2, <1>5
  <2>2. c.tree[e].sub \in Seq(Nat) /\ Chain(c.tree, c.tree[e].sub, e + 1, c.tree[e].last)
    BY <1>1, <2>1 DEF Subs
  <2>3. c.tree[e].last \in e .. Len(c.tree) /\ Past(c.tree, e) = c.tree[e].last + 1
    BY <1>1, <2>1 DEF Nested, Past
  <2>4. PICK m, l, h : m = e + 1 /\ l = c.tree[e].last /\ h = c.tree[e].last + 1
    OBVIOUS
  <2>5. m \in Nat /\ l \in Nat /\ h \in Nat /\ m >= 1 /\ m <= l + 1 /\ h = l + 1 /\ l <= Len(c.tree)
    BY <1>1, <2>1, <2>3, <2>4
  <2>6. Chain(c.tree, c.tree[e].sub, m, l) /\ Chain(c.tree, w, h, Len(c.tree))
    BY <1>2, <2>2, <2>3, <2>4
  <2>7. Chain(c.tree, c.tree[e].sub \o w, m, Len(c.tree))
    <3>1. PICK t, s, q : t = c.tree /\ s = c.tree[e].sub /\ q = Len(c.tree)
      OBVIOUS
    <3>2. Nested(t) /\ s \in Seq(Nat) /\ w \in Seq(Nat) /\ q \in Nat /\ q = Len(t)
      BY <1>1, <1>2, <2>2, <3>1
    <3>3. Chain(t, s, m, l) /\ Chain(t, w, h, q)
      BY <2>6, <3>1
    <3>4. m \in Nat /\ l \in Nat /\ h \in Nat /\ m >= 1 /\ m <= l + 1 /\ h = l + 1 /\ l <= q /\ q <= Len(t)
      BY <2>5, <3>1, <3>2
    <3>5. Chain(t, s \o w, m, q)
      BY ONLY <3>2, <3>3, <3>4, ChainCat
    <3>6. QED
      BY <3>1, <3>5
  <2>8. c.tree[e].sub \o w \in Seq(Nat)
    BY <1>2, <2>2
  <2>9. QED
    BY <1>3, <1>5, <2>4, <2>7, <2>8 DEF Ahead
<1>6. QED
  BY <1>4, <1>5

LEMMA TopsMember ==
  ASSUME NEW c \in Commands
  PROVE  \A x : x \in ToSet(c.tops) <=> \E k \in 1 .. Len(c.tops) : c.tops[k] = x
<1>1. c.tops \in Seq(Nat)
  BY CommandIs
<1>2. DOMAIN c.tops = 1 .. Len(c.tops)
  BY <1>1
<1>3. QED
  BY <1>2 DEF ToSet

\* Entry h comes after e.
Comes(c, w, d, e, n, h) ==
  /\ h \in 1 .. Len(c.tree) /\ h > e /\ Bare(c.tree, e + 1, h - 1)
  /\ Walked(c, Tail(Ahead(c, w, d, e)), FALSE, h, IF h \in ToSet(c.tops) THEN n + 1 ELSE n)
  /\ h \in ToSet(c.tops) => n + 1 <= Len(c.tops) /\ c.tops[n + 1] = h

LEMMA WalkGives ==
  ASSUME NEW c \in Commands, NEW w, NEW d \in BOOLEAN, NEW e, NEW n, Walked(c, w, d, e, n), Skips(c.tree, d, e),
         Ahead(c, w, d, e) # <<>>, NEW h, h = Head(Ahead(c, w, d, e))
  PROVE  Comes(c, w, d, e, n, h)
<1> SUFFICES /\ h \in 1 .. Len(c.tree) /\ h > e /\ Bare(c.tree, e + 1, h - 1)
             /\ Walked(c, Tail(Ahead(c, w, d, e)), FALSE, h, IF h \in ToSet(c.tops) THEN n + 1 ELSE n)
             /\ h \in ToSet(c.tops) => n + 1 <= Len(c.tops) /\ c.tops[n + 1] = h
  BY DEF Comes
<1> DEFINE t == c.tree
           m == IF d THEN e + 1 ELSE Past(t, e)
           a == Ahead(c, w, d, e)
<1>1. Nested(t) /\ TopsIn(c) /\ Len(t) \in Nat
  BY CommandIs DEF Nested
<1>2. a \in Seq(Nat) /\ Chain(t, a, m, Len(t)) /\ Past(t, e) \in e + 1 .. Len(t) + 1 /\ a # <<>>
  BY AheadIs
<1>3. /\ e \in 0 .. Len(t) /\ n \in 0 .. Len(c.tops) /\ (e # 0 => ReachIn(t, e)) /\ (d => e # 0 /\ DirIn(t, e))
      /\ \A k \in 1 .. Len(c.tops) : c.tops[k] <= e <=> k <= n
  BY DEF Walked
<1>4. m \in Nat /\ m >= 1
  BY <1>1, <1>2, <1>3
<1> HIDE DEF m
<1>5. h = m /\ m <= Len(t) /\ Tail(a) \in Seq(Nat) /\ Chain(t, Tail(a), t[m].last + 1, Len(t))
  <2>1. PICK q, l, aa : q = t /\ l = Len(t) /\ aa = a
    OBVIOUS
  <2>2. Nested(q) /\ aa \in Seq(Nat) /\ m \in Nat /\ l \in Nat /\ m >= 1 /\ l <= Len(q) /\ Chain(q, aa, m, l) /\ aa # <<>>
    BY <1>1, <1>2, <1>4, <2>1
  <2>3. Head(aa) = m /\ m <= l /\ Tail(aa) \in Seq(Nat) /\ Chain(q, Tail(aa), q[m].last + 1, l)
    BY ONLY <2>2, ChainTail
  <2>4. QED
    BY <2>1, <2>3
<1> HIDE DEF a, t
<1>6. h \in 1 .. Len(t) /\ h > e
  BY <1>1, <1>2, <1>3, <1>4, <1>5 DEF m
<1>7. (d => h = e + 1) /\ (~d => h = Past(t, e))
  BY <1>5 DEF m
<1>8. Bare(t, e + 1, h - 1)
  <2>1. CASE d
    <3>1. h = e + 1
      BY <1>7, <2>1
    <3>2. h - 1 < e + 1
      BY <1>1, <1>3, <3>1
    <3>3. QED
      BY <1>1, <1>3, <1>6, <3>2 DEF Bare
  <2>2. CASE ~d
    BY <1>7, <2>2 DEF Skips, t
  <2>3. QED
    BY <2>1, <2>2
<1>9. ReachIn(t, h)
  <2>1. SUFFICES ASSUME NEW x \in 1 .. h - 1, h <= t[x].last PROVE DirIn(t, x)
    BY DEF ReachIn
  <2>2. x \in 1 .. Len(t) /\ t[x].last \in x .. Len(t)
    BY <1>1, <1>6 DEF Nested
  <2>3. CASE x < e
    <3>1. e \in 1 .. Len(t) /\ x \in 1 .. e - 1 /\ e <= t[x].last
      BY <1>1, <1>3, <1>6, <2>1, <2>2, <2>3
    <3>2. QED
      BY <1>3, <3>1 DEF ReachIn
  <2>4. CASE x >= e
    <3>1. CASE d
      <4>1. h = e + 1
        BY <1>7, <3>1
      <4>2. x = e
        BY <1>1, <1>3, <2>2, <2>4, <4>1
      <4>3. QED
        BY <1>3, <3>1, <4>2
    <3>2. CASE ~d /\ e = 0
      BY <1>7, <3>2 DEF Past
    <3>3. CASE ~d /\ e # 0
      <4>1. h = t[e].last + 1 /\ e \in 1 .. Len(t)
        BY <1>1, <1>3, <1>7, <3>3 DEF Past
      <4>2. x \in e .. t[e].last
        BY <1>1, <2>2, <2>4, <4>1 DEF Nested
      <4>3. t[x].last <= t[e].last /\ t[e].last \in Nat
        BY <1>1, <4>1, <4>2 DEF Nested
      <4>4. QED
        BY <2>1, <2>2, <4>1, <4>3
    <3>4. QED
      BY <3>1, <3>2, <3>3
  <2>5. QED
    BY <1>1, <1>3, <2>2, <2>3, <2>4
\* No entry of the command line is passed over.
<1>10. \A k \in 1 .. Len(c.tops) : c.tops[k] < h <=> k <= n
  <2> TAKE k \in 1 .. Len(c.tops)
  <2>1. c.tops[k] \in 1 .. Len(t)
    BY <1>1 DEF TopsIn, t
  <2>2. ASSUME e < c.tops[k], c.tops[k] < h PROVE FALSE
    <3>1. CASE d
      <4>1. h = e + 1
        BY <1>7, <3>1
      <4>2. QED
        BY <1>1, <1>3, <2>1, <2>2, <4>1
    <3>2. CASE ~d /\ e = 0
      BY <1>7, <2>1, <2>2, <3>2 DEF Past
    <3>3. CASE ~d /\ e # 0
      <4>1. h = t[e].last + 1 /\ e \in 1 .. Len(t)
        BY <1>1, <1>3, <1>7, <3>3 DEF Past
      <4>2. t[e].last < c.tops[k] /\ t[e].last \in Nat
        <5>1. t[e].last \in Nat
          BY <1>1, <4>1 DEF Nested
        <5>2. \A x \in 1 .. Len(t), y \in 1 .. Len(c.tops) : x < c.tops[y] => t[x].last < c.tops[y]
          BY <1>1 DEF TopsIn, t
        <5>3. QED
          BY <2>2, <4>1, <5>1, <5>2
      <4>3. QED
        BY <2>1, <2>2, <4>1, <4>2
    <3>4. QED
      BY <3>1, <3>2, <3>3
  <2>3. QED
    BY <1>3, <1>6, <2>1, <2>2
<1>11. h \in ToSet(c.tops) => n + 1 <= Len(c.tops) /\ c.tops[n + 1] = h
  <2>1. SUFFICES ASSUME NEW k \in 1 .. Len(c.tops), c.tops[k] = h PROVE n + 1 <= Len(c.tops) /\ c.tops[n + 1] = h
    BY TopsMember
  <2>2. k > n /\ Len(c.tops) \in Nat
    BY <1>1, <1>3, <1>6, <1>10, <2>1 DEF TopsIn
  <2>3. n + 1 \in 1 .. Len(c.tops) /\ n + 1 <= k
    BY <1>3, <2>2
  <2>4. CASE n + 1 = k
    BY <2>1, <2>3, <2>4
  <2>5. CASE n + 1 < k
    <3>1. c.tops[n + 1] < h
      BY <1>1, <2>1, <2>3, <2>5 DEF TopsIn
    <3>2. QED
      BY <1>3, <1>10, <2>3, <3>1
  <2>6. QED
    BY <1>3, <2>3, <2>4, <2>5
<1>12. \A k \in 1 .. Len(c.tops) : c.tops[k] <= h <=> k <= (IF h \in ToSet(c.tops) THEN n + 1 ELSE n)
  <2> TAKE k \in 1 .. Len(c.tops)
  <2>1. c.tops[k] \in 1 .. Len(t) /\ (c.tops[k] < h <=> k <= n) /\ Len(c.tops) \in Nat
    BY <1>1, <1>10 DEF TopsIn, t
  <2>2. CASE h \in ToSet(c.tops)
    <3>1. n + 1 \in 1 .. Len(c.tops) /\ c.tops[n + 1] = h
      BY <1>3, <1>11, <2>1, <2>2
    <3>2. k = n + 1 => c.tops[k] = h
      BY <3>1
    <3>3. k > n + 1 => c.tops[k] > h
      BY <1>1, <1>3, <1>6, <3>1, <2>1 DEF TopsIn
    <3>4. QED
      BY <1>3, <1>6, <2>1, <2>2, <3>2, <3>3
  <2>3. CASE h \notin ToSet(c.tops)
    <3>1. c.tops[k] # h
      BY <2>3, TopsMember
    <3>2. QED
      BY <1>3, <1>6, <2>1, <2>3, <3>1
  <2>4. QED
    BY <2>2, <2>3
<1>13. Chain(t, Tail(a), Past(t, h), Len(t))
  BY <1>1, <1>5, <1>6 DEF Past
<1>14. (IF h \in ToSet(c.tops) THEN n + 1 ELSE n) \in 0 .. Len(c.tops)
  BY <1>1, <1>3, <1>11 DEF TopsIn
<1>15. Walked(c, Tail(a), FALSE, h, IF h \in ToSet(c.tops) THEN n + 1 ELSE n)
  <2>1. h \in 0 .. Len(t)
    BY <1>1, <1>6
  <2>2. QED
    BY <1>5, <1>9, <1>12, <1>13, <1>14, <2>1 DEF Walked, t
<1>16. QED
  BY <1>6, <1>8, <1>11, <1>15 DEF a, t

LEMMA WalkEnds ==
  ASSUME NEW c \in Commands, NEW w, NEW d \in BOOLEAN, NEW e, NEW n, Walked(c, w, d, e, n), Skips(c.tree, d, e),
         Ahead(c, w, d, e) = <<>>
  PROVE  /\ w = <<>> /\ Walked(c, <<>>, FALSE, e, n) /\ Skips(c.tree, FALSE, e)
         /\ Bare(c.tree, e + 1, Len(c.tree))
<1>1. Nested(c.tree) /\ Subs(c.tree) /\ Len(c.tree) \in Nat /\ e \in 0 .. Len(c.tree)
  BY CommandIs DEF Nested, Walked
<1>2. /\ Chain(c.tree, <<>>, IF d THEN e + 1 ELSE Past(c.tree, e), Len(c.tree))
      /\ Past(c.tree, e) \in e + 1 .. Len(c.tree) + 1
  BY AheadIs
<1>3. (IF d THEN e + 1 ELSE Past(c.tree, e)) = Len(c.tree) + 1
  BY <1>2 DEF Chain
<1>4. w = <<>>
  <2>1. CASE ~d
    BY <2>1 DEF Ahead
  <2>2. CASE d
    <3>1. e \in 1 .. Len(c.tree) /\ w \in Seq(Nat)
      BY <1>1, <2>2 DEF Walked
    <3>2. c.tree[e].sub \in Seq(Nat) /\ c.tree[e].sub \o w = <<>>
      BY <1>1, <2>2, <3>1 DEF Subs, Ahead
    <3>3. QED
      BY <3>1, <3>2
  <2>3. QED
    BY <2>1, <2>2
<1>5. Bare(c.tree, e + 1, Len(c.tree)) /\ Past(c.tree, e) = Len(c.tree) + 1
  <2>1. CASE ~d
    <3>1. Bare(c.tree, e + 1, Past(c.tree, e) - 1) /\ Past(c.tree, e) - 1 = Len(c.tree)
      BY <1>1, <1>3, <2>1 DEF Skips
    <3>2. QED
      BY <1>3, <2>1, <3>1
  <2>2. CASE d
    BY <1>1, <1>2, <1>3, <2>2 DEF Bare
  <2>3. QED
    BY <2>1, <2>2
<1>6. Past(c.tree, e) - 1 = Len(c.tree)
  BY <1>1, <1>5
<1>7. Skips(c.tree, FALSE, e)
  BY <1>5, <1>6 DEF Skips
<1>8. Walked(c, <<>>, FALSE, e, n)
  BY <1>4 DEF Walked
<1>9. QED
  BY <1>4, <1>5, <1>7, <1>8

\* The entry that was given last is below the last name of the command line.
LEMMA BelowTop ==
  ASSUME NEW c \in Commands, NEW w, NEW d, NEW e, NEW n, Walked(c, w, d, e, n), e # 0
  PROVE  n \in 1 .. Len(c.tops) /\ e \in c.tops[n] .. c.tree[c.tops[n]].last
<1>1. Nested(c.tree) /\ TopsIn(c) /\ Len(c.tree) \in Nat /\ Len(c.tops) \in Nat
  BY CommandIs DEF Nested, TopsIn
<1>2. e \in 1 .. Len(c.tree) /\ n \in 0 .. Len(c.tops) /\ \A k \in 1 .. Len(c.tops) : c.tops[k] <= e <=> k <= n
  BY <1>1 DEF Walked
<1>3. n \in 1 .. Len(c.tops) /\ c.tops[n] <= e /\ c.tops[n] \in 1 .. Len(c.tree)
  <2>1. Len(c.tops) # 0 /\ c.tops[1] = 1
    BY <1>1, <1>2 DEF TopsIn
  <2>2. n >= 1
    BY <1>1, <1>2, <2>1
  <2>3. QED
    BY <1>1, <1>2, <2>2 DEF TopsIn
<1>4. CASE n = Len(c.tops)
  <2>1. c.tree[c.tops[n]].last = Len(c.tree)
    BY <1>1, <1>2, <1>4 DEF TopsIn
  <2>2. QED
    BY <1>2, <1>3, <2>1
<1>5. CASE n < Len(c.tops)
  <2>1. n \in 1 .. Len(c.tops) - 1 /\ n + 1 \in 1 .. Len(c.tops) /\ ~(n + 1 <= n)
    BY <1>1, <1>3, <1>5
  <2>2. c.tops[n + 1] = c.tree[c.tops[n]].last + 1 /\ ~(c.tops[n + 1] <= e)
    BY <1>1, <1>2, <2>1 DEF TopsIn
  <2>3. c.tree[c.tops[n]].last \in Nat
    BY <1>1, <1>3 DEF Nested
  <2>4. QED
    BY <1>2, <1>3, <2>2, <2>3
<1>6. QED
  BY <1>1, <1>3, <1>4, <1>5

-----------------------------------------------------------------------------
(* Which pieces belong into an archive *)

\* The pieces of archive a, as PiecesOf has them.
DataIn(c, e) == IF c.op = "tar" THEN c.tree[e].kind = "file" ELSE ~DirIn(c.tree, e)
PartIn(c, e, k) ==
  /\ c.tree[e].kind \notin {"gone", "excluded", "nameless"} /\ k \in Int
  /\ \/ c.op = "tar" /\ k = 0
     \/ c.op \in {"zip", "each"} /\ k = -1
     \/ DataIn(c, e) /\ k \in 1 .. c.tree[e].size
ExtentIn(c, a) == IF c.op = "each" THEN c.tops[a] .. c.tree[c.tops[a]].last ELSE 1 .. Len(c.tree)
PieceIn(c, a, p) ==
  p = <<p[1], p[2]>> /\ p[1] \in ExtentIn(c, a) /\ ReachIn(c.tree, p[1]) /\ PartIn(c, p[1], p[2])
ArchivesIn(c) == IF c.op = "each" THEN 1 .. Len(c.tops) ELSE {1}

\* Those of the entries before e, and of e up to part j.
InCut(c, a, e, j, p) == PieceIn(c, a, p) /\ (p[1] < e \/ (p[1] = e /\ p[2] <= j))
\* f has exactly these at lo .. hi.
Exact(f, lo, hi, c, a, e, j) ==
  /\ \A k \in lo .. hi : InCut(c, a, e, j, f[k])
  /\ \A p : InCut(c, a, e, j, p) => \E k \in lo .. hi : f[k] = p
  /\ \A k, l \in lo .. hi : k < l => Before(f[k], f[l])

LEMMA PieceIs ==
  ASSUME cmd \in Commands, NEW a \in Archives
  PROVE  /\ \A p : p \in PiecesOf(a) <=> PieceIn(cmd, a, p)
         /\ Reached(a) = {e \in ExtentIn(cmd, a) : ReachIn(cmd.tree, e)}
         /\ ExtentIn(cmd, a) \subseteq 1 .. Len(cmd.tree) /\ ArchivesIn(cmd) = Archives
<1>1. Nested(cmd.tree) /\ TopsIn(cmd) /\ Len(cmd.tree) \in Nat /\ Len(cmd.tops) \in Nat /\ cmd.op \in Ops
  BY CommandIs DEF Nested, TopsIn
<1>2. ExtentIn(cmd, a) = Extent(a) /\ ArchivesIn(cmd) = Archives
  BY DEF ExtentIn, Extent, Is, ArchivesIn, Archives
<1>3. Extent(a) \subseteq 1 .. Len(cmd.tree)
  <2>1. CASE Is({"each"})
    <3>1. cmd.tops[a] \in 1 .. Len(cmd.tree)
      BY <1>1, <2>1 DEF Archives, Is, TopsIn
    <3>2. QED
      BY <1>1, <2>1, <3>1 DEF Extent, Nested
  <2>2. CASE ~Is({"each"})
    BY <2>2 DEF Extent
  <2>3. QED
    BY <2>1, <2>2
<1>4. Reached(a) = {e \in ExtentIn(cmd, a) : ReachIn(cmd.tree, e)}
  BY <1>2 DEF Reached, ReachIn, DirIn, IsDir, Kind
<1>5. \A e \in 1 .. Len(cmd.tree) : \A k : k \in PartsOf(e) <=> PartIn(cmd, e, k)
  <2> TAKE e \in 1 .. Len(cmd.tree)
  <2> TAKE k
  <2>1. cmd.tree[e].size \in Nat /\ cmd.tree[e].kind \in Kinds
    BY <1>1 DEF Nested
  <2>2. HeaderOf = (IF cmd.op = "tar" THEN {0} ELSE IF cmd.op \in {"zip", "each"} THEN {-1} ELSE {})
    BY DEF HeaderOf, Is, Zips
  <2>3. HasData(e) = DataIn(cmd, e)
    BY DEF HasData, DataIn, DirIn, IsDir, Kind, Is
  <2>4. CASE cmd.tree[e].kind \in {"gone", "excluded", "nameless"}
    BY <2>4 DEF PartsOf, PartIn, Kind
  <2>5. CASE cmd.tree[e].kind \notin {"gone", "excluded", "nameless"}
    BY <1>1, <2>1, <2>2, <2>3, <2>5 DEF PartsOf, PartIn, Kind, Ops
  <2>6. QED
    BY <2>4, <2>5
<1>6. ASSUME NEW p PROVE p \in PiecesOf(a) <=> PieceIn(cmd, a, p)
  <2>1. ASSUME p \in PiecesOf(a) PROVE PieceIn(cmd, a, p)
    <3>1. PICK e \in Reached(a) : p \in {<<e, k>> : k \in PartsOf(e)}
      BY <2>1 DEF PiecesOf
    <3>2. PICK k \in PartsOf(e) : p = <<e, k>>
      BY <3>1
    <3>3. p[1] = e /\ p[2] = k /\ p = <<p[1], p[2]>>
      BY <3>2
    <3>4. e \in ExtentIn(cmd, a) /\ ReachIn(cmd.tree, e) /\ e \in 1 .. Len(cmd.tree)
      BY <1>2, <1>3, <1>4, <3>1
    <3>5. PartIn(cmd, e, k)
      BY <1>5, <3>2, <3>4
    <3>6. QED
      BY <3>3, <3>4, <3>5 DEF PieceIn
  <2>2. ASSUME PieceIn(cmd, a, p) PROVE p \in PiecesOf(a)
    <3>1. p[1] \in Reached(a) /\ p[1] \in 1 .. Len(cmd.tree) /\ p = <<p[1], p[2]>> /\ PartIn(cmd, p[1], p[2])
      BY <1>2, <1>3, <1>4, <2>2 DEF PieceIn
    <3>2. PICK e, k : e = p[1] /\ k = p[2]
      OBVIOUS
    <3>3. k \in PartsOf(e) /\ e \in Reached(a) /\ p = <<e, k>>
      BY <1>5, <3>1, <3>2
    <3>4. p \in {<<e, x>> : x \in PartsOf(e)}
      BY <3>3
    <3>5. QED
      BY <3>3, <3>4 DEF PiecesOf
  <2>3. QED
    BY <2>1, <2>2
<1>7. QED
  BY <1>2, <1>3, <1>4, <1>6

\* What the two numbers of a piece are.
LEMMA PieceNumbers ==
  ASSUME NEW c \in Commands, NEW a \in ArchivesIn(c), NEW p, PieceIn(c, a, p)
  PROVE  p[1] \in 1 .. Len(c.tree) /\ p[2] \in Int /\ p[2] >= -1 /\ (c.op = "iso" => p[2] >= 1)
<1>1. Nested(c.tree) /\ TopsIn(c) /\ Len(c.tree) \in Nat /\ c.op \in Ops
  BY CommandIs DEF Nested
<1>2. p[1] \in 1 .. Len(c.tree)
  <2>1. CASE c.op = "each"
    <3>1. c.tops[a] \in 1 .. Len(c.tree)
      BY <1>1, <2>1 DEF ArchivesIn, TopsIn
    <3>2. QED
      BY <1>1, <2>1, <3>1 DEF PieceIn, ExtentIn, Nested
  <2>2. CASE c.op # "each"
    BY <2>2 DEF PieceIn, ExtentIn
  <2>3. QED
    BY <2>1, <2>2
<1>3. QED
  BY <1>2 DEF PieceIn, PartIn

\* Nothing of x belongs into an archive.
Plain(c, x) == ReachIn(c.tree, x) => c.tree[x].kind \in {"gone", "excluded", "nameless"} \/ (c.op = "iso" /\ DirIn(c.tree, x))
Covers(c, x, j) == \A k : PartIn(c, x, k) => k <= j

LEMMA PlainIs ==
  ASSUME NEW c, NEW a, NEW p, PieceIn(c, a, p) PROVE ~Plain(c, p[1])
  BY DEF PieceIn, PartIn, Plain, DataIn

LEMMA CutOverPlain ==
  ASSUME NEW c \in Commands, NEW a \in ArchivesIn(c), NEW e \in Int, NEW e2 \in Int, e <= e2,
         \A x \in e .. e2 - 1 : Plain(c, x)
  PROVE  \A p : InCut(c, a, e2, -2, p) <=> InCut(c, a, e, -2, p)
<1> SUFFICES ASSUME NEW p, PieceIn(c, a, p) PROVE (p[1] < e2 \/ (p[1] = e2 /\ p[2] <= -2)) <=> (p[1] < e \/ (p[1] = e /\ p[2] <= -2))
  BY DEF InCut
<1>1. p[1] \in Int /\ p[2] \in Int /\ p[2] >= -1 /\ ~Plain(c, p[1])
  BY PieceNumbers, PlainIs
<1>2. QED
  BY <1>1

LEMMA CutOverEntry ==
  ASSUME NEW c \in Commands, NEW a \in ArchivesIn(c), NEW e \in Int, NEW j \in Int, Covers(c, e, j)
  PROVE  \A p : InCut(c, a, e + 1, -2, p) <=> InCut(c, a, e, j, p)
<1> SUFFICES ASSUME NEW p, PieceIn(c, a, p) PROVE (p[1] < e + 1 \/ (p[1] = e + 1 /\ p[2] <= -2)) <=> (p[1] < e \/ (p[1] = e /\ p[2] <= j))
  BY DEF InCut
<1>1. p[1] \in Int /\ p[2] \in Int /\ p[2] >= -1 /\ PartIn(c, p[1], p[2])
  BY PieceNumbers DEF PieceIn
<1>2. p[1] = e => p[2] <= j
  BY <1>1 DEF Covers
<1>3. QED
  BY <1>1, <1>2

\* iso: from one file of the list to the next
LEMMA CutToNext ==
  ASSUME NEW c \in Commands, NEW a \in ArchivesIn(c), NEW e \in Int, NEW j \in Int, NEW e2 \in Int, e < e2,
         c.op = "iso", Covers(c, e, j), \A x \in e + 1 .. e2 - 1 : Plain(c, x)
  PROVE  \A p : InCut(c, a, e2, 0, p) <=> InCut(c, a, e, j, p)
<1> SUFFICES ASSUME NEW p, PieceIn(c, a, p) PROVE (p[1] < e2 \/ (p[1] = e2 /\ p[2] <= 0)) <=> (p[1] < e \/ (p[1] = e /\ p[2] <= j))
  BY DEF InCut
<1>1. p[1] \in Int /\ p[2] \in Int /\ p[2] >= 1 /\ ~Plain(c, p[1]) /\ PartIn(c, p[1], p[2])
  BY PieceNumbers, PlainIs DEF PieceIn
<1>2. p[1] = e => p[2] <= j
  BY <1>1 DEF Covers
<1>3. QED
  BY <1>1, <1>2

\* One part more
LEMMA CutGrows ==
  ASSUME NEW c \in Commands, NEW a \in ArchivesIn(c), NEW e \in Int, NEW i \in Int, NEW j \in Int, NEW k \in Int,
         e \in ExtentIn(c, a), ReachIn(c.tree, e), PartIn(c, e, k), i < k, k <= j,
         \A x \in i + 1 .. j : PartIn(c, e, x) => x = k
  PROVE  \A p : /\ InCut(c, a, e, j, p) <=> (InCut(c, a, e, i, p) \/ p = <<e, k>>)
                /\ InCut(c, a, e, i, p) => Before(p, <<e, k>>)
<1> TAKE p
<1>1. PieceIn(c, a, <<e, k>>)
  BY DEF PieceIn
<1>2. InCut(c, a, e, j, <<e, k>>)
  BY <1>1 DEF InCut
<1>3. ASSUME PieceIn(c, a, p) PROVE p = <<p[1], p[2]>> /\ p[1] \in Int /\ p[2] \in Int /\ PartIn(c, p[1], p[2])
  BY <1>3, PieceNumbers DEF PieceIn
<1>4. InCut(c, a, e, i, p) => InCut(c, a, e, j, p)
  BY <1>3 DEF InCut
<1>5. ASSUME InCut(c, a, e, j, p), ~InCut(c, a, e, i, p) PROVE p = <<e, k>>
  <2>1. p[1] = e /\ p[2] \in i + 1 .. j /\ p = <<p[1], p[2]>> /\ PartIn(c, e, p[2])
    BY <1>3, <1>5 DEF InCut
  <2>2. p[2] = k
    BY <2>1
  <2>3. QED
    BY <2>1, <2>2
<1>6. InCut(c, a, e, i, p) => Before(p, <<e, k>>)
  BY <1>3 DEF InCut, Before
<1>7. QED
  BY <1>2, <1>4, <1>5, <1>6

\* Everything
LEMMA CutIsAll ==
  ASSUME NEW c \in Commands, NEW a \in ArchivesIn(c), NEW e \in Int, NEW j \in Int, Covers(c, e, j),
         \A x \in ExtentIn(c, a) : x > e => Plain(c, x)
  PROVE  \A p : InCut(c, a, e, j, p) <=> PieceIn(c, a, p)
<1> SUFFICES ASSUME NEW p, PieceIn(c, a, p) PROVE p[1] < e \/ (p[1] = e /\ p[2] <= j)
  BY DEF InCut
<1>1. p[1] \in Int /\ p[1] \in ExtentIn(c, a) /\ PartIn(c, p[1], p[2]) /\ ~Plain(c, p[1])
  BY PieceNumbers, PlainIs DEF PieceIn
<1>2. p[1] <= e
  BY <1>1
<1>3. QED
  BY <1>1, <1>2 DEF Covers

LEMMA ExactMove ==
  ASSUME NEW f, NEW g, NEW lo, NEW hi, NEW c, NEW a, NEW e, NEW j, NEW e2, NEW j2,
         Exact(f, lo, hi, c, a, e, j), \A k \in lo .. hi : g[k] = f[k],
         \A p : InCut(c, a, e2, j2, p) <=> InCut(c, a, e, j, p)
  PROVE  Exact(g, lo, hi, c, a, e2, j2)
<1> USE DEF Exact
<1>1. \A k \in lo .. hi : InCut(c, a, e2, j2, g[k])
  OBVIOUS
<1>2. \A p : InCut(c, a, e2, j2, p) => \E k \in lo .. hi : g[k] = p
  OBVIOUS
<1>3. \A k, l \in lo .. hi : k < l => Before(g[k], g[l])
  OBVIOUS
<1>4. QED
  BY <1>1, <1>2, <1>3

LEMMA ExactGrows ==
  ASSUME NEW f, NEW g, NEW lo \in Int, NEW hi \in Int, NEW c, NEW a, NEW e, NEW j, NEW e2, NEW j2, NEW q, lo <= hi + 1,
         Exact(f, lo, hi, c, a, e, j), \A k \in lo .. hi : g[k] = f[k], g[hi + 1] = q,
         \A p : InCut(c, a, e2, j2, p) <=> (InCut(c, a, e, j, p) \/ p = q),
         \A p : InCut(c, a, e, j, p) => Before(p, q)
  PROVE  Exact(g, lo, hi + 1, c, a, e2, j2)
<1>1. \A k \in lo .. hi + 1 : k \in lo .. hi \/ k = hi + 1
  OBVIOUS
<1>2. \A k \in lo .. hi + 1 : InCut(c, a, e2, j2, g[k])
  BY <1>1 DEF Exact
<1>3. \A p : InCut(c, a, e2, j2, p) => \E k \in lo .. hi + 1 : g[k] = p
  <2> TAKE p
  <2>1. CASE p = q
    BY <2>1
  <2>2. ASSUME InCut(c, a, e, j, p) PROVE \E k \in lo .. hi + 1 : g[k] = p
    <3>1. PICK k \in lo .. hi : f[k] = p
      BY <2>2 DEF Exact
    <3>2. QED
      BY <3>1
  <2>3. QED
    BY <2>1, <2>2
<1>4. \A k, l \in lo .. hi + 1 : k < l => Before(g[k], g[l])
  <2> TAKE k, l \in lo .. hi + 1
  <2> HAVE k < l
  <2>1. k \in lo .. hi
    OBVIOUS
  <2>2. CASE l = hi + 1
    BY <2>1, <2>2 DEF Exact
  <2>3. CASE l \in lo .. hi
    BY <2>1, <2>3 DEF Exact
  <2>4. QED
    BY <1>1, <2>2, <2>3
<1>5. QED
  BY <1>2, <1>3, <1>4 DEF Exact

LEMMA ExactNone ==
  ASSUME NEW f, NEW lo \in Int, NEW hi \in Int, hi < lo, NEW c \in Commands, NEW a \in ArchivesIn(c),
         NEW e \in Int, NEW j \in Int, \A x \in ExtentIn(c, a) : x >= e, j <= -2 \/ e = 0
  PROVE  Exact(f, lo, hi, c, a, e, j)
<1>1. ASSUME NEW p, InCut(c, a, e, j, p) PROVE FALSE
  <2>1. p[1] \in ExtentIn(c, a) /\ p[1] \in 1 .. Len(c.tree) /\ p[2] \in Int /\ p[2] >= -1
    BY <1>1, PieceNumbers DEF InCut, PieceIn
  <2>2. p[1] >= e
    BY <2>1
  <2>3. QED
    BY <1>1, <2>1, <2>2 DEF InCut
<1>2. QED
  BY <1>1 DEF Exact

LEMMA HoldsFrom ==
  ASSUME cmd \in Commands, NEW a \in Archives, NEW f, NEW lo \in Int, NEW m \in Nat, NEW r, NEW e, NEW j,
         DOMAIN r = 1 .. m, \A k \in 1 .. m : r[k] = f[lo + k - 1],
         Exact(f, lo, lo + m - 1, cmd, a, e, j), \A p : InCut(cmd, a, e, j, p) <=> PieceIn(cmd, a, p)
  PROVE  Holds(r, PiecesOf(a))
<1>1. \A p : p \in PiecesOf(a) <=> InCut(cmd, a, e, j, p)
  BY PieceIs
<1>2. \A k \in DOMAIN r : lo + k - 1 \in lo .. lo + m - 1
  OBVIOUS
<1>3. \A k \in DOMAIN r : r[k] \in PiecesOf(a)
  BY <1>1, <1>2 DEF Exact
<1>4. \A p \in PiecesOf(a) : \E k \in DOMAIN r : r[k] = p
  <2> TAKE p \in PiecesOf(a)
  <2>1. PICK k \in lo .. lo + m - 1 : f[k] = p
    BY <1>1 DEF Exact
  <2>2. k - lo + 1 \in 1 .. m /\ lo + (k - lo + 1) - 1 = k
    BY <2>1
  <2>3. QED
    BY <2>1, <2>2
<1>5. \A l, k \in DOMAIN r : l < k => Before(r[l], r[k])
  <2> TAKE l, k \in DOMAIN r
  <2> HAVE l < k
  <2>1. lo + l - 1 < lo + k - 1 /\ lo + l - 1 \in lo .. lo + m - 1 /\ lo + k - 1 \in lo .. lo + m - 1
    BY <1>2
  <2>2. QED
    BY <2>1 DEF Exact
<1>6. QED
  BY <1>3, <1>4, <1>5 DEF Holds

LEMMA WholeFrom ==
  ASSUME cmd \in Commands, NEW a \in Archives, NEW S, NEW s \in Seq(S), NEW n \in Nat, n >= 1, Len(s) = n, NEW f,
         \A k \in 1 .. n : s[k] = f[k - 1], NEW e, NEW j,
         IF cmd.op = "iso" THEN f[0] = Trailer /\ Exact(f, 1, n - 1, cmd, a, e, j)
                           ELSE f[n - 1] = Trailer /\ Exact(f, 0, n - 2, cmd, a, e, j),
         \A p : InCut(cmd, a, e, j, p) <=> PieceIn(cmd, a, p)
  PROVE  WholeArchive(a, s)
<1>1. s # <<>> /\ Is({"iso"}) = (cmd.op = "iso")
  BY DEF Is
<1>2. CASE cmd.op = "iso"
  <2> DEFINE r == Tail(s)
  <2>1. DOMAIN r = 1 .. n - 1 /\ \A k \in 1 .. n - 1 : r[k] = s[k + 1]
    BY <1>1
  <2> HIDE DEF r
  <2>2. \A k \in 1 .. n - 1 : r[k] = f[1 + k - 1]
    <3> TAKE k \in 1 .. n - 1
    <3>1. k + 1 \in 1 .. n /\ k + 1 - 1 = 1 + k - 1
      OBVIOUS
    <3>2. QED
      BY <2>1, <3>1
  <2>3. PICK m : m = n - 1
    OBVIOUS
  <2>4. m \in Nat /\ 1 + m - 1 = n - 1
    BY <2>3
  <2>5. Holds(r, PiecesOf(a))
    <3>1. DOMAIN r = 1 .. m /\ \A k \in 1 .. m : r[k] = f[1 + k - 1]
      BY <2>1, <2>2, <2>3
    <3>2. Exact(f, 1, 1 + m - 1, cmd, a, e, j)
      BY <1>2, <2>4
    <3>3. QED
      BY <2>4, <3>1, <3>2, HoldsFrom
  <2>6. s[1] = Trailer
    BY <1>2
  <2>7. QED
    BY <1>1, <1>2, <2>5, <2>6 DEF WholeArchive, r
<1>3. CASE cmd.op # "iso"
  <2> DEFINE r == Front(s)
  <2>1. r = [k \in 1 .. n - 1 |-> s[k]]
    BY DEF Front
  <2>2. DOMAIN r = 1 .. n - 1 /\ \A k \in 1 .. n - 1 : r[k] = s[k]
    BY <2>1
  <2> HIDE DEF r
  <2>3. \A k \in 1 .. n - 1 : r[k] = f[0 + k - 1]
    <3> TAKE k \in 1 .. n - 1
    <3>1. k \in 1 .. n /\ k - 1 = 0 + k - 1
      OBVIOUS
    <3>2. QED
      BY <2>2, <3>1
  <2>4. PICK m : m = n - 1
    OBVIOUS
  <2>5. m \in Nat /\ 0 + m - 1 = n - 2
    BY <2>4
  <2>6. Holds(r, PiecesOf(a))
    BY <1>3, <2>2, <2>3, <2>4, <2>5, HoldsFrom
  <2>7. Last(s) = Trailer
    BY <1>1, <1>3 DEF Last
  <2>8. QED
    BY <1>1, <1>3, <2>6, <2>7 DEF WholeArchive, r
<1>4. QED
  BY <1>2, <1>3

\* WholeArchive, of the command and the contents alone.
HoldsIn(c, a, r) ==
  /\ \A k \in DOMAIN r : PieceIn(c, a, r[k])
  /\ \A p : PieceIn(c, a, p) => \E k \in DOMAIN r : r[k] = p
  /\ \A j, k \in DOMAIN r : j < k => Before(r[j], r[k])
WholeIn(c, a, s) ==
  /\ s # <<>>
  /\ IF c.op = "iso" THEN s[1] = Trailer /\ HoldsIn(c, a, Tail(s)) ELSE Last(s) = Trailer /\ HoldsIn(c, a, Front(s))

LEMMA WholeIs ==
  ASSUME cmd \in Commands, NEW a \in Archives, NEW s
  PROVE  WholeIn(cmd, a, s) <=> WholeArchive(a, s)
<1>1. \A p : p \in PiecesOf(a) <=> PieceIn(cmd, a, p)
  BY PieceIs
<1>2. \A r : Holds(r, PiecesOf(a)) <=> HoldsIn(cmd, a, r)
  BY <1>1 DEF Holds, HoldsIn
<1>3. Is({"iso"}) <=> cmd.op = "iso"
  BY DEF Is
<1>4. QED
  BY <1>2, <1>3 DEF WholeIn, WholeArchive

-----------------------------------------------------------------------------
(* The states of the loops *)

Looping == {"outopen", "in", "info", "add", "read", "nextopen", "proc", "write", "flush", "done"}
Size == Len(cmd.tree)

\* iso opens the files of its list.
Second == Is({"iso"}) /\ st \notin {"outopen", "in", "info"}
\* The entry that was given last was not yet looked at.
Fresh == ~complete /\ (st \in {"outopen", "info"} \/ (Is({"each"}) /\ lib.ending))
\* The last entry that was looked at, and the last one that was packed.
Looked == IF Second THEN Size ELSE IF Fresh THEN cur - 1 ELSE cur
Packed == IF Fresh \/ st = "add" THEN cur - 1 ELSE cur

LibTypes ==
  [member : Nat, fin : BOOLEAN, fixed : BOOLEAN, head : BOOLEAN, hdr : Nat, end : Nat, ending : BOOLEAN, ended : BOOLEAN]
Types ==
  /\ cmd \in Commands /\ st \in Looping \cup {"end", "over"}
  /\ isdir \in BOOLEAN /\ complete \in BOOLEAN /\ missing \in BOOLEAN /\ del \in BOOLEAN /\ stop \in BOOLEAN
  /\ lost \in BOOLEAN /\ rc \in {0, 1}
  /\ cur \in 0 .. Size /\ top \in 0 .. Len(cmd.tops) /\ off \in Nat /\ buf \in Nat
  /\ lib \in LibTypes /\ woff \in Int /\ woff >= -1
  /\ Len(list) \in Nat /\ at \in 0 .. Len(list) /\ nfile \in 0 .. Len(cmd.tops) /\ name \in {0} \cup Archives

\* Which archive is open, and which comes next.
Names ==
  /\ ~Is({"each"}) => nfile = 0 /\ ~complete
  /\ obj.name = (IF del THEN name ELSE 0) \/ st = "over"
  /\ del => name # 0
  /\ st = "over" => obj.name = 0
  /\ st \in Looping =>
       /\ del = (name # 0)
       /\ name = (IF st = "outopen" THEN 0 ELSE IF Is({"each"}) THEN nfile ELSE 1)
       /\ Is({"each"}) => nfile = (IF ~complete /\ (st = "outopen" \/ lib.ending) THEN top - 1 ELSE top)
       /\ complete => lib.ending \/ st = "outopen"

Owes == st \in Looping => obj.owed = Nothing \/ (st = "write" /\ obj.owed = piece)

Walk ==
  st \in Looping /\ ~Second =>
    /\ Walked(cmd, todo, isdir, cur, top)
    /\ cur = 0 => st \in {"outopen", "in"} \/ lib.ending
    /\ st = "outopen" /\ ~Is({"each"}) => cur = 0
    /\ Is({"each"}) /\ ~complete /\ (st = "outopen" \/ lib.ending) => cmd.tops[top] = cur
    /\ Fresh => ~isdir
    /\ st = "add" => isdir = DirIn(cmd.tree, cur)
    /\ ~Fresh => Skips(cmd.tree, isdir, cur)
    /\ (lib.ending /\ ~Fresh) \/ complete => ~isdir /\ Bare(cmd.tree, cur + 1, Size)

NoneGone(c, u) == \A x \in 1 .. u : ReachIn(c.tree, x) => c.tree[x].kind # "gone"
Found == st \in Looping /\ ~missing => NoneGone(cmd, Looked)

\* What the writer of tar and zip has.
Lib ==
  st \in Looping /\ ~Is({"iso"}) =>
    /\ st # "nextopen" /\ (st = "flush" => Is({"tar"}))
    /\ lib.member # 0 =>
         /\ lib.member = cur /\ st \in {"read", "proc", "write"} /\ ~lib.ending
         /\ cmd.tree[cur].kind \notin {"gone", "excluded", "nameless"} /\ off <= cmd.tree[cur].size
         /\ ~lib.fin \/ off > 0 => DataIn(cmd, cur)
         /\ lib.fin /\ DataIn(cmd, cur) => off = cmd.tree[cur].size
    /\ lib.member = 0 => st # "read" /\ ~lib.head /\ buf = 0
    /\ st = "read" => ~lib.fin /\ buf = 0
    /\ st = "add" => cmd.tree[cur].kind \notin {"gone", "excluded"} /\ off = 0
    /\ lib.head => st # "write" /\ off = buf /\ off <= 1 /\ ~lib.fixed
    /\ buf # 0 => st \in {"proc", "write"} /\ buf = off /\ ~lib.fin
    /\ lib.ending => st \in {"proc", "write", "flush", "done"}
    /\ st \in {"proc", "write"} => lib.member # 0 \/ lib.ending
    /\ lib.ended => lib.ending
    /\ st \in {"flush", "done"} => lib.ended
    /\ lib.fixed /\ lib.member # 0 => Zips /\ lib.fin

\* Before an archive is open it has nothing.
Idle == st \in Looping /\ name = 0 /\ Archives # {} => lib = LibInit /\ st \in {"outopen", "in"}

\* The list of iso: the files up to entry u.
Listed(c, x) == ReachIn(c.tree, x) /\ ~DirIn(c.tree, x) /\ c.tree[x].kind \notin {"gone", "excluded"}
ListIn(c, l, u) ==
  /\ l \in Seq(Nat)
  /\ \A k \in 1 .. Len(l) : l[k] \in 1 .. u /\ Listed(c, l[k])
  /\ \A x \in 1 .. u : Listed(c, x) => \E k \in 1 .. Len(l) : l[k] = x
  /\ \A j, k \in 1 .. Len(l) : j < k => l[j] < l[k]

\* What the writer of iso has.
IsoLib ==
  st \in Looping /\ Is({"iso"}) =>
    /\ st \notin {"add", "flush"} /\ ~lib.head /\ ~lib.fixed
    /\ ListIn(cmd, list, Looked)
    /\ ~Second => lib = LibInit /\ at = 0 /\ buf = 0
    /\ at = 0 => lib.member = 0 /\ st # "read" /\ buf = 0
    /\ at # 0 => lib.member = list[at] /\ cur = list[at] /\ off <= cmd.tree[cur].size /\ lib.end > 0
    /\ st = "nextopen" => lib.end > 0 /\ buf = 0 /\ (at # 0 => off = cmd.tree[cur].size)
    /\ st = "read" => buf = 0
    /\ buf # 0 => st = "proc" /\ buf = off
    /\ st \in {"read", "nextopen"} => ~lib.ending
    /\ lib.ending => at = Len(list) /\ (at # 0 => off = cmd.tree[cur].size) /\ lib.end > 0 /\ buf = 0
    /\ lib.ended => lib.ending
    /\ st = "done" => lib.ended
    /\ st = "write" => lib.end > 0

Control == Types /\ Names /\ Owes /\ Walk /\ Found /\ Lib /\ Idle /\ IsoLib

-----------------------------------------------------------------------------
(* What the archives hold *)

\* What will be in the cache when the piece in hand is written.
Held == IF st = "write" THEN Cached(obj.cache, Offset(woff), piece) ELSE obj.cache
\* The offset behind it.
Next1 == IF st = "write" THEN Offset(woff) + 1 ELSE Offset(woff)
Rewriting == lib.member # 0 /\ lib.fixed
Appends ==
  /\ obj.at \in Nat
  /\ st \in Looping /\ name # 0 /\ ~Rewriting /\ ~lib.ended => Next1 = lib.end

\* The entry, and the part of it, up to which the archive has been written.
MarkEntry == IF Is({"iso"}) THEN (IF at = 0 THEN 0 ELSE cur) ELSE IF lib.member # 0 THEN cur ELSE Packed + 1
MarkPart ==
  IF Is({"iso"}) THEN (IF at = 0 THEN 0 ELSE IF buf # 0 THEN off - 1 ELSE off)
  ELSE IF lib.member # 0 THEN (IF lib.head THEN -2 ELSE IF buf # 0 THEN off - 1 ELSE off)
  ELSE -2
First == IF Is({"iso"}) THEN 1 ELSE 0
Final == IF ~Is({"iso"}) /\ lib.ended THEN lib.end - 2 ELSE lib.end - 1
\* The header of a member of a zip file will be written again.
Renews == Zips /\ lib.member # 0 /\ ~lib.head /\ ~lib.fixed
Shown == [k \in 0 .. lib.end - 1 |-> IF Renews /\ k = lib.hdr THEN FixedHead(cur) ELSE Held[k]]
Filling == st \in Looping /\ name # 0 /\ ~lost /\ ~(Is({"tar"}) /\ st = "done")
Content ==
  Filling =>
    /\ disk[name] = New(<<>>) /\ DOMAIN Held = 0 .. lib.end - 1
    /\ lib.member # 0 /\ ~Is({"iso"}) /\ ~lib.head => lib.hdr \in 0 .. lib.end - 1
    /\ Exact(Shown, First, Final, cmd, name, MarkEntry, MarkPart)
    /\ lib.ended => lib.end > 0 /\ Held[IF Is({"iso"}) THEN 0 ELSE lib.end - 1] = Trailer

Whole(a) == disk[a].kind = "new" /\ WholeIn(cmd, a, disk[a].has)
IsSeq(s) == Len(s) \in Nat /\ DOMAIN s = 1 .. Len(s) /\ s = [k \in 1 .. Len(s) |-> s[k]]
Results ==
  /\ Is({"tar"}) => ~lost
  /\ ~lost /\ st \in Looping /\ Archives # {} /\ (name = 0 \/ (st = "done" /\ Is({"tar"}))) => obj.cache = Empty
  /\ st \in Looping => \A a \in Archives : a # name => IF a <= nfile THEN ~lost => Whole(a) ELSE disk[a].kind # "new"
  /\ st = "done" /\ Is({"tar"}) => Whole(1) /\ IsSeq(disk[1].has)
  /\ st \notin Looping =>
       /\ ~lost => \A a \in Archives : disk[a].kind = "new" => (st = "end" /\ del /\ a = name) \/ WholeIn(cmd, a, disk[a].has)
       /\ rc = 0 => ~del /\ NoneGone(cmd, Size) /\ (~lost => \A a \in Archives : Whole(a))

AInv == Control /\ Appends /\ Content /\ Results

-----------------------------------------------------------------------------
(* Every step keeps the states of the loops *)

\* A step to the end of the loop: only these two parts are left.
LEMMA ToEnd ==
  ASSUME Types', Names', st' \notin Looping PROVE Control'
  BY DEF Control, Walk, Found, Lib, Idle, IsoLib, Owes

LEMMA SizeIs == ASSUME Control, cur # 0 PROVE cmd.tree[cur].size \in Nat /\ cur \in 1 .. Size /\ Size \in Nat
<1>1. Nested(cmd.tree)
  BY CommandIs DEF Control, Types
<1>2. QED
  BY <1>1 DEF Control, Types, Nested, Size

\* Steps between the states in which the walk stands still.
Inner == {"read", "nextopen", "proc", "write", "flush", "done"}
LEMMA InnerStep ==
  ASSUME Control, UNCHANGED <<cmd, walk, complete, missing>>, st \in Inner, st' \in Inner, lib'.ending = lib.ending
  PROVE  Walk' /\ Found'
<1>1. st \in Looping /\ st' \in Looping /\ (Second' <=> Second) /\ (Fresh' <=> Fresh) /\ st # "add" /\ st' # "add"
  BY DEF Inner, Looping, Second, Fresh, Is
<1>2. Walk'
  BY <1>1 DEF Control, Walk, walk, Size, Inner, Is
<1>3. Found'
  BY <1>1 DEF Control, Found, walk, Size, Looked
<1>4. QED
  BY <1>2, <1>3

LEMMA InnerNames ==
  ASSUME Control, UNCHANGED <<cmd, top, complete, result, nfile>>, obj'.name = obj.name, st \in Inner, st' \in Inner,
         lib'.ending = lib.ending
  PROVE  Names' /\ Idle'
<1>1. Names'
  BY DEF Control, Names, result, Inner, Looping, Is
<1>2. Idle'
  BY DEF Control, Idle, result, Inner, Looping, Is, Archives
<1>3. QED
  BY <1>1, <1>2

\* What the changes of the writer are.
LibSame(l, m) ==
  /\ m.fixed = l.fixed /\ m.hdr = l.hdr /\ m.end = l.end /\ m.ended = l.ended
LEMMA FinishedIs ==
  ASSUME NEW l \in LibTypes
  PROVE  /\ Finished(l) \in LibTypes /\ Finished(l).fin = TRUE /\ LibSame(l, Finished(l))
         /\ Finished(l).member = l.member /\ Finished(l).head = l.head /\ Finished(l).ending = l.ending
  BY DEF Finished, LibTypes, LibSame

LEMMA EndingIs ==
  ASSUME lib \in LibTypes, TellFinish
  PROVE  /\ lib' \in LibTypes /\ lib'.ending = TRUE /\ LibSame(lib, lib')
         /\ lib'.member = lib.member /\ lib'.head = lib.head /\ lib'.fin = lib.fin
  BY DEF TellFinish, LibTypes, LibSame

LEMMA AddedIs ==
  ASSUME lib \in LibTypes, NEW e \in Nat
  PROVE  /\ Added(e) \in LibTypes /\ Added(e).member = e /\ Added(e).fin = FALSE /\ Added(e).fixed = FALSE /\ Added(e).head = TRUE
         /\ Added(e).hdr = lib.hdr /\ Added(e).end = lib.end /\ Added(e).ending = lib.ending /\ Added(e).ended = lib.ended
  BY DEF Added, LibTypes

LEMMA GivesIs ==
  ASSUME lib \in LibTypes, NEW p, NEW o, NEW n \in Nat, Gives(p, o, n)
  PROVE  /\ lib' \in LibTypes /\ piece' = p /\ woff' = o /\ st' = "write" /\ UNCHANGED <<cmd, stop, rc>>
         /\ lib'.member = lib.member /\ lib'.fin = lib.fin /\ lib'.ending = lib.ending /\ lib'.head = FALSE /\ lib'.end = n
         /\ lib'.hdr = (IF lib.head THEN lib.end ELSE lib.hdr)
         /\ lib'.fixed <=> (lib.fixed \/ (lib.member # 0 /\ p = FixedHead(lib.member)))
         /\ lib'.ended <=> (lib.ended \/ p = Trailer)
  BY DEF Gives, Goto, LibTypes

LEMMA MemberZero ==
  ASSUME lib \in LibTypes, lib' = [lib EXCEPT !.member = 0]
  PROVE  /\ lib' \in LibTypes /\ lib'.member = 0 /\ LibSame(lib, lib')
         /\ lib'.fin = lib.fin /\ lib'.head = lib.head /\ lib'.ending = lib.ending
  BY DEF LibTypes, LibSame

LEMMA ReadEntryControl == ASSUME Control, ReadEntry PROVE Control'
<1> USE DEF walk, reader, writer, many, result, outvars
<1>1. /\ lib.member = cur /\ cur # 0 /\ ~lib.fin /\ buf = 0 /\ ~lib.ending /\ off <= cmd.tree[cur].size
      /\ lib \in LibTypes /\ off \in Nat /\ st = "read" /\ ~Is({"iso"})
  BY DEF Control, ReadEntry, Lib, Types, At, Looping, LibTypes
<1>2. cmd.tree[cur].size \in Nat
  BY <1>1, SizeIs
<1>3. /\ Finished(lib) \in LibTypes /\ Finished(lib).fin = TRUE /\ LibSame(lib, Finished(lib))
      /\ Finished(lib).member = lib.member /\ Finished(lib).head = lib.head /\ Finished(lib).ending = lib.ending
  BY <1>1, FinishedIs
<1>4. lib' \in {lib, Finished(lib)} /\ off' \in {off, off + 1} /\ buf' \in {buf, off + 1}
  BY DEF ReadEntry
<1>5. lib' \in LibTypes /\ off' \in Nat /\ buf' \in Nat /\ lib'.ending = lib.ending
  BY <1>1, <1>3, <1>4
<1>6. Types'
  BY <1>5 DEF Control, ReadEntry, Types, At, Goto, GoEnd, Size, Looping, Archives, Is
<1>7. CASE MayFail("read") /\ GoEnd(1)
  <2>1. Names'
    BY <1>1, <1>7 DEF Control, ReadEntry, Names, GoEnd, Looping, Is
  <2>2. QED
    BY <1>6, <1>7, <2>1, ToEnd DEF GoEnd, Looping
<1>8. CASE st' = "proc" /\ UNCHANGED <<cmd, stop, rc>>
  <2>1. UNCHANGED <<walk, missing, complete, result, nfile, many, obj, lost>> /\ st \in Inner /\ st' \in Inner
    BY <1>1, <1>8 DEF ReadEntry, Inner
  <2>2. Names' /\ Walk' /\ Found' /\ Idle'
    BY <1>5, <1>8, <2>1, InnerStep, InnerNames
  <2>3. Owes'
    BY <1>1, <1>8, <2>1 DEF Control, Owes, Looping
  <2>4. Lib'
    <3>1. CASE lib' = lib /\ off < cmd.tree[cur].size /\ off' = off + 1 /\ buf' = off + 1
      BY <1>1, <1>2, <1>8, <2>1, <3>1 DEF Control, Lib, Looping, Is, Zips
    <3>2. CASE lib' = Finished(lib) /\ off = cmd.tree[cur].size /\ UNCHANGED reader
      BY <1>1, <1>2, <1>3, <1>8, <2>1, <3>2 DEF Control, Lib, Looping, Is, Zips, LibSame
    <3>3. QED
      BY <1>8, <3>1, <3>2 DEF ReadEntry, GoEnd
  <2>5. IsoLib'
    BY <1>1, <1>8 DEF IsoLib, Is
  <2>6. QED
    BY <1>6, <2>2, <2>3, <2>4, <2>5 DEF Control
<1>9. QED
  BY <1>7, <1>8 DEF ReadEntry, Goto

LEMMA ControlIs ==
  ASSUME Control
  PROVE  Types /\ Names /\ Owes /\ Walk /\ Found /\ Lib /\ Idle /\ IsoLib
  BY DEF Control

\* I_PROC of tar and zip: a piece is given, ...
LEMMA GivesControl ==
  ASSUME Control, st = "proc", ~Is({"iso"}), NEW p, NEW o \in Int, o >= -1, NEW n \in Nat, Gives(p, o, n),
         UNCHANGED <<walk, off, many, missing, result, outvars>>, buf' \in {0, buf},
         p = Trailer => lib.member = 0 /\ lib.ending,
         lib.member # 0 /\ p = FixedHead(lib.member) => Zips /\ lib.fin
  PROVE  Control'
<1> USE DEF walk, reader, writer, many, result, outvars
<1>1. lib \in LibTypes
  BY DEF Control, Types
<1>2. /\ lib' \in LibTypes /\ piece' = p /\ woff' = o /\ st' = "write" /\ UNCHANGED <<cmd, stop, rc>>
      /\ lib'.member = lib.member /\ lib'.fin = lib.fin /\ lib'.ending = lib.ending /\ lib'.head = FALSE /\ lib'.end = n
      /\ lib'.hdr = (IF lib.head THEN lib.end ELSE lib.hdr)
      /\ lib'.fixed <=> (lib.fixed \/ (lib.member # 0 /\ p = FixedHead(lib.member)))
      /\ lib'.ended <=> (lib.ended \/ p = Trailer)
  BY <1>1, GivesIs
<1>3. Types'
  BY <1>2 DEF Control, Types, Looping, Size, Archives, Is
<1>4. Names' /\ Walk' /\ Found' /\ Idle'
  BY <1>2, InnerStep, InnerNames DEF Inner
<1>5. Owes'
  BY <1>2 DEF Control, Owes, Looping
<1>6. Lib'
  <2>1. Lib /\ st \in Looping
    BY DEF Control, Looping
  <2>2. /\ lib.member # 0 =>
             /\ lib.member = cur /\ ~lib.ending
             /\ cmd.tree[cur].kind \notin {"gone", "excluded", "nameless"} /\ off <= cmd.tree[cur].size
             /\ ~lib.fin \/ off > 0 => DataIn(cmd, cur)
             /\ lib.fin /\ DataIn(cmd, cur) => off = cmd.tree[cur].size
        /\ lib.member = 0 => buf = 0
        /\ buf # 0 => buf = off /\ ~lib.fin
        /\ lib.member # 0 \/ lib.ending
        /\ lib.ended => lib.ending
        /\ lib.fixed /\ lib.member # 0 => Zips /\ lib.fin
    BY <2>1 DEF Lib
  <2>3. lib'.ended => lib'.ending
    BY <1>2, <2>2
  <2>4. lib'.fixed /\ lib'.member # 0 => Zips' /\ lib'.fin
    BY <1>2, <2>2 DEF Zips, Is
  <2>5. QED
    BY <1>2, <2>2, <2>3, <2>4 DEF Lib, Looping, Is
<1>7. IsoLib'
  BY <1>2 DEF IsoLib, Is
<1>8. QED
  BY <1>3, <1>4, <1>5, <1>6, <1>7 DEF Control

\* ... more is asked for, ...
LEMMA AsksControl ==
  ASSUME Control, st = "proc", ~Is({"iso"}), NEW s, Asks(s), UNCHANGED <<walk, off, many, missing, result, outvars>>,
         \/ s = "read" /\ lib.member # 0 /\ ~lib.fin /\ buf = 0
         \/ s = "flush" /\ Is({"tar"}) /\ lib.ended /\ lib.member = 0
         \/ s = "done" /\ lib.ended /\ lib.member = 0
  PROVE  Control'
<1> USE DEF walk, reader, writer, many, result, outvars
<1>1. st' = s /\ UNCHANGED <<cmd, stop, rc, buf, piece, lib, woff>>
  BY DEF Asks, Goto
<1>2. Types'
  BY <1>1 DEF Control, Types, Looping, Size, Archives, Is
<1>3. Names' /\ Walk' /\ Found' /\ Idle'
  BY <1>1, InnerStep, InnerNames DEF Inner
<1>4. Owes'
  BY <1>1 DEF Control, Owes, Looping
<1>5. Lib'
  <2>1. Lib /\ st \in Looping
    BY DEF Control, Looping
  <2>2. QED
    BY <1>1, <2>1 DEF Lib, Looping, Is, Zips
<1>6. IsoLib'
  BY <1>1 DEF IsoLib, Is
<1>7. QED
  BY <1>2, <1>3, <1>4, <1>5, <1>6 DEF Control

\* ... or the member is complete.
LEMMA MemberControl ==
  ASSUME Control, st = "proc", ~Is({"iso"}), lib.member # 0, ~lib.head, buf = 0, Goto("in"),
         lib' = [lib EXCEPT !.member = 0], woff' \in {woff, lib.end},
         UNCHANGED <<walk, off, buf, piece, many, missing, result, outvars>>
  PROVE  Control'
<1> USE DEF walk, reader, writer, many, result, outvars
<1>1. lib \in LibTypes
  BY DEF Control, Types
<1>2. /\ lib' \in LibTypes /\ lib'.member = 0 /\ LibSame(lib, lib')
      /\ lib'.fin = lib.fin /\ lib'.head = lib.head /\ lib'.ending = lib.ending
  BY <1>1, MemberZero
<1>3. st' = "in" /\ UNCHANGED <<cmd, stop, rc>>
  BY DEF Goto
<1>4. lib.member = cur /\ ~lib.ending /\ ~lib.ended /\ st \in Looping
  BY DEF Control, Lib, Looping
<1>5. Types'
  <2>1. woff' \in Int /\ woff' >= -1
    BY <1>1 DEF Control, Types, LibTypes
  <2>2. QED
    BY <1>2, <1>3, <2>1 DEF Control, Types, Looping, Size, Archives, Is
<1>6. Names'
  BY <1>2, <1>3, <1>4 DEF Control, Names, Looping, Is
<1>7. ~Fresh /\ ~Fresh' /\ ~Second /\ ~Second'
  BY <1>2, <1>3, <1>4 DEF Fresh, Second, Is
<1>8. Walk'
  BY <1>2, <1>3, <1>4, <1>7 DEF Control, Walk, Size, Looping
<1>9. Found'
  BY <1>3, <1>4, <1>7 DEF Control, Found, Looked, Looping
<1>10. Lib' /\ Owes'
  <2>1. Lib'
    BY <1>2, <1>3, <1>4 DEF Lib, Looping, LibSame
  <2>2. Owes'
    BY <1>3, <1>4 DEF Control, Owes
  <2>3. QED
    BY <2>1, <2>2
<1>11. Idle' /\ IsoLib'
  <2>1. Idle'
    BY <1>3, <1>4 DEF Control, Idle, Archives, Is
  <2>2. IsoLib'
    BY <1>3 DEF IsoLib, Is
  <2>3. QED
    BY <2>1, <2>2
<1>12. QED
  BY <1>5, <1>6, <1>8, <1>9, <1>10, <1>11 DEF Control

LEMMA ProcFacts ==
  ASSUME Control, st = "proc", ~Is({"iso"})
  PROVE  /\ lib \in LibTypes /\ lib.member \in Nat /\ lib.end \in Nat /\ lib.hdr \in Nat /\ woff \in Int /\ woff >= -1
         /\ lib.end + 1 \in Nat /\ buf \in Nat
         /\ HeadOf(lib.member) # FixedHead(lib.member) /\ (lib.member # 0 => HeadOf(lib.member) # Trailer)
         /\ buf # 0 => lib.member # 0 /\ ChunkOf(lib.member, buf) # FixedHead(lib.member) /\ ChunkOf(lib.member, buf) # Trailer
         /\ FixedHead(lib.member) # Trailer
<1>1. lib \in LibTypes /\ woff \in Int /\ woff >= -1 /\ buf \in Nat /\ st \in Looping
  BY DEF Control, Types, Looping
<1>2. lib.member \in Nat /\ lib.end \in Nat /\ lib.hdr \in Nat
  BY <1>1 DEF LibTypes
<1>3. buf # 0 => lib.member # 0
  BY <1>1 DEF Control, Lib
<1>4. buf # 0 => buf # -1
  BY <1>1
<1>5. QED
  BY <1>1, <1>2, <1>3, <1>4 DEF HeadOf, FixedHead, ChunkOf, Trailer

LEMMA TarProcControl == ASSUME Control, TarProc PROVE Control'
<1>1. /\ st = "proc" /\ ~Is({"iso"}) /\ Is({"tar"})
      /\ UNCHANGED <<walk, off, many, missing, result, outvars>>
  BY DEF TarProc, At, Is
<1>2. /\ lib \in LibTypes /\ lib.member \in Nat /\ lib.end \in Nat /\ lib.hdr \in Nat /\ woff \in Int /\ woff >= -1
      /\ lib.end + 1 \in Nat /\ buf \in Nat
      /\ HeadOf(lib.member) # FixedHead(lib.member) /\ (lib.member # 0 => HeadOf(lib.member) # Trailer)
      /\ buf # 0 => lib.member # 0 /\ ChunkOf(lib.member, buf) # FixedHead(lib.member) /\ ChunkOf(lib.member, buf) # Trailer
      /\ FixedHead(lib.member) # Trailer
  BY <1>1, ProcFacts
<1>3. lib.head => lib.member # 0
  BY <1>1 DEF Control, Lib, Looping
<1>4. CASE lib.head /\ GivesNext(HeadOf(lib.member))
  BY <1>1, <1>2, <1>3, <1>4, GivesControl DEF GivesNext
<1>5. CASE GivesData
  BY <1>1, <1>2, <1>5, GivesControl DEF GivesData
<1>6. CASE ~lib.head /\ buf = 0 /\ lib.member # 0 /\ ~lib.fin /\ Asks("read")
  BY <1>1, <1>6, AsksControl
<1>7. CASE ~lib.head /\ buf = 0 /\ lib.member # 0 /\ lib' = [lib EXCEPT !.member = 0] /\ Goto("in") /\ UNCHANGED <<buf, piece, woff>>
  BY <1>1, <1>7, MemberControl
<1>8. CASE lib.member = 0 /\ lib.ending /\ ~lib.ended /\ GivesNext(Trailer)
  BY <1>1, <1>2, <1>8, GivesControl DEF GivesNext
<1>9. CASE lib.member = 0 /\ lib.ended /\ Asks("flush")
  BY <1>1, <1>9, AsksControl
<1>10. QED
  BY <1>4, <1>5, <1>6, <1>7, <1>8, <1>9 DEF TarProc

LEMMA ZipProcControl == ASSUME Control, ZipProc PROVE Control'
<1>1. /\ st = "proc" /\ ~Is({"iso"}) /\ Zips
      /\ UNCHANGED <<walk, off, many, missing, result, outvars>>
  BY DEF ZipProc, At, Is, Zips
<1>2. /\ lib \in LibTypes /\ lib.member \in Nat /\ lib.end \in Nat /\ lib.hdr \in Nat /\ woff \in Int /\ woff >= -1
      /\ lib.end + 1 \in Nat /\ buf \in Nat
      /\ HeadOf(lib.member) # FixedHead(lib.member) /\ (lib.member # 0 => HeadOf(lib.member) # Trailer)
      /\ buf # 0 => lib.member # 0 /\ ChunkOf(lib.member, buf) # FixedHead(lib.member) /\ ChunkOf(lib.member, buf) # Trailer
      /\ FixedHead(lib.member) # Trailer
  BY <1>1, ProcFacts
<1>3. lib.head => lib.member # 0
  BY <1>1 DEF Control, Lib, Looping
<1>4. CASE lib.head /\ GivesNext(HeadOf(lib.member))
  BY <1>1, <1>2, <1>3, <1>4, GivesControl DEF GivesNext
<1>5. CASE GivesData
  BY <1>1, <1>2, <1>5, GivesControl DEF GivesData
<1>6. CASE ~lib.head /\ buf = 0 /\ lib.member # 0 /\ ~lib.fin /\ Asks("read")
  BY <1>1, <1>6, AsksControl
<1>7. CASE lib.fin /\ Gives(FixedHead(lib.member), lib.hdr, lib.end) /\ UNCHANGED buf
  <2>1. lib.hdr \in Int /\ lib.hdr >= -1
    BY <1>2
  <2>2. QED
    BY <1>1, <1>2, <1>7, <2>1, GivesControl
<1>8. CASE ~lib.head /\ buf = 0 /\ lib.member # 0 /\ lib' = [lib EXCEPT !.member = 0] /\ Goto("in") /\ woff' = lib.end
           /\ UNCHANGED <<buf, piece>>
  BY <1>1, <1>8, MemberControl
<1>9. CASE lib.member = 0 /\ lib.ending /\ ~lib.ended /\ GivesNext(Trailer)
  BY <1>1, <1>2, <1>9, GivesControl DEF GivesNext
<1>10. CASE lib.member = 0 /\ lib.ended /\ Asks("done")
  BY <1>1, <1>10, AsksControl
<1>11. QED
  BY <1>4, <1>5, <1>6, <1>7, <1>8, <1>9, <1>10 DEF ZipProc

\* The same for iso.
LEMMA IsoFacts ==
  ASSUME Control, st \in Inner, Is({"iso"})
  PROVE  /\ lib \in LibTypes /\ lib.member \in Nat /\ lib.end \in Nat /\ buf \in Nat /\ off \in Nat /\ st \in Looping
         /\ Second /\ Looked = Size /\ ListIn(cmd, list, Size) /\ ~lib.head /\ ~lib.fixed
         /\ (at = 0 <=> lib.member = 0) /\ (buf # 0 => at # 0)
         /\ (lib.end = 0 => at = 0 /\ buf = 0) /\ (lib.ending => buf = 0) /\ at \in 0 .. Len(list) /\ Len(list) \in Nat
<1>1. Types /\ IsoLib /\ st \in Looping /\ Second
  BY DEF Control, Looping, Inner, Second
<1>2. Looked = Size
  BY <1>1 DEF Looked
<1>3. /\ ListIn(cmd, list, Size) /\ ~lib.head /\ ~lib.fixed
      /\ at = 0 => lib.member = 0 /\ buf = 0
      /\ at # 0 => lib.member = list[at] /\ lib.end > 0
      /\ lib.ending => buf = 0
  BY <1>1, <1>2 DEF IsoLib
<1>4. lib \in LibTypes /\ buf \in Nat /\ off \in Nat /\ at \in 0 .. Len(list) /\ Len(list) \in Nat
  BY <1>1 DEF Types
<1>5. lib.member \in Nat /\ lib.end \in Nat
  BY <1>4 DEF LibTypes
<1>6. at # 0 => list[at] # 0
  <2>1. at # 0 => at \in 1 .. Len(list)
    BY <1>4
  <2>2. \A k \in 1 .. Len(list) : list[k] \in 1 .. Size
    BY <1>3 DEF ListIn
  <2>3. QED
    BY <2>1, <2>2
<1>7. QED
  BY <1>1, <1>2, <1>3, <1>4, <1>5, <1>6

LEMMA IsoGivesControl ==
  ASSUME Control, st = "proc", Is({"iso"}), NEW p, NEW o \in Int, o >= -1, NEW n \in Nat, n > 0, Gives(p, o, n),
         UNCHANGED <<walk, off, many, missing, result, outvars>>, buf' = 0,
         p = Trailer => lib.ending, lib.member # 0 => p # FixedHead(lib.member)
  PROVE  Control'
<1> USE DEF walk, reader, writer, many, result, outvars
<1>1. lib \in LibTypes
  BY DEF Control, Types
<1>2. /\ lib' \in LibTypes /\ piece' = p /\ woff' = o /\ st' = "write" /\ UNCHANGED <<cmd, stop, rc>>
      /\ lib'.member = lib.member /\ lib'.fin = lib.fin /\ lib'.ending = lib.ending /\ lib'.head = FALSE /\ lib'.end = n
      /\ lib'.hdr = (IF lib.head THEN lib.end ELSE lib.hdr)
      /\ lib'.fixed <=> (lib.fixed \/ (lib.member # 0 /\ p = FixedHead(lib.member)))
      /\ lib'.ended <=> (lib.ended \/ p = Trailer)
  BY <1>1, GivesIs
<1>3. Types'
  BY <1>2 DEF Control, Types, Looping, Size, Archives, Is
<1>4. Names' /\ Walk' /\ Found' /\ Idle'
  BY <1>2, InnerStep, InnerNames DEF Inner
<1>5. Owes'
  BY <1>2 DEF Control, Owes, Looping
<1>6. Lib'
  BY <1>2 DEF Lib, Is
<1>7. IsoLib'
  <2>1. ListIn(cmd, list, Size) /\ Second /\ ~lib.fixed
    BY IsoFacts DEF Inner
  <2>2. Looked' = Size' /\ Second' /\ Size' = Size
    BY <1>2, <2>1 DEF Looked, Second, Is, Size
  <2>3. ListIn(cmd, list, Looked)'
    BY <2>1, <2>2, <1>2
  <2>4. IsoLib /\ st \in Looping
    BY DEF Control, Looping
  <2>5. lib'.fixed = FALSE
    BY <1>1, <1>2, <2>1 DEF LibTypes
  <2>6. lib'.ended => lib'.ending
    BY <1>2, <2>4 DEF IsoLib
  <2>7. QED
    BY <1>2, <2>2, <2>3, <2>4, <2>5, <2>6 DEF IsoLib
<1>8. QED
  BY <1>3, <1>4, <1>5, <1>6, <1>7 DEF Control

LEMMA IsoAsksControl ==
  ASSUME Control, st = "proc", Is({"iso"}), NEW s, Asks(s), UNCHANGED <<walk, off, many, missing, result, outvars>>,
         \/ s = "read" /\ lib.member # 0 /\ ~lib.ending /\ buf = 0
         \/ s = "nextopen" /\ lib.member = 0 /\ ~lib.ending /\ buf = 0 /\ lib.end > 0
         \/ s = "done" /\ lib.ended
  PROVE  Control'
<1> USE DEF walk, reader, writer, many, result, outvars
<1>1. st' = s /\ UNCHANGED <<cmd, stop, rc, buf, piece, lib, woff>>
  BY DEF Asks, Goto
<1>2. Types'
  BY <1>1 DEF Control, Types, Looping, Size, Archives, Is
<1>3. Names' /\ Walk' /\ Found' /\ Idle'
  BY <1>1, InnerStep, InnerNames DEF Inner
<1>4. Owes'
  BY <1>1 DEF Control, Owes, Looping
<1>5. Lib'
  BY <1>1 DEF Lib, Is
<1>6. IsoLib'
  <2>1. ListIn(cmd, list, Size) /\ Second /\ (at = 0 <=> lib.member = 0) /\ (lib.ending => buf = 0)
    BY IsoFacts DEF Inner
  <2>2. Looked' = Size' /\ Second' /\ Size' = Size
    BY <1>1, <2>1 DEF Looked, Second, Is, Size
  <2>3. ListIn(cmd, list, Looked)'
    BY <2>1, <2>2, <1>1
  <2>4. IsoLib /\ st \in Looping
    BY DEF Control, Looping
  <2>5. QED
    BY <1>1, <2>1, <2>2, <2>3, <2>4 DEF IsoLib
<1>7. QED
  BY <1>2, <1>3, <1>4, <1>5, <1>6 DEF Control

LEMMA IsoProcControl == ASSUME Control, IsoProc PROVE Control'
<1>1. st = "proc" /\ Is({"iso"}) /\ UNCHANGED <<walk, off, many, missing, result, outvars>>
  BY DEF IsoProc, At
<1>2. /\ lib \in LibTypes /\ lib.member \in Nat /\ lib.end \in Nat /\ buf \in Nat
      /\ (at = 0 <=> lib.member = 0) /\ (buf # 0 => at # 0)
      /\ (lib.end = 0 => at = 0 /\ buf = 0) /\ (lib.ending => buf = 0)
  BY <1>1, IsoFacts DEF Inner
<1>3. woff \in Int /\ woff >= -1
  BY DEF Control, Types
<1>4. Reserved # Trailer /\ (lib.member # 0 => Reserved # FixedHead(lib.member) /\ Trailer # FixedHead(lib.member))
  BY DEF Reserved, Trailer, FixedHead
<1>5. buf # 0 => ChunkOf(lib.member, buf) # Trailer /\ ChunkOf(lib.member, buf) # FixedHead(lib.member)
  <2>1. buf # 0 => buf # -1
    BY <1>2
  <2>2. QED
    BY <2>1 DEF ChunkOf, Trailer, FixedHead
<1>6. CASE lib.end = 0 /\ GivesNext(Reserved)
  <2>1. Gives(Reserved, woff, lib.end + 1) /\ buf' = 0 /\ lib.end + 1 \in Nat /\ lib.end + 1 > 0
    BY <1>2, <1>6 DEF GivesNext
  <2>2. QED
    BY <1>1, <1>3, <1>4, <2>1, IsoGivesControl
<1>7. CASE GivesData
  <2>1. Gives(ChunkOf(lib.member, buf), woff, lib.end + 1) /\ buf' = 0 /\ buf # 0 /\ lib.end + 1 \in Nat /\ lib.end + 1 > 0
    BY <1>2, <1>7 DEF GivesData
  <2>2. QED
    BY <1>1, <1>3, <1>5, <2>1, IsoGivesControl
<1>8. CASE lib.end > 0 /\ buf = 0 /\ ~lib.ending /\ lib.member # 0 /\ Asks("read")
  BY <1>1, <1>8, IsoAsksControl
<1>9. CASE lib.end > 0 /\ buf = 0 /\ ~lib.ending /\ lib.member = 0 /\ Asks("nextopen")
  BY <1>1, <1>9, IsoAsksControl
<1>10. CASE lib.ending /\ ~lib.ended /\ Gives(Trailer, 0, lib.end) /\ UNCHANGED buf
  <2>1. lib.end > 0 /\ buf' = 0
    BY <1>1, <1>2, <1>10 DEF Control, IsoLib, Looping
  <2>2. QED
    BY <1>1, <1>2, <1>4, <1>10, <2>1, IsoGivesControl
<1>11. CASE lib.ended /\ Asks("done")
  BY <1>1, <1>11, IsoAsksControl
<1>12. QED
  BY <1>6, <1>7, <1>8, <1>9, <1>10, <1>11 DEF IsoProc

LEMMA FlushingsAre ==
  ASSUME NEW f \in Flushings
  PROVE  /\ f.err \in BOOLEAN
         /\ ~f.err => /\ f.disk = (IF IsOpen THEN [disk EXCEPT ![obj.name].has = Flushed(@)] ELSE disk)
                      /\ f.cache = (IF IsOpen THEN Empty ELSE obj.cache)
         /\ f.err => f.disk = disk /\ f.cache = obj.cache /\ IsOpen /\ obj.cache # Empty
<1> DEFINE D == IF IsOpen THEN [disk EXCEPT ![obj.name].has = Flushed(@)] ELSE disk
           C == IF IsOpen THEN Empty ELSE obj.cache
<1>1. \/ f = [disk |-> D, cache |-> C, err |-> FALSE]
      \/ f = [disk |-> disk, cache |-> obj.cache, err |-> TRUE] /\ IsOpen /\ obj.cache # Empty
  BY DEF Flushings
<1> HIDE DEF D, C
<1>2. \/ f.err = FALSE /\ f.disk = D /\ f.cache = C
      \/ f.err = TRUE /\ f.disk = disk /\ f.cache = obj.cache /\ IsOpen /\ obj.cache # Empty
  BY <1>1
<1>3. QED
  BY <1>2 DEF D, C

\* A step that fails.
LEMMA FailsControl ==
  ASSUME Control, Types', st \in Looping, st' = "end", UNCHANGED <<cmd, nfile, complete, result, obj>>
  PROVE  Control'
<1>1. Names'
  BY DEF Control, Names, Looping, Is, result
<1>2. QED
  BY <1>1, ToEnd DEF Looping

LEMMA StopControl == ASSUME Control, Stop PROVE Control'
<1> USE DEF walk, reader, writer, many, result, outvars
<1>1. Types' /\ st \in Looping /\ st' = "end"
  BY DEF Control, Stop, Types, GoEnd, Looping, Size, Archives, Is
<1>2. QED
  BY <1>1, FailsControl DEF Stop, GoEnd

\* A step that changes at most "stop".
LEMMA StillControl ==
  ASSUME Control, UNCHANGED <<cmd, st, rc, walk, reader, writer, many, missing, result, outvars>>, stop' \in BOOLEAN
  PROVE  Control'
<1> USE DEF walk, reader, writer, many, result, outvars
<1>1. Types' /\ Names' /\ Owes'
  BY DEF Control, Types, Names, Owes, Size, Archives, Is
<1>2. (Second' <=> Second) /\ (Fresh' <=> Fresh) /\ Looked' = Looked
  BY DEF Second, Fresh, Looked, Is, Size
<1>3. Walk' /\ Found'
  BY <1>2 DEF Control, Walk, Found, Size, Is
<1>4. Lib' /\ Idle'
  BY DEF Control, Lib, Idle, Is, Zips, Archives
<1>5. IsoLib'
  BY <1>2 DEF Control, IsoLib, Is
<1>6. QED
  BY <1>1, <1>3, <1>4, <1>5 DEF Control

LEMMA SignalControl == ASSUME Control, Signal PROVE Control'
  BY StillControl DEF Signal
LEMMA StutterControl == ASSUME Control, UNCHANGED vars PROVE Control'
<1>1. stop' \in BOOLEAN
  BY DEF Control, Types, vars
<1>2. QED
  BY <1>1, StillControl DEF vars

LEMMA FinishControl == ASSUME Control, Finish PROVE Control'
<1> USE DEF walk, reader, writer, many, result
<1>1. PICK f \in Flushings : lost' = (lost \/ (f.err /\ ~del)) /\ obj' = NoObject
  BY DEF Finish, Destroy
<1>2. f.err \in BOOLEAN
  BY FlushingsAre
<1>3. Types'
  BY <1>1, <1>2 DEF Control, Finish, Types, Looping, Size, Archives, Is
<1>4. Names'
  BY <1>1 DEF Control, Finish, Names, Looping, Is, NoObject, Closed
<1>5. QED
  BY <1>3, <1>4, ToEnd DEF Finish, Looping

\* The object keeps its name while it is written to.
LEMMA ObjectKeeps ==
  ASSUME ArchiveSafe
  PROVE  /\ \A x, o : WriteWhole(x, o) => obj'.name = obj.name /\ obj'.owed = Nothing /\ obj'.at = Offset(o) + 1
                                           /\ obj'.cache = Cached(obj.cache, Offset(o), Kept(x))
         /\ \A x : WritePart(x) => obj'.name = obj.name /\ obj'.owed = x /\ obj'.cache = obj.cache /\ obj'.at = obj.at
         /\ \A e : Flush(e) => obj'.name = obj.name /\ obj'.owed = obj.owed /\ obj'.at = obj.at
<1>1. DOMAIN obj = {"name", "at", "cache", "owed"}
  BY DEF ArchiveSafe, Ready
<1>2. QED
  BY <1>1 DEF WriteWhole, WritePart, Flush

LEMMA WriteControl == ASSUME Control, ArchiveSafe, Write PROVE Control'
<1> USE DEF walk, reader, writer, many, result, outvars
<1>1. st = "write" /\ st \in Looping /\ UNCHANGED <<walk, reader, lib, piece, many, missing, result>>
  BY DEF Write, At, Looping
<1>2. CASE MayFail("write") /\ GoEnd(1) /\ UNCHANGED <<woff, outvars>>
  <2>1. Types'
    BY <1>1, <1>2 DEF Control, Types, GoEnd, Looping, Size, Archives, Is
  <2>2. QED
    BY <1>1, <1>2, <2>1, FailsControl DEF GoEnd
<1>3. CASE \/ WriteWhole(piece, woff) /\ woff' = -1 /\ Goto("proc")
           \/ WritePart(piece) /\ woff' = WoffAfterPart /\ Goto("write")
  <2>1. /\ obj'.name = obj.name /\ ((st' = "proc" /\ obj'.owed = Nothing) \/ (st' = "write" /\ obj'.owed = piece))
        /\ UNCHANGED <<lost, cmd, stop, rc>> /\ woff' \in {-1, woff}
    BY <1>3, ObjectKeeps DEF Goto, WriteWhole, WritePart, WoffAfterPart
  <2>2. Types'
    BY <1>1, <2>1 DEF Control, Types, Looping, Size, Archives, Is
  <2>3. Names' /\ Walk' /\ Found' /\ Idle'
    BY <1>1, <2>1, InnerStep, InnerNames DEF Inner
  <2>4. Owes'
    BY <1>1, <2>1 DEF Owes
  <2>5. Lib'
    <3>1. Lib
      BY DEF Control
    <3>2. QED
      BY <1>1, <2>1, <3>1 DEF Lib, Looping, Is, Zips
  <2>6. IsoLib'
    <3>1. CASE Is({"iso"})
      <4>1. ListIn(cmd, list, Size) /\ Second /\ Second'
        BY <1>1, <2>1, <3>1, IsoFacts DEF Inner, Second, Is
      <4>2. ListIn(cmd, list, Looked)'
        BY <1>1, <2>1, <4>1 DEF Looked, Size
      <4>3. IsoLib
        BY DEF Control
      <4>4. QED
        BY <1>1, <2>1, <3>1, <4>1, <4>2, <4>3 DEF IsoLib
    <3>2. CASE ~Is({"iso"})
      BY <2>1, <3>2 DEF IsoLib, Is
    <3>3. QED
      BY <3>1, <3>2
  <2>7. QED
    BY <2>2, <2>3, <2>4, <2>5, <2>6 DEF Control
<1>4. QED
  BY <1>2, <1>3 DEF Write

LEMMA TarFlushControl == ASSUME Control, ArchiveSafe, TarFlush PROVE Control'
<1> USE DEF walk, reader, writer, many, result, outvars
<1>1. st = "flush" /\ st \in Looping /\ UNCHANGED <<walk, reader, writer, many, missing, result>> /\ Is({"tar"})
  BY DEF TarFlush, At, Looping
<1>2. /\ obj'.name = obj.name /\ obj'.owed = obj.owed /\ UNCHANGED <<lost, cmd, stop>>
      /\ ((st' = "done" /\ rc' = rc) \/ (st' = "end" /\ rc' = 1))
  BY ObjectKeeps DEF TarFlush, Flush, Goto, GoEnd
<1>3. Types'
  BY <1>1, <1>2 DEF Control, Types, Looping, Size, Archives, Is
<1>4. CASE st' = "end"
  <2>1. Names'
    BY <1>1, <1>2, <1>4 DEF Control, Names, Looping, Is
  <2>2. QED
    BY <1>3, <1>4, <2>1, ToEnd DEF Looping
<1>5. CASE st' = "done"
  <2>1. Names' /\ Walk' /\ Found' /\ Idle'
    BY <1>1, <1>2, <1>5, InnerStep, InnerNames DEF Inner
  <2>2. Owes'
    BY <1>1, <1>2, <1>5 DEF Control, Owes
  <2>3. Lib'
    BY <1>1, <1>2, <1>5 DEF Control, Lib, Looping, Is, Zips
  <2>4. IsoLib'
    BY <1>1, <1>2 DEF IsoLib, Is
  <2>5. QED
    BY <1>3, <2>1, <2>2, <2>3, <2>4 DEF Control
<1>6. QED
  BY <1>2, <1>4, <1>5

LEMMA CloseGives == ASSUME Close PROVE obj'.name = 0 /\ obj'.owed = Nothing /\ obj'.at = 0 /\ (lost \in BOOLEAN => lost' \in BOOLEAN)
<1>1. PICK f \in Flushings : obj' = [NoObject EXCEPT !.cache = f.cache] /\ lost' = (lost \/ f.err)
  BY DEF Close
<1>2. f.err \in BOOLEAN
  BY FlushingsAre
<1>3. QED
  BY <1>1, <1>2 DEF NoObject, Closed

LEMMA DoneControl == ASSUME Control, Done PROVE Control'
<1> USE DEF walk, reader, writer, many, result, outvars
<1>1. obj'.name = 0 /\ (lost \in BOOLEAN => lost' \in BOOLEAN) /\ st' = "end" /\ rc' \in {0, 1}
  BY CloseGives DEF Done, GoEnd
<1>2. Types'
  BY <1>1 DEF Control, Done, GoEnd, Types, Looping, Size, Archives, Is
<1>3. Names'
  BY <1>1 DEF Control, Done, GoEnd, Names, Looping, Is, At
<1>4. QED
  BY <1>1, <1>2, <1>3, ToEnd DEF Looping

LEMMA ZipDoneControl == ASSUME Control, ZipDone PROVE Control'
<1> USE DEF walk, reader, writer, many, result, outvars
<1>1. obj'.name = 0 /\ obj'.owed = Nothing /\ (lost \in BOOLEAN => lost' \in BOOLEAN)
  BY CloseGives DEF ZipDone
<1>2. /\ st = "done" /\ st' = "outopen" /\ UNCHANGED <<cmd, stop, rc, walk, reader, piece, woff, many, missing>>
      /\ del' = FALSE /\ name' = 0 /\ lib' = LibInit /\ Is({"each"}) /\ st \in Looping /\ st' \in Looping
  BY DEF ZipDone, At, Goto, AfterArchive, Looping
<1>3. LibInit \in LibTypes /\ ~LibInit.ending /\ LibInit.member = 0 /\ ~LibInit.head /\ ~LibInit.ended /\ ~LibInit.fixed
  BY DEF LibInit, LibTypes
<1>4. lib.ending /\ buf = 0 /\ ~Is({"iso"})
  BY <1>2 DEF Control, Lib, Is
<1>5. Types'
  BY <1>1, <1>2, <1>3 DEF Control, Types, Size, Archives, Is
<1>6. Names'
  <2>1. Names
    BY DEF Control
  <2>2. QED
    BY <1>1, <1>2, <1>3, <1>4, <2>1 DEF Names, Is
<1>7. (Fresh' <=> Fresh) /\ ~Second /\ ~Second'
  BY <1>2, <1>3, <1>4 DEF Fresh, Second, Is
<1>8. Walk'
  BY <1>2, <1>3, <1>4, <1>7 DEF Control, Walk, Size, Is
<1>9. Found'
  BY <1>2, <1>7 DEF Control, Found, Looked
<1>10. Lib' /\ Owes'
  BY <1>1, <1>2, <1>3, <1>4 DEF Lib, Owes
<1>11. Idle' /\ IsoLib'
  BY <1>2, <1>4 DEF Idle, IsoLib, Is
<1>12. QED
  BY <1>5, <1>6, <1>8, <1>9, <1>10, <1>11 DEF Control

LEMMA AddControl ==
  ASSUME Control, st = "add", ~Is({"iso"}), UNCHANGED <<cmd, stop, rc, walk, reader, piece, woff, many, missing, result, outvars>>,
         \/ st' = "in" /\ lib' = lib
         \/ st' = "read" /\ lib' = Added(cur) /\ Kind(cur) # "nameless" /\ DataIn(cmd, cur)
         \/ st' = "proc" /\ lib' = Finished(Added(cur)) /\ Kind(cur) # "nameless" /\ ~DataIn(cmd, cur)
  PROVE  Control'
<1> USE DEF walk, reader, writer, many, result, outvars
<1>1. st \in Looping /\ st' \in Looping /\ ~Is({"iso"})' /\ ~Second /\ ~Second'
  BY DEF Looping, Is, Second
<1>2. Types /\ Names /\ Owes /\ Walk /\ Found /\ Lib /\ Idle
  BY DEF Control
<1>3. lib.member = 0 /\ ~lib.ending /\ ~lib.ended /\ off = 0 /\ buf = 0 /\ ~lib.head /\ Kind(cur) \notin {"gone", "excluded"}
  BY <1>1, <1>2 DEF Lib, Kind
<1>4. lib \in LibTypes /\ cur \in Nat /\ cur # 0
  BY <1>1, <1>2, <1>3 DEF Types, Walk
<1>5. /\ Added(cur) \in LibTypes /\ Added(cur).member = cur /\ Added(cur).fin = FALSE /\ Added(cur).fixed = FALSE
      /\ Added(cur).head = TRUE /\ Added(cur).ending = lib.ending /\ Added(cur).ended = lib.ended
  BY <1>4, AddedIs
<1>6. /\ Finished(Added(cur)) \in LibTypes /\ Finished(Added(cur)).fin = TRUE /\ Finished(Added(cur)).fixed = FALSE
      /\ Finished(Added(cur)).member = cur /\ Finished(Added(cur)).head = TRUE /\ Finished(Added(cur)).ending = lib.ending
      /\ Finished(Added(cur)).ended = lib.ended
  BY <1>5, FinishedIs DEF LibSame
<1>7. lib' \in LibTypes /\ lib'.ending = lib.ending
  BY <1>4, <1>5, <1>6
<1>8. Types'
  BY <1>1, <1>2, <1>7 DEF Types, Size, Archives, Is
<1>9. Names' /\ Owes'
  <2>1. Names'
    BY <1>1, <1>2, <1>3, <1>7 DEF Names, Is
  <2>2. Owes'
    BY <1>1, <1>2 DEF Owes
  <2>3. QED
    BY <2>1, <2>2
<1>10. ~Fresh /\ ~Fresh'
  BY <1>3, <1>7 DEF Fresh, Is
<1>11. Walk' /\ Found'
  <2>1. Walk'
    BY <1>1, <1>2, <1>3, <1>4, <1>7, <1>10 DEF Walk, Size
  <2>2. Found'
    BY <1>1, <1>2, <1>10 DEF Found, Looked
  <2>3. QED
    BY <2>1, <2>2
<1>12. Idle' /\ IsoLib'
  BY <1>1, <1>2 DEF Idle, IsoLib, Archives, Is
<1>13. Lib'
  <2>1. cmd.tree[cur].size \in Nat
    BY <1>4, SizeIs
  <2>2. CASE st' = "in" /\ lib' = lib
    BY <1>1, <1>2, <1>3, <2>2 DEF Lib, Is, Zips
  <2>3. CASE st' = "read" /\ lib' = Added(cur) /\ Kind(cur) # "nameless" /\ DataIn(cmd, cur)
    BY <1>1, <1>3, <1>4, <1>5, <2>1, <2>3 DEF Lib, Kind
  <2>4. CASE st' = "proc" /\ lib' = Finished(Added(cur)) /\ Kind(cur) # "nameless" /\ ~DataIn(cmd, cur)
    BY <1>1, <1>3, <1>4, <1>6, <2>1, <2>4 DEF Lib, Kind
  <2>5. QED
    BY <2>2, <2>3, <2>4
<1>14. QED
  BY <1>8, <1>9, <1>11, <1>12, <1>13 DEF Control

LEMMA TarAddControl == ASSUME Control, TarAdd PROVE Control'
<1> USE DEF walk, reader, writer, many, result, outvars
<1>1. st = "add" /\ st \in Looping /\ Is({"tar"}) /\ ~Is({"iso"}) /\ UNCHANGED <<walk, reader, piece, woff, many, missing, result, outvars>>
  BY DEF TarAdd, At, Looping, Is
<1>2. Kind(cur) \notin {"gone", "excluded"} /\ Kind(cur) \in Kinds
  <2>1. Lib /\ Types /\ Walk
    BY DEF Control
  <2>2. Kind(cur) \notin {"gone", "excluded"} /\ cur # 0
    BY <1>1, <2>1 DEF Lib, Kind, Walk, Second
  <2>3. Nested(cmd.tree) /\ cur \in 1 .. Len(cmd.tree)
    BY <2>1, <2>2, CommandIs DEF Types, Size, Nested
  <2>4. QED
    BY <2>2, <2>3 DEF Nested, Kind
<1>3. CASE IsLink(cur) /\ MayFail("readlink") /\ GoEnd(1) /\ UNCHANGED lib
  <2>1. Types'
    BY <1>1, <1>3 DEF Control, Types, GoEnd, Looping, Size, Archives, Is
  <2>2. QED
    BY <1>1, <1>3, <2>1, FailsControl DEF GoEnd
<1>4. CASE Kind(cur) = "nameless" /\ Goto("in") /\ UNCHANGED lib
  BY <1>1, <1>4, AddControl DEF Goto
<1>5. CASE Kind(cur) # "nameless" /\ TarReads(cur) /\ lib' = Added(cur) /\ Goto("read")
  <2>1. DataIn(cmd, cur)
    BY <1>1, <1>2, <1>5 DEF TarReads, IsDir, IsLink, Kind, Kinds, DataIn, Is
  <2>2. QED
    BY <1>1, <1>5, <2>1, AddControl DEF Goto
<1>6. CASE Kind(cur) # "nameless" /\ ~TarReads(cur) /\ lib' = Finished(Added(cur)) /\ Goto("proc")
  <2>1. ~DataIn(cmd, cur)
    BY <1>1, <1>6 DEF TarReads, IsDir, IsLink, Kind, DataIn, Is
  <2>2. QED
    BY <1>1, <1>6, <2>1, AddControl DEF Goto
<1>7. QED
  BY <1>3, <1>4, <1>5, <1>6 DEF TarAdd

LEMMA ZipAddControl == ASSUME Control, ZipAdd PROVE Control'
<1> USE DEF walk, reader, writer, many, result, outvars
<1>1. st = "add" /\ Zips /\ ~Is({"iso"}) /\ UNCHANGED <<walk, reader, piece, woff, many, missing, result, outvars>>
  BY DEF ZipAdd, At, Is, Zips
<1>2. CASE Kind(cur) = "nameless" /\ Goto("in") /\ UNCHANGED lib
  BY <1>1, <1>2, AddControl DEF Goto
<1>3. CASE Kind(cur) # "nameless" /\ ~IsDir(cur) /\ lib' = Added(cur) /\ Goto("read")
  <2>1. DataIn(cmd, cur)
    BY <1>1, <1>3 DEF IsDir, Kind, DataIn, DirIn, Is, Zips
  <2>2. QED
    BY <1>1, <1>3, <2>1, AddControl DEF Goto
<1>4. CASE Kind(cur) # "nameless" /\ IsDir(cur) /\ lib' = Finished(Added(cur)) /\ Goto("proc")
  <2>1. ~DataIn(cmd, cur)
    BY <1>1, <1>4 DEF IsDir, Kind, DataIn, DirIn, Is, Zips
  <2>2. QED
    BY <1>1, <1>4, <2>1, AddControl DEF Goto
<1>5. QED
  BY <1>2, <1>3, <1>4 DEF ZipAdd

LEMMA IsoReadControl == ASSUME Control, IsoRead PROVE Control'
<1> USE DEF walk, reader, writer, many, result, outvars
<1>1. st = "read" /\ st \in Looping /\ Is({"iso"}) /\ UNCHANGED <<walk, writer, many, missing, result, outvars>>
  BY DEF IsoRead, At, Looping
<1>2. IsoLib /\ Types
  BY DEF Control
<1>3. at # 0 /\ cur = list[at] /\ off <= cmd.tree[cur].size /\ lib.end > 0 /\ buf = 0 /\ ~lib.ending /\ off \in Nat
  BY <1>1, <1>2 DEF IsoLib, Types
<1>4. ListIn(cmd, list, Size) /\ Second /\ at \in 1 .. Len(list)
  <2>1. ListIn(cmd, list, Size) /\ Second /\ at \in 0 .. Len(list) /\ Len(list) \in Nat
    BY <1>1, IsoFacts DEF Inner
  <2>2. QED
    BY <2>1, <1>3
<1>5. cur \in 1 .. Size
  BY <1>3, <1>4 DEF ListIn
<1>6. cmd.tree[cur].size \in Nat
  <2>1. Nested(cmd.tree)
    BY <1>2, CommandIs DEF Types
  <2>2. QED
    BY <1>5, <2>1 DEF Nested, Size
<1>7. off' \in {off, off + 1} /\ buf' \in {buf, off + 1} /\ UNCHANGED <<cmd, stop>> /\ st' \in Looping \cup {"end"} /\ rc' \in {rc, 1}
  BY DEF IsoRead, Goto, GoEnd, Looping
<1>8. Types'
  <2>1. off' \in Nat /\ buf' \in Nat
    BY <1>3, <1>7
  <2>2. QED
    BY <1>1, <1>2, <1>7, <2>1 DEF Types, Size, Archives, Is
<1>9. CASE MayFail("read") /\ GoEnd(1)
  BY <1>1, <1>8, <1>9, FailsControl DEF GoEnd
<1>10. CASE st' \in {"proc", "nextopen"} /\ UNCHANGED <<cmd, stop, rc>>
  <2>1. UNCHANGED <<walk, missing, complete, result, nfile, many, obj, lost, lib>> /\ st \in Inner /\ st' \in Inner
    BY <1>1, <1>10 DEF Inner
  <2>2. Names' /\ Walk' /\ Found' /\ Idle'
    BY <1>10, <2>1, InnerStep, InnerNames
  <2>3. Owes'
    BY <1>1, <1>10 DEF Control, Owes
  <2>4. Lib'
    BY <1>1, <1>10 DEF Lib, Is
  <2>5. ListIn(cmd, list, Looked)' /\ Second'
    BY <1>1, <1>4, <1>10 DEF Looked, Second, Size, Is
  <2>6. CASE off < cmd.tree[cur].size /\ off' = off + 1 /\ buf' = off + 1 /\ st' = "proc"
    <3>1. IsoLib'
      BY <1>1, <1>2, <1>3, <1>6, <1>10, <2>1, <2>5, <2>6 DEF IsoLib
    <3>2. QED
      BY <1>8, <2>2, <2>3, <2>4, <3>1 DEF Control
  <2>7. CASE off = cmd.tree[cur].size /\ st' = "nextopen" /\ UNCHANGED reader
    <3>1. IsoLib'
      BY <1>1, <1>2, <1>3, <1>6, <1>10, <2>1, <2>5, <2>7 DEF IsoLib
    <3>2. QED
      BY <1>8, <2>2, <2>3, <2>4, <3>1 DEF Control
  <2>8. QED
    BY <1>10, <2>6, <2>7 DEF IsoRead, Goto, GoEnd
<1>11. QED
  BY <1>9, <1>10 DEF IsoRead, Goto

LEMMA MemberIs ==
  ASSUME lib \in LibTypes, NEW e \in Nat, lib' = [lib EXCEPT !.member = e]
  PROVE  /\ lib' \in LibTypes /\ lib'.member = e /\ LibSame(lib, lib')
         /\ lib'.fin = lib.fin /\ lib'.head = lib.head /\ lib'.ending = lib.ending
  BY DEF LibTypes, LibSame

LEMMA IsoNextOpenControl == ASSUME Control, IsoNextOpen PROVE Control'
<1> USE DEF walk, reader, writer, many, result, outvars
<1>1. /\ st = "nextopen" /\ st \in Looping /\ Is({"iso"})
      /\ UNCHANGED <<todo, isdir, top, buf, piece, woff, list, nfile, complete, missing, result, outvars>>
  BY DEF IsoNextOpen, At, Looping
<1>2. IsoLib /\ Types /\ Names /\ Owes /\ Found /\ Second /\ Looked = Size /\ ListIn(cmd, list, Size)
  BY <1>1, IsoFacts DEF Control, Inner
<1>3. lib.end > 0 /\ buf = 0 /\ (at # 0 => off = cmd.tree[cur].size) /\ ~lib.ending /\ ~lib.ended /\ ~lib.head /\ ~lib.fixed
  BY <1>1, <1>2 DEF IsoLib
<1>4. lib \in LibTypes /\ at \in 0 .. Len(list) /\ Len(list) \in Nat
  BY <1>2 DEF Types
<1>5. CASE at = Len(list) /\ TellFinish /\ Goto("proc") /\ UNCHANGED <<at, cur, off>>
  <2>1. /\ lib' \in LibTypes /\ lib'.ending = TRUE /\ LibSame(lib, lib')
        /\ lib'.member = lib.member /\ lib'.head = lib.head /\ lib'.fin = lib.fin
    BY <1>4, <1>5, EndingIs
  <2>2. st' = "proc" /\ UNCHANGED <<cmd, stop, rc, at, cur, off>>
    BY <1>5 DEF Goto
  <2>3. Types'
    BY <1>1, <1>2, <2>1, <2>2 DEF Types, Looping, Size, Archives, Is
  <2>4. Names'
    BY <1>1, <1>2, <2>2 DEF Names, Looping, Is
  <2>5. Owes' /\ Second' /\ Looked' = Size /\ Size' = Size
    BY <1>1, <1>2, <2>2 DEF Owes, Second, Looked, Is, Size
  <2>6. Walk' /\ Found'
    BY <1>1, <1>2, <2>2, <2>5 DEF Walk, Found
  <2>7. Lib' /\ Idle'
    BY <1>1, <1>2, <2>2, <2>4 DEF Lib, Idle, Names, Is, Looping
  <2>8. IsoLib'
    BY <1>1, <1>2, <1>3, <1>5, <2>1, <2>2, <2>5 DEF IsoLib, LibSame
  <2>9. QED
    BY <2>3, <2>4, <2>5, <2>6, <2>7, <2>8 DEF Control
<1>6. ASSUME at < Len(list), at' = at + 1, cur' = list[at + 1], off' = 0 PROVE Control'
  <2>1. at + 1 \in 1 .. Len(list) /\ at' \in 1 .. Len(list)
    BY <1>4, <1>6
  <2>2. cur' \in 1 .. Size /\ cur' \in Nat
    BY <1>2, <1>6, <2>1 DEF ListIn
  <2>3. cmd.tree[cur'].size \in Nat
    <3>1. Nested(cmd.tree)
      BY <1>2, CommandIs DEF Types
    <3>2. QED
      BY <2>2, <3>1 DEF Nested, Size
  <2>4. CASE MayFail("open") /\ GoEnd(1) /\ UNCHANGED lib
    <3>1. Types'
      BY <1>1, <1>2, <1>6, <2>1, <2>2, <2>4 DEF Types, GoEnd, Looping, Size, Archives, Is
    <3>2. QED
      BY <1>1, <2>4, <3>1, FailsControl DEF GoEnd
  <2>5. CASE lib' = [lib EXCEPT !.member = cur'] /\ Goto("read")
    <3>1. /\ lib' \in LibTypes /\ lib'.member = cur' /\ LibSame(lib, lib')
          /\ lib'.fin = lib.fin /\ lib'.head = lib.head /\ lib'.ending = lib.ending
      <4> DEFINE e == cur'
      <4>1. e \in Nat /\ lib' = [lib EXCEPT !.member = e]
        BY <2>2, <2>5
      <4> HIDE DEF e
      <4>2. /\ lib' \in LibTypes /\ lib'.member = e /\ LibSame(lib, lib')
            /\ lib'.fin = lib.fin /\ lib'.head = lib.head /\ lib'.ending = lib.ending
        BY <1>4, <4>1, MemberIs
      <4>3. QED
        BY <4>2 DEF e
    <3>2. st' = "read" /\ UNCHANGED <<cmd, stop, rc>>
      BY <2>5 DEF Goto
    <3>3. Types'
      BY <1>1, <1>2, <1>6, <2>1, <2>2, <3>1, <3>2 DEF Types, Looping, Size, Archives, Is
    <3>4. Names'
      BY <1>1, <1>2, <3>2 DEF Names, Looping, Is
    <3>5. Owes' /\ Second' /\ Looked' = Size /\ Size' = Size
      BY <1>1, <1>2, <3>2 DEF Owes, Second, Looked, Is, Size
    <3>6. Walk' /\ Found'
      BY <1>1, <1>2, <3>2, <3>5 DEF Walk, Found
    <3>7. Lib' /\ Idle'
      BY <1>1, <1>2, <3>2, <3>4 DEF Lib, Idle, Names, Is, Looping
    <3>8. IsoLib'
      <4>1. list[at'] = cur' /\ at' # 0 /\ off' <= cmd.tree[cur'].size
        BY <1>4, <1>6, <2>1, <2>3
      <4>2. ListIn(cmd, list, Looked)'
        BY <1>1, <1>2, <3>2, <3>5
      <4>3. QED
        BY <1>1, <1>2, <1>3, <3>1, <3>2, <3>5, <4>1, <4>2 DEF IsoLib, LibSame
    <3>9. QED
      BY <3>3, <3>4, <3>5, <3>6, <3>7, <3>8 DEF Control
  <2>6. QED
    BY <1>6, <2>4, <2>5, <1>4 DEF IsoNextOpen
<1>7. QED
  BY <1>5, <1>6 DEF IsoNextOpen

-----------------------------------------------------------------------------
(* The walk *)

\* The list of iso does not grow over what is not a file.
LEMMA ListSame ==
  ASSUME NEW c, NEW l, NEW u \in Int, NEW v \in Int, u <= v, ListIn(c, l, u), \A x \in 1 .. v : x > u => ~Listed(c, x)
  PROVE  ListIn(c, l, v)
<1>1. \A k \in 1 .. Len(l) : l[k] \in 1 .. v /\ Listed(c, l[k])
  BY DEF ListIn
<1>2. \A x \in 1 .. v : Listed(c, x) => x \in 1 .. u
  OBVIOUS
<1>3. QED
  BY <1>1, <1>2 DEF ListIn

LEMMA ListGrows ==
  ASSUME NEW c, NEW l, NEW u \in Nat, ListIn(c, l, u), Listed(c, u + 1)
  PROVE  ListIn(c, Append(l, u + 1), u + 1)
<1> DEFINE r == Append(l, u + 1)
<1>1. /\ l \in Seq(Nat) /\ Len(l) \in Nat
      /\ \A k \in 1 .. Len(l) : l[k] \in 1 .. u /\ Listed(c, l[k])
      /\ \A x \in 1 .. u : Listed(c, x) => \E k \in 1 .. Len(l) : l[k] = x
      /\ \A j, k \in 1 .. Len(l) : j < k => l[j] < l[k]
  BY DEF ListIn
<1>2. r \in Seq(Nat) /\ Len(r) = Len(l) + 1 /\ (\A k \in 1 .. Len(l) : r[k] = l[k]) /\ r[Len(l) + 1] = u + 1
  BY <1>1
<1> HIDE DEF r
<1>3. \A k \in 1 .. Len(r) : r[k] \in 1 .. u + 1 /\ Listed(c, r[k])
  <2> TAKE k \in 1 .. Len(r)
  <2>1. CASE k \in 1 .. Len(l)
    <3>1. l[k] \in 1 .. u /\ Listed(c, l[k])
      BY <1>1, <2>1
    <3>2. r[k] = l[k]
      BY <1>2, <2>1
    <3>3. \A x \in 1 .. u : x \in 1 .. u + 1
      OBVIOUS
    <3>4. QED
      BY <3>1, <3>2, <3>3
  <2>2. CASE k = Len(l) + 1
    <3>1. r[k] = u + 1
      BY <1>2, <2>2
    <3>2. u + 1 \in 1 .. u + 1
      OBVIOUS
    <3>3. QED
      BY <3>1, <3>2
  <2>3. k \in 1 .. Len(l) \/ k = Len(l) + 1
    BY <1>1, <1>2
  <2>4. QED
    BY <2>1, <2>2, <2>3
<1>4. \A x \in 1 .. u + 1 : Listed(c, x) => \E k \in 1 .. Len(r) : r[k] = x
  <2> TAKE x \in 1 .. u + 1
  <2>1. CASE x \in 1 .. u
    <3>1. Listed(c, x) => \E k \in 1 .. Len(l) : l[k] = x
      BY <1>1, <2>1
    <3>2. \A k \in 1 .. Len(l) : k \in 1 .. Len(r) /\ r[k] = l[k]
      BY <1>1, <1>2
    <3>3. QED
      BY <3>1, <3>2
  <2>2. CASE x = u + 1
    <3>1. Len(l) + 1 \in 1 .. Len(r)
      BY <1>1, <1>2
    <3>2. QED
      BY <1>2, <2>2, <3>1
  <2>3. QED
    BY <2>1, <2>2
<1>5. \A j, k \in 1 .. Len(r) : j < k => r[j] < r[k]
  <2> TAKE j, k \in 1 .. Len(r)
  <2> HAVE j < k
  <2>0. Len(l) \in Nat /\ Len(r) = Len(l) + 1
    BY <1>1, <1>2
  <2>1. j \in 1 .. Len(l) /\ r[j] = l[j]
    <3>1. j \in 1 .. Len(l)
      BY <2>0
    <3>2. QED
      BY <1>2, <3>1
  <2>2. CASE k \in 1 .. Len(l)
    <3>1. r[k] = l[k] /\ l[j] < l[k]
      BY <1>1, <1>2, <2>1, <2>2
    <3>2. QED
      BY <2>1, <3>1
  <2>3. CASE k = Len(l) + 1
    <3>1. r[k] = u + 1 /\ l[j] \in 1 .. u
      BY <1>1, <1>2, <2>1, <2>3
    <3>2. QED
      BY <2>1, <3>1
  <2>4. k \in 1 .. Len(l) \/ k = Len(l) + 1
    <3>1. Len(l) \in Nat /\ Len(r) = Len(l) + 1
      BY <1>1, <1>2
    <3>2. QED
      BY <3>1
  <2>5. QED
    BY <2>2, <2>3, <2>4
<1>6. QED
  BY <1>2, <1>3, <1>4, <1>5 DEF ListIn, r

\* I_IN: the walk gives an entry, ...
LEMMA InFacts ==
  ASSUME Control, st = "in"
  PROVE  /\ st \in Looping /\ ~Second /\ ~Fresh /\ ~complete /\ cmd \in Commands /\ Looked = cur /\ Size \in Nat
         /\ Walked(cmd, todo, isdir, cur, top) /\ Skips(cmd.tree, isdir, cur) /\ isdir \in BOOLEAN
         /\ cur \in 0 .. Size /\ top \in Nat /\ Attached = Ahead(cmd, todo, isdir, cur)
         /\ ~lib.ending \/ Is({"iso"})
<1>1. Types /\ Names /\ Walk /\ Lib /\ IsoLib /\ st \in Looping
  BY DEF Control, Looping
<1>2. ~Second
  BY DEF Second
<1>3. ~Is({"iso"}) => ~lib.ending
  BY <1>1 DEF Lib
<1>4. ~Fresh /\ ~complete
  BY <1>1, <1>3 DEF Fresh, Names, Is
<1>5. Nested(cmd.tree)
  BY <1>1, CommandIs DEF Types
<1>6. QED
  BY <1>1, <1>2, <1>3, <1>4, <1>5 DEF Walk, Types, Looked, Attached, Ahead, Nested, Size

LEMMA GivenIs ==
  ASSUME Control, st = "in", NEW then, Given(then)
  PROVE  /\ cur' \in 1 .. Size /\ cur' > cur /\ Bare(cmd.tree, cur + 1, cur' - 1)
         /\ Walked(cmd, todo', FALSE, cur', top') /\ isdir' = FALSE /\ st' = then /\ UNCHANGED <<cmd, stop, rc>>
         /\ IsTop(cur') => top' = top + 1 /\ cmd.tops[top'] = cur'
         /\ ~IsTop(cur') => top' = top
         /\ top' \in 1 .. Len(cmd.tops) /\ Len(cmd.tops) \in Nat
         /\ cur' = Head(Attached)
<1>1. /\ cmd \in Commands /\ Walked(cmd, todo, isdir, cur, top) /\ Skips(cmd.tree, isdir, cur) /\ isdir \in BOOLEAN
      /\ Attached = Ahead(cmd, todo, isdir, cur) /\ top \in Nat
  BY InFacts
<1>2. PICK c \in Commands, w \in {todo}, d \in BOOLEAN, e \in {cur}, n \in Nat : c = cmd /\ w = todo /\ d = isdir /\ e = cur /\ n = top
  BY <1>1
<1>3. c \in Commands /\ d \in BOOLEAN /\ Ahead(c, w, d, e) # <<>> /\ Walked(c, w, d, e, n) /\ Skips(c.tree, d, e)
  BY <1>1, <1>2 DEF Given
<1>4. PICK h : h = Head(Ahead(c, w, d, e))
  OBVIOUS
<1>5. /\ h \in 1 .. Len(c.tree) /\ h > e /\ Bare(c.tree, e + 1, h - 1)
      /\ Walked(c, Tail(Ahead(c, w, d, e)), FALSE, h, IF h \in ToSet(c.tops) THEN n + 1 ELSE n)
      /\ h \in ToSet(c.tops) => n + 1 <= Len(c.tops) /\ c.tops[n + 1] = h
  <2>1. Comes(c, w, d, e, n, h)
    BY <1>3, <1>4, WalkGives
  <2>2. QED
    BY <2>1 DEF Comes
<1>6. h # 0
  BY <1>5
<1>7. (IF h \in ToSet(c.tops) THEN n + 1 ELSE n) \in 1 .. Len(c.tops)
  BY ONLY <1>2, <1>5, <1>6, BelowTop
<1>8. Len(c.tops) \in Nat
  BY CommandIs DEF TopsIn
<1>9. /\ cur' = h /\ todo' = Tail(Ahead(c, w, d, e)) /\ isdir' = FALSE /\ st' = then /\ UNCHANGED <<cmd, stop, rc>>
      /\ top' = (IF h \in ToSet(c.tops) THEN n + 1 ELSE n)
  BY <1>1, <1>2, <1>4 DEF Given, IsTop, Goto
<1>10. QED
  BY <1>1, <1>2, <1>4, <1>5, <1>7, <1>8, <1>9 DEF IsTop, Size, Given

\* ... or it has ended.
LEMMA NoMoreIs ==
  ASSUME Control, st = "in", NoMore
  PROVE  /\ Walked(cmd, <<>>, FALSE, cur, top) /\ Skips(cmd.tree, FALSE, cur) /\ Bare(cmd.tree, cur + 1, Size)
         /\ todo' = <<>> /\ isdir' = FALSE /\ UNCHANGED <<cur, top>>
         /\ top = 0 => Len(cmd.tops) = 0
<1>1. /\ cmd \in Commands /\ Walked(cmd, todo, isdir, cur, top) /\ Skips(cmd.tree, isdir, cur) /\ isdir \in BOOLEAN
      /\ Attached = Ahead(cmd, todo, isdir, cur)
  BY InFacts
<1>2. PICK c \in Commands, w \in {todo}, d \in BOOLEAN, e \in {cur}, n \in {top} : c = cmd /\ w = todo /\ d = isdir /\ e = cur /\ n = top
  BY <1>1
<1>3. c \in Commands /\ d \in BOOLEAN /\ Ahead(c, w, d, e) = <<>> /\ Walked(c, w, d, e, n) /\ Skips(c.tree, d, e)
  BY <1>1, <1>2 DEF NoMore
<1>4. w = <<>> /\ Walked(c, <<>>, FALSE, e, n) /\ Skips(c.tree, FALSE, e) /\ Bare(c.tree, e + 1, Len(c.tree))
  BY <1>3, WalkEnds
<1>5. ASSUME n = 0 PROVE Len(c.tops) = 0
  <2>1. e = 0
    <3>1. CASE e # 0
      <4>1. n \in 1 .. Len(c.tops)
        BY ONLY <1>2, <1>4, <3>1, BelowTop
      <4>2. QED
        BY <1>5, <4>1
    <3>2. QED
      BY <3>1
  <2>2. Chain(c.tree, <<>>, 1, Len(c.tree))
    BY <1>4, <2>1 DEF Walked, Past
  <2>3. 1 = Len(c.tree) + 1
    BY <2>2 DEF Chain
  <2>4. TopsIn(c) /\ Nested(c.tree)
    BY CommandIs
  <2>5. Len(c.tops) \in Nat /\ Len(c.tree) \in Nat /\ \A k \in 1 .. Len(c.tops) : c.tops[k] \in 1 .. Len(c.tree)
    BY <2>4 DEF TopsIn, Nested
  <2>6. CASE Len(c.tops) # 0
    <3>1. 1 \in 1 .. Len(c.tops)
      BY <2>5, <2>6
    <3>2. c.tops[1] \in 1 .. Len(c.tree)
      BY <2>5, <3>1
    <3>3. QED
      BY <2>3, <2>5, <3>2
  <2>7. QED
    BY <2>6
<1>6. QED
  BY <1>2, <1>4, <1>5 DEF NoMore, Size

LEMMA NoneGoneOver ==
  ASSUME NEW c, NEW u \in Int, NEW v \in Int, NoneGone(c, u), Bare(c.tree, u + 1, v) PROVE NoneGone(c, v)
<1>1. \A x \in 1 .. v : x \in 1 .. u \/ x \in u + 1 .. v
  OBVIOUS
<1>2. QED
  BY <1>1 DEF NoneGone, Bare

\* The list of iso does not change while entries are passed over.
LEMMA ListOver ==
  ASSUME NEW c, NEW l, NEW u \in Int, NEW v \in Int, u <= v, ListIn(c, l, u), Bare(c.tree, u + 1, v)
  PROVE  ListIn(c, l, v)
<1>1. \A x \in 1 .. v : x > u => ~Listed(c, x)
  BY DEF Bare, Listed
<1>2. QED
  BY <1>1, ListSame

\* An entry is given.
LEMMA GivenControl ==
  ASSUME Control, st = "in", NEW then, Given(then), UNCHANGED <<reader, piece, woff, many, missing, result, outvars>>,
         \/ then = "info" /\ lib' = lib /\ (Is({"each"}) => ~IsTop(cur'))
         \/ then = "proc" /\ TellFinish /\ Is({"each"}) /\ IsTop(cur') /\ nfile # 0
         \/ then = "outopen" /\ lib' = lib /\ Is({"each"}) /\ IsTop(cur') /\ nfile = 0
  PROVE  Control'
<1> USE DEF walk, reader, writer, many, result, outvars
<1>1. Types /\ Names /\ Owes /\ Found /\ Lib /\ Idle /\ IsoLib
  BY DEF Control
<1>2. /\ st \in Looping /\ ~Second /\ ~Fresh /\ ~complete /\ cmd \in Commands /\ Looked = cur
      /\ cur \in 0 .. Size /\ top \in Nat /\ (~lib.ending \/ Is({"iso"})) /\ Size \in Nat
  BY InFacts
<1>3. /\ cur' \in 1 .. Size /\ cur' > cur /\ Bare(cmd.tree, cur + 1, cur' - 1)
      /\ Walked(cmd, todo', FALSE, cur', top') /\ isdir' = FALSE /\ st' = then /\ UNCHANGED <<cmd, stop, rc>>
      /\ IsTop(cur') => top' = top + 1 /\ cmd.tops[top'] = cur'
      /\ ~IsTop(cur') => top' = top
      /\ top' \in 1 .. Len(cmd.tops) /\ Len(cmd.tops) \in Nat
  BY GivenIs
<1>4. lib \in LibTypes
  BY <1>1 DEF Types
<1>5. /\ lib' \in LibTypes /\ lib'.member = lib.member /\ lib'.head = lib.head /\ lib'.fin = lib.fin /\ LibSame(lib, lib')
      /\ lib'.ending = (lib.ending \/ then = "proc")
  <2>1. CASE TellFinish /\ then = "proc"
    BY <1>4, <2>1, EndingIs
  <2>2. CASE lib' = lib /\ then # "proc"
    BY <1>4, <2>2 DEF LibTypes, LibSame
  <2>3. QED
    BY <2>1, <2>2
<1>6. Types'
  <2>1. top' \in 0 .. Len(cmd.tops) /\ cur' \in 0 .. Size
    BY <1>2, <1>3
  <2>2. st' \in Looping /\ Size' = Size
    BY <1>3 DEF Looping, Size
  <2>3. QED
    BY <1>1, <1>3, <1>5, <2>1, <2>2 DEF Types, Archives, Is
<1>7. nfile = (IF Is({"each"}) THEN top ELSE 0) /\ del = (name # 0) /\ name = (IF Is({"each"}) THEN nfile ELSE 1)
  BY <1>1, <1>2 DEF Names, Is
<1>8. Names'
  <2>1. top' - 1 = top \/ top' = top
    <3>1. top' = top + 1 \/ top' = top
      BY <1>3
    <3>2. top \in Nat
      BY <1>2
    <3>3. QED
      BY ONLY <3>1, <3>2
  <2>2. /\ ~Is({"each"})' => nfile' = 0 /\ ~complete'
        /\ obj'.name = (IF del' THEN name' ELSE 0) \/ st' = "over"
        /\ del' => name' # 0
        /\ st' # "over" /\ ~complete'
    BY <1>1, <1>2, <1>3 DEF Names, Is
  <2>3. CASE then = "info" /\ lib' = lib
    BY <1>1, <1>2, <1>3, <1>7, <2>2, <2>3 DEF Names, Is
  <2>4. CASE then = "proc" /\ Is({"each"}) /\ IsTop(cur') /\ nfile # 0
    <3>1. top' - 1 = top
      BY <1>2, <1>3, <2>4
    <3>2. QED
      BY <1>1, <1>2, <1>3, <1>5, <1>7, <2>2, <2>4, <3>1 DEF Names, Is
  <2>5. CASE then = "outopen" /\ Is({"each"}) /\ IsTop(cur') /\ nfile = 0
    <3>1. top' - 1 = top
      BY <1>2, <1>3, <2>5
    <3>2. QED
      BY <1>1, <1>2, <1>3, <1>5, <1>7, <2>2, <2>5, <3>1 DEF Names, Is
  <2>6. QED
    BY <2>3, <2>4, <2>5
<1>9. Owes'
  BY <1>1, <1>2, <1>3 DEF Owes
<1>10. Fresh' /\ ~Second' /\ Looked' = cur' - 1
  <2>1. Fresh' /\ ~Second'
    BY <1>2, <1>3, <1>5 DEF Fresh, Second, Is
  <2>2. QED
    BY <2>1 DEF Looked
<1>11. Walk'
  <2>1. cur' # 0 /\ ~complete'
    BY <1>2, <1>3
  <2>2. st' = "outopen" => Is({"each"})'
    BY <1>3 DEF Is
  <2>3. st' # "add"
    BY <1>3
  <2>4. Is({"each"})' /\ (st' = "outopen" \/ lib'.ending) => cmd.tops[top'] = cur'
    <3>1. Is({"each"})' => Is({"each"}) /\ ~Is({"iso"})
      BY <1>3 DEF Is
    <3>2. Is({"each"})' /\ (st' = "outopen" \/ lib'.ending) => then # "info"
      BY <1>2, <1>3, <1>5, <3>1
    <3>3. QED
      BY <1>3, <3>2
  <2>5. QED
    BY <1>3, <1>10, <2>1, <2>2, <2>3, <2>4 DEF Walk
<1>12. Found'
  <2>1. cur \in Int /\ cur' - 1 \in Int
    BY <1>2, <1>3
  <2>2. ~missing => NoneGone(cmd, cur)
    BY <1>1, <1>2 DEF Found
  <2>3. ~missing => NoneGone(cmd, cur' - 1)
    <3>1. PICK v \in Int : v = cur' - 1
      BY <2>1
    <3>2. ~missing => NoneGone(cmd, v)
      BY <1>3, <2>1, <2>2, <3>1, NoneGoneOver
    <3>3. QED
      BY <3>1, <3>2
  <2>4. QED
    BY <1>3, <1>10, <2>3 DEF Found
<1>13. Lib'
  <2>1. ~Is({"iso"}) => lib.member = 0 /\ ~lib.head /\ buf = 0 /\ ~lib.ended
    BY <1>1, <1>2 DEF Lib
  <2>2. ~Is({"iso"})' => ~Is({"iso"})
    BY <1>3 DEF Is
  <2>3. QED
    BY <1>2, <1>3, <1>5, <2>1, <2>2 DEF Lib, LibSame
<1>14. Idle'
  <2>1. CASE name # 0
    BY <2>1 DEF Idle
  <2>2. CASE name = 0
    <3>1. Is({"each"}) /\ nfile = 0 /\ top = 0 /\ Archives # {} => lib = LibInit
      BY <1>1, <1>2, <1>7, <2>2 DEF Idle
    <3>2. Is({"each"})
      BY <1>7, <2>2
    <3>3. then # "info"
      <4>1. top = 0 /\ (then = "info" => top' = top)
        BY <1>3, <1>7, <2>2, <3>2
      <4>2. QED
        BY <1>3, <4>1
    <3>4. Archives' = Archives
      BY <1>3 DEF Archives, Is
    <3>5. QED
      BY <1>3, <1>7, <2>2, <3>1, <3>2, <3>3, <3>4 DEF Idle
  <2>3. QED
    BY <2>1, <2>2
<1>15. IsoLib'
  <2>1. CASE Is({"iso"})
    <3>1. ListIn(cmd, list, cur) /\ lib = LibInit /\ at = 0 /\ buf = 0
      BY <1>1, <1>2, <2>1 DEF IsoLib
    <3>2. then = "info" /\ lib' = lib
      BY <2>1 DEF Is
    <3>3. PICK v \in Int : v = cur' - 1 /\ cur <= v /\ cur \in Int
      <4>1. cur' \in Int /\ cur \in Int /\ cur' > cur
        BY <1>2, <1>3
      <4>2. \A a, b \in Int : a > b => a - 1 \in Int /\ b <= a - 1
        OBVIOUS
      <4>3. cur' - 1 \in Int /\ cur <= cur' - 1
        BY <4>1, <4>2
      <4>4. QED
        BY <4>1, <4>3
    <3>4. ListIn(cmd, list, v)
      BY <1>3, <3>1, <3>3, ListOver
    <3>5. ListIn(cmd, list, Looked)'
      BY <1>3, <1>10, <3>3, <3>4
    <3>6. LibInit.member = 0 /\ ~LibInit.head /\ ~LibInit.fixed /\ ~LibInit.ending /\ ~LibInit.ended
      BY DEF LibInit
    <3>7. QED
      BY <1>3, <1>10, <3>1, <3>2, <3>5, <3>6 DEF IsoLib
  <2>2. CASE ~Is({"iso"})
    BY <1>3, <2>2 DEF IsoLib, Is
  <2>3. QED
    BY <2>1, <2>2
<1>16. QED
  BY <1>6, <1>8, <1>9, <1>11, <1>12, <1>13, <1>14, <1>15 DEF Control

\* The input has ended.
LEMMA NoMoreControl ==
  ASSUME Control, st = "in", NoMore, Goto("proc"), UNCHANGED <<reader, piece, woff, list, at, nfile, missing, result, outvars>>,
         complete' \in BOOLEAN, complete' <=> Is({"each"}), IF Is({"iso"}) THEN lib' = lib ELSE TellFinish
  PROVE  Control'
<1> USE DEF walk, reader, writer, many, result, outvars
<1>1. Types /\ Names /\ Owes /\ Found /\ Lib /\ Idle /\ IsoLib
  BY DEF Control
<1>2. /\ st \in Looping /\ ~Second /\ ~Fresh /\ ~complete /\ cmd \in Commands /\ Looked = cur
      /\ cur \in 0 .. Size /\ top \in Nat /\ (~lib.ending \/ Is({"iso"})) /\ Size \in Nat
  BY InFacts
<1>3. /\ Walked(cmd, <<>>, FALSE, cur, top) /\ Skips(cmd.tree, FALSE, cur) /\ Bare(cmd.tree, cur + 1, Size)
      /\ todo' = <<>> /\ isdir' = FALSE /\ UNCHANGED <<cur, top>>
      /\ top = 0 => Len(cmd.tops) = 0
  BY NoMoreIs
<1>4. st' = "proc" /\ UNCHANGED <<cmd, stop, rc>> /\ lib \in LibTypes
  BY <1>1 DEF Types, Goto
<1>5. /\ lib' \in LibTypes /\ lib'.member = lib.member /\ lib'.head = lib.head /\ lib'.fin = lib.fin /\ LibSame(lib, lib')
      /\ ~Is({"iso"}) => lib'.ending = TRUE
      /\ Is({"iso"}) => lib' = lib
  <2>1. CASE Is({"iso"})
    BY <1>4, <2>1 DEF LibTypes, LibSame
  <2>2. CASE ~Is({"iso"})
    BY <1>4, <2>2, EndingIs
  <2>3. QED
    BY <2>1, <2>2
<1>6. Types'
  <2>1. complete' \in BOOLEAN
    OBVIOUS
  <2>2. QED
    BY <1>1, <1>3, <1>4, <1>5, <2>1 DEF Types, Looping, Size, Archives, Is
<1>7. nfile = (IF Is({"each"}) THEN top ELSE 0) /\ del = (name # 0) /\ name = (IF Is({"each"}) THEN nfile ELSE 1)
  BY <1>1, <1>2 DEF Names, Is
<1>8. Names'
  <2>1. Is({"each"})' = Is({"each"}) /\ (Is({"each"}) => ~Is({"iso"}))
    BY <1>4 DEF Is
  <2>2. CASE Is({"each"})
    BY <1>1, <1>2, <1>3, <1>4, <1>5, <1>7, <2>1, <2>2 DEF Names
  <2>3. CASE ~Is({"each"})
    BY <1>1, <1>2, <1>3, <1>4, <1>5, <1>7, <2>1, <2>3 DEF Names
  <2>4. QED
    BY <2>2, <2>3
<1>9. Owes'
  BY <1>1, <1>2, <1>4 DEF Owes
<1>10. ~Fresh' /\ Size' = Size /\ (Second' <=> Is({"iso"})) /\ Looked' = (IF Is({"iso"}) THEN Size ELSE cur)
  <2>1. ~Fresh' /\ Size' = Size /\ (Second' <=> Is({"iso"}))
    BY <1>2, <1>4, <1>5 DEF Fresh, Second, Is, Size
  <2>2. QED
    BY <1>3, <2>1 DEF Looked
<1>11. Walk'
  <2>1. Is({"each"})' => complete'
    BY <1>4 DEF Is
  <2>2. QED
    BY <1>3, <1>4, <1>5, <1>10, <2>1 DEF Walk
<1>12. Found'
  <2>1. ~missing => NoneGone(cmd, cur)
    BY <1>1, <1>2 DEF Found
  <2>2. ~missing => NoneGone(cmd, Size)
    BY <1>2, <1>3, <2>1, NoneGoneOver
  <2>3. QED
    BY <1>3, <1>4, <1>10, <2>1, <2>2 DEF Found
<1>13. Lib'
  <2>1. ~Is({"iso"}) => lib.member = 0 /\ ~lib.head /\ buf = 0 /\ ~lib.ended
    BY <1>1, <1>2 DEF Lib
  <2>2. ~Is({"iso"})' => ~Is({"iso"})
    BY <1>4 DEF Is
  <2>3. QED
    BY <1>2, <1>4, <1>5, <2>1, <2>2 DEF Lib, LibSame
<1>14. Idle'
  <2>1. CASE name # 0
    BY <2>1 DEF Idle
  <2>2. CASE name = 0
    <3>1. Is({"each"}) /\ Len(cmd.tops) = 0
      BY <1>3, <1>7, <2>2
    <3>2. Archives' = {}
      BY <1>4, <3>1 DEF Archives, Is
    <3>3. QED
      BY <3>2 DEF Idle
  <2>3. QED
    BY <2>1, <2>2
<1>15. IsoLib'
  <2>1. CASE Is({"iso"})
    <3>1. ListIn(cmd, list, cur) /\ lib = LibInit /\ at = 0 /\ buf = 0
      BY <1>1, <1>2, <2>1 DEF IsoLib
    <3>2. ListIn(cmd, list, Size)
      BY <1>2, <1>3, <3>1, ListOver
    <3>3. ListIn(cmd, list, Looked)'
      BY <1>4, <1>10, <2>1, <3>2
    <3>4. LibInit.member = 0 /\ ~LibInit.head /\ ~LibInit.fixed /\ ~LibInit.ending /\ ~LibInit.ended
      BY DEF LibInit
    <3>5. QED
      BY <1>4, <1>5, <1>10, <2>1, <3>1, <3>3, <3>4 DEF IsoLib
  <2>2. CASE ~Is({"iso"})
    BY <1>4, <2>2 DEF IsoLib, Is
  <2>3. QED
    BY <2>1, <2>2
<1>16. QED
  BY <1>6, <1>8, <1>9, <1>11, <1>12, <1>13, <1>14, <1>15 DEF Control

LEMMA InputFailsControl ==
  ASSUME Control, st = "in", InputFails, UNCHANGED <<lib, complete, reader, piece, woff, list, at, nfile, missing, result, outvars>>
  PROVE  Control'
<1> USE DEF walk, reader, writer, many, result, outvars
<1>1. Types'
  BY DEF Control, InputFails, Types, GoEnd, Looping, Size, Archives, Is
<1>2. QED
  BY <1>1, FailsControl DEF InputFails, GoEnd, Looping

LEMMA NextEntryControl == ASSUME Control, NextEntry PROVE Control'
<1>1. st = "in" /\ ~Is({"each"}) /\ ~complete /\ UNCHANGED <<reader, piece, woff, many, missing, result, outvars>>
  BY InFacts DEF NextEntry, At
<1>2. CASE Given("info") /\ UNCHANGED lib
  BY <1>1, <1>2, GivenControl
<1>3. CASE NoMore /\ Goto("proc") /\ (IF Is({"iso"}) THEN UNCHANGED lib ELSE TellFinish)
  <2>1. complete \in BOOLEAN
    BY DEF Control, Types
  <2>2. QED
    BY <1>1, <1>3, <2>1, NoMoreControl DEF many
<1>4. CASE InputFails /\ UNCHANGED lib
  BY <1>1, <1>4, InputFailsControl DEF many
<1>5. QED
  BY <1>2, <1>3, <1>4 DEF NextEntry

LEMMA NextOfEachControl == ASSUME Control, NextOfEach PROVE Control'
<1>1. /\ st = "in" /\ Is({"each"}) /\ ~Is({"iso"}) /\ ~complete
      /\ UNCHANGED <<reader, piece, woff, list, at, nfile, missing, result, outvars>>
  BY InFacts DEF NextOfEach, At, Is
<1>2. CASE NoMore /\ TellFinish /\ complete' = TRUE /\ Goto("proc")
  BY <1>1, <1>2, NoMoreControl DEF Is
<1>3. CASE InputFails /\ UNCHANGED <<lib, complete>>
  BY <1>1, <1>3, InputFailsControl
<1>4. CASE UNCHANGED complete /\ ~IsTop(Head(Attached)) /\ Given("info") /\ UNCHANGED lib
  <2>1. ~IsTop(cur') /\ UNCHANGED many
    BY <1>1, <1>4, GivenIs DEF many
  <2>2. QED
    BY <1>1, <1>4, <2>1, GivenControl
<1>5. CASE UNCHANGED complete /\ IsTop(Head(Attached)) /\ nfile # 0 /\ Given("proc") /\ TellFinish
  <2>1. IsTop(cur') /\ UNCHANGED many
    BY <1>1, <1>5, GivenIs DEF many
  <2>2. QED
    BY <1>1, <1>5, <2>1, GivenControl
<1>6. CASE UNCHANGED complete /\ IsTop(Head(Attached)) /\ nfile = 0 /\ Given("outopen") /\ UNCHANGED lib
  <2>1. IsTop(cur') /\ UNCHANGED many
    BY <1>1, <1>6, GivenIs DEF many
  <2>2. QED
    BY <1>1, <1>6, <2>1, GivenControl
<1>7. QED
  BY <1>2, <1>3, <1>4, <1>5, <1>6 DEF NextOfEach


\* What is below an entry that is no directory is not reached.
LEMMA LeafSkips ==
  ASSUME NEW c \in Commands, NEW e \in 1 .. Len(c.tree), ~DirIn(c.tree, e)
  PROVE  Bare(c.tree, e + 1, Past(c.tree, e) - 1)
<1>1. c.tree[e].last \in Nat
  BY CommandIs DEF Nested
<1>2. Past(c.tree, e) - 1 = c.tree[e].last
  BY <1>1 DEF Past
<1>3. ASSUME NEW x \in e + 1 .. c.tree[e].last PROVE ~ReachIn(c.tree, x)
  <2>1. e \in 1 .. x - 1 /\ x <= c.tree[e].last
    BY <1>1
  <2>2. QED
    BY <2>1 DEF ReachIn
<1>4. QED
  BY <1>2, <1>3 DEF Bare

LEMMA InfoFacts ==
  ASSUME Control, st = "info"
  PROVE  /\ st \in Looping /\ ~Second /\ Fresh /\ ~complete /\ cmd \in Commands /\ Looked = cur - 1 /\ ~lib.ending
         /\ Walked(cmd, todo, FALSE, cur, top) /\ isdir = FALSE
         /\ cur \in 1 .. Size /\ Size \in Nat /\ Kind(cur) \in Kinds /\ ReachIn(cmd.tree, cur)
<1>1. Types /\ Names /\ Walk /\ Lib /\ IsoLib /\ st \in Looping
  BY DEF Control, Looping
<1>2. ~Second
  BY DEF Second
<1>3. ~lib.ending
  <2>1. CASE Is({"iso"})
    BY <1>1, <1>2, <2>1 DEF IsoLib, LibInit
  <2>2. CASE ~Is({"iso"})
    BY <1>1, <2>2 DEF Lib
  <2>3. QED
    BY <2>1, <2>2
<1>4. ~complete
  BY <1>1, <1>3 DEF Names
<1>5. Fresh /\ Looked = cur - 1
  BY <1>2, <1>4 DEF Fresh, Looked
<1>6. isdir = FALSE /\ Walked(cmd, todo, isdir, cur, top) /\ cur # 0 /\ cmd \in Commands /\ cur \in 0 .. Size
  BY <1>1, <1>2, <1>3, <1>5 DEF Walk, Types
<1>7. Nested(cmd.tree)
  BY <1>6, CommandIs
<1>8. Size \in Nat /\ cur \in 1 .. Size /\ Kind(cur) \in Kinds
  BY <1>6, <1>7 DEF Nested, Size, Kind
<1>9. ReachIn(cmd.tree, cur)
  BY <1>6 DEF Walked
<1>10. QED
  BY <1>1, <1>2, <1>3, <1>4, <1>5, <1>6, <1>8, <1>9

\* The entry was looked at.
LEMMA LookedControl ==
  ASSUME Control, st = "info", off' = 0, UNCHANGED <<cmd, stop, rc, todo, cur, top, buf, writer, at, nfile, complete, result, outvars>>,
         isdir' \in BOOLEAN, isdir' <=> DirIn(cmd.tree, cur),
         list' = (IF Is({"iso"}) /\ Listed(cmd, cur) THEN Append(list, cur) ELSE list),
         \/ st' = "add" /\ ~Is({"iso"}) /\ Kind(cur) \notin {"gone", "excluded"} /\ missing' = missing
         \/ st' = "in" /\ Kind(cur) # "gone" /\ missing' = missing
         \/ st' = "in" /\ missing' = TRUE
  PROVE  Control'
<1> USE DEF writer, many, result, outvars
<1>1. Types /\ Names /\ Owes /\ Found /\ Lib /\ Idle /\ IsoLib
  BY DEF Control
<1>2. /\ st \in Looping /\ ~Second /\ Fresh /\ ~complete /\ cmd \in Commands /\ Looked = cur - 1 /\ ~lib.ending
      /\ Walked(cmd, todo, FALSE, cur, top) /\ isdir = FALSE
      /\ cur \in 1 .. Size /\ Size \in Nat /\ Kind(cur) \in Kinds /\ ReachIn(cmd.tree, cur)
  BY InfoFacts
<1>3. Size' = Size /\ (\A o : Is(o)' <=> Is(o)) /\ st' \in Looping /\ Archives' = Archives
  <2>1. (\A o : Is(o)' <=> Is(o))
    BY DEF Is
  <2>2. QED
    BY DEF Size, Looping, Archives, Is
<1>4. Is({"iso"}) => ListIn(cmd, list, cur - 1) /\ lib = LibInit /\ at = 0 /\ buf = 0
  BY <1>1, <1>2 DEF IsoLib
<1>5. Is({"iso"}) => ListIn(cmd, list', cur)
  <2>1. CASE Is({"iso"}) /\ Listed(cmd, cur)
    <3>1. PICK u \in Nat : u = cur - 1
      BY <1>2
    <3>2. u + 1 = cur
      BY <1>2, <3>1
    <3>3. ListIn(cmd, list, u) /\ Listed(cmd, u + 1)
      BY <1>4, <2>1, <3>1, <3>2
    <3>4. ListIn(cmd, Append(list, u + 1), u + 1)
      BY <3>3, ListGrows
    <3>5. QED
      BY <2>1, <3>2, <3>4
  <2>2. CASE Is({"iso"}) /\ ~Listed(cmd, cur)
    <3>1. PICK u \in Int : u = cur - 1 /\ u <= cur /\ cur \in Int
      BY <1>2
    <3>2. \A x \in 1 .. cur : x > u => x = cur
      BY <3>1
    <3>3. ListIn(cmd, list, cur)
      BY <1>4, <2>2, <3>1, <3>2, ListSame
    <3>4. QED
      BY <2>2, <3>3
  <2>3. QED
    BY <2>1, <2>2
<1>6. Types'
  <2>1. Len(list') \in Nat /\ at' \in 0 .. Len(list')
    <3>1. CASE Is({"iso"})
      <4>1. Len(list') \in Nat /\ at = 0
        BY <1>4, <1>5, <3>1 DEF ListIn
      <4>2. QED
        BY <4>1
    <3>2. CASE ~Is({"iso"})
      BY <1>1, <3>2 DEF Types
    <3>3. QED
      BY <3>1, <3>2
  <2>2. missing' \in BOOLEAN
    BY <1>1 DEF Types
  <2>3. QED
    BY <1>1, <1>3, <2>1, <2>2 DEF Types
<1>7. Names' /\ Owes'
  <2>1. Names'
    BY <1>1, <1>2, <1>3 DEF Names
  <2>2. Owes'
    BY <1>1, <1>2 DEF Owes
  <2>3. QED
    BY <2>1, <2>2
<1>8. ~Second' /\ ~Fresh' /\ Looked' = cur
  <2>1. ~Second' /\ ~Fresh'
    BY <1>2, <1>3 DEF Second, Fresh
  <2>2. QED
    BY <2>1 DEF Looked
<1>9. Walk'
  <2>1. Walked(cmd, todo, isdir', cur, top)
    BY <1>2 DEF Walked
  <2>2. Skips(cmd.tree, isdir', cur)
    <3>1. CASE DirIn(cmd.tree, cur)
      BY <3>1 DEF Skips
    <3>2. CASE ~DirIn(cmd.tree, cur)
      BY <1>2, <3>2, LeafSkips DEF Skips, Size
    <3>3. QED
      BY <3>1, <3>2
  <2>3. isdir' = DirIn(cmd.tree, cur)
    BY DEF DirIn
  <2>4. cur # 0 /\ st' # "outopen"
    BY <1>2
  <2>5. QED
    BY <1>2, <1>8, <2>1, <2>2, <2>3, <2>4 DEF Walk
<1>10. Found'
  <2>1. CASE missing' = TRUE
    BY <2>1 DEF Found
  <2>2. CASE missing' = missing /\ Kind(cur) # "gone"
    <3>1. ~missing => NoneGone(cmd, cur - 1)
      BY <1>1, <1>2 DEF Found
    <3>2. \A x \in 1 .. cur : x = cur \/ x \in 1 .. cur - 1
      BY <1>2
    <3>3. ~missing => NoneGone(cmd, cur)
      BY <2>2, <3>1, <3>2 DEF NoneGone, Kind
    <3>4. QED
      BY <1>8, <2>2, <3>3 DEF Found
  <2>3. QED
    BY <2>1, <2>2
<1>11. Lib'
  <2>1. ~Is({"iso"}) => lib.member = 0 /\ ~lib.head /\ buf = 0 /\ ~lib.ended
    BY <1>1, <1>2 DEF Lib
  <2>2. st' = "add" => Kind(cur) \notin {"gone", "excluded"}
    OBVIOUS
  <2>3. QED
    BY <1>2, <1>3, <2>1, <2>2 DEF Lib, Kind
<1>12. Idle'
  BY <1>1, <1>2, <1>3 DEF Idle
<1>13. IsoLib'
  <2>1. LibInit.member = 0 /\ ~LibInit.head /\ ~LibInit.fixed /\ ~LibInit.ending /\ ~LibInit.ended
    BY DEF LibInit
  <2>2. Is({"iso"}) => ListIn(cmd, list, Looked)' /\ st' = "in"
    BY <1>5, <1>8
  <2>3. QED
    BY <1>3, <1>4, <1>8, <2>1, <2>2 DEF IsoLib
<1>14. QED
  BY <1>6, <1>7, <1>9, <1>10, <1>11, <1>12, <1>13 DEF Control

LEMMA InfoControl == ASSUME Control, Info PROVE Control'
<1> USE DEF walk, reader, writer, many, result, outvars
<1>1. /\ st = "info" /\ off' = 0 /\ UNCHANGED <<todo, cur, top, buf, writer, at, nfile, complete, result, outvars>>
  BY DEF Info, At
<1>2. Kind(cur) \in Kinds /\ isdir = FALSE /\ ReachIn(cmd.tree, cur) /\ st \in Looping
  BY <1>1, InfoFacts
<1>3. IsDir(cur) = DirIn(cmd.tree, cur)
  BY DEF IsDir, Kind, DirIn
<1>4. CASE /\ Kind(cur) # "gone" /\ isdir' = IsDir(cur)
           /\ IF Kind(cur) = "excluded" THEN Goto("in") /\ UNCHANGED list
              ELSE IF ~Is({"iso"}) THEN Goto("add") /\ UNCHANGED list
              ELSE Goto("in") /\ list' = (IF IsDir(cur) THEN list ELSE Append(list, cur))
           /\ UNCHANGED missing
  <2>1. isdir' \in BOOLEAN /\ (isdir' <=> DirIn(cmd.tree, cur))
    BY <1>3, <1>4 DEF IsDir
  <2>2. list' = (IF Is({"iso"}) /\ Listed(cmd, cur) THEN Append(list, cur) ELSE list)
    BY <1>2, <1>4 DEF Listed, IsDir, DirIn, Kind
  <2>3. UNCHANGED <<cmd, stop, rc>> /\ missing' = missing
        /\ \/ st' = "add" /\ ~Is({"iso"}) /\ Kind(cur) \notin {"gone", "excluded"}
           \/ st' = "in" /\ Kind(cur) # "gone"
    BY <1>4 DEF Goto
  <2>4. QED
    BY <1>1, <2>1, <2>2, <2>3, LookedControl
<1>5. CASE CannotOpen /\ UNCHANGED <<isdir, list>>
  <2>1. CASE Kind(cur) = "gone" /\ missing' = TRUE /\ Goto("in")
    <3>1. isdir' \in BOOLEAN /\ (isdir' <=> DirIn(cmd.tree, cur))
      BY <1>2, <1>5, <2>1 DEF Kind, DirIn
    <3>2. list' = (IF Is({"iso"}) /\ Listed(cmd, cur) THEN Append(list, cur) ELSE list)
      BY <1>5, <2>1 DEF Listed, Kind
    <3>3. QED
      BY <1>1, <2>1, <3>1, <3>2, LookedControl DEF Goto
  <2>2. CASE GoEnd(1) /\ UNCHANGED missing
    <3>1. Types'
      BY <1>1, <1>5, <2>2 DEF Control, Types, GoEnd, Looping, Size, Archives, Is
    <3>2. QED
      BY <1>1, <1>2, <2>2, <3>1, FailsControl DEF GoEnd
  <2>3. QED
    BY <1>5, <2>1, <2>2 DEF CannotOpen
<1>6. QED
  BY <1>4, <1>5 DEF Info

LEMMA OpenFileGives ==
  ASSUME NEW n, NEW ow, OpenFile(n, ow)
  PROVE  obj'.name = n /\ obj'.owed = Nothing /\ obj'.at = 0 /\ (lost \in BOOLEAN => lost' \in BOOLEAN)
<1>1. PICK f \in Flushings : obj' = [NoObject EXCEPT !.name = n, !.cache = f.cache] /\ lost' = (lost \/ f.err)
  BY DEF OpenFile
<1>2. f.err \in BOOLEAN
  BY FlushingsAre
<1>3. QED
  BY <1>1, <1>2 DEF NoObject

LEMMA OpenFailsGives ==
  ASSUME NEW n, NEW ow, OpenFails(n, ow)
  PROVE  obj'.name = 0 /\ obj'.owed = Nothing /\ obj'.at = 0 /\ (lost \in BOOLEAN => lost' \in BOOLEAN)
<1>1. PICK f \in Flushings : obj' = [NoObject EXCEPT !.cache = f.cache] /\ lost' = (lost \/ f.err)
  BY DEF OpenFails
<1>2. f.err \in BOOLEAN
  BY FlushingsAre
<1>3. QED
  BY <1>1, <1>2 DEF NoObject, Closed

\* What is to be opened next.
LEMMA OpenFacts ==
  ASSUME Control, st = "outopen", ~complete
  PROVE  /\ st \in Looping /\ ~Second /\ Fresh /\ cmd \in Commands /\ Looked = cur - 1 /\ ~lib.ending /\ lib.member = 0
         /\ buf = 0 /\ ~lib.head /\ Walked(cmd, todo, FALSE, cur, top) /\ isdir = FALSE
         /\ del = FALSE /\ name = 0 /\ nfile \in 0 .. Len(cmd.tops)
         /\ Is({"each"}) => top \in 1 .. Len(cmd.tops) /\ cur # 0 /\ nfile + 1 = top
         /\ ~Is({"each"}) => cur = 0 /\ nfile = 0
         /\ (IF Is({"each"}) THEN top ELSE 1) \in Archives
         /\ Archives # {} /\ lib = LibInit /\ Size \in Nat
<1>1. Types /\ Names /\ Walk /\ Lib /\ IsoLib /\ Idle /\ st \in Looping
  BY DEF Control, Looping
<1>2. ~Second /\ Fresh /\ Looked = cur - 1
  BY DEF Second, Fresh, Looked
<1>3. isdir = FALSE /\ Walked(cmd, todo, isdir, cur, top) /\ (~Is({"each"}) => cur = 0) /\ cmd \in Commands
  BY <1>1, <1>2 DEF Walk, Types
<1>4. del = FALSE /\ name = 0 /\ nfile \in 0 .. Len(cmd.tops) /\ (~Is({"each"}) => nfile = 0)
      /\ (Is({"each"}) => nfile = top - 1)
  BY <1>1 DEF Types, Names
<1>5. top \in 0 .. Len(cmd.tops) /\ TopsIn(cmd) /\ Len(cmd.tops) \in Nat /\ Nested(cmd.tree)
  BY <1>1, <1>3, CommandIs DEF Types, TopsIn
<1>6. Is({"each"}) => top \in 1 .. Len(cmd.tops) /\ cur # 0 /\ nfile + 1 = top
  <2>1. Is({"each"}) => top \in 1 .. Len(cmd.tops) /\ nfile + 1 = top
    BY <1>4, <1>5
  <2>2. ASSUME Is({"each"}) PROVE cur # 0
    <3>1. top \in 1 .. Len(cmd.tops) /\ cmd.tops[top] \in 1 .. Len(cmd.tree)
      BY <1>5, <2>1, <2>2 DEF TopsIn
    <3>2. cmd.tops[top] <= cur <=> top <= top
      BY <1>3, <3>1 DEF Walked
    <3>3. cmd.tops[top] <= cur
      BY <1>5, <3>2
    <3>4. QED
      BY <3>1, <3>3
  <2>3. QED
    BY <2>1, <2>2
<1>7. (IF Is({"each"}) THEN top ELSE 1) \in Archives
  BY <1>6 DEF Archives, Is
<1>8. lib = LibInit
  BY <1>1, <1>4, <1>7 DEF Idle
<1>9. ~lib.ending /\ lib.member = 0 /\ ~lib.head
  BY <1>8 DEF LibInit
<1>10. buf = 0
  BY <1>1, <1>2, <1>9 DEF Lib, IsoLib
<1>11. Size \in Nat
  BY <1>5 DEF Nested, Size
<1>12. QED
  BY <1>1, <1>2, <1>3, <1>4, <1>6, <1>7, <1>8, <1>9, <1>10, <1>11

LEMMA OpenArchiveControl == ASSUME Control, OpenArchive PROVE Control'
<1> USE DEF walk, reader, writer, many, result, outvars
<1>1. st = "outopen" /\ st \in Looping /\ UNCHANGED <<walk, reader, lib, piece, list, at, complete, missing>>
  BY DEF OpenArchive, At, Looping
<1>2. Types /\ Names /\ Walk /\ Owes /\ Found /\ Lib /\ Idle /\ IsoLib
  BY DEF Control
<1>3. CASE complete
  <2>1. st' = "end" /\ rc' \in {0, 1} /\ UNCHANGED <<cmd, stop, woff, nfile, result, outvars>>
    BY <1>3 DEF OpenArchive, GoEnd
  <2>2. Types'
    BY <1>1, <1>2, <2>1 DEF Types, Looping, Size, Archives, Is
  <2>3. QED
    BY <1>1, <2>1, <2>2, FailsControl
<1>4. CASE ~complete
  <2>1. /\ ~Second /\ Fresh /\ cmd \in Commands /\ Looked = cur - 1 /\ ~lib.ending /\ lib.member = 0
        /\ buf = 0 /\ ~lib.head /\ Walked(cmd, todo, FALSE, cur, top) /\ isdir = FALSE
        /\ del = FALSE /\ name = 0 /\ nfile \in 0 .. Len(cmd.tops)
        /\ Is({"each"}) => top \in 1 .. Len(cmd.tops) /\ cur # 0 /\ nfile + 1 = top
        /\ ~Is({"each"}) => cur = 0 /\ nfile = 0
        /\ (IF Is({"each"}) THEN top ELSE 1) \in Archives
        /\ Archives # {} /\ lib = LibInit /\ Size \in Nat
    BY <1>1, <1>4, OpenFacts
  <2>2. /\ name' = (IF Is({"each"}) THEN top ELSE 1) /\ nfile' = (IF Is({"each"}) THEN nfile + 1 ELSE nfile)
        /\ UNCHANGED <<cmd, stop>>
    BY <1>4 DEF OpenArchive, OpenFailed, Goto, GoEnd
  <2>3. name' \in Archives /\ nfile' = (IF Is({"each"}) THEN top ELSE 0) /\ nfile' \in 0 .. Len(cmd.tops)
    BY <2>1, <2>2
  <2>4. Size' = Size /\ Archives' = Archives /\ (\A o : Is(o)' <=> Is(o))
    <3>1. (\A o : Is(o)' <=> Is(o))
      BY <2>2 DEF Is
    <3>2. QED
      BY <2>2 DEF Size, Archives, Is
  <2>5. CASE OpenFailed
    <3>1. obj'.name = 0 /\ (lost \in BOOLEAN => lost' \in BOOLEAN) /\ st' = "end" /\ rc' = 1 /\ UNCHANGED <<woff, del>>
      BY <2>5, OpenFailsGives DEF OpenFailed, GoEnd
    <3>2. Types'
      BY <1>1, <1>2, <2>2, <2>3, <2>4, <3>1 DEF Types, Looping
    <3>3. Names'
      BY <1>1, <1>2, <2>1, <2>2, <2>3, <2>4, <3>1 DEF Names, Looping
    <3>4. QED
      BY <3>1, <3>2, <3>3, ToEnd DEF Looping
  <2>6. CASE OpenFile(name', cmd.overwrite) /\ del' = TRUE /\ woff' = -1 /\ Goto(IF Is({"each"}) THEN "info" ELSE "in")
    <3>1. obj'.name = name' /\ obj'.owed = Nothing /\ (lost \in BOOLEAN => lost' \in BOOLEAN)
      BY <2>6, OpenFileGives
    <3>2. st' = (IF Is({"each"}) THEN "info" ELSE "in") /\ UNCHANGED <<cmd, stop, rc>> /\ st' \in Looping
      BY <2>6 DEF Goto, Looping
    <3>3. Types'
      BY <1>1, <1>2, <2>3, <2>4, <2>6, <3>1, <3>2 DEF Types
    <3>4. name' # 0
      BY <2>1, <2>2
    <3>5. Names'
      <4>1. CASE Is({"each"})
        BY <1>1, <1>4, <2>1, <2>2, <2>3, <2>4, <2>6, <3>1, <3>2, <3>4, <4>1 DEF Names
      <4>2. CASE ~Is({"each"})
        BY <1>1, <1>4, <2>1, <2>2, <2>3, <2>4, <2>6, <3>1, <3>2, <3>4, <4>2 DEF Names
      <4>3. QED
        BY <4>1, <4>2
    <3>6. Owes'
      BY <3>1 DEF Owes
    <3>7. ~Second' /\ (Fresh' <=> Is({"each"})) /\ Looked' = (IF Is({"each"}) THEN cur - 1 ELSE cur)
      <4>1. ~Second' /\ (Fresh' <=> Is({"each"}))
        BY <1>1, <1>4, <2>1, <2>4, <3>2 DEF Second, Fresh
      <4>2. QED
        BY <1>1, <4>1 DEF Looked
    <3>8. Walk'
      <4>1. ~Is({"each"}) => Skips(cmd.tree, FALSE, cur)
        <5>1. ~Is({"each"}) => Past(cmd.tree, cur) = 1 /\ cur = 0
          BY <2>1 DEF Past
        <5>2. QED
          BY <5>1 DEF Skips, Bare
      <4>2. st' # "add" /\ st' # "outopen" /\ (cur = 0 => st' = "in")
        BY <2>1, <3>2
      <4>3. QED
        BY <1>1, <1>4, <2>1, <3>2, <3>7, <4>1, <4>2 DEF Walk
    <3>9. Found'
      <4>1. CASE Is({"each"})
        BY <1>1, <1>2, <2>1, <3>2, <3>7, <4>1 DEF Found
      <4>2. CASE ~Is({"each"})
        <5>1. Looked' = 0
          BY <2>1, <3>7, <4>2
        <5>2. QED
          BY <5>1 DEF Found, NoneGone
      <4>3. QED
        BY <4>1, <4>2
    <3>10. Lib'
      BY <1>1, <1>2, <2>1, <2>4, <3>2 DEF Lib
    <3>11. Idle'
      BY <3>4 DEF Idle
    <3>12. IsoLib'
      <4>1. CASE Is({"iso"})
        <5>1. ~Is({"each"})
          BY <4>1 DEF Is
        <5>2. Looked' = 0 /\ Looked = -1 /\ st' = "in"
          BY <2>1, <3>2, <3>7, <5>1
        <5>3. ListIn(cmd, list, Looked) /\ at = 0
          BY <1>1, <1>2, <2>1, <4>1 DEF IsoLib
        <5>4. ListIn(cmd, list, 0)
          BY <5>2, <5>3, ListSame
        <5>5. ListIn(cmd, list, Looked)'
          BY <1>1, <3>2, <5>2, <5>4
        <5>6. LibInit.member = 0 /\ ~LibInit.head /\ ~LibInit.fixed /\ ~LibInit.ending /\ ~LibInit.ended
          BY DEF LibInit
        <5>7. QED
          BY <1>1, <2>1, <2>4, <3>2, <3>7, <4>1, <5>2, <5>3, <5>5, <5>6 DEF IsoLib
      <4>2. CASE ~Is({"iso"})
        BY <2>4, <4>2 DEF IsoLib
      <4>3. QED
        BY <4>1, <4>2
    <3>13. QED
      BY <3>3, <3>5, <3>6, <3>8, <3>9, <3>10, <3>11, <3>12 DEF Control
  <2>7. QED
    BY <1>4, <2>5, <2>6 DEF OpenArchive
<1>5. QED
  BY <1>3, <1>4

LEMMA InitControl == Init => Control
<1> SUFFICES ASSUME Init PROVE Control
  OBVIOUS
<1>1. /\ cmd \in Commands /\ st = (IF Is({"each"}) THEN "in" ELSE "outopen") /\ obj = NoObject /\ lost = FALSE
      /\ todo = cmd.tops /\ isdir = FALSE /\ cur = 0 /\ top = 0 /\ off = 0 /\ buf = 0
      /\ lib = LibInit /\ piece = Nothing /\ woff = -1
      /\ list = <<>> /\ at = 0 /\ nfile = 0 /\ complete = FALSE
      /\ missing = FALSE /\ name = 0 /\ del = FALSE /\ stop = FALSE /\ rc = 0
  BY DEF Init, OutputInit, Is
<1>2. Nested(cmd.tree) /\ TopsIn(cmd) /\ cmd.tops \in Seq(Nat) /\ Chain(cmd.tree, cmd.tops, 1, Len(cmd.tree))
  BY <1>1, CommandIs
<1>3. Size \in Nat /\ Len(cmd.tops) \in Nat /\ \A k \in 1 .. Len(cmd.tops) : cmd.tops[k] \in 1 .. Size
  BY <1>2 DEF Nested, TopsIn, Size
<1>4. LibInit \in LibTypes /\ ~LibInit.ending /\ LibInit.member = 0 /\ ~LibInit.head /\ ~LibInit.ended /\ ~LibInit.fixed
  BY DEF LibInit, LibTypes
<1>5. Types
  <2>1. Len(list) = 0 /\ 0 \in 0 .. Len(cmd.tops) /\ 0 \in 0 .. Size
    BY <1>1, <1>3
  <2>2. at \in 0 .. Len(list) /\ Len(list) \in Nat
    BY <1>1, <2>1
  <2>3. st \in Looping
    BY <1>1 DEF Looping
  <2>4. /\ isdir \in BOOLEAN /\ complete \in BOOLEAN /\ missing \in BOOLEAN /\ del \in BOOLEAN /\ stop \in BOOLEAN
        /\ lost \in BOOLEAN /\ rc \in {0, 1} /\ cur \in 0 .. Size /\ top \in 0 .. Len(cmd.tops) /\ nfile \in 0 .. Len(cmd.tops)
    BY <1>1, <2>1
  <2>5. off \in Nat /\ buf \in Nat /\ lib \in LibTypes /\ name \in {0} \cup Archives
    BY <1>1, <1>4
  <2>6. woff \in Int /\ woff >= -1
    BY <1>1
  <2>7. cmd \in Commands
    BY <1>1
  <2>8. QED
    BY <2>2, <2>3, <2>4, <2>5, <2>6, <2>7 DEF Types
<1>6. Names /\ Owes /\ Idle
  BY <1>1, <1>4 DEF Names, Owes, Idle, NoObject, Closed
<1>7. Walked(cmd, todo, isdir, cur, top)
  <2>1. \A k \in 1 .. Len(cmd.tops) : cmd.tops[k] <= 0 <=> k <= 0
    BY <1>3
  <2>2. Past(cmd.tree, 0) = 1
    BY DEF Past
  <2>3. QED
    BY <1>1, <1>2, <1>3, <2>1, <2>2 DEF Walked, Size
<1>8. Walk
  <2>1. Skips(cmd.tree, FALSE, 0)
    <3>1. Past(cmd.tree, 0) = 1
      BY DEF Past
    <3>2. QED
      BY <3>1 DEF Skips, Bare
  <2>2. QED
    BY <1>1, <1>4, <1>7, <2>1 DEF Walk
<1>9. ~Second /\ Looked <= 0 /\ Looked \in Int
  BY <1>1 DEF Second, Looked
<1>10. Found
  BY <1>9 DEF Found, NoneGone
<1>11. Lib
  BY <1>1, <1>4 DEF Lib
<1>12. IsoLib
  <2>1. ListIn(cmd, list, Looked)
    <3>1. list \in Seq(Nat) /\ Len(list) = 0
      BY <1>1
    <3>2. 1 .. Looked = {}
      BY <1>9
    <3>3. QED
      BY <3>1, <3>2 DEF ListIn
  <2>2. QED
    BY <1>1, <1>4, <1>9, <2>1 DEF IsoLib, Is
<1>13. QED
  BY <1>5, <1>6, <1>8, <1>10, <1>11, <1>12 DEF Control

LEMMA ControlStep == ASSUME Control, ArchiveSafe, [Next]_vars PROVE Control'
<1>1. CASE UNCHANGED vars \/ Signal \/ Stop \/ Finish
  BY <1>1, StutterControl, SignalControl, StopControl, FinishControl
<1>2. CASE NextEntry \/ NextOfEach \/ Info
  BY <1>2, NextEntryControl, NextOfEachControl, InfoControl
<1>3. CASE TarAdd \/ ZipAdd \/ ReadEntry
  BY <1>3, TarAddControl, ZipAddControl, ReadEntryControl
<1>4. CASE IsoNextOpen \/ IsoRead
  BY <1>4, IsoNextOpenControl, IsoReadControl
<1>5. CASE TarProc \/ ZipProc \/ IsoProc
  BY <1>5, TarProcControl, ZipProcControl, IsoProcControl
<1>6. CASE OpenArchive \/ Write \/ TarFlush
  BY <1>6, OpenArchiveControl, WriteControl, TarFlushControl
<1>7. CASE Done \/ ZipDone
  BY <1>7, DoneControl, ZipDoneControl
<1>8. QED
  BY <1>1, <1>2, <1>3, <1>4, <1>5, <1>6, <1>7 DEF Next, Step, TarRun, ZipRun, ZipRunEach, IsoRun

-----------------------------------------------------------------------------
(* What a flush leaves *)

LEMMA GreatestOf == ASSUME NEW S, NEW m \in S, S \subseteq Int, \A x \in S : m >= x PROVE Max(S) = m
<1>1. \A x \in S : (\A y \in S : x >= y) => x = m
  OBVIOUS
<1>2. \E x \in S : \A y \in S : x >= y
  OBVIOUS
<1>3. QED
  BY <1>1, <1>2 DEF Max

LEMMA EmptyIs == DOMAIN Empty = {}
  BY DEF Empty

\* An empty file gets what is in the cache, if that has no gaps.
LEMMA FlushedFrom ==
  ASSUME NEW n \in Nat, DOMAIN obj.cache = 0 .. n - 1
  PROVE  Flushed(<<>>) = [k \in 1 .. n |-> obj.cache[k - 1]]
<1> DEFINE S == {Len(<<>>)} \cup {o + 1 : o \in DOMAIN obj.cache}
<1>1. Max(S) = n
  <2>1. \A x : x \in S <=> x = 0 \/ x \in 1 .. n
    <3>1. \A x : x \in {o + 1 : o \in DOMAIN obj.cache} <=> x \in 1 .. n
      <4>1. \A o \in DOMAIN obj.cache : o + 1 \in 1 .. n
        OBVIOUS
      <4>2. \A x \in 1 .. n : x - 1 \in DOMAIN obj.cache /\ x = (x - 1) + 1
        OBVIOUS
      <4>3. QED
        BY <4>1, <4>2
    <3>2. Len(<<>>) = 0
      OBVIOUS
    <3>3. QED
      BY <3>1, <3>2
  <2>2. n \in S /\ S \subseteq Int /\ \A x \in S : n >= x
    BY <2>1
  <2>3. QED
    BY <2>2, GreatestOf
<1>2. ASSUME NEW k \in 1 .. n
      PROVE  (IF k - 1 \in DOMAIN obj.cache THEN obj.cache[k - 1] ELSE IF k <= Len(<<>>) THEN <<>>[k] ELSE Gap) = obj.cache[k - 1]
  <2>1. k - 1 \in DOMAIN obj.cache
    OBVIOUS
  <2>2. QED
    BY <2>1
<1>3. Flushed(<<>>) = [k \in 1 .. Max(S) |->
        IF k - 1 \in DOMAIN obj.cache THEN obj.cache[k - 1] ELSE IF k <= Len(<<>>) THEN <<>>[k] ELSE Gap]
  BY DEF Flushed
<1> HIDE DEF S
<1>4. QED
  BY <1>1, <1>2, <1>3

\* What is on the disk stays when nothing is cached.
LEMMA FlushedKeeps ==
  ASSUME NEW s, IsSeq(s), obj.cache = Empty
  PROVE  Flushed(s) = s
<1> DEFINE S == {Len(s)} \cup {o + 1 : o \in DOMAIN obj.cache}
<1>1. DOMAIN obj.cache = {} /\ Len(s) \in Nat
  BY EmptyIs DEF IsSeq
<1>2. S = {Len(s)}
  BY <1>1
<1>3. Max(S) = Len(s)
  <2>1. Len(s) \in S /\ S \subseteq Int /\ \A x \in S : Len(s) >= x
    BY <1>1, <1>2
  <2>2. QED
    BY <2>1, GreatestOf
<1>4. Flushed(s) = [k \in 1 .. Max(S) |-> IF k - 1 \in DOMAIN obj.cache THEN obj.cache[k - 1] ELSE IF k <= Len(s) THEN s[k] ELSE Gap]
  BY DEF Flushed
<1>5. \A k \in 1 .. Len(s) :
        (IF k - 1 \in DOMAIN obj.cache THEN obj.cache[k - 1] ELSE IF k <= Len(s) THEN s[k] ELSE Gap) = s[k]
  BY <1>1
<1>6. s = [k \in 1 .. Len(s) |-> s[k]]
  BY DEF IsSeq
<1> HIDE DEF S
<1>7. QED
  BY <1>3, <1>4, <1>5, <1>6

\* What one call that flushes does to the files.
LEMMA FlushIs ==
  ASSUME ArchiveSafe, NEW f \in Flushings
  PROVE  /\ DOMAIN f.disk = Archives
         /\ \A a \in Archives : f.disk[a].kind = disk[a].kind
         /\ \A a \in Archives : a # obj.name => f.disk[a] = disk[a]
         /\ obj.name = 0 => f.disk = disk /\ f.cache = obj.cache /\ f.err = FALSE
         /\ obj.name # 0 /\ ~f.err => f.cache = Empty
         /\ obj.name \in Archives /\ obj.name # 0 /\ ~f.err => f.disk[obj.name].has = Flushed(disk[obj.name].has)
         /\ f.err \in BOOLEAN
         /\ f.err => obj.cache # Empty /\ f.disk = disk
<1>1. IsDisk(disk) /\ DOMAIN disk = Archives
  BY DEF ArchiveSafe, Ready
<1>2. IsDisk(f.disk) /\ SameBut(disk, f.disk, obj.name)
  BY <1>1, FlushingsSafe
<1>3. /\ f.err \in BOOLEAN
      /\ ~f.err => /\ f.disk = (IF IsOpen THEN [disk EXCEPT ![obj.name].has = Flushed(@)] ELSE disk)
                   /\ f.cache = (IF IsOpen THEN Empty ELSE obj.cache)
      /\ f.err => f.disk = disk /\ f.cache = obj.cache /\ IsOpen /\ obj.cache # Empty
  BY FlushingsAre
<1>4. ASSUME obj.name \in Archives, obj.name # 0, ~f.err PROVE f.disk[obj.name].has = Flushed(disk[obj.name].has)
  <2> DEFINE h == Flushed(disk[obj.name].has)
             D == [disk EXCEPT ![obj.name].has = h]
  <2>1. f.disk = D
    BY <1>3, <1>4 DEF IsOpen, Closed
  <2>2. D = [n \in DOMAIN disk |-> IF n = obj.name THEN [disk[n] EXCEPT !.has = h] ELSE disk[n]]
    OBVIOUS
  <2> HIDE DEF h, D
  <2>3. D[obj.name] = [disk[obj.name] EXCEPT !.has = h]
    BY <1>1, <1>4, <2>2
  <2>4. IsFile(disk[obj.name])
    BY <1>1, <1>4 DEF IsDisk
  <2>5. D[obj.name].has = h
    BY <2>3, <2>4 DEF IsFile
  <2>6. QED
    BY <2>1, <2>5 DEF h
<1>5. QED
  BY <1>1, <1>2, <1>3, <1>4 DEF SameBut, IsOpen, Closed

-----------------------------------------------------------------------------
(* Steps that write nothing *)

\* Nothing of the archive lies behind entry e - 1.
LEMMA CutAll ==
  ASSUME NEW c \in Commands, NEW a \in ArchivesIn(c), NEW e \in Int, \A x \in ExtentIn(c, a) : x >= e => Plain(c, x)
  PROVE  \A p : InCut(c, a, e, -2, p) <=> PieceIn(c, a, p)
<1> SUFFICES ASSUME NEW p, PieceIn(c, a, p) PROVE p[1] < e
  BY DEF InCut
<1>1. ~Plain(c, p[1]) /\ p[1] \in ExtentIn(c, a)
  BY PlainIs DEF PieceIn
<1>2. p[1] \in Int
  BY PieceNumbers
<1>3. QED
  BY <1>1, <1>2

\* iso: the first file of the list
LEMMA CutFirst ==
  ASSUME NEW c \in Commands, NEW a \in ArchivesIn(c), NEW e \in Int, c.op = "iso", \A x \in 1 .. e - 1 : Plain(c, x)
  PROVE  \A p : InCut(c, a, e, 0, p) <=> InCut(c, a, 0, 0, p)
<1> TAKE p
<1>1. ASSUME PieceIn(c, a, p) PROVE ~Plain(c, p[1]) /\ p[1] \in Int /\ p[1] >= 1 /\ p[2] \in Int /\ p[2] >= 1
  <2>1. p[1] \in 1 .. Len(c.tree) /\ p[2] \in Int /\ p[2] >= 1
    BY <1>1, PieceNumbers
  <2>2. QED
    BY <1>1, <2>1, PlainIs
<1>2. QED
  BY <1>1 DEF InCut

LEMMA ArchivesAre == ASSUME Control PROVE ArchivesIn(cmd) = Archives /\ cmd \in Commands /\ (name # 0 => name \in ArchivesIn(cmd))
<1>1. cmd \in Commands /\ name \in {0} \cup Archives
  BY DEF Control, Types
<1>2. ArchivesIn(cmd) = Archives
  BY DEF ArchivesIn, Archives, Is
<1>3. QED
  BY <1>1, <1>2

Rest == Appends /\ Content /\ Results

LEMMA ResultsSame ==
  ASSUME Results, UNCHANGED <<cmd, obj, disk, lost, name, nfile>>, st \in Looping, st' \in Looping,
         Is({"tar"}) => st # "done" /\ st' # "done"
  PROVE  Results'
<1>1. Archives' = Archives /\ Is({"tar"})' = Is({"tar"}) /\ \A a : Whole(a)' <=> Whole(a)
  BY DEF Archives, Is, Whole
<1>2. QED
  BY <1>1 DEF Results

\* The writer stands still, and the place up to which it is moves over what does not
\* belong into the archive.
LEMMA StillRest ==
  ASSUME Control, Rest, UNCHANGED <<cmd, obj, disk, lost, name, nfile>>, st \in Looping, st' \in Looping,
         st # "write", st' # "write", Is({"tar"}) => st # "done" /\ st' # "done",
         lib'.end = lib.end, lib'.ended = lib.ended, lib'.hdr = lib.hdr,
         Renews' <=> Renews, Renews => cur' = cur,
         lib'.member # 0 /\ ~Is({"iso"}) /\ ~lib'.head => lib.member # 0 /\ ~lib.head,
         name # 0 /\ ~Rewriting' /\ ~lib.ended => (~Rewriting /\ woff' = woff) \/ woff' = lib.end,
         name # 0 => \A p : InCut(cmd, name, MarkEntry', MarkPart', p) <=> InCut(cmd, name, MarkEntry, MarkPart, p)
  PROVE  Rest'
<1>1. Results'
  BY ResultsSame DEF Rest
<1>2. lib.end \in Nat
  BY DEF Control, Types, LibTypes
<1>3. Held = obj.cache /\ Held' = obj'.cache /\ Held' = Held
  BY DEF Held
<1>4. Appends'
  <2>1. obj'.at \in Nat
    BY DEF Rest, Appends
  <2>2. ASSUME name # 0, ~Rewriting', ~lib.ended PROVE Next1' = lib.end
    <3>1. CASE woff' = lib.end
      <4>1. lib.end # -1
        BY <1>2
      <4>2. QED
        BY <3>1, <4>1 DEF Next1, Offset
    <3>2. CASE ~Rewriting /\ woff' = woff
      <4>1. Next1 = lib.end
        BY <2>2, <3>2 DEF Rest, Appends
      <4>2. Next1' = Next1
        BY <3>2 DEF Next1, Offset
      <4>3. QED
        BY <4>1, <4>2
    <3>3. QED
      BY <2>2, <3>1, <3>2
  <2>3. QED
    BY <2>1, <2>2 DEF Appends
<1>5. Content'
  <2>1. (Filling' <=> Filling) /\ First' = First /\ Final' = Final /\ (\A o : Is(o)' <=> Is(o))
    BY DEF Filling, First, Final, Is
  <2>2. CASE ~Filling
    BY <2>1, <2>2 DEF Content
  <2>3. CASE Filling
    <3>1. /\ disk[name] = New(<<>>) /\ DOMAIN Held = 0 .. lib.end - 1
          /\ lib.member # 0 /\ ~Is({"iso"}) /\ ~lib.head => lib.hdr \in 0 .. lib.end - 1
          /\ Exact(Shown, First, Final, cmd, name, MarkEntry, MarkPart)
          /\ lib.ended => lib.end > 0 /\ Held[IF Is({"iso"}) THEN 0 ELSE lib.end - 1] = Trailer
      BY <2>3 DEF Rest, Content
    <3>2. name # 0
      BY <2>3 DEF Filling
    <3>3. Shown' = Shown
      BY <1>3 DEF Shown
    <3>4. Exact(Shown, First, Final, cmd, name, MarkEntry', MarkPart')
      <4>1. PICK e, j, e2, j2, f, lo, hi, c, a : e = MarkEntry /\ j = MarkPart /\ e2 = MarkEntry' /\ j2 = MarkPart'
                                            /\ f = Shown /\ lo = First /\ hi = Final /\ c = cmd /\ a = name
        OBVIOUS
      <4>2. Exact(f, lo, hi, c, a, e, j) /\ \A p : InCut(c, a, e2, j2, p) <=> InCut(c, a, e, j, p)
        BY <3>1, <3>2, <4>1
      <4>3. Exact(f, lo, hi, c, a, e2, j2)
        BY ONLY <4>2, ExactMove
      <4>4. QED
        BY <4>1, <4>3
    <3>5. QED
      BY <1>3, <2>1, <3>1, <3>3, <3>4 DEF Content
  <2>4. QED
    BY <2>2, <2>3
<1>6. QED
  BY <1>1, <1>4, <1>5 DEF Rest

\* A step that fails.
LEMMA FailsRest ==
  ASSUME Control, Rest, st \in Looping, st' = "end", rc' = 1, UNCHANGED <<cmd, disk, lost, name, del>>, obj'.at \in Nat
  PROVE  Rest'
<1>1. Archives' = Archives /\ Is({"tar"})' = Is({"tar"}) /\ \A a, s : WholeIn(cmd, a, s)' <=> WholeIn(cmd, a, s)
  BY DEF Archives, Is
<1>2. del = (name # 0)
  BY DEF Control, Names
<1>3. Results'
  <2>1. ASSUME ~lost, NEW a \in Archives, disk[a].kind = "new" PROVE (del /\ a = name) \/ WholeIn(cmd, a, disk[a].has)
    <3>1. CASE a = name
      <4>1. a # 0
        <5>1. Len(cmd.tops) \in Nat
          BY CommandIs DEF Control, Types, TopsIn
        <5>2. QED
          BY <5>1 DEF Archives
      <4>2. QED
        BY <1>2, <3>1, <4>1
    <3>2. CASE a # name
      BY <2>1, <3>2 DEF Rest, Results, Whole
    <3>3. QED
      BY <3>1, <3>2
  <2>2. Is({"tar"}) => ~lost
    BY DEF Rest, Results
  <2>3. st' \notin Looping
    BY DEF Looping
  <2>4. \A a : disk'[a] = disk[a]
    OBVIOUS
  <2>5. QED
    BY <1>1, <2>1, <2>2, <2>3 DEF Results
<1>4. Appends' /\ Content'
  BY DEF Appends, Content, Filling, Looping
<1>5. QED
  BY <1>3, <1>4 DEF Rest

LEMMA AtIs == ASSUME Rest PROVE obj.at \in Nat
  BY DEF Rest, Appends

LEMMA ReadEntryRest == ASSUME Control, Rest, ReadEntry PROVE Rest'
<1> USE DEF walk, reader, writer, many, result, outvars
<1>1. /\ lib.member = cur /\ cur # 0 /\ ~lib.fin /\ buf = 0 /\ ~lib.ending /\ off <= cmd.tree[cur].size
      /\ lib \in LibTypes /\ off \in Nat /\ st = "read" /\ ~Is({"iso"}) /\ st \in Looping
  BY DEF Control, ReadEntry, Lib, Types, At, Looping, LibTypes
<1>2. /\ Finished(lib) \in LibTypes /\ LibSame(lib, Finished(lib))
      /\ Finished(lib).member = lib.member /\ Finished(lib).head = lib.head
  BY <1>1, FinishedIs
<1>3. CASE MayFail("read") /\ GoEnd(1)
  <2>1. obj'.at \in Nat /\ st' = "end" /\ rc' = 1 /\ UNCHANGED <<cmd, disk, lost, name, del>>
    BY <1>3, AtIs DEF ReadEntry, GoEnd
  <2>2. QED
    BY <1>1, <2>1, FailsRest
<1>4. CASE st' = "proc" /\ UNCHANGED cmd /\ \/ lib' = lib /\ off' = off + 1 /\ buf' = off + 1
                                            \/ lib' = Finished(lib) /\ UNCHANGED reader
  <2>1. /\ lib'.member = lib.member /\ lib'.head = lib.head /\ lib'.fixed = lib.fixed /\ lib'.hdr = lib.hdr
        /\ lib'.end = lib.end /\ lib'.ended = lib.ended
    BY <1>2, <1>4 DEF LibSame
  <2>2. UNCHANGED <<cur, cmd, obj, disk, lost, name, nfile, woff>>
    BY <1>4 DEF ReadEntry
  <2>3. (Renews' <=> Renews) /\ (Rewriting' <=> Rewriting)
    BY <2>1, <2>2 DEF Renews, Rewriting, Zips, Is
  <2>4. MarkEntry' = cur /\ MarkEntry = cur
    BY <1>1, <2>1, <2>2 DEF MarkEntry, Is
  <2>5. MarkPart' = MarkPart
    <3>1. CASE off' = off + 1 /\ buf' = off + 1
      <4>1. off + 1 - 1 = off /\ off + 1 # 0
        BY <1>1
      <4>2. QED
        BY <1>1, <2>1, <2>2, <3>1, <4>1 DEF MarkPart, Is
    <3>2. CASE UNCHANGED reader
      BY <1>1, <2>1, <2>2, <3>2 DEF MarkPart, Is
    <3>3. QED
      BY <1>4, <3>1, <3>2
  <2>6. QED
    BY <1>1, <1>4, <2>1, <2>2, <2>3, <2>4, <2>5, StillRest DEF Looping
<1>5. QED
  BY <1>3, <1>4 DEF ReadEntry, Goto

\* The mark moves over an entry that does not belong into the archive.
LEMMA MarkOver ==
  ASSUME Control, name # 0, NEW e \in Int, NEW e2 \in Int, e <= e2, \A x \in e .. e2 - 1 : Plain(cmd, x)
  PROVE  \A p : InCut(cmd, name, e2, -2, p) <=> InCut(cmd, name, e, -2, p)
<1>1. cmd \in Commands /\ name \in ArchivesIn(cmd)
  BY ArchivesAre
<1>2. PICK c \in Commands : c = cmd
  BY <1>1
<1>2a. PICK a \in ArchivesIn(c) : a = name
  BY <1>1, <1>2
<1>3. \A x \in e .. e2 - 1 : Plain(c, x)
  BY <1>2
<1>4. \A p : InCut(c, a, e2, -2, p) <=> InCut(c, a, e, -2, p)
  BY <1>3, CutOverPlain
<1>5. QED
  BY <1>2, <1>2a, <1>4

LEMMA PlainEntry == ASSUME Kind(cur) \in {"gone", "excluded", "nameless"} PROVE \A x \in cur .. cur + 1 - 1 : cur \in Int => Plain(cmd, x)
<1>1. \A a \in Int : \A x \in a .. a + 1 - 1 : x = a
  OBVIOUS
<1>2. Plain(cmd, cur)
  BY DEF Plain, Kind
<1>3. QED
  BY <1>1, <1>2

LEMMA MarkOverEntry ==
  ASSUME Control, cur \in Int, Kind(cur) \in {"gone", "excluded", "nameless"}
  PROVE  name # 0 => \A p : InCut(cmd, name, cur + 1, -2, p) <=> InCut(cmd, name, cur, -2, p)
<1>1. PICK e \in Int, e2 \in Int : e = cur /\ e2 = cur + 1
  OBVIOUS
<1>2. \A x \in e .. e2 - 1 : Plain(cmd, x)
  BY <1>1, PlainEntry
<1>3. e <= e2
  BY <1>1
<1>4. name # 0 => \A p : InCut(cmd, name, e2, -2, p) <=> InCut(cmd, name, e, -2, p)
  BY <1>2, <1>3, MarkOver
<1>5. QED
  BY <1>1, <1>4

LEMMA AddRest ==
  ASSUME Control, Control', Rest, st = "add", ~Is({"iso"}),
         UNCHANGED <<cmd, stop, rc, walk, reader, piece, woff, many, missing, result, outvars>>,
         \/ st' = "in" /\ lib' = lib /\ Kind(cur) = "nameless"
         \/ st' = "read" /\ lib' = Added(cur)
         \/ st' = "proc" /\ lib' = Finished(Added(cur))
  PROVE  Rest'
<1> USE DEF walk, reader, writer, many, result, outvars
<1>1. st \in Looping /\ st' \in Looping /\ ~Is({"iso"})'
  BY DEF Looping, Is
<1>2. Types /\ Lib /\ Walk
  BY DEF Control
<1>3. lib.member = 0 /\ ~lib.ending /\ ~lib.head
  BY <1>1, <1>2 DEF Lib
<1>4. lib \in LibTypes /\ cur \in Nat /\ cur # 0
  BY <1>1, <1>2, <1>3 DEF Types, Walk, Second
<1>5. /\ Added(cur) \in LibTypes /\ Added(cur).member = cur /\ Added(cur).fixed = FALSE
      /\ Added(cur).head = TRUE /\ Added(cur).ended = lib.ended /\ Added(cur).hdr = lib.hdr /\ Added(cur).end = lib.end
  BY <1>4, AddedIs
<1>6. /\ Finished(Added(cur)).fixed = FALSE /\ Finished(Added(cur)).hdr = lib.hdr /\ Finished(Added(cur)).end = lib.end
      /\ Finished(Added(cur)).member = cur /\ Finished(Added(cur)).head = TRUE
      /\ Finished(Added(cur)).ended = lib.ended
  BY <1>5, FinishedIs DEF LibSame
<1>7. lib'.end = lib.end /\ lib'.ended = lib.ended /\ lib'.hdr = lib.hdr /\ (lib'.member = 0 \/ lib'.head)
  BY <1>3, <1>5, <1>6
<1>8. ~Renews /\ ~Renews' /\ ~Rewriting /\ ~Rewriting'
  BY <1>3, <1>5, <1>6 DEF Renews, Rewriting
<1>9. MarkEntry = cur /\ MarkPart = -2
  <2>1. Packed = cur - 1 /\ cur - 1 + 1 = cur
    BY <1>4 DEF Packed
  <2>2. QED
    BY <1>3, <2>1 DEF MarkEntry, MarkPart
<1>10. name # 0 => \A p : InCut(cmd, name, MarkEntry', MarkPart', p) <=> InCut(cmd, name, MarkEntry, MarkPart, p)
  <2>1. CASE st' = "in" /\ lib' = lib /\ Kind(cur) = "nameless"
    <3>1. ~Fresh'
      BY <1>3, <2>1 DEF Fresh, Is
    <3>2. MarkEntry' = cur + 1 /\ MarkPart' = -2
      BY <1>1, <1>3, <2>1, <3>1 DEF MarkEntry, MarkPart, Packed
    <3>4. name # 0 => \A p : InCut(cmd, name, cur + 1, -2, p) <=> InCut(cmd, name, cur, -2, p)
      BY <1>4, <2>1, MarkOverEntry
    <3>5. QED
      BY <1>9, <3>2, <3>4
  <2>2. CASE lib' = Added(cur) \/ lib' = Finished(Added(cur))
    <3>1. MarkEntry' = cur /\ MarkPart' = -2
      BY <1>1, <1>4, <1>5, <1>6, <2>2 DEF MarkEntry, MarkPart
    <3>2. QED
      BY <1>9, <3>1
  <2>3. QED
    BY <2>1, <2>2
<1>11. QED
  BY <1>1, <1>7, <1>8, <1>10, StillRest

LEMMA TarAddRest == ASSUME Control, Control', Rest, TarAdd PROVE Rest'
<1> USE DEF walk, reader, writer, many, result, outvars
<1>1. st = "add" /\ st \in Looping /\ ~Is({"iso"}) /\ UNCHANGED <<walk, reader, piece, woff, many, missing, result, outvars>>
  BY DEF TarAdd, At, Looping, Is
<1>2. CASE IsLink(cur) /\ MayFail("readlink") /\ GoEnd(1) /\ UNCHANGED lib
  BY <1>1, <1>2, AtIs, FailsRest DEF GoEnd
<1>3. CASE UNCHANGED <<cmd, stop, rc>> /\ \/ st' = "in" /\ lib' = lib /\ Kind(cur) = "nameless"
                                          \/ st' = "read" /\ lib' = Added(cur)
                                          \/ st' = "proc" /\ lib' = Finished(Added(cur))
  BY <1>1, <1>3, AddRest
<1>4. QED
  BY <1>2, <1>3 DEF TarAdd, Goto

LEMMA ZipAddRest == ASSUME Control, Control', Rest, ZipAdd PROVE Rest'
<1> USE DEF walk, reader, writer, many, result, outvars
<1>1. st = "add" /\ ~Is({"iso"}) /\ UNCHANGED <<walk, reader, piece, woff, many, missing, result, outvars>>
  BY DEF ZipAdd, At, Zips, Is
<1>2. UNCHANGED <<cmd, stop, rc>> /\ \/ st' = "in" /\ lib' = lib /\ Kind(cur) = "nameless"
                                     \/ st' = "read" /\ lib' = Added(cur)
                                     \/ st' = "proc" /\ lib' = Finished(Added(cur))
  BY DEF ZipAdd, Goto
<1>3. QED
  BY <1>1, <1>2, AddRest

\* iso makes its list before it writes.
LEMMA IsoMark ==
  ASSUME Control, st \in {"outopen", "in", "info"}, Is({"iso"})
  PROVE  at = 0 /\ MarkEntry = 0 /\ MarkPart = 0
<1>1. IsoLib /\ st \in Looping /\ ~Second
  BY DEF Control, Looping, Second
<1>2. at = 0
  BY <1>1 DEF IsoLib
<1>3. QED
  BY <1>2 DEF MarkEntry, MarkPart

\* Between members the writer of tar and zip has none.
LEMMA NoMember ==
  ASSUME Control, st \in {"outopen", "in", "info", "flush", "done"}
  PROVE  ~Renews /\ ~Rewriting /\ (~Is({"iso"}) => lib.member = 0 /\ MarkEntry = Packed + 1 /\ MarkPart = -2)
<1>1. Lib /\ IsoLib /\ st \in Looping
  BY DEF Control, Looping
<1>2. ~Is({"iso"}) => lib.member = 0
  BY <1>1 DEF Lib
<1>3. Is({"iso"}) => ~lib.fixed /\ ~Zips
  BY <1>1 DEF IsoLib, Is, Zips
<1>4. QED
  BY <1>2, <1>3 DEF Renews, Rewriting, MarkEntry, MarkPart

LEMMA LookedRest ==
  ASSUME Control, Control', Rest, st = "info",
         UNCHANGED <<cmd, stop, rc, todo, cur, top, buf, writer, at, nfile, complete, result, outvars>>,
         \/ st' = "add" /\ ~Is({"iso"})
         \/ st' = "in" /\ (Is({"iso"}) \/ Kind(cur) \in {"gone", "excluded"})
  PROVE  Rest'
<1> USE DEF writer, many, result, outvars
<1>1. st \in Looping /\ st' \in Looping /\ (\A o : Is(o)' <=> Is(o))
  BY DEF Looping, Is
<1>2. Fresh /\ ~complete /\ cur \in Int /\ ~lib.ending /\ cur # 0
  BY InfoFacts
<1>3. ~Renews /\ ~Rewriting /\ (~Is({"iso"}) => lib.member = 0 /\ MarkEntry = Packed + 1 /\ MarkPart = -2)
  BY NoMember
<1>4. (Renews' <=> Renews) /\ (Rewriting' <=> Rewriting)
  BY <1>1 DEF Renews, Rewriting, Zips
<1>5. name # 0 => \A p : InCut(cmd, name, MarkEntry', MarkPart', p) <=> InCut(cmd, name, MarkEntry, MarkPart, p)
  <2>1. CASE Is({"iso"})
    <3>1. at = 0 /\ MarkEntry = 0 /\ MarkPart = 0
      BY <2>1, IsoMark
    <3>2. MarkEntry' = 0 /\ MarkPart' = 0
      BY <1>1, <2>1, <3>1 DEF MarkEntry, MarkPart
    <3>3. QED
      BY <3>1, <3>2
  <2>2. CASE ~Is({"iso"})
    <3>1. MarkEntry = cur /\ MarkPart = -2
      <4>1. Packed = cur - 1 /\ cur - 1 + 1 = cur
        BY <1>2 DEF Packed
      <4>2. QED
        BY <1>3, <2>2, <4>1
    <3>2. ~Fresh' /\ MarkEntry' = Packed' + 1 /\ MarkPart' = -2
      BY <1>1, <1>2, <1>3, <2>2 DEF Fresh, MarkEntry, MarkPart
    <3>3. CASE st' = "add"
      <4>1. Packed' = cur - 1 /\ cur - 1 + 1 = cur
        BY <1>2, <3>3 DEF Packed
      <4>2. QED
        BY <3>1, <3>2, <4>1
    <3>4. CASE st' = "in" /\ Kind(cur) \in {"gone", "excluded"}
      <4>1. Packed' = cur
        BY <3>2, <3>4 DEF Packed
      <4>3. name # 0 => \A p : InCut(cmd, name, cur + 1, -2, p) <=> InCut(cmd, name, cur, -2, p)
        BY <1>2, <3>4, MarkOverEntry
      <4>4. QED
        BY <3>1, <3>2, <4>1, <4>3
    <3>5. QED
      BY <2>2, <3>3, <3>4
  <2>3. QED
    BY <2>1, <2>2
<1>6. QED
  BY <1>1, <1>3, <1>4, <1>5, StillRest

LEMMA InfoRest == ASSUME Control, Control', Rest, Info PROVE Rest'
<1> USE DEF walk, reader, writer, many, result, outvars
<1>1. /\ st = "info" /\ UNCHANGED <<todo, cur, top, buf, writer, at, nfile, complete, result, outvars>> /\ st \in Looping
  BY DEF Info, At, Looping
<1>2. CASE GoEnd(1)
  BY <1>1, <1>2, AtIs, FailsRest DEF GoEnd
<1>3. CASE UNCHANGED <<cmd, stop, rc>> /\ \/ st' = "add" /\ ~Is({"iso"})
                                          \/ st' = "in" /\ (Is({"iso"}) \/ Kind(cur) \in {"gone", "excluded"})
  BY <1>1, <1>3, LookedRest
<1>4. QED
  BY <1>2, <1>3 DEF Info, CannotOpen, Goto

\* The mark moves over entries that the walk passes over.
LEMMA MarkOverBare ==
  ASSUME Control, NEW u \in Int, NEW v \in Int, u < v, Bare(cmd.tree, u + 1, v - 1)
  PROVE  name # 0 => \A p : InCut(cmd, name, v, -2, p) <=> InCut(cmd, name, u + 1, -2, p)
<1>1. PICK e \in Int : e = u + 1
  OBVIOUS
<1>2. e <= v /\ \A x \in e .. v - 1 : Plain(cmd, x)
  BY <1>1 DEF Bare, Plain
<1>3. name # 0 => \A p : InCut(cmd, name, v, -2, p) <=> InCut(cmd, name, e, -2, p)
  BY <1>2, MarkOver
<1>4. QED
  BY <1>1, <1>3

\* In the walk
LEMMA InMark ==
  ASSUME Control, st = "in", ~Is({"iso"})
  PROVE  MarkEntry = cur + 1 /\ MarkPart = -2 /\ lib.member = 0 /\ ~lib.ending /\ ~lib.head /\ ~lib.ended
<1>1. ~Fresh /\ MarkEntry = Packed + 1 /\ MarkPart = -2 /\ ~lib.ending /\ lib.member = 0
  BY InFacts, NoMember
<1>2. Packed = cur
  BY <1>1 DEF Packed
<1>3. ~lib.head /\ ~lib.ended
  BY <1>1 DEF Control, Lib, Looping
<1>4. QED
  BY <1>1, <1>2, <1>3

LEMMA GivenRest ==
  ASSUME Control, Control', Rest, st = "in", NEW then, Given(then), UNCHANGED <<reader, piece, woff, many, missing, result, outvars>>,
         \/ then = "info" /\ lib' = lib
         \/ then = "proc" /\ TellFinish /\ Is({"each"})
         \/ then = "outopen" /\ lib' = lib /\ nfile = 0 /\ Is({"each"})
  PROVE  Rest'
<1> USE DEF many, result, outvars, reader
<1>1. /\ cur' \in 1 .. Size /\ cur' > cur /\ Bare(cmd.tree, cur + 1, cur' - 1) /\ st' = then /\ UNCHANGED <<cmd, stop, rc>>
  BY GivenIs
<1>2. st \in Looping /\ ~Fresh /\ ~complete /\ cur \in 0 .. Size /\ Size \in Nat
  BY InFacts
<1>3. st' \in Looping /\ (\A o : Is(o)' <=> Is(o)) /\ st' \notin {"write", "done"}
  BY <1>1 DEF Looping, Is
<1>4. ~Renews /\ ~Rewriting
  BY NoMember
<1>5. /\ lib'.end = lib.end /\ lib'.ended = lib.ended /\ lib'.hdr = lib.hdr /\ lib'.member = lib.member /\ lib'.fixed = lib.fixed
      /\ lib'.head = lib.head /\ (then = "proc" => lib'.ending)
  <2>1. lib \in LibTypes
    BY DEF Control, Types
  <2>2. TellFinish => lib'.ending = TRUE /\ LibSame(lib, lib') /\ lib'.member = lib.member /\ lib'.head = lib.head
    BY <2>1, EndingIs
  <2>3. QED
    BY <2>2 DEF LibSame
<1>6. ~Renews' /\ ~Rewriting'
  BY <1>3, <1>4, <1>5 DEF Renews, Rewriting, Zips
<1>7. name # 0 => \A p : InCut(cmd, name, MarkEntry', MarkPart', p) <=> InCut(cmd, name, MarkEntry, MarkPart, p)
  <2>1. CASE Is({"iso"})
    <3>1. at = 0 /\ MarkEntry = 0 /\ MarkPart = 0
      BY <2>1, IsoMark
    <3>2. MarkEntry' = 0 /\ MarkPart' = 0
      BY <1>3, <2>1, <3>1 DEF MarkEntry, MarkPart
    <3>3. QED
      BY <3>1, <3>2
  <2>2. CASE ~Is({"iso"})
    <3>1. MarkEntry = cur + 1 /\ MarkPart = -2 /\ lib.member = 0
      BY <2>2, InMark
    <3>2. Fresh' /\ cur' - 1 + 1 = cur'
      <4>1. st' = then /\ complete' = complete /\ (Is({"each"})' <=> Is({"each"})) /\ ~complete
        BY <1>1, <1>2 DEF Is
      <4>2. Fresh'
        BY <1>5, <4>1 DEF Fresh
      <4>3. cur' - 1 + 1 = cur'
        <5>1. \A a, n \in Int : a \in 1 .. n => a - 1 + 1 = a
          OBVIOUS
        <5>2. cur' \in 1 .. Size /\ Size \in Int /\ cur' \in Int
          BY <1>1, <1>2
        <5>3. QED
          BY ONLY <5>1, <5>2
      <4>4. QED
        BY <4>2, <4>3
    <3>3. MarkEntry' = cur' /\ MarkPart' = -2
      BY <1>3, <1>5, <2>2, <3>1, <3>2 DEF MarkEntry, MarkPart, Packed
    <3>4. name # 0 => \A p : InCut(cmd, name, cur', -2, p) <=> InCut(cmd, name, cur + 1, -2, p)
      <4>1. PICK u \in Int, v \in Int : u = cur /\ v = cur'
        BY <1>1, <1>2
      <4>2. u < v /\ Bare(cmd.tree, u + 1, v - 1)
        BY <1>1, <4>1
      <4>3. name # 0 => \A p : InCut(cmd, name, v, -2, p) <=> InCut(cmd, name, u + 1, -2, p)
        BY <4>2, MarkOverBare
      <4>4. QED
        BY <4>1, <4>3
    <3>5. QED
      BY <3>1, <3>3, <3>4
  <2>3. QED
    BY <2>1, <2>2
<1>8. QED
  BY <1>1, <1>2, <1>3, <1>4, <1>5, <1>6, <1>7, StillRest

LEMMA NoMoreRest ==
  ASSUME Control, Control', Rest, st = "in", NoMore, Goto("proc"), UNCHANGED <<reader, piece, woff, list, at, nfile, missing, result, outvars>>,
         complete' <=> Is({"each"}), IF Is({"iso"}) THEN lib' = lib ELSE TellFinish
  PROVE  Rest'
<1> USE DEF result, outvars, reader
<1>1. UNCHANGED <<cur, cmd>> /\ st' = "proc"
  BY DEF NoMore, Goto
<1>2. st \in Looping /\ ~Fresh /\ ~complete /\ cur \in 0 .. Size /\ Size \in Nat
  BY InFacts
<1>3. st' \in Looping /\ (\A o : Is(o)' <=> Is(o)) /\ st' \notin {"write", "done"}
  BY <1>1 DEF Looping, Is
<1>4. ~Renews /\ ~Rewriting
  BY NoMember
<1>5. /\ lib'.end = lib.end /\ lib'.ended = lib.ended /\ lib'.hdr = lib.hdr /\ lib'.member = lib.member /\ lib'.fixed = lib.fixed
      /\ lib'.head = lib.head
  <2>1. lib \in LibTypes
    BY DEF Control, Types
  <2>2. TellFinish => lib'.ending = TRUE /\ LibSame(lib, lib') /\ lib'.member = lib.member /\ lib'.head = lib.head
    BY <2>1, EndingIs
  <2>3. QED
    BY <2>2 DEF LibSame
<1>6. ~Renews' /\ ~Rewriting'
  BY <1>3, <1>4, <1>5 DEF Renews, Rewriting, Zips
<1>7. MarkEntry' = MarkEntry /\ MarkPart' = MarkPart
  <2>1. CASE Is({"iso"})
    <3>1. at = 0 /\ MarkEntry = 0 /\ MarkPart = 0
      BY <2>1, IsoMark
    <3>2. MarkEntry' = 0 /\ MarkPart' = 0
      BY <1>3, <2>1, <3>1 DEF MarkEntry, MarkPart
    <3>3. QED
      BY <3>1, <3>2
  <2>2. CASE ~Is({"iso"})
    <3>1. MarkEntry = cur + 1 /\ MarkPart = -2 /\ lib.member = 0
      BY <2>2, InMark
    <3>2. ~Fresh'
      BY <1>1, <1>3 DEF Fresh
    <3>3. MarkEntry' = cur + 1 /\ MarkPart' = -2
      BY <1>1, <1>3, <1>5, <2>2, <3>1, <3>2 DEF MarkEntry, MarkPart, Packed
    <3>4. QED
      BY <3>1, <3>3
  <2>3. QED
    BY <2>1, <2>2
<1>8. QED
  BY <1>1, <1>2, <1>3, <1>4, <1>5, <1>6, <1>7, StillRest

LEMMA NextEntryRest == ASSUME Control, Control', Rest, NextEntry PROVE Rest'
<1>1. st = "in" /\ st \in Looping /\ ~Is({"each"}) /\ UNCHANGED <<reader, piece, woff, many, missing, result, outvars>>
  BY DEF NextEntry, At, Looping
<1>2. CASE Given("info") /\ UNCHANGED lib
  BY <1>1, <1>2, GivenRest
<1>3. CASE NoMore /\ Goto("proc") /\ IF Is({"iso"}) THEN UNCHANGED lib ELSE TellFinish
  <2>1. ~complete'
    BY <1>1, InFacts DEF many
  <2>2. QED
    BY <1>1, <1>3, <2>1, NoMoreRest DEF many
<1>4. CASE InputFails /\ UNCHANGED lib
  BY <1>1, <1>4, AtIs, FailsRest DEF InputFails, GoEnd, many, result, outvars
<1>5. QED
  BY <1>2, <1>3, <1>4 DEF NextEntry

LEMMA NextOfEachRest == ASSUME Control, Control', Rest, NextOfEach PROVE Rest'
<1>1. st = "in" /\ st \in Looping /\ Is({"each"}) /\ ~Is({"iso"}) /\ UNCHANGED <<reader, piece, woff, list, at, nfile, missing, result, outvars>>
  BY DEF NextOfEach, At, Looping, Is
<1>2. CASE NoMore /\ TellFinish /\ complete' = TRUE /\ Goto("proc")
  BY <1>1, <1>2, NoMoreRest
<1>3. CASE Given("info") /\ UNCHANGED <<lib, complete>>
  BY <1>1, <1>3, GivenRest DEF many
<1>4. CASE Given("proc") /\ TellFinish /\ UNCHANGED complete
  BY <1>1, <1>4, GivenRest DEF many
<1>5. CASE nfile = 0 /\ Given("outopen") /\ UNCHANGED <<lib, complete>>
  BY <1>1, <1>5, GivenRest DEF many
<1>6. CASE InputFails /\ UNCHANGED lib
  BY <1>1, <1>6, AtIs, FailsRest DEF InputFails, GoEnd, many, result, outvars
<1>7. QED
  BY <1>2, <1>3, <1>4, <1>5, <1>6 DEF NextOfEach

\* The end of a member
LEMMA MemberRest ==
  ASSUME Control, Control', Rest, st = "proc", ~Is({"iso"}), lib.member # 0, ~lib.head, buf = 0, lib.fin, Zips => lib.fixed, Goto("in"),
         lib' = [lib EXCEPT !.member = 0], IF Zips THEN woff' = lib.end ELSE woff' = woff,
         UNCHANGED <<walk, off, buf, piece, many, missing, result, outvars>>
  PROVE  Rest'
<1> USE DEF walk, many, result, outvars
<1>1. lib \in LibTypes /\ st \in Looping
  BY DEF Control, Types, Looping
<1>2. /\ lib' \in LibTypes /\ lib'.member = 0 /\ LibSame(lib, lib')
      /\ lib'.fin = lib.fin /\ lib'.head = lib.head /\ lib'.ending = lib.ending
  BY <1>1, MemberZero
<1>3. st' = "in" /\ UNCHANGED <<cmd, stop, rc>> /\ st' \in Looping
  BY DEF Goto, Looping
<1>4. /\ lib.member = cur /\ ~lib.ending /\ ~lib.ended /\ (DataIn(cmd, cur) => off = cmd.tree[cur].size)
      /\ lib.fixed => Zips
  BY <1>1 DEF Control, Lib
<1>5. cmd \in Commands /\ cur \in Nat /\ off \in Nat /\ cmd.tree[cur].size \in Nat
  BY <1>4, SizeIs DEF Control, Types
<1>6. ~Renews /\ ~Renews' /\ ~Rewriting' /\ (~Zips => ~Rewriting)
  BY <1>2, <1>4 DEF Renews, Rewriting, Zips
<1>7. MarkEntry = cur /\ MarkPart = off
  BY <1>4 DEF MarkEntry, MarkPart
<1>8. MarkEntry' = cur + 1 /\ MarkPart' = -2
  <2>1. ~Fresh' /\ ~Is({"iso"})'
    BY <1>2, <1>3, <1>4 DEF Fresh, Is
  <2>2. QED
    BY <1>2, <1>3, <2>1 DEF MarkEntry, MarkPart, Packed
<1>9. name # 0 => \A p : InCut(cmd, name, cur + 1, -2, p) <=> InCut(cmd, name, cur, off, p)
  <2> HAVE name # 0
  <2>1. Covers(cmd, cur, off)
    BY <1>4, <1>5 DEF Covers, PartIn
  <2>2. name \in ArchivesIn(cmd)
    BY ArchivesAre
  <2>3. PICK c \in Commands : c = cmd
    BY <1>5
  <2>4. PICK a \in ArchivesIn(c), e \in Int, j \in Int : a = name /\ e = cur /\ j = off
    BY <1>5, <2>2, <2>3
  <2>5. Covers(c, e, j)
    BY <2>1, <2>3, <2>4
  <2>6. \A p : InCut(c, a, e + 1, -2, p) <=> InCut(c, a, e, j, p)
    BY <2>5, CutOverEntry
  <2>7. QED
    BY <2>3, <2>4, <2>6
<1>10. /\ st # "write" /\ st' # "write" /\ st # "done" /\ st' # "done"
       /\ lib'.end = lib.end /\ lib'.ended = lib.ended /\ lib'.hdr = lib.hdr
  BY <1>2, <1>3 DEF LibSame
<1>11. QED
  BY <1>1, <1>2, <1>3, <1>6, <1>7, <1>8, <1>9, <1>10, StillRest

\* More is asked for.
LEMMA AsksRest ==
  ASSUME Control, Control', Rest, st = "proc", NEW s, Asks(s), UNCHANGED <<walk, off, many, missing, result, outvars>>,
         \/ s = "read"
         \/ s = "nextopen"
         \/ s = "flush"
         \/ s = "done" /\ ~Is({"tar"})
  PROVE  Rest'
<1> USE DEF walk, many, result, outvars
<1>1. st' = s /\ UNCHANGED <<cmd, stop, rc, buf, piece, lib, woff>>
  BY DEF Asks, Goto
<1>2. st \in Looping /\ st' \in Looping /\ st' # "write" /\ (Is({"tar"}) => st' # "done")
  BY <1>1 DEF Looping
<1>3. (Renews' <=> Renews) /\ (Rewriting' <=> Rewriting)
  BY <1>1 DEF Renews, Rewriting, Zips, Is
<1>4. (Fresh' <=> Fresh) /\ st' # "add"
  BY <1>1 DEF Fresh, Is
<1>5. MarkEntry' = MarkEntry /\ MarkPart' = MarkPart
  <2>1. Packed' = Packed
    BY <1>1, <1>4 DEF Packed
  <2>2. QED
    BY <1>1, <2>1 DEF MarkEntry, MarkPart, Is
<1>6. name # 0 /\ ~Rewriting' /\ ~lib.ended => (~Rewriting /\ woff' = woff)
  BY <1>1, <1>3
<1>7. lib'.member # 0 /\ ~Is({"iso"}) /\ ~lib'.head => lib.member # 0 /\ ~lib.head
  BY <1>1
<1>8. lib'.end = lib.end /\ lib'.ended = lib.ended /\ lib'.hdr = lib.hdr /\ cur' = cur
  BY <1>1
<1>9. \A p : InCut(cmd, name, MarkEntry', MarkPart', p) <=> InCut(cmd, name, MarkEntry, MarkPart, p)
  BY <1>5
<1>10. QED
  BY <1>1, <1>2, <1>3, <1>6, <1>7, <1>8, <1>9, StillRest

\* iso's writer is never in need of a change of a header.
LEMMA IsoNever == ASSUME Control, Is({"iso"}), st \in Looping PROVE ~Renews /\ ~Rewriting /\ ~Zips /\ First = 1
<1>1. ~lib.fixed
  BY DEF Control, IsoLib
<1>2. ~Zips
  BY DEF Is, Zips
<1>3. QED
  BY <1>1, <1>2 DEF Renews, Rewriting, First

LEMMA IsoReadRest == ASSUME Control, Control', Rest, IsoRead PROVE Rest'
<1> USE DEF walk, writer, reader, many, result, outvars
<1>1. /\ st = "read" /\ st \in Looping /\ Is({"iso"}) /\ UNCHANGED <<walk, writer, many, missing, result, outvars>>
  BY DEF IsoRead, At, Looping
<1>2. at # 0 /\ buf = 0 /\ off \in Nat
  BY <1>1 DEF Control, IsoLib, Types
<1>3. CASE GoEnd(1)
  BY <1>1, <1>3, AtIs, FailsRest DEF GoEnd
<1>4. CASE UNCHANGED <<cmd, stop, rc>> /\ \/ off' = off + 1 /\ buf' = off + 1 /\ st' = "proc"
                                          \/ UNCHANGED reader /\ st' = "nextopen"
  <2>1. st' \in Looping /\ Is({"iso"})' /\ ~Is({"tar"}) /\ st' # "write"
    BY <1>1, <1>4 DEF Looping, Is
  <2>2. ~Renews /\ ~Rewriting /\ ~Renews' /\ ~Rewriting'
    BY <1>1, <2>1, IsoNever DEF Renews, Rewriting, Zips, Is
  <2>3. MarkEntry = cur /\ MarkPart = off
    BY <1>1, <1>2 DEF MarkEntry, MarkPart
  <2>4. MarkEntry' = cur /\ MarkPart' = off
    <3>1. CASE off' = off + 1 /\ buf' = off + 1
      <4>1. off + 1 - 1 = off /\ off + 1 # 0
        BY <1>2
      <4>2. QED
        BY <1>1, <1>2, <2>1, <3>1, <4>1 DEF MarkEntry, MarkPart
    <3>2. CASE UNCHANGED reader
      BY <1>1, <1>2, <2>1, <3>2 DEF MarkEntry, MarkPart
    <3>3. QED
      BY <1>4, <3>1, <3>2
  <2>5. QED
    BY <1>1, <1>4, <2>1, <2>2, <2>3, <2>4, StillRest
<1>5. QED
  BY <1>3, <1>4 DEF IsoRead, Goto

\* Between two files of the list there is none.
LEMMA ListGap ==
  ASSUME NEW c, NEW l, NEW u \in Nat, ListIn(c, l, u), NEW k \in 1 .. Len(l)
  PROVE  /\ \A x \in 1 .. l[k] - 1 : k = 1 => ~Listed(c, x)
         /\ k > 1 => l[k - 1] < l[k] /\ \A x \in l[k - 1] + 1 .. l[k] - 1 : ~Listed(c, x)
<1>1. /\ Len(l) \in Nat /\ \A i \in 1 .. Len(l) : l[i] \in 1 .. u
      /\ \A x \in 1 .. u : Listed(c, x) => \E i \in 1 .. Len(l) : l[i] = x
      /\ \A i, j \in 1 .. Len(l) : i < j => l[i] < l[j]
  BY DEF ListIn
<1>2. ASSUME NEW x \in 1 .. l[k] - 1, Listed(c, x), k > 1 => x > l[k - 1] PROVE FALSE
  <2>1. l[k] \in 1 .. u
    BY <1>1
  <2>2. x \in 1 .. u
    BY <2>1
  <2>3. PICK i \in 1 .. Len(l) : l[i] = x
    BY <1>1, <1>2, <2>2
  <2>4. i < k
    <3>1. CASE i = k
      BY <2>1, <2>3, <3>1
    <3>2. CASE k < i
      <4>1. l[k] < l[i]
        BY <1>1, <3>2
      <4>2. QED
        BY <2>1, <2>3, <4>1
    <3>3. QED
      BY <3>1, <3>2
  <2>5. k > 1 /\ k - 1 \in 1 .. Len(l)
    BY <1>1, <2>4
  <2>6. CASE i = k - 1
    BY <1>2, <2>2, <2>3, <2>5, <2>6
  <2>7. CASE i < k - 1
    <3>1. l[i] < l[k - 1] /\ l[k - 1] \in 1 .. u
      BY <1>1, <2>5, <2>7
    <3>2. QED
      BY <1>2, <2>2, <2>3, <2>5, <3>1
  <2>8. QED
    BY <2>4, <2>5, <2>6, <2>7
<1>3. k > 1 => k - 1 \in 1 .. Len(l) /\ k - 1 < k
  BY <1>1
<1>4. k > 1 => l[k - 1] < l[k] /\ l[k - 1] \in 1 .. u /\ l[k] \in 1 .. u
  BY <1>1, <1>3
<1>5. \A x \in 1 .. l[k] - 1 : k = 1 => ~Listed(c, x)
  BY <1>2
<1>6. ASSUME k > 1, NEW x \in l[k - 1] + 1 .. l[k] - 1 PROVE ~Listed(c, x)
  <2>1. x \in 1 .. l[k] - 1 /\ x > l[k - 1]
    BY <1>4, <1>6
  <2>2. QED
    BY <1>2, <2>1
<1>7. QED
  BY <1>4, <1>5, <1>6

LEMMA NotListed ==
  ASSUME NEW c, NEW x, c.op = "iso", ~Listed(c, x) PROVE Plain(c, x)
  BY DEF Listed, Plain

LEMMA IsoNextOpenRest == ASSUME Control, Control', Rest, IsoNextOpen PROVE Rest'
<1> USE DEF many, result, outvars
<1>1. /\ st = "nextopen" /\ st \in Looping /\ st \in Inner /\ Is({"iso"})
      /\ UNCHANGED <<todo, isdir, top, buf, piece, woff, list, nfile, complete, missing, result, outvars>>
  BY DEF IsoNextOpen, At, Looping, Inner
<1>2. /\ lib \in LibTypes /\ lib.member \in Nat /\ lib.end \in Nat /\ buf \in Nat /\ off \in Nat
      /\ ListIn(cmd, list, Size) /\ ~lib.head /\ ~lib.fixed /\ at \in 0 .. Len(list) /\ Len(list) \in Nat
  BY <1>1, IsoFacts
<1>3. buf = 0 /\ (at # 0 => off = cmd.tree[cur].size /\ cur = list[at])
  BY <1>1 DEF Control, IsoLib
<1>4. cmd \in Commands /\ Size \in Nat /\ cmd.op = "iso"
  BY <1>1, CommandIs DEF Control, Types, Size, Nested, Is
<1>5. MarkEntry = (IF at = 0 THEN 0 ELSE cur) /\ MarkPart = (IF at = 0 THEN 0 ELSE off)
  BY <1>1, <1>3 DEF MarkEntry, MarkPart
<1>6. CASE GoEnd(1)
  BY <1>1, <1>6, AtIs, FailsRest DEF GoEnd
<1>7. CASE TellFinish /\ Goto("proc") /\ UNCHANGED <<at, cur, off>>
  <2>1. UNCHANGED <<cmd, stop, rc>> /\ st' = "proc" /\ st' \in Looping /\ Is({"iso"})' /\ ~Is({"tar"})
    BY <1>1, <1>7 DEF Goto, Looping, Is
  <2>2. lib'.ending = TRUE /\ LibSame(lib, lib') /\ lib'.member = lib.member /\ lib'.head = lib.head
    BY <1>2, <1>7, EndingIs
  <2>3. ~Renews /\ ~Rewriting /\ ~Renews' /\ ~Rewriting'
    BY <1>1, <1>2, <2>1, <2>2, IsoNever DEF Renews, Rewriting, Zips, Is, LibSame
  <2>4. MarkEntry' = MarkEntry /\ MarkPart' = MarkPart
    BY <1>1, <1>7, <2>1 DEF MarkEntry, MarkPart
  <2>5. lib'.end = lib.end /\ lib'.ended = lib.ended /\ lib'.hdr = lib.hdr
    BY <2>2 DEF LibSame
  <2>6. QED
    BY <1>1, <2>1, <2>3, <2>4, <2>5, StillRest
<1>8. CASE at < Len(list) /\ at' = at + 1 /\ cur' = list[at + 1] /\ off' = 0 /\ lib' = [lib EXCEPT !.member = cur'] /\ Goto("read")
  <2>1. UNCHANGED <<cmd, stop, rc>> /\ st' = "read" /\ st' \in Looping /\ Is({"iso"})' /\ ~Is({"tar"})
    BY <1>1, <1>8 DEF Goto, Looping, Is
  <2>2. at + 1 \in 1 .. Len(list) /\ at + 1 # 0
    BY <1>2, <1>8
  <2>3. list[at + 1] \in 1 .. Size
    BY <1>2, <2>2 DEF ListIn
  <2>4. cur' \in Nat
    BY <1>4, <1>8, <2>3
  <2>5. LibSame(lib, lib')
    BY <1>2, <1>8, <2>4, MemberIs
  <2>6. ~Renews /\ ~Rewriting /\ ~Renews' /\ ~Rewriting'
    BY <1>1, <1>2, <2>1, <2>5, IsoNever DEF Renews, Rewriting, Zips, Is, LibSame
  <2>7. MarkEntry' = cur' /\ MarkPart' = 0
    BY <1>1, <1>3, <1>8, <2>1, <2>2 DEF MarkEntry, MarkPart
  <2>8. name # 0 => \A p : InCut(cmd, name, cur', 0, p) <=> InCut(cmd, name, MarkEntry, MarkPart, p)
    <3> HAVE name # 0
    <3>1. PICK c \in Commands, l \in {list}, k \in 1 .. Len(list), u \in Nat : c = cmd /\ l = list /\ k = at + 1 /\ u = Size
      BY <1>4, <2>2
    <3>2. PICK a \in ArchivesIn(c) : a = name
      BY <3>1, ArchivesAre
    <3>3. /\ \A x \in 1 .. l[k] - 1 : k = 1 => ~Listed(c, x)
          /\ k > 1 => l[k - 1] < l[k] /\ \A x \in l[k - 1] + 1 .. l[k] - 1 : ~Listed(c, x)
      BY <1>2, <3>1, ListGap
    <3>4. PICK e2 \in Int : e2 = cur' /\ e2 = l[k]
      BY <1>8, <2>4, <3>1
    <3>5. CASE at = 0
      <4>1. \A x \in 1 .. e2 - 1 : Plain(c, x)
        BY <1>4, <3>1, <3>3, <3>4, <3>5, NotListed
      <4>2. \A p : InCut(c, a, e2, 0, p) <=> InCut(c, a, 0, 0, p)
        BY <1>4, <3>1, <4>1, CutFirst
      <4>3. QED
        BY <1>5, <3>1, <3>2, <3>4, <3>5, <4>2
    <3>6. CASE at # 0
      <4>1. k > 1 /\ k - 1 = at
        BY <1>2, <3>1, <3>6
      <4>2. cur = l[k - 1] /\ off = cmd.tree[cur].size
        BY <1>3, <3>1, <3>6, <4>1
      <4>3. PICK e \in Int, j \in Int : e = cur /\ j = off
        BY <1>2 DEF Control, Types
      <4>4. e < e2 /\ \A x \in e + 1 .. e2 - 1 : Plain(c, x)
        BY <1>4, <3>1, <3>3, <3>4, <4>1, <4>2, <4>3, NotListed
      <4>5. Covers(c, e, j)
        <5>1. j = c.tree[e].size /\ j \in Nat
          BY <1>2, <3>1, <4>2, <4>3
        <5>2. QED
          BY <1>4, <3>1, <5>1 DEF Covers, PartIn
      <4>6. \A p : InCut(c, a, e2, 0, p) <=> InCut(c, a, e, j, p)
        BY <1>4, <3>1, <4>4, <4>5, CutToNext
      <4>7. QED
        BY <1>5, <3>1, <3>2, <3>4, <3>6, <4>3, <4>6
    <3>7. QED
      BY <3>5, <3>6
  <2>9. lib'.end = lib.end /\ lib'.ended = lib.ended /\ lib'.hdr = lib.hdr
    BY <2>5 DEF LibSame
  <2>10. QED
    BY <1>1, <2>1, <2>6, <2>7, <2>8, <2>9, StillRest
<1>9. QED
  BY <1>6, <1>7, <1>8 DEF IsoNextOpen

-----------------------------------------------------------------------------
(* What a piece that the writer gives adds to the archive *)

\* The piece is one more part of the entry.
LEMMA Grown ==
  ASSUME NEW c \in Commands, NEW a \in ArchivesIn(c), NEW e \in Int, NEW i \in Int, NEW j \in Int, NEW k \in Int,
         e \in ExtentIn(c, a), ReachIn(c.tree, e), PartIn(c, e, k), i < k, k <= j,
         \A x \in i + 1 .. j : PartIn(c, e, x) => x = k,
         NEW f, NEW g, NEW lo \in Int, NEW hi \in Int, lo <= hi + 1, Exact(f, lo, hi, c, a, e, i),
         \A x \in lo .. hi : g[x] = f[x], g[hi + 1] = <<e, k>>
  PROVE  Exact(g, lo, hi + 1, c, a, e, j)
<1>1. \A p : InCut(c, a, e, j, p) <=> (InCut(c, a, e, i, p) \/ p = <<e, k>>)
  BY CutGrows
<1>2. \A p : InCut(c, a, e, i, p) => Before(p, <<e, k>>)
  BY CutGrows
<1>3. PICK q : q = <<e, k>>
  OBVIOUS
<1>4. /\ \A p : InCut(c, a, e, j, p) <=> (InCut(c, a, e, i, p) \/ p = q)
      /\ \A p : InCut(c, a, e, i, p) => Before(p, q)
      /\ g[hi + 1] = q
  BY <1>1, <1>2, <1>3
<1>5. Exact(g, lo, hi + 1, c, a, e, j)
  BY ONLY <1>4, lo \in Int, hi \in Int, lo <= hi + 1, Exact(f, lo, hi, c, a, e, i), \A x \in lo .. hi : g[x] = f[x], ExactGrows
<1>6. QED
  BY <1>5

\* What is in hand when piece p is given for offset o, and the archive then has n pieces.
InHand(p, o, n) ==
  /\ Held = obj.cache /\ Next1 = Offset(woff) /\ Next1' = Offset(o) + 1
  /\ DOMAIN Held' = DOMAIN obj.cache \cup {Offset(o)} /\ Held'[Offset(o)] = p
  /\ \A k \in DOMAIN obj.cache : k # Offset(o) => Held'[k] = obj.cache[k]
  /\ \A k \in 0 .. lib.end - 1 : Shown[k] = IF Renews /\ k = lib.hdr THEN FixedHead(cur) ELSE obj.cache[k]
  /\ \A k \in 0 .. n - 1 : Shown'[k] = IF Renews' /\ k = lib'.hdr THEN FixedHead(cur) ELSE Held'[k]

LEMMA HeldGiven ==
  ASSUME st = "proc", NEW p, NEW o, NEW n \in Nat, Gives(p, o, n), UNCHANGED <<walk, outvars>>, lib \in LibTypes
  PROVE  InHand(p, o, n)
<1>1. st' = "write" /\ piece' = p /\ woff' = o /\ lib'.end = n /\ UNCHANGED <<obj, cur>>
  <2>1. st' = "write" /\ piece' = p /\ woff' = o /\ lib'.end = n
    BY GivesIs
  <2>2. QED
    BY <2>1 DEF outvars, walk
<1>2. Offset(woff)' = Offset(o)
  BY <1>1 DEF Offset
<1>3. Held = obj.cache /\ Next1 = Offset(woff) /\ Next1' = Offset(o) + 1
  BY <1>1, <1>2 DEF Held, Next1
<1>4. Held' = Cached(obj.cache, Offset(o), p)
  BY <1>1, <1>2 DEF Held, Cached
<1>5. /\ DOMAIN Held' = DOMAIN obj.cache \cup {Offset(o)} /\ Held'[Offset(o)] = p
      /\ \A k \in DOMAIN obj.cache : k # Offset(o) => Held'[k] = obj.cache[k]
  <2>1. PICK c, q, h : c = obj.cache /\ q = Offset(o) /\ h = Held'
    OBVIOUS
  <2>2. h = Cached(c, q, p)
    BY <1>4, <2>1
  <2>3. DOMAIN h = DOMAIN c \cup {q} /\ h[q] = p /\ \A k \in DOMAIN c : k # q => h[k] = c[k]
    BY <2>2 DEF Cached
  <2>4. QED
    BY <2>1, <2>3
<1>6. \A k \in 0 .. lib.end - 1 : Shown[k] = IF Renews /\ k = lib.hdr THEN FixedHead(cur) ELSE obj.cache[k]
  BY <1>3 DEF Shown
<1>7. FixedHead(cur)' = FixedHead(cur)
  BY <1>1 DEF FixedHead
<1>8. Shown' = [k \in 0 .. n - 1 |-> IF Renews' /\ k = lib'.hdr THEN FixedHead(cur) ELSE Held'[k]]
  BY <1>1, <1>7 DEF Shown
<1>9. QED
  BY <1>3, <1>5, <1>6, <1>8 DEF InHand

\* What is left to show of such a step.
LEMMA GivesRest ==
  ASSUME Control, Rest, st = "proc", NEW p, NEW o, NEW n \in Nat, Gives(p, o, n), UNCHANGED <<walk, off, many, missing, result, outvars>>,
         name # 0 /\ ~Rewriting' /\ ~lib'.ended => Offset(o) + 1 = n,
         name # 0 /\ ~lost =>
            /\ DOMAIN Held' = 0 .. n - 1
            /\ lib'.member # 0 /\ ~Is({"iso"}) => lib'.hdr \in 0 .. n - 1
            /\ Exact(Shown', First, Final', cmd, name, MarkEntry', MarkPart')
            /\ lib'.ended => n > 0 /\ Held'[IF Is({"iso"}) THEN 0 ELSE n - 1] = Trailer
  PROVE  Rest'
<1> USE DEF walk, many, result, outvars
<1>1. lib \in LibTypes /\ st \in Looping
  BY DEF Control, Types, Looping
<1>2. st' = "write" /\ UNCHANGED <<cmd, stop, rc>> /\ lib'.end = n /\ woff' = o
  BY <1>1, GivesIs
<1>3. st' \in Looping /\ (Is({"iso"})' <=> Is({"iso"})) /\ (Is({"tar"})' <=> Is({"tar"}))
  BY <1>2 DEF Looping, Is
<1>4. Results'
  BY <1>1, <1>2, <1>3, ResultsSame DEF Rest
<1>5. Appends'
  <2>1. obj'.at \in Nat
    BY AtIs
  <2>2. Next1' = Offset(o) + 1
    BY <1>1, HeldGiven DEF InHand
  <2>3. QED
    BY <1>2, <1>3, <2>1, <2>2 DEF Appends
<1>6. Content'
  <2>1. SUFFICES ASSUME Filling' PROVE Content'
    BY DEF Content
  <2>2. Filling /\ name # 0 /\ ~lost
    BY <1>1, <1>2, <1>3, <2>1 DEF Filling
  <2>3. disk[name] = New(<<>>)
    BY <2>2 DEF Rest, Content
  <2>4. First' = First
    BY <1>3 DEF First
  <2>5. New(<<>>)' = New(<<>>)
    BY DEF New
  <2>6. QED
    BY <1>2, <1>3, <2>2, <2>3, <2>4, <2>5 DEF Content
<1>7. QED
  BY <1>4, <1>5, <1>6 DEF Rest

LEMMA ProcContent ==
  ASSUME Control, Rest, st = "proc"
  PROVE  /\ name # 0 /\ ~lost =>
            /\ DOMAIN obj.cache = 0 .. lib.end - 1
            /\ lib.member # 0 /\ ~Is({"iso"}) /\ ~lib.head => lib.hdr \in 0 .. lib.end - 1
            /\ Exact(Shown, First, Final, cmd, name, MarkEntry, MarkPart)
         /\ name # 0 /\ ~Rewriting /\ ~lib.ended => Offset(woff) = lib.end
<1>1. st \in Looping
  BY DEF Looping
<1>2. Held = obj.cache /\ Next1 = Offset(woff)
  BY DEF Held, Next1
<1>3. name # 0 /\ ~lost => Filling
  BY <1>1 DEF Filling
<1>4. QED
  BY <1>1, <1>2, <1>3 DEF Rest, Content, Appends

\* The entry of tar and zip belongs into the archive that is open.
LEMMA MemberBelongs ==
  ASSUME Control, st \in Looping, ~Is({"iso"}), lib.member # 0
  PROVE  /\ cmd \in Commands /\ name \in ArchivesIn(cmd) /\ name # 0 /\ cur = lib.member
         /\ cur \in ExtentIn(cmd, name) /\ ReachIn(cmd.tree, cur)
         /\ cmd.tree[cur].kind \notin {"gone", "excluded", "nameless"}
<1>1. /\ lib.member = cur /\ st \in {"read", "proc", "write"} /\ ~lib.ending
      /\ cmd.tree[cur].kind \notin {"gone", "excluded", "nameless"}
  BY DEF Control, Lib
<1>2. cur # 0 /\ Walked(cmd, todo, isdir, cur, top)
  BY <1>1 DEF Control, Walk, Second
<1>3. cmd \in Commands /\ cur \in 0 .. Size /\ Size \in Nat
  BY SizeIs, <1>2 DEF Control, Types
<1>4. ReachIn(cmd.tree, cur)
  BY <1>2 DEF Walked
<1>5. /\ name = (IF Is({"each"}) THEN nfile ELSE 1)
      /\ Is({"each"}) => nfile = top
  BY <1>1 DEF Control, Names
<1>6. top \in 1 .. Len(cmd.tops) /\ cur \in cmd.tops[top] .. cmd.tree[cmd.tops[top]].last
  BY <1>2, <1>3, BelowTop
<1>7. name # 0 /\ cur \in ExtentIn(cmd, name)
  <2>1. CASE Is({"each"})
    BY <1>5, <1>6, <2>1 DEF ExtentIn, Is
  <2>2. CASE ~Is({"each"})
    <3>1. cur \in 1 .. Len(cmd.tree)
      BY <1>2, <1>3 DEF Size
    <3>2. QED
      BY <1>5, <2>2, <3>1 DEF ExtentIn, Is
  <2>3. QED
    BY <2>1, <2>2
<1>8. name \in ArchivesIn(cmd)
  BY <1>7, ArchivesAre
<1>9. QED
  BY <1>1, <1>3, <1>4, <1>7, <1>8

\* The header of a member
LEMMA HeadRest ==
  ASSUME Control, Rest, st = "proc", ~Is({"iso"}), lib.head, GivesNext(HeadOf(lib.member)),
         UNCHANGED <<walk, off, many, missing, result, outvars>>
  PROVE  Rest'
<1>1. lib \in LibTypes /\ st \in Looping /\ lib.end \in Nat /\ lib.end + 1 \in Nat
  BY ProcFacts DEF Looping
<1>2. /\ lib.member # 0 /\ ~lib.fixed /\ ~lib.ended /\ off = buf /\ off \in {0, 1} /\ lib.member = cur
  <2>1. off \in Nat
    BY DEF Control, Types
  <2>2. QED
    BY <1>1, <2>1 DEF Control, Lib
<1>3. /\ cmd \in Commands /\ name \in ArchivesIn(cmd) /\ name # 0
      /\ cur \in ExtentIn(cmd, name) /\ ReachIn(cmd.tree, cur)
      /\ cmd.tree[cur].kind \notin {"gone", "excluded", "nameless"}
  BY <1>1, <1>2, MemberBelongs
<1>4. PICK p \in {HeadOf(lib.member)}, n \in Nat : p = HeadOf(lib.member) /\ n = lib.end + 1
  BY <1>1
<1>5. Gives(p, woff, n) /\ buf' = buf
  BY <1>4 DEF GivesNext
<1>6. /\ lib'.member = cur /\ ~lib'.head /\ lib'.end = n /\ lib'.hdr = lib.end
      /\ ~lib'.fixed /\ ~lib'.ended /\ UNCHANGED <<cmd, name, cur, off>>
  <2>1. p # FixedHead(lib.member) /\ p # Trailer
    BY <1>2, <1>4, ProcFacts
  <2>2. /\ lib'.member = lib.member /\ lib'.head = FALSE /\ lib'.end = n
        /\ lib'.hdr = (IF lib.head THEN lib.end ELSE lib.hdr)
        /\ lib'.fixed <=> (lib.fixed \/ (lib.member # 0 /\ p = FixedHead(lib.member)))
        /\ lib'.ended <=> (lib.ended \/ p = Trailer)
        /\ UNCHANGED cmd
    BY <1>1, <1>5, GivesIs
  <2>3. UNCHANGED <<name, cur, off>>
    BY DEF walk, result
  <2>4. ~lib'.fixed /\ ~lib'.ended
    BY <1>2, <2>1, <2>2
  <2>5. lib'.hdr = lib.end
    <3>1. lib.head = TRUE
      BY <1>1 DEF LibTypes
    <3>2. QED
      BY <2>2, <3>1
  <2>6. lib'.member = cur /\ ~lib'.head /\ lib'.end = n /\ UNCHANGED cmd
    BY <1>2, <2>2
  <2>7. QED
    BY <2>3, <2>4, <2>5, <2>6
<1>7. ~Renews /\ ~Rewriting /\ ~Rewriting' /\ (Renews' <=> Zips)
  BY <1>2, <1>6 DEF Renews, Rewriting, Zips, Is
<1>8. Offset(woff) = lib.end
  BY <1>2, <1>3, <1>7, ProcContent
<1>9. /\ DOMAIN Held' = DOMAIN obj.cache \cup {lib.end} /\ Held'[lib.end] = p
      /\ \A k \in DOMAIN obj.cache : k # lib.end => Held'[k] = obj.cache[k]
      /\ \A k \in 0 .. lib.end - 1 : Shown[k] = IF Renews /\ k = lib.hdr THEN FixedHead(cur) ELSE obj.cache[k]
      /\ \A k \in 0 .. n - 1 : Shown'[k] = IF Renews' /\ k = lib'.hdr THEN FixedHead(cur) ELSE Held'[k]
  <2>1. InHand(p, woff, n)
    BY <1>1, <1>5, HeldGiven
  <2>2. QED
    BY <1>8, <2>1 DEF InHand
<1>10. MarkEntry = cur /\ MarkPart = -2 /\ MarkEntry' = cur /\ MarkPart' = 0
  <2>1. MarkEntry = cur /\ MarkPart = -2
    BY <1>2 DEF MarkEntry, MarkPart
  <2>2. MarkEntry' = cur
    BY <1>2, <1>6 DEF MarkEntry, Is
  <2>3. MarkPart' = IF buf # 0 THEN off - 1 ELSE off
    BY <1>2, <1>5, <1>6 DEF MarkPart, Is
  <2>4. QED
    BY <1>2, <2>1, <2>2, <2>3
<1>11. First = 0 /\ Final = lib.end - 1 /\ Final' = lib.end
  <2>1. First = 0 /\ Final = lib.end - 1 /\ Final' = n - 1
    BY <1>2, <1>6 DEF First, Final, Is
  <2>2. QED
    BY <1>1, <1>4, <2>1
<1>12. ASSUME ~lost
       PROVE  DOMAIN Held' = 0 .. n - 1 /\ lib'.hdr \in 0 .. n - 1 /\ Exact(Shown', First, Final', cmd, name, MarkEntry', MarkPart')
  <2>1. DOMAIN obj.cache = 0 .. lib.end - 1 /\ Exact(Shown, First, Final, cmd, name, MarkEntry, MarkPart)
    BY <1>3, <1>12, ProcContent
  <2>2. DOMAIN Held' = 0 .. n - 1 /\ lib'.hdr \in 0 .. n - 1
    BY <1>1, <1>4, <1>6, <1>9, <2>1
  <2>3. \A x \in 0 .. lib.end - 1 : Shown'[x] = Shown[x]
    BY <1>1, <1>4, <1>6, <1>7, <1>9, <2>1
  <2>4. PICK k \in {-1, 0} : k = IF Is({"tar"}) THEN 0 ELSE -1
    OBVIOUS
  <2>5. Shown'[lib.end - 1 + 1] = <<cur, k>>
    <3>1. Shown'[lib.end] = IF Renews' THEN FixedHead(cur) ELSE p
      BY <1>1, <1>4, <1>6, <1>9
    <3>2. Zips <=> ~Is({"tar"})
      <4>1. cmd.op \in Ops
        BY <1>3, CommandIs
      <4>2. QED
        BY <4>1 DEF Zips, Is, Ops
    <3>3. Shown'[lib.end] = <<cur, k>>
      BY <1>2, <1>4, <1>7, <2>4, <3>1, <3>2 DEF FixedHead, HeadOf
    <3>4. lib.end - 1 + 1 = lib.end
      BY <1>1
    <3>5. QED
      BY <3>3, <3>4
  <2>6. PICK c \in Commands, e \in Int, hi \in Int, f \in {Shown}, g \in {Shown'} : c = cmd /\ e = cur /\ hi = lib.end - 1 /\ f = Shown /\ g = Shown'
    BY <1>1, <1>3 DEF Control, Types
  <2>7. PICK a \in ArchivesIn(c) : a = name
    BY <1>3, <2>6
  <2>8. e \in ExtentIn(c, a) /\ ReachIn(c.tree, e)
    BY <1>3, <2>6, <2>7
  <2>9. PartIn(c, e, k) /\ \A x \in -2 + 1 .. 0 : PartIn(c, e, x) => x = k
    <3>1. c.op \in Ops /\ (Is({"tar"}) <=> c.op = "tar") /\ c.op # "iso"
      BY <2>6, CommandIs DEF Is
    <3>2. c.tree[e].kind \notin {"gone", "excluded", "nameless"}
      BY <1>3, <2>6
    <3>3. PartIn(c, e, k)
      BY <2>4, <3>1, <3>2 DEF PartIn, Ops
    <3>4. \A x \in -2 + 1 .. 0 : PartIn(c, e, x) => x = k
      BY <2>4, <3>1 DEF PartIn, Ops
    <3>5. QED
      BY <3>3, <3>4
  <2>10. PICK lo \in Int, i \in Int, j \in Int : lo = 0 /\ i = -2 /\ j = 0
    OBVIOUS
  <2>11. /\ Exact(f, lo, hi, c, a, e, i) /\ (\A x \in lo .. hi : g[x] = f[x]) /\ g[hi + 1] = <<e, k>>
         /\ i < k /\ k <= j /\ lo <= hi + 1 /\ k \in Int /\ \A x \in i + 1 .. j : PartIn(c, e, x) => x = k
    <3>1. Exact(f, lo, hi, c, a, e, i) /\ (\A x \in lo .. hi : g[x] = f[x]) /\ g[hi + 1] = <<e, k>>
      BY <1>10, <1>11, <2>1, <2>3, <2>5, <2>6, <2>7, <2>10
    <3>2. i < k /\ k <= j /\ lo <= hi + 1 /\ k \in Int
      BY <1>1, <2>4, <2>6, <2>10
    <3>3. \A x \in i + 1 .. j : PartIn(c, e, x) => x = k
      BY <2>9, <2>10
    <3>4. QED
      BY <3>1, <3>2, <3>3
  <2>12. Exact(g, lo, hi + 1, c, a, e, j)
    BY ONLY c \in Commands, a \in ArchivesIn(c), e \in Int, hi \in Int, lo \in Int, i \in Int, j \in Int,
            <2>8, <2>9, <2>11, Grown
  <2>13. hi + 1 = lib.end
    BY <1>1, <2>6
  <2>14. QED
    BY <1>10, <1>11, <2>2, <2>6, <2>7, <2>10, <2>12, <2>13
<1>13. name # 0 /\ ~Rewriting' /\ ~lib'.ended => Offset(woff) + 1 = n
  BY <1>4, <1>8
<1>14. QED
  BY <1>5, <1>6, <1>12, <1>13, GivesRest

\* What is known of a chunk.
LEMMA DataFacts ==
  ASSUME Control, st = "proc", buf # 0, ~lib.head
  PROVE  /\ lib \in LibTypes /\ lib.end \in Nat /\ buf \in Nat /\ off \in Nat /\ off >= 1 /\ buf = off
         /\ lib.member = cur /\ cur # 0 /\ lib.member # 0 /\ ~lib.ended /\ ~lib.fixed
         /\ cmd \in Commands /\ name # 0 /\ name \in ArchivesIn(cmd) /\ cur \in Int
         /\ cur \in ExtentIn(cmd, name) /\ ReachIn(cmd.tree, cur)
         /\ PartIn(cmd, cur, off) /\ MarkEntry = cur /\ MarkPart = off - 1
         /\ Is({"iso"}) => at # 0 /\ lib.end > 0
<1>1. lib \in LibTypes /\ st \in Looping /\ st \in Inner /\ buf \in Nat /\ off \in Nat /\ cmd \in Commands
  BY DEF Control, Types, Looping, Inner
<1>2. lib.end \in Nat /\ off - 1 \in Int
  BY <1>1 DEF LibTypes
<1>3. CASE ~Is({"iso"})
  <2>1. /\ lib.member # 0 /\ buf = off /\ ~lib.fin
    BY <1>1, <1>3 DEF Control, Lib
  <2>2. /\ lib.member = cur /\ ~lib.ending /\ off <= cmd.tree[cur].size
        /\ DataIn(cmd, cur) /\ ~lib.ended /\ ~lib.fixed
    BY <1>1, <1>3, <2>1 DEF Control, Lib
  <2>3. /\ name \in ArchivesIn(cmd) /\ name # 0
        /\ cur \in ExtentIn(cmd, name) /\ ReachIn(cmd.tree, cur)
        /\ cmd.tree[cur].kind \notin {"gone", "excluded", "nameless"}
    BY <1>1, <1>3, <2>1, MemberBelongs
  <2>4. cur # 0 /\ cur \in Int /\ cmd.tree[cur].size \in Nat
    <3>1. cur # 0
      BY <2>1, <2>2
    <3>2. QED
      BY <3>1, SizeIs DEF Control, Types
  <2>5. off >= 1 /\ PartIn(cmd, cur, off)
    <3>1. off \in 1 .. cmd.tree[cur].size /\ off \in Int
      BY <1>1, <2>1, <2>2, <2>4
    <3>2. QED
      BY <2>2, <2>3, <3>1 DEF PartIn
  <2>6. MarkEntry = cur /\ MarkPart = off - 1
    BY <1>3, <2>1, <2>2 DEF MarkEntry, MarkPart
  <2>7. QED
    BY <1>1, <1>2, <1>3, <2>1, <2>2, <2>3, <2>4, <2>5, <2>6
<1>4. CASE Is({"iso"})
  <2>1. /\ ListIn(cmd, list, Size) /\ ~lib.fixed /\ at # 0 /\ at \in 0 .. Len(list) /\ Len(list) \in Nat /\ ~lib.ending
        /\ lib.end # 0
    BY <1>1, <1>4, IsoFacts
  <2>2. /\ lib.member = list[at] /\ cur = list[at] /\ off <= cmd.tree[cur].size /\ buf = off /\ ~lib.ended
    BY <1>1, <1>4, <2>1 DEF Control, IsoLib
  <2>3. Listed(cmd, cur) /\ cur \in 1 .. Size
    BY <2>1, <2>2 DEF ListIn
  <2>4. cur # 0 /\ cur \in Int /\ cmd.tree[cur].size \in Nat
    <3>1. cur # 0
      BY <2>3
    <3>2. QED
      BY <3>1, SizeIs DEF Control, Types
  <2>5. name = 1 /\ name # 0 /\ name \in ArchivesIn(cmd) /\ cur \in ExtentIn(cmd, name)
    <3>1. name = 1 /\ name # 0
      BY <1>1, <1>4 DEF Control, Names, Is
    <3>2. name \in ArchivesIn(cmd)
      BY <3>1, ArchivesAre
    <3>3. QED
      BY <1>4, <2>3, <3>1, <3>2 DEF ExtentIn, Is, Size
  <2>6. ReachIn(cmd.tree, cur) /\ off >= 1 /\ PartIn(cmd, cur, off)
    <3>1. off \in 1 .. cmd.tree[cur].size /\ off \in Int
      BY <1>1, <2>2, <2>4
    <3>2. cmd.op = "iso" /\ DataIn(cmd, cur) /\ cmd.tree[cur].kind \notin {"gone", "excluded", "nameless"} /\ ReachIn(cmd.tree, cur)
      BY <1>4, <2>3 DEF Listed, DataIn, DirIn, Is
    <3>3. QED
      BY <3>1, <3>2 DEF PartIn
  <2>7. MarkEntry = cur /\ MarkPart = off - 1
    BY <1>4, <2>1 DEF MarkEntry, MarkPart
  <2>8. lib.end > 0
    BY <1>2, <2>1
  <2>9. QED
    BY <1>1, <1>2, <2>1, <2>2, <2>4, <2>5, <2>6, <2>7, <2>8
<1>5. QED
  BY <1>3, <1>4

\* A chunk of a member
LEMMA DataRest ==
  ASSUME Control, Rest, st = "proc", ~lib.head, GivesData,
         UNCHANGED <<walk, off, many, missing, result, outvars>>
  PROVE  Rest'
<1>1. buf # 0 /\ buf' = 0 /\ lib.end \in Int /\ lib.end + 1 \in Nat
  BY DataFacts DEF GivesData
<1>2. /\ lib \in LibTypes /\ lib.end \in Nat /\ buf \in Nat /\ off \in Nat /\ off >= 1 /\ buf = off
      /\ lib.member = cur /\ cur # 0 /\ lib.member # 0 /\ ~lib.ended /\ ~lib.fixed
      /\ cmd \in Commands /\ name # 0 /\ name \in ArchivesIn(cmd) /\ cur \in Int
      /\ cur \in ExtentIn(cmd, name) /\ ReachIn(cmd.tree, cur)
      /\ PartIn(cmd, cur, off) /\ MarkEntry = cur /\ MarkPart = off - 1
      /\ Is({"iso"}) => at # 0 /\ lib.end > 0
  BY <1>1, DataFacts
<1>3. PICK p \in {ChunkOf(lib.member, buf)}, n \in Nat : p = ChunkOf(lib.member, buf) /\ n = lib.end + 1
  BY <1>1
<1>4. Gives(p, woff, n)
  BY <1>1, <1>3 DEF GivesData
<1>5. p = <<cur, off>> /\ p # FixedHead(lib.member) /\ p # Trailer
  BY <1>2, <1>3 DEF ChunkOf, FixedHead, Trailer
<1>6. /\ lib'.member = cur /\ ~lib'.head /\ lib'.end = n /\ lib'.hdr = lib.hdr
      /\ ~lib'.fixed /\ ~lib'.ended /\ UNCHANGED <<cmd, name, cur, off, at>>
  <2>1. /\ lib'.member = lib.member /\ lib'.head = FALSE /\ lib'.end = n
        /\ lib'.hdr = (IF lib.head THEN lib.end ELSE lib.hdr)
        /\ lib'.fixed <=> (lib.fixed \/ (lib.member # 0 /\ p = FixedHead(lib.member)))
        /\ lib'.ended <=> (lib.ended \/ p = Trailer)
        /\ UNCHANGED cmd
    BY <1>2, <1>4, GivesIs
  <2>2. UNCHANGED <<name, cur, off, at>>
    BY DEF walk, result, many
  <2>3. lib'.hdr = lib.hdr
    <3>1. lib.head = FALSE
      BY <1>2 DEF LibTypes
    <3>2. QED
      BY <2>1, <3>1
  <2>4. ~lib'.fixed /\ ~lib'.ended
    BY <1>2, <1>5, <2>1
  <2>5. QED
    BY <1>2, <2>1, <2>2, <2>3, <2>4
<1>7. ~Rewriting /\ ~Rewriting' /\ (Renews <=> Zips) /\ (Renews' <=> Zips)
  BY <1>2, <1>6 DEF Renews, Rewriting, Zips, Is
<1>8. Offset(woff) = lib.end
  BY <1>2, <1>7, ProcContent
<1>9. /\ DOMAIN Held' = DOMAIN obj.cache \cup {lib.end} /\ Held'[lib.end] = p
      /\ \A k \in DOMAIN obj.cache : k # lib.end => Held'[k] = obj.cache[k]
      /\ \A k \in 0 .. lib.end - 1 : Shown[k] = IF Renews /\ k = lib.hdr THEN FixedHead(cur) ELSE obj.cache[k]
      /\ \A k \in 0 .. n - 1 : Shown'[k] = IF Renews' /\ k = lib'.hdr THEN FixedHead(cur) ELSE Held'[k]
  <2>1. InHand(p, woff, n)
    BY <1>2, <1>4, HeldGiven
  <2>2. QED
    BY <1>8, <2>1 DEF InHand
<1>10. MarkEntry' = cur /\ MarkPart' = off
  <2>1. MarkEntry' = cur
    BY <1>2, <1>6 DEF MarkEntry, Is
  <2>2. MarkPart' = off
    BY <1>1, <1>2, <1>6 DEF MarkPart, Is
  <2>3. QED
    BY <2>1, <2>2
<1>11. First \in Int /\ First <= lib.end /\ First >= 0 /\ Final = lib.end - 1 /\ Final' = lib.end
  <2>1. First \in Int /\ First <= lib.end /\ First >= 0
    BY <1>2 DEF First
  <2>2. Final = lib.end - 1 /\ Final' = n - 1
    BY <1>2, <1>6 DEF Final, Is
  <2>3. n - 1 = lib.end
    BY <1>1, <1>3
  <2>4. QED
    BY <2>1, <2>2, <2>3
<1>12. ASSUME ~lost
       PROVE  /\ DOMAIN Held' = 0 .. n - 1 /\ (~Is({"iso"}) => lib'.hdr \in 0 .. n - 1)
              /\ Exact(Shown', First, Final', cmd, name, MarkEntry', MarkPart')
  <2>1. /\ DOMAIN obj.cache = 0 .. lib.end - 1 /\ Exact(Shown, First, Final, cmd, name, MarkEntry, MarkPart)
        /\ ~Is({"iso"}) => lib.hdr \in 0 .. lib.end - 1
    BY <1>2, <1>12, ProcContent
  <2>2. DOMAIN Held' = 0 .. n - 1 /\ (~Is({"iso"}) => lib'.hdr \in 0 .. n - 1)
    BY <1>2, <1>3, <1>6, <1>9, <2>1
  <2>3. \A x \in First .. lib.end - 1 : Shown'[x] = Shown[x]
    <3>1. \A x \in First .. lib.end - 1 : x \in 0 .. lib.end - 1 /\ x \in 0 .. n - 1 /\ x # lib.end
      BY <1>2, <1>3, <1>11
    <3>2. \A x \in First .. lib.end - 1 : Held'[x] = obj.cache[x]
      BY <1>9, <2>1, <3>1
    <3>3. QED
      BY <1>6, <1>7, <1>9, <3>1, <3>2
  <2>4. Shown'[lib.end - 1 + 1] = <<cur, off>>
    <3>1. lib.end - 1 + 1 = lib.end /\ lib.end \in 0 .. n - 1
      BY <1>2, <1>3
    <3>2. Zips => ~Is({"iso"})
      BY DEF Zips, Is
    <3>3. Zips => lib.hdr # lib.end
      BY <1>2, <2>1, <3>2
    <3>4. Shown'[lib.end] = p
      BY <1>6, <1>7, <1>9, <3>1, <3>3
    <3>5. QED
      BY <1>5, <3>1, <3>4
  <2>6. PICK c \in Commands, e \in Int, lo \in Int, hi \in Int, i \in Int, j \in Int, f \in {Shown}, g \in {Shown'} :
             c = cmd /\ e = cur /\ lo = First /\ hi = lib.end - 1 /\ i = off - 1 /\ j = off /\ f = Shown /\ g = Shown'
    BY <1>2, <1>11
  <2>7. PICK a \in ArchivesIn(c) : a = name
    BY <1>2, <2>6
  <2>8. e \in ExtentIn(c, a) /\ ReachIn(c.tree, e) /\ PartIn(c, e, j)
    BY <1>2, <2>6, <2>7
  <2>9. i < j /\ j <= j /\ lo <= hi + 1 /\ \A x \in i + 1 .. j : PartIn(c, e, x) => x = j
    BY <1>2, <1>11, <2>6
  <2>10. /\ Exact(f, lo, hi, c, a, e, i) /\ (\A x \in lo .. hi : g[x] = f[x]) /\ g[hi + 1] = <<e, j>>
    BY <1>2, <1>11, <2>1, <2>3, <2>4, <2>6, <2>7
  <2>12. Exact(g, lo, hi + 1, c, a, e, j)
    BY ONLY c \in Commands, a \in ArchivesIn(c), e \in Int, hi \in Int, lo \in Int, i \in Int, j \in Int,
            <2>8, <2>9, <2>10, Grown
  <2>13. hi + 1 = lib.end
    BY <1>2, <2>6
  <2>14. QED
    BY <1>10, <1>11, <2>2, <2>6, <2>7, <2>12, <2>13
<1>13. name # 0 /\ ~Rewriting' /\ ~lib'.ended => Offset(woff) + 1 = n
  BY <1>3, <1>8
<1>14. QED
  BY <1>4, <1>6, <1>12, <1>13, GivesRest

\* zip: the header of a member again
LEMMA FixRest ==
  ASSUME Control, Rest, st = "proc", Zips, ~lib.head, buf = 0, lib.member # 0, lib.fin, ~lib.fixed,
         Gives(FixedHead(lib.member), lib.hdr, lib.end), UNCHANGED buf,
         UNCHANGED <<walk, off, many, missing, result, outvars>>
  PROVE  Rest'
<1>1. st \in Looping /\ ~Is({"iso"})
  BY DEF Looping, Zips, Is
<1>2. lib \in LibTypes /\ lib.end \in Nat /\ lib.hdr \in Nat /\ FixedHead(lib.member) # Trailer
  BY <1>1, ProcFacts
<1>3. lib.member = cur /\ ~lib.ended /\ name # 0
  BY <1>1, MemberBelongs DEF Control, Lib
<1>4. PICK p \in {FixedHead(lib.member)}, o \in Nat, n \in Nat : p = FixedHead(lib.member) /\ o = lib.hdr /\ n = lib.end
  BY <1>2
<1>5. Gives(p, o, n)
  BY <1>4
<1>6. /\ lib'.member = cur /\ ~lib'.head /\ lib'.end = lib.end /\ lib'.hdr = lib.hdr
      /\ lib'.fixed /\ ~lib'.ended /\ UNCHANGED <<cmd, name, cur, off, buf>>
  <2>1. /\ lib'.member = lib.member /\ lib'.head = FALSE /\ lib'.end = n
        /\ lib'.hdr = (IF lib.head THEN lib.end ELSE lib.hdr)
        /\ lib'.fixed <=> (lib.fixed \/ (lib.member # 0 /\ p = FixedHead(lib.member)))
        /\ lib'.ended <=> (lib.ended \/ p = Trailer)
        /\ UNCHANGED cmd
    BY <1>2, <1>5, GivesIs
  <2>2. UNCHANGED <<name, cur, off, buf>>
    BY DEF walk, result
  <2>3. lib'.hdr = lib.hdr
    <3>1. lib.head = FALSE
      BY <1>2 DEF LibTypes
    <3>2. QED
      BY <2>1, <3>1
  <2>4. lib'.fixed /\ ~lib'.ended
    BY <1>2, <1>3, <1>4, <2>1
  <2>5. QED
    BY <1>3, <1>4, <2>1, <2>2, <2>3, <2>4
<1>7. Renews /\ ~Renews' /\ Rewriting'
  BY <1>3, <1>6 DEF Renews, Rewriting
<1>8. Offset(o) = lib.hdr
  <2>1. o # -1
    BY <1>4
  <2>2. QED
    BY <1>4, <2>1 DEF Offset
<1>9. MarkEntry' = MarkEntry /\ MarkPart' = MarkPart /\ First = 0 /\ Final = lib.end - 1 /\ Final' = lib.end - 1
  <2>1. MarkEntry' = MarkEntry /\ MarkPart' = MarkPart
    BY <1>1, <1>3, <1>6 DEF MarkEntry, MarkPart, Is
  <2>2. First = 0 /\ Final = lib.end - 1 /\ Final' = lib.end - 1
    BY <1>1, <1>3, <1>6 DEF First, Final, Is
  <2>3. QED
    BY <2>1, <2>2
<1>10. ASSUME ~lost
       PROVE  /\ DOMAIN Held' = 0 .. n - 1 /\ lib'.hdr \in 0 .. n - 1
              /\ Exact(Shown', First, Final', cmd, name, MarkEntry', MarkPart')
  <2>1. /\ DOMAIN obj.cache = 0 .. lib.end - 1 /\ Exact(Shown, First, Final, cmd, name, MarkEntry, MarkPart)
        /\ lib.hdr \in 0 .. lib.end - 1
    BY <1>1, <1>3, <1>10, ProcContent
  <2>2. /\ DOMAIN Held' = DOMAIN obj.cache \cup {lib.hdr} /\ Held'[lib.hdr] = p
        /\ \A k \in DOMAIN obj.cache : k # lib.hdr => Held'[k] = obj.cache[k]
        /\ \A k \in 0 .. lib.end - 1 : Shown[k] = IF Renews /\ k = lib.hdr THEN FixedHead(cur) ELSE obj.cache[k]
        /\ \A k \in 0 .. n - 1 : Shown'[k] = IF Renews' /\ k = lib'.hdr THEN FixedHead(cur) ELSE Held'[k]
    <3>1. InHand(p, o, n)
      BY <1>2, <1>5, HeldGiven
    <3>2. QED
      BY <1>8, <3>1 DEF InHand
  <2>3. DOMAIN Held' = 0 .. n - 1 /\ lib'.hdr \in 0 .. n - 1
    BY <1>4, <1>6, <2>1, <2>2
  <2>4. \A x \in 0 .. lib.end - 1 : Shown'[x] = Shown[x]
    BY <1>3, <1>4, <1>7, <2>1, <2>2
  <2>5. PICK f \in {Shown}, g \in {Shown'}, hi \in Int, c \in {cmd}, a \in {name}, e \in {MarkEntry}, j \in {MarkPart} :
             f = Shown /\ g = Shown' /\ hi = lib.end - 1 /\ c = cmd /\ a = name /\ e = MarkEntry /\ j = MarkPart
    BY <1>2
  <2>6. Exact(f, 0, hi, c, a, e, j) /\ \A x \in 0 .. hi : g[x] = f[x]
    BY <1>9, <2>1, <2>4, <2>5
  <2>7. Exact(g, 0, hi, c, a, e, j)
    BY ONLY <2>6, ExactMove
  <2>8. QED
    BY <1>9, <2>3, <2>5, <2>7
<1>11. QED
  BY <1>5, <1>6, <1>7, <1>10, GivesRest

\* The end of tar and zip
LEMMA TrailerRest ==
  ASSUME Control, Rest, st = "proc", ~Is({"iso"}), lib.member = 0, lib.ending, ~lib.ended, GivesNext(Trailer),
         UNCHANGED <<walk, off, many, missing, result, outvars>>
  PROVE  Rest'
<1>1. st \in Looping
  BY DEF Looping
<1>2. lib \in LibTypes /\ lib.end \in Nat /\ lib.end + 1 \in Nat /\ ~lib.head
  BY <1>1, ProcFacts DEF Control, Lib
<1>3. PICK p \in {Trailer}, n \in Nat : p = Trailer /\ n = lib.end + 1
  BY <1>2
<1>4. Gives(p, woff, n)
  BY <1>3 DEF GivesNext
<1>5. /\ lib'.member = 0 /\ lib'.ending /\ lib'.end = n
      /\ lib'.ended /\ UNCHANGED <<cmd, name, cur, off, complete>> /\ st' = "write"
  <2>1. /\ lib'.member = lib.member /\ lib'.end = n /\ lib'.ending = lib.ending
        /\ lib'.ended <=> (lib.ended \/ p = Trailer)
        /\ UNCHANGED cmd /\ st' = "write"
    BY <1>2, <1>4, GivesIs
  <2>2. UNCHANGED <<name, cur, off, complete>>
    BY DEF walk, result, many
  <2>3. QED
    BY <1>3, <2>1, <2>2
<1>6. ~Renews /\ ~Renews' /\ ~Rewriting
  BY <1>5 DEF Renews, Rewriting
<1>7. /\ MarkEntry' = MarkEntry /\ MarkPart' = MarkPart /\ First = 0
      /\ Final = lib.end - 1 /\ Final' = lib.end - 1
  <2>1. Fresh' <=> Fresh
    BY <1>5 DEF Fresh, Is
  <2>2. Packed' = Packed
    BY <1>5, <2>1 DEF Packed
  <2>3. MarkEntry' = MarkEntry /\ MarkPart' = MarkPart
    BY <1>5, <2>2 DEF MarkEntry, MarkPart, Is
  <2>4. First = 0 /\ Final = lib.end - 1 /\ Final' = n - 2
    BY <1>5 DEF First, Final, Is
  <2>5. n - 2 = lib.end - 1
    BY <1>2, <1>3
  <2>6. QED
    BY <2>3, <2>4, <2>5
<1>8. ASSUME name # 0, ~lost
      PROVE  /\ DOMAIN Held' = 0 .. n - 1 /\ n > 0 /\ Held'[n - 1] = Trailer
             /\ Exact(Shown', First, Final', cmd, name, MarkEntry', MarkPart')
  <2>1. /\ DOMAIN obj.cache = 0 .. lib.end - 1 /\ Exact(Shown, First, Final, cmd, name, MarkEntry, MarkPart)
        /\ Offset(woff) = lib.end
    BY <1>6, <1>8, ProcContent
  <2>2. /\ DOMAIN Held' = DOMAIN obj.cache \cup {lib.end} /\ Held'[lib.end] = p
        /\ \A k \in DOMAIN obj.cache : k # lib.end => Held'[k] = obj.cache[k]
        /\ \A k \in 0 .. lib.end - 1 : Shown[k] = IF Renews /\ k = lib.hdr THEN FixedHead(cur) ELSE obj.cache[k]
        /\ \A k \in 0 .. n - 1 : Shown'[k] = IF Renews' /\ k = lib'.hdr THEN FixedHead(cur) ELSE Held'[k]
    <3>1. InHand(p, woff, n)
      BY <1>2, <1>4, HeldGiven
    <3>2. QED
      BY <2>1, <3>1 DEF InHand
  <2>3. DOMAIN Held' = 0 .. n - 1 /\ n > 0 /\ n - 1 = lib.end
    BY <1>2, <1>3, <2>1, <2>2
  <2>4. \A x \in 0 .. lib.end - 1 : Shown'[x] = Shown[x]
    <3>1. \A x \in 0 .. lib.end - 1 : x \in 0 .. n - 1 /\ x # lib.end
      BY <1>2, <1>3
    <3>2. QED
      BY <1>6, <2>1, <2>2, <3>1
  <2>5. PICK f \in {Shown}, g \in {Shown'}, hi \in Int, c \in {cmd}, a \in {name}, e \in {MarkEntry}, j \in {MarkPart} :
             f = Shown /\ g = Shown' /\ hi = lib.end - 1 /\ c = cmd /\ a = name /\ e = MarkEntry /\ j = MarkPart
    BY <1>2
  <2>6. Exact(f, 0, hi, c, a, e, j) /\ \A x \in 0 .. hi : g[x] = f[x]
    BY <1>7, <2>1, <2>4, <2>5
  <2>7. Exact(g, 0, hi, c, a, e, j)
    BY ONLY <2>6, ExactMove
  <2>8. QED
    BY <1>3, <1>7, <2>2, <2>3, <2>5, <2>7
<1>9. QED
  BY <1>4, <1>5, <1>8, GivesRest

\* iso: the place for its tables, and the tables
LEMMA TablesRest ==
  ASSUME Control, Rest, st = "proc", Is({"iso"}), UNCHANGED buf,
         UNCHANGED <<walk, off, many, missing, result, outvars>>, NEW p, NEW o \in Int, NEW n \in Nat, Gives(p, o, n),
         \/ p = Reserved /\ o = woff /\ lib.end = 0 /\ n = lib.end + 1
         \/ p = Trailer /\ o = 0 /\ n = lib.end /\ lib.ending /\ ~lib.ended
  PROVE  Rest'
<1>1. st \in Looping /\ st \in Inner
  BY DEF Looping, Inner
<1>2. lib \in LibTypes /\ lib.end \in Nat /\ ~lib.fixed /\ (lib.ending => lib.end > 0) /\ (lib.ended => lib.ending)
  BY <1>1, IsoFacts DEF Control, IsoLib
<1>3. /\ lib'.end = n /\ UNCHANGED <<cmd, name, cur, off, at, buf>>
      /\ lib'.ended <=> (lib.ended \/ p = Trailer)
      /\ Is({"iso"})'
  <2>1. lib'.end = n /\ UNCHANGED cmd /\ (lib'.ended <=> (lib.ended \/ p = Trailer))
    BY <1>2, GivesIs
  <2>2. UNCHANGED <<name, cur, off, at>>
    BY DEF walk, result, many
  <2>3. QED
    BY <2>1, <2>2 DEF Is
<1>4. ~Zips /\ ~Renews /\ ~Renews' /\ ~Rewriting
  BY <1>1, <1>3, IsoNever DEF Renews, Zips, Is
<1>5. /\ MarkEntry' = MarkEntry /\ MarkPart' = MarkPart /\ First = 1
      /\ Final = lib.end - 1 /\ Final' = n - 1
  BY <1>3 DEF MarkEntry, MarkPart, First, Final
<1>6. name # 0 /\ ~lib'.ended => Offset(o) + 1 = n
  <2>1. ASSUME name # 0, ~lib'.ended PROVE Offset(o) + 1 = n
    <3>1. p = Reserved /\ o = woff /\ lib.end = 0 /\ n = lib.end + 1 /\ ~lib.ended
      BY <1>3, <2>1
    <3>2. Offset(woff) = lib.end
      BY <1>4, <2>1, <3>1, ProcContent
    <3>3. QED
      BY <3>1, <3>2
  <2>2. QED
    BY <2>1
<1>7. ASSUME name # 0, ~lost
      PROVE  /\ DOMAIN Held' = 0 .. n - 1
             /\ Exact(Shown', First, Final', cmd, name, MarkEntry', MarkPart')
             /\ lib'.ended => n > 0 /\ Held'[0] = Trailer
  <2>1. /\ DOMAIN obj.cache = 0 .. lib.end - 1 /\ Exact(Shown, First, Final, cmd, name, MarkEntry, MarkPart)
    BY <1>7, ProcContent
  <2>2. /\ DOMAIN Held' = DOMAIN obj.cache \cup {Offset(o)} /\ Held'[Offset(o)] = p
        /\ \A k \in DOMAIN obj.cache : k # Offset(o) => Held'[k] = obj.cache[k]
        /\ \A k \in 0 .. lib.end - 1 : Shown[k] = obj.cache[k]
        /\ \A k \in 0 .. n - 1 : Shown'[k] = Held'[k]
    <3>1. InHand(p, o, n)
      BY <1>2, HeldGiven
    <3>2. QED
      BY <1>4, <3>1 DEF InHand
  <2>3. Offset(o) = 0 /\ DOMAIN Held' = 0 .. n - 1 /\ \A x \in 1 .. n - 1 : x \in 0 .. lib.end - 1
    <3>1. CASE p = Reserved /\ o = woff /\ lib.end = 0 /\ n = lib.end + 1
      <4>1. ~lib.ended
        BY <1>2, <3>1
      <4>2. Offset(woff) = lib.end
        BY <1>4, <1>7, <4>1, ProcContent
      <4>3. Offset(o) = 0 /\ n = 1
        BY <3>1, <4>2
      <4>4. 0 .. n - 1 = {0} /\ 0 .. lib.end - 1 = {}
        BY <3>1, <4>3
      <4>5. \A x \in 1 .. n - 1 : FALSE
        BY <4>3
      <4>6. QED
        BY <2>1, <2>2, <4>3, <4>4, <4>5
    <3>2. CASE p = Trailer /\ o = 0 /\ n = lib.end /\ lib.ending
      <4>1. Offset(o) = 0 /\ n > 0
        BY <1>2, <3>2 DEF Offset
      <4>2. QED
        BY <2>1, <2>2, <3>2, <4>1
    <3>3. QED
      BY <3>1, <3>2
  <2>4. \A x \in 1 .. n - 1 : Shown'[x] = Shown[x]
    <3>1. \A x \in 1 .. n - 1 : x \in 0 .. n - 1 /\ x # 0
      OBVIOUS
    <3>2. QED
      BY <2>1, <2>2, <2>3, <3>1
  <2>5. PICK f \in {Shown}, g \in {Shown'}, hi \in Int, k \in Int, c \in {cmd}, a \in {name}, e \in {MarkEntry}, j \in {MarkPart} :
             f = Shown /\ g = Shown' /\ hi = lib.end - 1 /\ k = n - 1 /\ c = cmd /\ a = name /\ e = MarkEntry /\ j = MarkPart
    BY <1>2
  <2>6. Exact(f, 1, hi, c, a, e, j) /\ \A x \in 1 .. k : g[x] = f[x]
    BY <1>5, <2>1, <2>4, <2>5
  <2>7. 1 .. k = 1 .. hi
    BY <1>2, <2>5
  <2>8. Exact(g, 1, k, c, a, e, j)
    <3>1. Exact(g, 1, hi, c, a, e, j)
      BY ONLY <2>6, <2>7, ExactMove
    <3>2. QED
      BY <2>7, <3>1 DEF Exact
  <2>9. lib'.ended => n > 0 /\ Held'[0] = Trailer
    <3>1. lib'.ended => p = Trailer /\ n = lib.end /\ n > 0
      <4>1. Reserved # Trailer
        BY DEF Reserved, Trailer
      <4>2. CASE p = Reserved /\ lib.end = 0
        BY <1>2, <1>3, <4>1, <4>2
      <4>3. CASE p = Trailer /\ n = lib.end /\ lib.ending
        BY <1>2, <4>3
      <4>4. QED
        BY <4>2, <4>3
    <3>2. QED
      BY <2>2, <2>3, <3>1
  <2>10. QED
    BY <1>5, <2>3, <2>5, <2>8, <2>9
<1>8. QED
  BY <1>3, <1>6, <1>7, GivesRest

LEMMA TarProcRest == ASSUME Control, Control', Rest, TarProc PROVE Rest'
<1>1. st = "proc" /\ Is({"tar"}) /\ ~Is({"iso"}) /\ ~Zips /\ UNCHANGED <<walk, off, many, missing, result, outvars>>
  BY DEF TarProc, At, Is, Zips
<1>2. CASE lib.head /\ GivesNext(HeadOf(lib.member))
  BY <1>1, <1>2, HeadRest
<1>3. CASE ~lib.head /\ GivesData
  BY <1>1, <1>3, DataRest
<1>4. CASE Asks("read") \/ Asks("flush")
  BY <1>1, <1>4, AsksRest
<1>5. CASE ~lib.head /\ buf = 0 /\ lib.member # 0 /\ lib.fin /\ lib' = [lib EXCEPT !.member = 0] /\ Goto("in") /\ UNCHANGED <<buf, piece, woff>>
  BY <1>1, <1>5, MemberRest
<1>6. CASE lib.member = 0 /\ lib.ending /\ ~lib.ended /\ GivesNext(Trailer)
  BY <1>1, <1>6, TrailerRest
<1>7. QED
  BY <1>2, <1>3, <1>4, <1>5, <1>6 DEF TarProc

LEMMA ZipProcRest == ASSUME Control, Control', Rest, ZipProc PROVE Rest'
<1>1. st = "proc" /\ ~Is({"tar"}) /\ ~Is({"iso"}) /\ Zips /\ UNCHANGED <<walk, off, many, missing, result, outvars>>
  BY DEF ZipProc, At, Is, Zips
<1>2. CASE lib.head /\ GivesNext(HeadOf(lib.member))
  BY <1>1, <1>2, HeadRest
<1>3. CASE ~lib.head /\ GivesData
  BY <1>1, <1>3, DataRest
<1>4. CASE Asks("read") \/ Asks("done")
  BY <1>1, <1>4, AsksRest
<1>5. CASE ~lib.head /\ buf = 0 /\ lib.member # 0 /\ lib.fin /\ ~lib.fixed /\ Gives(FixedHead(lib.member), lib.hdr, lib.end) /\ UNCHANGED buf
  BY <1>1, <1>5, FixRest
<1>6. CASE ~lib.head /\ buf = 0 /\ lib.member # 0 /\ lib.fin /\ lib.fixed /\ lib' = [lib EXCEPT !.member = 0] /\ Goto("in")
           /\ woff' = lib.end /\ UNCHANGED <<buf, piece>>
  BY <1>1, <1>6, MemberRest
<1>7. CASE lib.member = 0 /\ lib.ending /\ ~lib.ended /\ GivesNext(Trailer)
  BY <1>1, <1>7, TrailerRest
<1>8. QED
  BY <1>2, <1>3, <1>4, <1>5, <1>6, <1>7 DEF ZipProc

LEMMA IsoProcRest == ASSUME Control, Control', Rest, IsoProc PROVE Rest'
<1>1. st = "proc" /\ st \in Inner /\ ~Is({"tar"}) /\ Is({"iso"}) /\ UNCHANGED <<walk, off, many, missing, result, outvars>>
  BY DEF IsoProc, At, Is, Inner
<1>2. ~lib.head /\ lib.end \in Nat /\ woff \in Int
  BY <1>1, IsoFacts DEF Control, Types
<1>3. CASE lib.end = 0 /\ GivesNext(Reserved)
  <2>1. PICK n \in Nat : n = lib.end + 1
    BY <1>2
  <2>2. Gives(Reserved, woff, n) /\ UNCHANGED buf
    BY <1>3, <2>1 DEF GivesNext
  <2>3. QED
    BY <1>1, <1>2, <1>3, <2>1, <2>2, TablesRest
<1>4. CASE GivesData
  BY <1>1, <1>2, <1>4, DataRest
<1>5. CASE Asks("read") \/ Asks("nextopen") \/ Asks("done")
  BY <1>1, <1>5, AsksRest
<1>6. CASE lib.ending /\ ~lib.ended /\ Gives(Trailer, 0, lib.end) /\ UNCHANGED buf
  <2>1. PICK n \in Nat, o \in Int : n = lib.end /\ o = 0
    BY <1>2
  <2>2. Gives(Trailer, o, n)
    BY <1>6, <2>1
  <2>3. QED
    BY <1>1, <1>6, <2>1, <2>2, TablesRest
<1>7. QED
  BY <1>3, <1>4, <1>5, <1>6 DEF IsoProc

\* What is written, or will be written by the call that repeats this one, was in hand.
LEMMA WritesRest ==
  ASSUME Control, Rest, st = "write", st' \in {"proc", "write"}, UNCHANGED <<cmd, walk, reader, lib, piece, many, missing, result, disk, lost>>,
         obj'.at \in Nat, Held' = Held, Next1' = Next1
  PROVE  Rest'
<1> USE DEF walk, reader, many, result
<1>1. st \in Looping /\ st' \in Looping /\ (\A o : Is(o)' <=> Is(o))
  BY DEF Looping, Is
<1>2. (Is({"iso"})' <=> Is({"iso"})) /\ (Is({"tar"})' <=> Is({"tar"})) /\ (Is({"each"})' <=> Is({"each"})) /\ Archives' = Archives
  BY DEF Is, Archives
<1>3. name = 0 => Archives = {}
  BY <1>1 DEF Control, Idle
<1>4. \A a : Whole(a)' <=> Whole(a)
  BY DEF Whole
<1>5. Results'
  BY <1>1, <1>2, <1>3, <1>4 DEF Rest, Results
<1>6. (Renews' <=> Renews) /\ (Rewriting' <=> Rewriting)
  BY DEF Renews, Rewriting, Zips, Is
<1>7. Appends'
  BY <1>1, <1>6 DEF Rest, Appends
<1>8. MarkEntry' = MarkEntry /\ MarkPart' = MarkPart
  <2>1. (Fresh' <=> Fresh) /\ st # "add" /\ st' # "add"
    BY <1>2 DEF Fresh
  <2>2. Packed' = Packed
    BY <2>1 DEF Packed
  <2>3. QED
    BY <1>2, <2>2 DEF MarkEntry, MarkPart
<1>9. Shown' = Shown
  <2>1. FixedHead(cur)' = FixedHead(cur)
    BY DEF FixedHead
  <2>2. QED
    BY <1>6, <2>1 DEF Shown
<1>10. First' = First /\ Final' = Final /\ (Filling' <=> Filling)
  BY <1>1, <1>2 DEF First, Final, Filling
<1>11. Content'
  BY <1>2, <1>8, <1>9, <1>10 DEF Rest, Content, New
<1>12. QED
  BY <1>5, <1>7, <1>11 DEF Rest

LEMMA WriteRest == ASSUME Control, ArchiveSafe, Rest, Write PROVE Rest'
<1>1. st = "write" /\ st \in Looping /\ UNCHANGED <<walk, reader, lib, piece, many, missing, result>>
  BY DEF Write, At, Looping
<1>2. woff \in Int /\ woff >= -1 /\ obj.at \in Nat
  BY AtIs DEF Control, Types
<1>3. Offset(woff) \in Nat /\ Offset(woff) + 1 \in Nat
  BY <1>2 DEF Offset
<1>4. CASE WriteWhole(piece, woff) /\ woff' = -1 /\ Goto("proc")
  <2>1. /\ obj'.at = Offset(woff) + 1
        /\ obj'.cache = Cached(obj.cache, Offset(woff), Kept(piece)) /\ UNCHANGED <<disk, lost>> /\ st' = "proc" /\ UNCHANGED cmd
    BY <1>4, ObjectKeeps DEF WriteWhole, Goto
  <2>2. Kept(piece) = piece
    BY <1>1 DEF Control, Owes, Kept
  <2>3. Held' = Held
    BY <1>1, <2>1, <2>2 DEF Held
  <2>4. Next1' = Next1
    BY <1>1, <1>4, <2>1 DEF Next1, Offset
  <2>5. obj'.at \in Nat
    BY <1>3, <2>1
  <2>6. QED
    BY <1>1, <2>1, <2>3, <2>4, <2>5, WritesRest
<1>5. CASE WritePart(piece) /\ woff' = WoffAfterPart /\ Goto("write")
  <2>1. /\ obj'.at = obj.at /\ obj'.cache = obj.cache /\ UNCHANGED <<disk, lost, cmd, woff>> /\ st' = "write"
    BY <1>5, ObjectKeeps DEF WritePart, Goto, WoffAfterPart
  <2>2. Held' = Held /\ Next1' = Next1
    BY <1>1, <2>1 DEF Held, Next1, Offset, Cached
  <2>3. QED
    BY <1>1, <1>2, <2>1, <2>2, WritesRest
<1>6. CASE GoEnd(1) /\ UNCHANGED <<woff, outvars>>
  BY <1>1, <1>2, <1>6, FailsRest DEF GoEnd, outvars, result
<1>7. QED
  BY <1>4, <1>5, <1>6 DEF Write

-----------------------------------------------------------------------------
(* Where an archive begins and where it ends *)

\* Every name of the command line was given when nothing is left of the walk.
LEMMA AllGiven ==
  ASSUME NEW c \in Commands, NEW w, NEW d, NEW e, NEW n, Walked(c, w, d, e, n), Bare(c.tree, e + 1, Len(c.tree))
  PROVE  n = Len(c.tops)
<1>1. TopsIn(c) /\ Nested(c.tree) /\ Len(c.tops) \in Nat /\ Len(c.tree) \in Nat
  BY CommandIs DEF TopsIn, Nested
<1>2. n \in 0 .. Len(c.tops) /\ e \in 0 .. Len(c.tree) /\ \A k \in 1 .. Len(c.tops) : c.tops[k] <= e <=> k <= n
  BY DEF Walked
<1>3. CASE Len(c.tops) = 0
  BY <1>2, <1>3
<1>4. CASE Len(c.tops) # 0
  <2>1. PICK k \in 1 .. Len(c.tops) : k = Len(c.tops)
    BY <1>1, <1>4
  <2>2. c.tops[k] \in 1 .. Len(c.tree)
    BY <1>1 DEF TopsIn
  <2>3. ReachIn(c.tree, c.tops[k])
    <3>1. SUFFICES ASSUME NEW x \in 1 .. c.tops[k] - 1, c.tops[k] <= c.tree[x].last PROVE FALSE
      BY DEF ReachIn
    <3>2. x \in 1 .. Len(c.tree) /\ x < c.tops[k]
      BY <2>2
    <3>3. c.tree[x].last < c.tops[k] /\ c.tree[x].last \in Int
      BY <1>1, <3>2 DEF TopsIn, Nested
    <3>4. QED
      BY <2>2, <3>1, <3>3
  <2>4. c.tops[k] <= e
    <3>1. c.tops[k] \notin e + 1 .. Len(c.tree)
      BY <2>3 DEF Bare
    <3>2. QED
      BY <1>2, <2>2, <3>1
  <2>5. k <= n
    BY <1>2, <2>4
  <2>6. QED
    BY <1>1, <1>2, <2>1, <2>5
<1>5. QED
  BY <1>3, <1>4

LEMMA CompleteRest ==
  ASSUME Control, Rest, st = "outopen", complete, GoEnd(IF missing THEN 1 ELSE 0), UNCHANGED <<walk, nfile, result, outvars>>
  PROVE  Rest'
<1> USE DEF walk, result, outvars
<1>1. st' = "end" /\ st' \notin Looping /\ UNCHANGED cmd /\ rc' = IF missing THEN 1 ELSE 0
  BY DEF GoEnd, Looping
<1>2. st \in Looping /\ Is({"each"}) /\ ~Is({"tar"}) /\ ~Is({"iso"})
  BY DEF Control, Names, Looping, Is
<1>3. name = 0 /\ ~del /\ nfile = top
  BY <1>2 DEF Control, Names
<1>4. /\ Walked(cmd, todo, isdir, cur, top) /\ Bare(cmd.tree, cur + 1, Size) /\ cmd \in Commands
      /\ cur \in Int /\ Size \in Int
  <2>1. ~Second
    BY DEF Second
  <2>2. cmd \in Commands
    BY DEF Control, Types
  <2>3. Len(cmd.tree) \in Nat
    BY <2>2, CommandIs DEF Nested
  <2>4. Walked(cmd, todo, isdir, cur, top) /\ Bare(cmd.tree, cur + 1, Size)
    BY <1>2, <2>1 DEF Control, Walk
  <2>5. QED
    BY <2>2, <2>3, <2>4 DEF Control, Types, Size
<1>5. nfile = Len(cmd.tops)
  <2>1. top = Len(cmd.tops)
    BY <1>4, AllGiven DEF Size
  <2>2. QED
    BY <1>3, <2>1
<1>6. \A a \in Archives : a # name /\ a <= nfile
  <2>1. Archives = 1 .. Len(cmd.tops) /\ Len(cmd.tops) \in Nat
    BY <1>2, <1>4, CommandIs DEF Archives, Is, TopsIn
  <2>2. QED
    BY <1>3, <1>5, <2>1
<1>7. \A a \in Archives : ~lost => Whole(a)
  BY <1>2, <1>6 DEF Rest, Results
<1>8. ~missing => NoneGone(cmd, Size)
  <2> HAVE ~missing
  <2>1. Looked = cur
    BY <1>2 DEF Looked, Second, Fresh
  <2>2. NoneGone(cmd, cur)
    BY <1>2, <2>1 DEF Control, Found
  <2>3. QED
    BY <1>4, <2>2, NoneGoneOver
<1>9. Archives' = Archives /\ ~Is({"tar"})' /\ Size' = Size /\ ~del' /\ (missing \in BOOLEAN)
  BY <1>1, <1>2, <1>3 DEF Archives, Is, Size, Control, Types
<1>10. Results'
  BY <1>1, <1>7, <1>8, <1>9 DEF Results, Whole
<1>11. Appends' /\ Content'
  BY <1>1, AtIs DEF Appends, Content, Filling
<1>12. QED
  BY <1>10, <1>11 DEF Rest

\* Nothing is open when an archive is opened, and nothing is flushed.
LEMMA NothingOpen ==
  ASSUME Control, ArchiveSafe, Rest, st = "outopen", ~complete
  PROVE  /\ name = 0 /\ del = FALSE /\ (\A f \in Flushings : f.disk = disk /\ f.cache = obj.cache /\ f.err = FALSE)
         /\ ~lost => obj.cache = Empty
         /\ IsDisk(disk) /\ DOMAIN disk = Archives /\ st \in Looping
         /\ \A a \in Archives : IF a <= nfile THEN ~lost => Whole(a) ELSE disk[a].kind # "new"
<1>1. st \in Looping /\ del = FALSE /\ name = 0 /\ Archives # {}
  BY OpenFacts
<1>2. obj.name = 0
  BY <1>1 DEF Control, Names, Looping
<1>3. \A f \in Flushings : f.disk = disk /\ f.cache = obj.cache /\ f.err = FALSE
  BY <1>2, FlushIs
<1>4. ~lost => obj.cache = Empty
  BY <1>1 DEF Rest, Results
<1>5. IsDisk(disk) /\ DOMAIN disk = Archives
  BY DEF ArchiveSafe, Ready
<1>6. 0 \notin Archives
  BY DEF ArchiveSafe, Ready, Closed
<1>7. QED
  BY <1>1, <1>3, <1>4, <1>5, <1>6 DEF Rest, Results

LEMMA RefusedRest ==
  ASSUME Control, ArchiveSafe, Rest, st = "outopen", ~complete, NEW n, NEW ow, OpenFails(n, ow), GoEnd(1), UNCHANGED del
  PROVE  Rest'
<1>1. st' = "end" /\ st' \notin Looping /\ UNCHANGED cmd /\ rc' = 1
  BY DEF GoEnd, Looping
<1>2. /\ name = 0 /\ del = FALSE /\ st \in Looping
      /\ \A f \in Flushings : f.disk = disk /\ f.cache = obj.cache /\ f.err = FALSE
      /\ \A a \in Archives : IF a <= nfile THEN ~lost => Whole(a) ELSE disk[a].kind # "new"
  BY NothingOpen
<1>3. disk' = disk /\ (lost' <=> lost)
  BY <1>2 DEF OpenFails
<1>4. obj'.at = 0
  BY OpenFailsGives
<1>5. Archives' = Archives /\ (Is({"tar"})' <=> Is({"tar"}))
  BY <1>1 DEF Archives, Is
<1>6. \A a \in Archives : ~lost /\ disk[a].kind = "new" => WholeIn(cmd, a, disk[a].has)
  BY <1>2 DEF Whole
<1>7. Results'
  BY <1>1, <1>3, <1>5, <1>6 DEF Rest, Results
<1>8. Appends' /\ Content'
  BY <1>1, <1>4 DEF Appends, Content, Filling
<1>9. QED
  BY <1>7, <1>8 DEF Rest

\* Where the new archive begins.
LEMMA BeginsAt ==
  ASSUME Control, st = "outopen", ~complete, lib' = lib, UNCHANGED <<cmd, walk, complete, at, buf, off>>,
         st' = (IF Is({"each"}) THEN "info" ELSE "in")
  PROVE  /\ MarkEntry' \in Int /\ MarkPart' \in Int /\ (MarkPart' <= -2 \/ MarkEntry' = 0)
         /\ \A x \in ExtentIn(cmd, IF Is({"each"}) THEN top ELSE 1) : x >= MarkEntry'
<1> USE DEF walk
<1>0. cur \in Int
  BY DEF Control, Types
<1>1. /\ st \in Looping /\ ~Second /\ cmd \in Commands /\ lib.member = 0 /\ ~lib.ending
      /\ Is({"each"}) => top \in 1 .. Len(cmd.tops) /\ cur # 0
      /\ ~Is({"each"}) => cur = 0
  BY OpenFacts DEF LibInit
<1>2. (Is({"iso"})' <=> Is({"iso"})) /\ (Is({"each"})' <=> Is({"each"})) /\ (Is({"iso"}) => ~Is({"each"}))
  BY DEF Is
<1>3. CASE Is({"iso"})
  <2>1. at = 0
    BY <1>3, IsoMark
  <2>2. MarkEntry' = 0 /\ MarkPart' = 0
    BY <1>2, <1>3, <2>1 DEF MarkEntry, MarkPart
  <2>3. \A x \in ExtentIn(cmd, 1) : x >= 0
    BY <1>3 DEF ExtentIn, Is
  <2>4. QED
    BY <1>2, <1>3, <2>2, <2>3
<1>4. CASE Is({"each"})
  <2>1. cmd.tops[top] = cur
    BY <1>1, <1>4 DEF Control, Walk
  <2>2. Fresh'
    BY <1>2, <1>4 DEF Fresh
  <2>3. cur - 1 + 1 = cur
    BY <1>0
  <2>4. MarkEntry' = cur /\ MarkPart' = -2
    BY <1>1, <1>2, <1>4, <2>2, <2>3 DEF MarkEntry, MarkPart, Packed
  <2>5. \A x \in ExtentIn(cmd, top) : x >= cur
    BY <1>4, <2>1 DEF ExtentIn, Is
  <2>6. QED
    BY <1>0, <1>4, <2>4, <2>5
<1>5. CASE ~Is({"iso"}) /\ ~Is({"each"})
  <2>1. ~Fresh'
    BY <1>1, <1>2, <1>5 DEF Fresh
  <2>2. MarkEntry' = 1 /\ MarkPart' = -2
    BY <1>1, <1>2, <1>5, <2>1 DEF MarkEntry, MarkPart, Packed
  <2>3. \A x \in ExtentIn(cmd, 1) : x >= 1
    BY <1>5 DEF ExtentIn, Is
  <2>4. QED
    BY <1>5, <2>2, <2>3
<1>6. QED
  BY <1>3, <1>4, <1>5

LEMMA OpensRest ==
  ASSUME Control, ArchiveSafe, Rest, st = "outopen", ~complete, NEW n, n = (IF Is({"each"}) THEN top ELSE 1), name' = n,
         nfile' = (IF Is({"each"}) THEN nfile + 1 ELSE nfile), OpenFile(n, cmd.overwrite), del' = TRUE, woff' = -1,
         Goto(IF Is({"each"}) THEN "info" ELSE "in"), UNCHANGED <<walk, reader, lib, piece, list, at, complete, missing>>
  PROVE  Rest'
<1> USE DEF reader
<1>1. /\ name = 0 /\ (\A f \in Flushings : f.disk = disk /\ f.cache = obj.cache /\ f.err = FALSE)
      /\ ~lost => obj.cache = Empty
      /\ IsDisk(disk) /\ DOMAIN disk = Archives
      /\ \A a \in Archives : IF a <= nfile THEN ~lost => Whole(a) ELSE disk[a].kind # "new"
  BY NothingOpen
<1>2. /\ st \in Looping /\ cmd \in Commands /\ nfile \in 0 .. Len(cmd.tops)
      /\ Is({"each"}) => top \in 1 .. Len(cmd.tops) /\ nfile + 1 = top
      /\ ~Is({"each"}) => nfile = 0
      /\ n \in Archives /\ lib = LibInit /\ Len(cmd.tops) \in Nat
  BY OpenFacts, CommandIs DEF TopsIn
<1>3. /\ st' = (IF Is({"each"}) THEN "info" ELSE "in") /\ st' \in Looping /\ st' \notin {"write", "done"} /\ UNCHANGED cmd
  BY DEF Goto, Looping
<1>4. disk' = [disk EXCEPT ![n] = New(<<>>)] /\ (lost' <=> lost) /\ obj'.cache = obj.cache /\ obj'.at = 0
  <2>1. PICK f \in Flushings : disk' = [f.disk EXCEPT ![n] = New(<<>>)] /\ obj' = [NoObject EXCEPT !.name = n, !.cache = f.cache]
                               /\ lost' = (lost \/ f.err)
    BY DEF OpenFile
  <2>2. f.disk = disk /\ f.cache = obj.cache /\ f.err = FALSE
    BY <1>1
  <2>3. QED
    BY <2>1, <2>2 DEF NoObject
<1>5. disk'[n] = New(<<>>) /\ \A a \in Archives : a # n => disk'[a] = disk[a]
  BY <1>1, <1>2, <1>4
<1>6. Archives' = Archives /\ (Is({"tar"})' <=> Is({"tar"})) /\ (Is({"iso"})' <=> Is({"iso"}))
  BY <1>3 DEF Archives, Is
<1>7. n # 0 /\ n \in Int /\ \A a \in Archives : a # n => (a <= nfile' <=> a <= nfile)
  <2>1. CASE Is({"each"})
    <3>1. Archives = 1 .. Len(cmd.tops) /\ nfile' = n /\ nfile + 1 = n /\ n \in Int
      BY <1>2, <2>1 DEF Archives, Is
    <3>2. QED
      BY <1>2, <3>1
  <2>2. CASE ~Is({"each"})
    <3>1. Archives = {1} /\ n = 1
      BY <2>2 DEF Archives, Is
    <3>2. QED
      BY <3>1
  <2>3. QED
    BY <2>1, <2>2
<1>8. Results'
  <2>1. \A a \in Archives : a # n => IF a <= nfile' THEN ~lost' => Whole(a)' ELSE disk'[a].kind # "new"
    BY <1>1, <1>3, <1>4, <1>5, <1>7 DEF Whole
  <2>2. Is({"tar"}) => ~lost
    BY DEF Rest, Results
  <2>3. QED
    BY <1>3, <1>4, <1>6, <1>7, <2>1, <2>2 DEF Results
<1>9. /\ lib'.end = 0 /\ ~lib'.ended /\ lib'.member = 0
  BY <1>2 DEF LibInit
<1>10. Appends'
  <2>1. Next1' = 0
    BY <1>3, <1>4 DEF Next1, Offset
  <2>2. QED
    BY <1>4, <1>9, <2>1 DEF Appends
<1>11. Content'
  <2>1. SUFFICES ASSUME ~lost' PROVE Content'
    BY DEF Content, Filling
  <2>2. Held' = Empty
    BY <1>1, <1>3, <1>4, <2>1 DEF Held
  <2>3. DOMAIN Held' = 0 .. lib'.end - 1
    BY <1>9, <2>2, EmptyIs
  <2>4. Exact(Shown', First', Final', cmd, n, MarkEntry', MarkPart')
    <3>1. /\ MarkEntry' \in Int /\ MarkPart' \in Int /\ (MarkPart' <= -2 \/ MarkEntry' = 0)
          /\ \A x \in ExtentIn(cmd, n) : x >= MarkEntry'
      BY <1>3, BeginsAt
    <3>2. First' \in Int /\ Final' \in Int /\ Final' < First'
      BY <1>9 DEF First, Final
    <3>3. PICK c \in Commands, f \in {Shown'}, lo \in Int, hi \in Int, e \in Int, j \in Int :
                 c = cmd /\ f = Shown' /\ lo = First' /\ hi = Final' /\ e = MarkEntry' /\ j = MarkPart'
      BY <1>2, <3>1, <3>2
    <3>4. n \in ArchivesIn(c)
      BY <1>2, <3>3, ArchivesAre
    <3>5. (\A x \in ExtentIn(c, n) : x >= e) /\ (j <= -2 \/ e = 0) /\ hi < lo
      BY <3>1, <3>2, <3>3
    <3>6. Exact(f, lo, hi, c, n, e, j)
      BY <3>4, <3>5, ExactNone
    <3>7. QED
      BY <3>3, <3>6
  <2>5. New(<<>>)' = New(<<>>)
    BY DEF New
  <2>6. QED
    BY <1>3, <1>5, <1>9, <2>3, <2>4, <2>5 DEF Content
<1>12. QED
  BY <1>8, <1>10, <1>11 DEF Rest

LEMMA OpenArchiveRest == ASSUME Control, ArchiveSafe, Rest, OpenArchive PROVE Rest'
<1>1. st = "outopen" /\ UNCHANGED <<walk, reader, lib, piece, list, at, complete, missing>>
  BY DEF OpenArchive, At
<1>2. CASE complete
  BY <1>1, <1>2, CompleteRest DEF OpenArchive
<1>3. CASE ~complete
  <2>1. PICK n : n = name' /\ n = IF Is({"each"}) THEN top ELSE 1
    BY <1>3 DEF OpenArchive
  <2>2. nfile' = (IF Is({"each"}) THEN nfile + 1 ELSE nfile)
    BY <1>3 DEF OpenArchive
  <2>3. CASE OpenFile(n, cmd.overwrite) /\ del' = TRUE /\ woff' = -1 /\ Goto(IF Is({"each"}) THEN "info" ELSE "in")
    BY <1>1, <1>3, <2>1, <2>2, <2>3, OpensRest
  <2>4. CASE OpenFails(n, cmd.overwrite) /\ GoEnd(1) /\ UNCHANGED del
    BY <1>1, <1>3, <2>4, RefusedRest
  <2>5. QED
    BY <1>3, <2>1, <2>3, <2>4 DEF OpenArchive, OpenFailed
<1>4. QED
  BY <1>2, <1>3

\* iso has written every file of its list.
LEMMA IsoEndCut ==
  ASSUME Control, st = "done", name # 0, Is({"iso"})
  PROVE  \A p : InCut(cmd, name, MarkEntry, MarkPart, p) <=> PieceIn(cmd, name, p)
<1>1. /\ st \in Looping /\ Second /\ Looked = Size /\ cmd.op = "iso"
  BY DEF Looping, Second, Looked, Is
<1>2. /\ ListIn(cmd, list, Size) /\ lib.ending /\ at = Len(list) /\ buf = 0
      /\ at # 0 => cur = list[at] /\ off = cmd.tree[cur].size
  BY <1>1 DEF Control, IsoLib
<1>3. MarkEntry = (IF at = 0 THEN 0 ELSE cur) /\ MarkPart = (IF at = 0 THEN 0 ELSE off)
  BY <1>2 DEF MarkEntry, MarkPart
<1>4. cmd \in Commands /\ cur \in Int /\ off \in Nat /\ Len(list) \in Nat
  BY DEF Control, Types
<1>5. PICK c \in Commands, l \in {list} : c = cmd /\ l = list
  BY <1>4
<1>6. PICK a \in ArchivesIn(c) : a = name
  BY <1>5, ArchivesAre
<1>7. ExtentIn(c, a) = 1 .. Size /\ Size \in Nat
  BY <1>1, <1>5, CommandIs DEF ExtentIn, Size, Nested
<1>8. /\ \A k \in 1 .. Len(l) : l[k] \in 1 .. Size
      /\ \A x \in 1 .. Size : Listed(c, x) => \E k \in 1 .. Len(l) : l[k] = x
      /\ \A j, k \in 1 .. Len(l) : j < k => l[j] < l[k]
  BY <1>2, <1>5 DEF ListIn
<1>9. CASE at = 0
  <2>1. \A x \in ExtentIn(c, a) : Plain(c, x)
    BY <1>1, <1>2, <1>5, <1>7, <1>8, <1>9, NotListed
  <2>2. \A p : ~PieceIn(c, a, p)
    <3> SUFFICES ASSUME NEW p, PieceIn(c, a, p) PROVE FALSE
      OBVIOUS
    <3>1. p[1] \in ExtentIn(c, a)
      BY DEF PieceIn
    <3>2. QED
      BY <2>1, <3>1, PlainIs
  <2>3. QED
    BY <1>5, <1>6, <2>2 DEF InCut
<1>10. CASE at # 0
  <2>1. PICK e \in Int, j \in Int : e = cur /\ j = off
    BY <1>4
  <2>2. Covers(c, e, j)
    <3>1. j = c.tree[e].size /\ j \in Nat
      BY <1>2, <1>4, <1>5, <1>10, <2>1
    <3>2. QED
      BY <1>1, <1>5, <3>1 DEF Covers, PartIn
  <2>3. PICK n \in Nat : n = Len(l) /\ n >= 1 /\ e = l[n]
    BY <1>2, <1>4, <1>5, <1>10, <2>1
  <2>4. \A x \in 1 .. Size : x > e => ~Listed(c, x)
    <3> SUFFICES ASSUME NEW x \in 1 .. Size, x > e, Listed(c, x) PROVE FALSE
      OBVIOUS
    <3>1. PICK k \in 1 .. Len(l) : l[k] = x
      BY <1>8
    <3>2. k = n \/ k < n
      BY <2>3
    <3>3. n \in 1 .. Len(l)
      BY <2>3
    <3>4. k < n => l[k] < l[n]
      BY <1>8, <3>3
    <3>5. QED
      BY <2>3, <3>1, <3>2, <3>4
  <2>5. \A x \in ExtentIn(c, a) : x > e => Plain(c, x)
    BY <1>1, <1>5, <1>7, <2>4, NotListed
  <2>6. \A p : InCut(c, a, e, j, p) <=> PieceIn(c, a, p)
    BY <2>2, <2>5, CutIsAll
  <2>7. QED
    BY <1>3, <1>5, <1>6, <1>10, <2>1, <2>6
<1>11. QED
  BY <1>9, <1>10

\* Where the archive ends that is closed: nothing of it lies behind the mark.
LEMMA MarkBehind ==
  ASSUME Control, st \in {"flush", "done"}, name # 0, ~Is({"iso"})
  PROVE  MarkPart = -2 /\ MarkEntry \in Int /\ \A x \in ExtentIn(cmd, name) : x >= MarkEntry => Plain(cmd, x)
<1>1. st \in Looping /\ ~Second
  BY DEF Looping, Second
<1>2. lib.ending /\ lib.member = 0 /\ MarkEntry = Packed + 1 /\ MarkPart = -2
  BY <1>1, NoMember DEF Control, Lib
<1>3. cmd \in Commands /\ cur \in Int
  BY DEF Control, Types
<1>4. PICK c \in Commands, a \in {name} : c = cmd /\ a = name
  BY <1>3
<1>5. TopsIn(c) /\ Nested(c.tree) /\ Len(c.tops) \in Nat /\ Len(c.tree) \in Nat
  BY CommandIs DEF TopsIn, Nested
<1>6. a \in ArchivesIn(c)
  BY <1>4, ArchivesAre
<1>7. ExtentIn(c, a) \subseteq 1 .. Len(c.tree)
  <2>1. CASE c.op = "each"
    <3>1. a \in 1 .. Len(c.tops)
      BY <1>6, <2>1 DEF ArchivesIn
    <3>2. PICK t \in 1 .. Len(c.tree) : t = c.tops[a]
      BY <1>5, <3>1 DEF TopsIn
    <3>3. c.tree[t].last \in t .. Len(c.tree)
      BY <1>5 DEF Nested
    <3>4. t .. c.tree[t].last \subseteq 1 .. Len(c.tree)
      BY <3>3
    <3>5. QED
      BY <2>1, <3>2, <3>4 DEF ExtentIn
  <2>2. CASE c.op # "each"
    BY <2>2 DEF ExtentIn
  <2>3. QED
    BY <2>1, <2>2
<1>8. CASE ~Fresh
  <2>1. Packed = cur
    BY <1>8 DEF Packed
  <2>2. Bare(c.tree, cur + 1, Len(c.tree))
    BY <1>1, <1>2, <1>4, <1>8 DEF Control, Walk, Size
  <2>3. \A x \in 1 .. Len(c.tree) : x >= cur + 1 => Plain(c, x)
    <3> TAKE x \in 1 .. Len(c.tree)
    <3> HAVE x >= cur + 1
    <3>1. x \in cur + 1 .. Len(c.tree)
      BY <1>3, <1>5
    <3>2. QED
      BY <2>2, <3>1 DEF Bare, Plain
  <2>4. QED
    BY <1>2, <1>3, <1>4, <1>7, <2>1, <2>3
<1>9. CASE Fresh
  <2>1. Is({"each"}) /\ ~complete /\ c.op = "each"
    BY <1>4, <1>9 DEF Fresh, Is
  <2>2. c.tops[top] = cur /\ name = nfile /\ nfile = top - 1 /\ top \in 0 .. Len(c.tops)
    BY <1>1, <1>2, <1>4, <2>1 DEF Control, Walk, Names, Types
  <2>3. a \in 1 .. Len(c.tops)
    BY <1>6, <2>1 DEF ArchivesIn
  <2>4. a < top /\ top \in 1 .. Len(c.tops)
    BY <1>4, <1>5, <2>2, <2>3
  <2>5. PICK t \in 1 .. Len(c.tree) : t = c.tops[a]
    BY <1>5, <2>3 DEF TopsIn
  <2>6. t < c.tops[top]
    BY <1>5, <2>3, <2>4, <2>5 DEF TopsIn
  <2>7. c.tree[t].last < c.tops[top]
    BY <1>5, <2>4, <2>6 DEF TopsIn
  <2>8. c.tree[t].last \in Int
    BY <1>5 DEF Nested
  <2>9. \A x \in ExtentIn(c, a) : x < cur
    <3>1. ExtentIn(c, a) = t .. c.tree[t].last
      BY <2>1, <2>5 DEF ExtentIn
    <3>2. QED
      BY <1>3, <2>2, <2>7, <2>8, <3>1
  <2>10. MarkEntry = cur
    <3>1. Packed = cur - 1 /\ cur - 1 + 1 = cur
      BY <1>3, <1>9 DEF Packed
    <3>2. QED
      BY <1>2, <3>1
  <2>11. \A x \in ExtentIn(c, a) : ~(x >= cur)
    BY <1>3, <1>7, <2>9
  <2>12. QED
    BY <1>2, <1>3, <1>4, <2>10, <2>11
<1>10. QED
  BY <1>8, <1>9

LEMMA EndCut ==
  ASSUME Control, st \in {"flush", "done"}, name # 0
  PROVE  \A p : InCut(cmd, name, MarkEntry, MarkPart, p) <=> PieceIn(cmd, name, p)
<1>1. CASE Is({"iso"})
  <2>1. st = "done"
    BY <1>1 DEF Control, IsoLib, Looping
  <2>2. QED
    BY <1>1, <2>1, IsoEndCut
<1>2. CASE ~Is({"iso"})
  <2>1. MarkPart = -2 /\ MarkEntry \in Int /\ \A x \in ExtentIn(cmd, name) : x >= MarkEntry => Plain(cmd, x)
    BY <1>2, MarkBehind
  <2>2. PICK c \in Commands, e \in Int : c = cmd /\ e = MarkEntry
    BY <2>1, ArchivesAre
  <2>3. PICK a \in ArchivesIn(c) : a = name
    BY <2>2, ArchivesAre
  <2>4. \A p : InCut(c, a, e, -2, p) <=> PieceIn(c, a, p)
    BY <2>1, <2>2, <2>3, CutAll
  <2>5. QED
    BY <2>1, <2>2, <2>3, <2>4
<1>3. QED
  BY <1>1, <1>2

\* The flush that ends an archive makes it whole.
LEMMA EndWhole ==
  ASSUME Control, ArchiveSafe, Rest, st \in {"flush", "done"}, Is({"tar"}) => st = "flush", name # 0, ~lost,
         NEW f \in Flushings, ~f.err
  PROVE  f.disk[name].kind = "new" /\ WholeIn(cmd, name, f.disk[name].has) /\ IsSeq(f.disk[name].has)
<1>1. st \in Looping /\ st # "write" /\ cmd \in Commands /\ name \in Archives /\ lib.end \in Nat
  BY DEF Looping, Control, Types, LibTypes
<1>2. obj.name = name
  BY <1>1 DEF Control, Names, Looping
<1>3. lib.ended
  BY <1>1 DEF Control, Lib, IsoLib
<1>4. Filling /\ Held = obj.cache
  BY <1>1 DEF Filling, Held
<1>5. /\ disk[name] = New(<<>>) /\ DOMAIN obj.cache = 0 .. lib.end - 1
      /\ Exact(Shown, First, Final, cmd, name, MarkEntry, MarkPart)
      /\ lib.end > 0 /\ obj.cache[IF Is({"iso"}) THEN 0 ELSE lib.end - 1] = Trailer
  BY <1>3, <1>4 DEF Rest, Content
<1>6. ~Renews
  BY NoMember
<1>7. \A k \in 0 .. lib.end - 1 : Shown[k] = obj.cache[k]
  BY <1>4, <1>6 DEF Shown
<1>8. \A p : InCut(cmd, name, MarkEntry, MarkPart, p) <=> PieceIn(cmd, name, p)
  BY <1>1, EndCut
<1>9. disk[name].has = <<>> /\ disk[name].kind = "new"
  BY <1>5 DEF New
<1>10. f.disk[name].kind = "new" /\ f.disk[name].has = Flushed(<<>>)
  BY <1>1, <1>2, <1>9, FlushIs
<1>11. Is({"iso"}) <=> cmd.op = "iso"
  BY DEF Is
<1>12. PICK n \in Nat, a \in Archives, h \in {obj.cache}, g \in {Shown} : n = lib.end /\ a = name /\ h = obj.cache /\ g = Shown
  BY <1>1
<1>13. DOMAIN obj.cache = 0 .. n - 1 /\ n >= 1
  BY <1>5, <1>12
<1>14. Flushed(<<>>) = [k \in 1 .. n |-> h[k - 1]]
  <2>1. Flushed(<<>>) = [k \in 1 .. n |-> obj.cache[k - 1]]
    BY <1>13, FlushedFrom
  <2>2. QED
    BY <1>12, <2>1
<1> DEFINE S == {h[k - 1] : k \in 1 .. n}
           s == [k \in 1 .. n |-> h[k - 1]]
<1>15. s \in Seq(S) /\ Len(s) = n /\ DOMAIN s = 1 .. n /\ \A k \in 1 .. n : s[k] = h[k - 1]
  <2>1. s \in [1 .. n -> S]
    OBVIOUS
  <2> HIDE DEF S
  <2>2. QED
    BY <2>1
<1>16. IsSeq(s)
  BY <1>15 DEF IsSeq
<1> HIDE DEF S, s
<1>17. \A k \in 1 .. n : s[k] = g[k - 1]
  <2> TAKE k \in 1 .. n
  <2>1. k - 1 \in 0 .. lib.end - 1
    BY <1>12
  <2>2. QED
    BY <1>7, <1>12, <1>15, <2>1
<1>18. PICK e, j : e = MarkEntry /\ j = MarkPart
  OBVIOUS
<1>19. IF cmd.op = "iso" THEN g[0] = Trailer /\ Exact(g, 1, n - 1, cmd, a, e, j)
                         ELSE g[n - 1] = Trailer /\ Exact(g, 0, n - 2, cmd, a, e, j)
  <2>1. CASE cmd.op = "iso"
    <3>1. First = 1 /\ Final = n - 1
      BY <1>11, <1>12, <2>1 DEF First, Final
    <3>2. g[0] = Trailer
      BY <1>5, <1>7, <1>11, <1>12, <1>13, <2>1
    <3>3. QED
      BY <1>5, <1>12, <1>18, <2>1, <3>1, <3>2
  <2>2. CASE cmd.op # "iso"
    <3>1. First = 0 /\ Final = n - 2
      BY <1>3, <1>11, <1>12, <2>2 DEF First, Final
    <3>2. g[n - 1] = Trailer
      <4>1. n - 1 \in 0 .. lib.end - 1
        BY <1>12, <1>13
      <4>2. QED
        BY <1>5, <1>7, <1>11, <1>12, <2>2, <4>1
    <3>3. QED
      BY <1>5, <1>12, <1>18, <2>2, <3>1, <3>2
  <2>3. QED
    BY <2>1, <2>2
<1>20. WholeArchive(a, s)
  <2>1. \A p : InCut(cmd, a, e, j, p) <=> PieceIn(cmd, a, p)
    BY <1>8, <1>12, <1>18
  <2>2. QED
    BY <1>1, <1>13, <1>15, <1>17, <1>19, <2>1, WholeFrom
<1>21. WholeIn(cmd, a, s)
  BY <1>1, <1>20, WholeIs
<1>22. QED
  BY <1>10, <1>12, <1>14, <1>16, <1>21 DEF s

LEMMA TarFlushRest == ASSUME Control, ArchiveSafe, Rest, TarFlush PROVE Rest'
<1> USE DEF result, many
<1>1. st = "flush" /\ st \in Looping /\ Is({"tar"}) /\ UNCHANGED <<walk, reader, writer, many, missing, result>>
  BY DEF TarFlush, At, Looping
<1>2. CASE Flush(TRUE) /\ GoEnd(1)
  <2>1. PICK f \in Flushings : f.err = TRUE /\ disk' = f.disk /\ obj' = [obj EXCEPT !.cache = f.cache] /\ UNCHANGED lost
    BY <1>2 DEF Flush
  <2>2. disk' = disk
    BY <2>1, FlushIs
  <2>3. obj'.at \in Nat
    BY <2>1, ObjectKeeps, AtIs
  <2>4. QED
    BY <1>1, <1>2, <2>1, <2>2, <2>3, FailsRest DEF GoEnd
<1>3. CASE Flush(FALSE) /\ Goto("done")
  <2>1. PICK f \in Flushings : f.err = FALSE /\ disk' = f.disk /\ obj' = [obj EXCEPT !.cache = f.cache] /\ UNCHANGED lost
    BY <1>3 DEF Flush
  <2>2. st' = "done" /\ st' \in Looping /\ UNCHANGED cmd
    BY <1>3 DEF Goto, Looping
  <2>3. Archives = {1} /\ Archives' = {1} /\ ~Is({"each"}) /\ ~Is({"iso"}) /\ Is({"tar"})'
    BY <1>1, <2>2 DEF Archives, Is
  <2>4. name = 1 /\ nfile = 0 /\ del = TRUE
    <3>1. name = 1 /\ nfile = 0 /\ del = (name # 0)
      BY <1>1, <2>3 DEF Control, Names
    <3>2. (1 # 0) = TRUE
      OBVIOUS
    <3>3. QED
      BY <3>1, <3>2
  <2>5. obj.name = 1 /\ ~lost
    <3>1. ~lost
      BY <1>1 DEF Rest, Results
    <3>2. QED
      BY <1>1, <2>4, <3>1 DEF Control, Names, Looping
  <2>6. f.disk[1].kind = "new" /\ WholeIn(cmd, 1, f.disk[1].has) /\ IsSeq(f.disk[1].has)
    <3>1. name # 0
      BY <2>4
    <3>2. f.disk[name].kind = "new" /\ WholeIn(cmd, name, f.disk[name].has) /\ IsSeq(f.disk[name].has)
      BY <1>1, <2>1, <2>5, <3>1, EndWhole
    <3>3. QED
      BY <2>4, <3>2
  <2>7. obj'.cache = Empty
    <3>1. f.cache = Empty
      BY <2>1, <2>5, FlushIs
    <3>2. QED
      BY <2>1, <3>1 DEF ArchiveSafe, Ready
  <2>8. Whole(1)' /\ IsSeq(disk[1].has)'
    <3>1. disk'[1] = f.disk[1]
      BY <2>1
    <3>2. QED
      BY <2>2, <2>6, <3>1 DEF Whole, IsSeq
  <2>9. Results'
    <3>1. name' = 1 /\ ~lost'
      BY <1>1, <2>1, <2>4, <2>5
    <3>2. QED
      BY <2>2, <2>3, <2>7, <2>8, <3>1 DEF Results
  <2>10. lib' = lib /\ lib.ended
    BY <1>1, <2>3 DEF Control, Lib, writer
  <2>11. obj'.at \in Nat
    BY <2>1, ObjectKeeps, AtIs
  <2>12. Appends' /\ Content'
    BY <2>2, <2>3, <2>10, <2>11 DEF Appends, Content, Filling
  <2>13. QED
    BY <2>9, <2>12 DEF Rest
<1>4. QED
  BY <1>2, <1>3 DEF TarFlush

\* At the end of the walk every entry was looked at.
LEMMA AllLooked ==
  ASSUME Control, st = "done", ~Is({"each"})
  PROVE  missing \in BOOLEAN /\ (~missing => NoneGone(cmd, Size))
<1>1. st \in Looping /\ missing \in BOOLEAN /\ cmd \in Commands
  BY DEF Looping, Control, Types
<1>2. ~missing => NoneGone(cmd, Looked)
  BY <1>1 DEF Control, Found
<1>3. CASE Is({"iso"})
  BY <1>1, <1>2, <1>3 DEF Looked, Second
<1>4. CASE ~Is({"iso"})
  <2>1. ~Second /\ ~Fresh /\ Looked = cur
    BY <1>4 DEF Second, Fresh, Looked
  <2>2. lib.ending
    BY <1>1, <1>4 DEF Control, Lib
  <2>3. Bare(cmd.tree, cur + 1, Size)
    BY <1>1, <2>1, <2>2 DEF Control, Walk
  <2>4. cur \in Int /\ Size \in Int
    <3>1. Len(cmd.tree) \in Nat
      BY <1>1, CommandIs DEF Nested
    <3>2. QED
      BY <3>1 DEF Control, Types, Size
  <2>5. QED
    BY <1>1, <1>2, <2>1, <2>3, <2>4, NoneGoneOver
<1>5. QED
  BY <1>3, <1>4

LEMMA DoneRest == ASSUME Control, ArchiveSafe, Rest, Done PROVE Rest'
<1>1. st = "done" /\ st \in Looping /\ ~Is({"each"}) /\ name' = name /\ nfile' = nfile
  BY DEF Done, At, Looping, many
<1>2. st' = "end" /\ st' \notin Looping /\ rc' = (IF missing THEN 1 ELSE 0) /\ UNCHANGED cmd /\ ~del'
  BY DEF Done, GoEnd, Looping
<1>3. PICK f \in Flushings : disk' = f.disk /\ lost' = (lost \/ f.err)
  BY DEF Done, Close
<1>4. Archives = {1} /\ Archives' = {1} /\ (Is({"tar"})' <=> Is({"tar"})) /\ Size' = Size
  BY <1>1, <1>2 DEF Archives, Is, Size
<1>5. name = 1 /\ del = (name # 0)
  BY <1>1 DEF Control, Names
<1>6. obj.name = 1
  <2>1. del = TRUE
    <3>1. (1 # 0) = TRUE
      OBVIOUS
    <3>2. QED
      BY <1>5, <3>1
  <2>2. QED
    BY <1>1, <1>5, <2>1 DEF Control, Names, Looping
<1>7. lost \in BOOLEAN /\ f.err \in BOOLEAN
  BY FlushIs DEF Control, Types
<1>8. ASSUME Is({"tar"}) PROVE Whole(1)' /\ ~lost'
  <2>1. ~lost /\ obj.cache = Empty /\ Whole(1) /\ IsSeq(disk[1].has)
    BY <1>1, <1>4, <1>8 DEF Rest, Results
  <2>2. ~f.err /\ f.disk[1].has = Flushed(disk[1].has) /\ f.disk[1].kind = disk[1].kind
    BY <1>4, <1>6, <2>1, FlushIs
  <2>3. f.disk[1].has = disk[1].has
    BY <2>1, <2>2, FlushedKeeps
  <2>4. Whole(1)' /\ ~lost'
    BY <1>2, <1>3, <2>1, <2>2, <2>3 DEF Whole
  <2>5. QED
    BY <1>1, <2>4
<1>9. ASSUME ~Is({"tar"}) PROVE ~lost' => Whole(1)'
  <2>1. SUFFICES ASSUME ~lost' PROVE Whole(1)'
    BY <1>9
  <2>2. ~lost /\ ~f.err
    BY <1>3, <1>7, <2>1
  <2>3. name # 0
    BY <1>5
  <2>4. f.disk[name].kind = "new" /\ WholeIn(cmd, name, f.disk[name].has)
    BY <1>1, <1>9, <2>2, <2>3, EndWhole
  <2>5. QED
    BY <1>2, <1>3, <1>5, <2>4 DEF Whole
<1>10. (~lost' => Whole(1)') /\ (Is({"tar"}) => ~lost')
  BY <1>8, <1>9
<1>11. rc' = 0 => NoneGone(cmd, Size)
  BY <1>1, <1>2, AllLooked
<1>12. Results'
  <2>1. ~lost' => WholeIn(cmd', 1, disk'[1].has)
    BY <1>2, <1>10 DEF Whole
  <2>2. QED
    BY <1>2, <1>4, <1>10, <1>11, <2>1 DEF Results
<1>13. obj'.at = 0
  BY CloseGives DEF Done
<1>14. Appends' /\ Content'
  BY <1>2, <1>13 DEF Appends, Content, Filling
<1>15. QED
  BY <1>12, <1>14 DEF Rest

LEMMA ZipDoneRest == ASSUME Control, ArchiveSafe, Rest, ZipDone PROVE Rest'
<1>1. st = "done" /\ st \in Looping /\ Is({"each"}) /\ ~Is({"tar"}) /\ nfile' = nfile /\ name' = 0
  BY DEF ZipDone, At, Looping, many, Is
<1>2. st' = "outopen" /\ st' \in Looping /\ UNCHANGED cmd
  BY DEF ZipDone, Goto, Looping, AfterArchive
<1>3. PICK f \in Flushings : disk' = f.disk /\ lost' = (lost \/ f.err) /\ obj' = [NoObject EXCEPT !.cache = f.cache]
  BY DEF ZipDone, Close
<1>4. Archives' = Archives /\ ~Is({"tar"})'
  BY <1>1, <1>2 DEF Archives, Is
<1>5. lost \in BOOLEAN /\ f.err \in BOOLEAN
  BY FlushIs DEF Control, Types
<1>6. obj'.cache = f.cache /\ obj'.at = 0
  BY <1>3 DEF NoObject
<1>7. name = nfile /\ nfile \in 0 .. Len(cmd.tops) /\ Len(cmd.tops) \in Nat /\ Archives = 1 .. Len(cmd.tops)
  <2>1. cmd \in Commands /\ nfile \in 0 .. Len(cmd.tops)
    BY DEF Control, Types
  <2>2. Len(cmd.tops) \in Nat
    BY <2>1, CommandIs DEF TopsIn
  <2>3. QED
    BY <1>1, <2>1, <2>2 DEF Control, Names, Archives, Is
<1>8. Archives # {} => name # 0
  BY <1>1 DEF Control, Idle
<1>9. obj.name = name
  BY <1>1 DEF Control, Names, Looping
<1>10. ASSUME NEW a \in Archives PROVE IF a <= nfile THEN ~lost' => Whole(a)' ELSE disk'[a].kind # "new"
  <2>1. CASE a = name
    <3>1. a <= nfile
      BY <1>7, <2>1
    <3>2. ASSUME ~lost' PROVE Whole(a)'
      <4>1. ~lost /\ ~f.err
        BY <1>3, <1>5, <3>2
      <4>2. f.disk[name].kind = "new" /\ WholeIn(cmd, name, f.disk[name].has)
        BY <1>1, <1>8, <4>1, EndWhole
      <4>3. QED
        BY <1>2, <1>3, <2>1, <4>2 DEF Whole
    <3>3. QED
      BY <3>1, <3>2
  <2>2. CASE a # name
    <3>1. disk'[a] = disk[a]
      BY <1>3, <1>9, <2>2, FlushIs
    <3>2. IF a <= nfile THEN ~lost => Whole(a) ELSE disk[a].kind # "new"
      BY <1>1, <2>2 DEF Rest, Results
    <3>3. ~lost' => ~lost
      BY <1>3, <1>5
    <3>4. QED
      BY <1>2, <3>1, <3>2, <3>3 DEF Whole
  <2>3. QED
    BY <2>1, <2>2
<1>11. ASSUME ~lost', Archives # {} PROVE obj'.cache = Empty
  <2>1. ~f.err
    BY <1>3, <1>5, <1>11
  <2>2. QED
    BY <1>6, <1>8, <1>9, <1>11, <2>1, FlushIs
<1>12. Results'
  BY <1>1, <1>2, <1>4, <1>10, <1>11 DEF Results
<1>13. Appends' /\ Content'
  BY <1>1, <1>6 DEF Appends, Content, Filling
<1>14. QED
  BY <1>12, <1>13 DEF Rest

LEMMA StopRest == ASSUME Control, Rest, Stop PROVE Rest'
<1>1. st \in Looping
  BY DEF Control, Types, Stop
<1>2. st' = "end" /\ rc' = 1 /\ UNCHANGED <<cmd, disk, obj, lost, name, del>>
  BY DEF Stop, GoEnd, result, outvars
<1>3. QED
  BY <1>1, <1>2, AtIs, FailsRest

LEMMA StutterRest == ASSUME Rest, UNCHANGED vars \/ Signal PROVE Rest'
<1> USE DEF vars, walk, reader, writer, many, result, outvars
<1>1. UNCHANGED <<cmd, st, rc, todo, isdir, cur, top, off, buf, lib, piece, woff, list, at, nfile, complete, missing, name, del,
                  disk, obj, lost>>
  BY DEF Signal
<1>2. /\ \A o : Is(o)' <=> Is(o)
      /\ Size' = Size /\ Archives' = Archives /\ \A a : Whole(a)' <=> Whole(a)
  BY <1>1 DEF Is, Size, Archives, Whole
<1>3. Results'
  BY <1>1, <1>2 DEF Rest, Results
<1>4. (Zips' <=> Zips) /\ Held' = Held /\ Next1' = Next1 /\ (Rewriting' <=> Rewriting) /\ (Fresh' <=> Fresh)
  BY <1>1, <1>2 DEF Zips, Held, Next1, Rewriting, Fresh, Offset
<1>5. (Renews' <=> Renews) /\ Packed' = Packed
  BY <1>1, <1>4 DEF Renews, Packed
<1>6. Shown' = Shown /\ MarkEntry' = MarkEntry /\ MarkPart' = MarkPart /\ First' = First /\ Final' = Final /\ (Filling' <=> Filling)
  BY <1>1, <1>2, <1>4, <1>5 DEF Shown, MarkEntry, MarkPart, First, Final, Filling
<1>7. Appends'
  BY <1>1, <1>4 DEF Rest, Appends
<1>8. Content'
  BY <1>1, <1>2, <1>4, <1>6 DEF Rest, Content
<1>9. QED
  BY <1>3, <1>7, <1>8 DEF Rest

LEMMA FinishRest == ASSUME Control, ArchiveSafe, Rest, Finish PROVE Rest'
<1>1. st = "end" /\ st' = "over" /\ st \notin Looping /\ st' \notin Looping /\ UNCHANGED <<cmd, rc, name, del>>
  BY DEF Finish, Looping, result
<1>2. PICK f \in Flushings : /\ disk' = (IF del THEN Without(f.disk, name) ELSE f.disk)
                             /\ lost' = (lost \/ (f.err /\ ~del)) /\ obj' = NoObject
  BY DEF Finish, Destroy
<1>3. Archives' = Archives /\ (Is({"tar"})' <=> Is({"tar"})) /\ Size' = Size
  BY <1>1 DEF Archives, Is, Size
<1>4. lost \in BOOLEAN /\ f.err \in BOOLEAN /\ del \in BOOLEAN /\ name \in {0} \cup Archives
  BY FlushIs DEF Control, Types
<1>5. obj.name = (IF del THEN name ELSE 0) /\ (del => name # 0)
  BY <1>1 DEF Control, Names
<1>6. ~del => disk' = disk /\ (lost' <=> lost)
  <2> HAVE ~del
  <2>1. obj.name = 0
    BY <1>5
  <2>2. f.disk = disk /\ f.err = FALSE
    BY <2>1, FlushIs
  <2>3. QED
    BY <1>2, <1>4, <2>2
<1>7. del => (lost' <=> lost) /\ \A a \in Archives : IF a = name THEN disk'[a] = Absent ELSE disk'[a] = disk[a]
  <2> HAVE del
  <2>1. name \in Archives /\ obj.name = name /\ DOMAIN f.disk = Archives
    BY <1>4, <1>5, FlushIs
  <2>2. disk' = [f.disk EXCEPT ![name] = Absent] /\ (lost' <=> lost)
    BY <1>2, <1>4, <2>1 DEF Without
  <2>3. \A a \in Archives : a # name => f.disk[a] = disk[a]
    BY <2>1, FlushIs
  <2>4. QED
    BY <2>1, <2>2, <2>3
<1>8. Results'
  <2>1. Is({"tar"}) => ~lost'
    BY <1>4, <1>6, <1>7 DEF Rest, Results
  <2>2. ASSUME ~lost', NEW a \in Archives, disk'[a].kind = "new" PROVE WholeIn(cmd, a, disk'[a].has)
    <3>1. ~lost
      BY <1>4, <1>6, <1>7, <2>2
    <3>2. ~del \/ a # name
      <4>1. Absent.kind # "new"
        BY DEF Absent
      <4>2. QED
        BY <1>7, <2>2, <4>1
    <3>3. disk'[a] = disk[a]
      BY <1>6, <1>7, <3>2
    <3>4. QED
      BY <1>1, <2>2, <3>1, <3>2, <3>3 DEF Rest, Results
  <2>3. ASSUME rc = 0 PROVE ~del /\ NoneGone(cmd, Size) /\ (~lost' => \A a \in Archives : Whole(a)')
    <3>1. ~del /\ NoneGone(cmd, Size) /\ (~lost => \A a \in Archives : Whole(a))
      BY <1>1, <2>3 DEF Rest, Results
    <3>2. disk' = disk /\ (lost' <=> lost)
      BY <1>6, <3>1
    <3>3. QED
      BY <1>1, <3>1, <3>2 DEF Whole
  <2>4. QED
    BY <1>1, <1>3, <2>1, <2>2, <2>3 DEF Results
<1>9. obj'.at = 0
  BY <1>2 DEF NoObject
<1>10. Appends' /\ Content'
  BY <1>1, <1>9 DEF Appends, Content, Filling
<1>11. QED
  BY <1>8, <1>10 DEF Rest

LEMMA InitRest == Init => Rest
<1> SUFFICES ASSUME Init PROVE Rest
  OBVIOUS
<1>1. st \in Looping /\ st # "done" /\ name = 0 /\ nfile = 0 /\ obj = NoObject /\ lost = FALSE /\ disk \in [Archives -> {Absent, Old}]
  BY DEF Init, OutputInit, Looping
<1>2. obj.cache = Empty /\ obj.at = 0
  BY <1>1 DEF NoObject
<1>3. \A a \in Archives : ~(a <= 0)
  BY DEF Archives
<1>4. \A a \in Archives : disk[a].kind # "new"
  BY <1>1 DEF Absent, Old
<1>5. Results
  BY <1>1, <1>2, <1>3, <1>4 DEF Results
<1>6. Appends /\ Content
  BY <1>1, <1>2 DEF Appends, Content, Filling
<1>7. QED
  BY <1>5, <1>6 DEF Rest

LEMMA RestStep == ASSUME Control, Control', ArchiveSafe, Rest, [Next]_vars PROVE Rest'
<1>1. CASE UNCHANGED vars \/ Signal \/ Stop \/ Finish
  BY <1>1, StutterRest, StopRest, FinishRest
<1>2. CASE NextEntry \/ NextOfEach \/ Info
  BY <1>2, NextEntryRest, NextOfEachRest, InfoRest
<1>3. CASE TarAdd \/ ZipAdd \/ ReadEntry
  BY <1>3, TarAddRest, ZipAddRest, ReadEntryRest
<1>4. CASE IsoNextOpen \/ IsoRead
  BY <1>4, IsoNextOpenRest, IsoReadRest
<1>5. CASE TarProc \/ ZipProc \/ IsoProc
  BY <1>5, TarProcRest, ZipProcRest, IsoProcRest
<1>6. CASE OpenArchive \/ Write \/ TarFlush
  BY <1>6, OpenArchiveRest, WriteRest, TarFlushRest
<1>7. CASE Done \/ ZipDone
  BY <1>7, DoneRest, ZipDoneRest
<1>8. QED
  BY <1>1, <1>2, <1>3, <1>4, <1>5, <1>6, <1>7 DEF Next, Step, TarRun, ZipRun, ZipRunEach, IsoRun

-----------------------------------------------------------------------------
(* The theorems *)

LEMMA InvTypes == AInv => TypeOK
<1> SUFFICES ASSUME AInv PROVE TypeOK
  OBVIOUS
<1>1. Types /\ Names /\ Idle
  BY DEF AInv, Control
<1>2. ASSUME st \in {"write", "flush"}, Archives # {} PROVE IsOpen /\ del
  <2>1. st \in Looping /\ name # 0
    BY <1>1, <1>2 DEF Idle, Looping
  <2>2. del = TRUE
    BY <1>1, <2>1 DEF Names
  <2>3. obj.name # 0
    BY <1>1, <1>2, <2>1, <2>2 DEF Names
  <2>4. QED
    BY <2>2, <2>3 DEF IsOpen, Closed
<1>3. QED
  BY <1>1, <1>2 DEF TypeOK, Types, Looping

LEMMA InvKept == AInv => KeptIsWhole
<1> SUFFICES ASSUME AInv, st = "over", ~lost, NEW a \in Archives, disk[a].kind = "new" PROVE WholeArchive(a, disk[a].has)
  BY DEF KeptIsWhole
<1>1. WholeIn(cmd, a, disk[a].has) /\ cmd \in Commands
  BY DEF AInv, Results, Looping, Control, Types
<1>2. QED
  BY <1>1, WholeIs

LEMMA InvSuccess == AInv => SuccessIsWhole
<1> SUFFICES ASSUME AInv, st = "over", rc = 0, Is({"tar"}) \/ ~lost, NEW a \in Archives
             PROVE  /\ \A e \in Reached(a) : Kind(e) # "gone"
                    /\ disk[a].kind = "new" /\ WholeArchive(a, disk[a].has)
  BY DEF SuccessIsWhole
<1>1. ~lost /\ st \notin Looping /\ cmd \in Commands
  BY DEF AInv, Results, Looping, Control, Types
<1>2. NoneGone(cmd, Size) /\ Whole(a)
  BY <1>1 DEF AInv, Results
<1>3. Reached(a) \subseteq {e \in 1 .. Size : ReachIn(cmd.tree, e)}
  BY <1>1, PieceIs DEF Size
<1>4. \A e \in Reached(a) : Kind(e) # "gone"
  BY <1>2, <1>3 DEF NoneGone, Kind
<1>5. QED
  BY <1>1, <1>2, <1>4, WholeIs DEF Whole

\* The invariant AInv of every state of the loops: where the walk, the format
\* writer and the open file are, and how much of the archive is in the cache.
THEOREM ArchiveStates == Spec => []AInv
<1> DEFINE I == AInv /\ ArchiveSafe
<1>1. Init => I
  BY InitControl, InitRest, InitSafe DEF AInv, Rest
<1>2. I /\ [Next]_vars => I'
  <2> SUFFICES ASSUME I, [Next]_vars PROVE I'
    OBVIOUS
  <2>1. Control /\ Rest
    BY DEF AInv, Rest
  <2>2. Control' /\ ArchiveSafe'
    BY <2>1, ControlStep, NextStep DEF StepIsSafe
  <2>3. Rest'
    BY <2>1, <2>2, RestStep
  <2>4. QED
    BY <2>2, <2>3 DEF AInv, Rest
<1>3. I => AInv
  OBVIOUS
<1> HIDE DEF I
<1>4. QED
  BY <1>1, <1>2, <1>3, PTL DEF Spec

\* The invariant of the run: exit code 0 only when every entry was there and every
\* archive holds exactly what was to be packed, whole and in order, and no archive
\* is left behind that is not whole.
THEOREM ArchiveIsCorrect == Spec => []ArchiveInv
<1>1. AInv => ArchiveInv
  BY InvTypes, InvKept, InvSuccess DEF ArchiveInv
<1>2. QED
  BY <1>1, ArchiveStates, PTL
=============================================================================
