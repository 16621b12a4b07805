---------------------------- MODULE Codec_proofs ----------------------------
(***************************************************************************)
(* For every input, command line and set of failures: gz, zst, ungz, unxz  *)
(* and unzst touch no older file unless --overwrite is given; and of the   *)
(* command lines that they handle (Handles), success means whole outputs,  *)
(* and no half of one is left.                                             *)
(*                                                                         *)
(* For the first, what matters is that z->oname does not change while      *)
(* del_on_close is set, as in Archive_proofs.  The compressors clear it    *)
(* before the next input; the decompressors change the name only while     *)
(* nothing was opened.                                                     *)
(*                                                                         *)
(* For the second, CInv: what was written to the open file (Stream) is in  *)
(* the file and, behind it, in the cache; with what is being written and   *)
(* what the encoder holds it makes the first chunks of the input, up to    *)
(* the ones that were read (Accounts); a decompressor's is the data of the *)
(* chunks it has consumed (Decodes), and these are members (Parsed).       *)
(***************************************************************************)
EXTENDS Codec, TLAPS

-----------------------------------------------------------------------------
(* What the calls of the output object do to files that are not the
   operation's own *)

\* A file is a record, so that writing to it leaves its kind.
IsFile(r) == DOMAIN r = {"kind", "has"}
IsDisk(d) == d = [n \in DOMAIN d |-> d[n]] /\ \A n \in DOMAIN d : IsFile(d[n])

\* What is under a name is not the user's older file.
Own(d, n) == n \in DOMAIN d => d[n].kind # "old"

\* The output object, and that without "overwrite" its file is the operation's own.
Ready(overwrite) ==
  /\ IsDisk(disk) /\ Closed \notin DOMAIN disk
  /\ DOMAIN obj = {"name", "at", "cache", "owed"}
  /\ ~overwrite => Own(disk, obj.name)

\* The files of e are those of d, except that n may have been written to.
SameBut(d, e, n) ==
  /\ DOMAIN e = DOMAIN d
  /\ \A k \in DOMAIN d : e[k].kind = d[k].kind /\ (k # n => e[k] = d[k])

\* A step from d to e that changes no older file, and makes none.
Spares(d, e) ==
  /\ DOMAIN e = DOMAIN d
  /\ \A n \in DOMAIN d : d[n] = Old => e[n] = Old
  /\ \A n : Own(d, n) => Own(e, n)

\* file_flush() writes to the open file only, and leaves its kind.
LEMMA FlushingsSafe ==
  ASSUME IsDisk(disk), NEW f \in Flushings
  PROVE  IsDisk(f.disk) /\ SameBut(disk, f.disk, obj.name)
<1> DEFINE D == [disk EXCEPT ![obj.name].has = Flushed(@)]
<1>1. f.disk = disk \/ f.disk = D
  BY DEF Flushings
<1>2. CASE f.disk = disk
  BY <1>2 DEF SameBut
<1>3. CASE f.disk = D
  <2> DEFINE h == Flushed(disk[obj.name].has)
  <2>1. D = [n \in DOMAIN disk |-> IF n = obj.name THEN [disk[n] EXCEPT !.has = h] ELSE disk[n]]
    OBVIOUS
  <2> HIDE DEF h
  <2>2. \A n \in DOMAIN disk : DOMAIN [disk[n] EXCEPT !.has = h] = {"kind", "has"}
                               /\ [disk[n] EXCEPT !.has = h].kind = disk[n].kind
    BY DEF IsDisk, IsFile
  <2>3. DOMAIN D = DOMAIN disk
    BY <2>1
  <2>4. \A n \in DOMAIN disk : D[n] = IF n = obj.name THEN [disk[n] EXCEPT !.has = h] ELSE disk[n]
    BY <2>1
  <2>5. D = [n \in DOMAIN D |-> D[n]]
    BY <2>1
  <2> HIDE DEF D
  <2>6. IsDisk(D)
    BY <2>2, <2>3, <2>4, <2>5 DEF IsDisk, IsFile
  <2>7. SameBut(disk, D, obj.name)
    BY <2>2, <2>3, <2>4 DEF SameBut
  <2>8. QED
    BY <1>3, <2>6, <2>7
<1>4. QED
  BY <1>1, <1>2, <1>3

\* So does every call that flushes, if the open file is the operation's own.
LEMMA FlushingsSpare ==
  ASSUME NEW ow, ~ow, Ready(ow), NEW f \in Flushings
  PROVE  Spares(disk, f.disk)
<1>1. SameBut(disk, f.disk, obj.name)
  BY FlushingsSafe DEF Ready
<1>2. \A n \in DOMAIN disk : disk[n] = Old => n # obj.name
  BY DEF Ready, Own, Old
<1>3. QED
  BY <1>1, <1>2 DEF Spares, SameBut, Own

\* file_flush(), file_close(), a refused file_open() and file_write() of whole pieces
\* or parts leave the object ready and older files as they are.
LEMMA CallsSpare ==
  ASSUME NEW ow, Ready(ow), NEW n, NEW x, NEW o, NEW err,
         \/ FlushUnchecked \/ Flush(err) \/ Close \/ OpenFails(n, ow)
         \/ WriteWhole(x, o) \/ WritePart(x)
         \/ UNCHANGED outvars
  PROVE  Ready(ow)' /\ DOMAIN disk' = DOMAIN disk /\ (~ow => Spares(disk, disk'))
<1>1. CASE UNCHANGED outvars
  BY <1>1 DEF outvars, Ready, Spares
<1>2. CASE WriteWhole(x, o) \/ WritePart(x)
  <2>1. disk' = disk /\ obj'.name = obj.name /\ DOMAIN obj' = DOMAIN obj
    BY <1>2 DEF WriteWhole, WritePart, Ready
  <2>2. QED
    BY <2>1 DEF Ready, Spares
<1>3. CASE FlushUnchecked \/ Flush(err) \/ Close \/ OpenFails(n, ow)
  <2>1. PICK f \in Flushings :
          /\ disk' = f.disk
          /\ obj' = [obj EXCEPT !.cache = f.cache] \/ obj' = [NoObject EXCEPT !.cache = f.cache]
    BY <1>3 DEF FlushUnchecked, Flush, Close, OpenFails
  <2>2. IsDisk(disk') /\ SameBut(disk, disk', obj.name)
    BY <2>1, FlushingsSafe DEF Ready
  <2>3. ~ow => Spares(disk, disk')
    BY <2>1, FlushingsSpare
  <2>4. DOMAIN obj' = {"name", "at", "cache", "owed"} /\ obj'.name \in {obj.name, Closed}
    BY <2>1 DEF Ready, NoObject
  <2>5. Closed \notin DOMAIN disk'
    BY <2>2 DEF SameBut, Ready
  <2>6. ~ow => Own(disk', obj'.name)
    BY <2>3, <2>4, <2>5 DEF Spares, Own, Ready
  <2>7. QED
    BY <2>2, <2>3, <2>4, <2>5, <2>6 DEF Ready, SameBut
<1>4. QED
  BY <1>1, <1>2, <1>3

\* The same of a file_open() that is refused.
LEMMA OpenFailsSpares ==
  ASSUME NEW ow, Ready(ow), NEW n, OpenFails(n, ow)
  PROVE  Ready(ow)' /\ DOMAIN disk' = DOMAIN disk /\ (~ow => Spares(disk, disk'))
  BY CallsSpare

\* file_open() makes the file: without "overwrite" there was none.
LEMMA OpenFileSpares ==
  ASSUME NEW ow, Ready(ow), NEW n, OpenFile(n, ow)
  PROVE  Ready(ow)' /\ DOMAIN disk' = DOMAIN disk /\ (~ow => Spares(disk, disk') /\ Own(disk', n))
<1>1. PICK f \in Flushings :
        /\ CanCreate(f.disk, n, ow)
        /\ disk' = [f.disk EXCEPT ![n] = New(<<>>)]
        /\ obj' = [NoObject EXCEPT !.name = n, !.cache = f.cache]
  BY DEF OpenFile
<1>2. IsDisk(f.disk) /\ SameBut(disk, f.disk, obj.name)
  BY <1>1, FlushingsSafe DEF Ready
<1>3. DOMAIN disk' = DOMAIN f.disk /\ \A k \in DOMAIN f.disk : disk'[k] = IF k = n THEN New(<<>>) ELSE f.disk[k]
  BY <1>1, <1>2 DEF IsDisk
<1>4. disk' = [k \in DOMAIN disk' |-> disk'[k]]
  BY <1>1
<1>5. IsDisk(disk') /\ Own(disk', n)
  BY <1>2, <1>3, <1>4 DEF IsDisk, IsFile, New, Own
<1>6. ASSUME ~ow PROVE Spares(disk, disk')
  <2>1. Spares(disk, f.disk)
    BY <1>1, <1>6, FlushingsSpare
  <2>2. f.disk[n] # Old
    BY <1>1, <1>6 DEF CanCreate, Absent, Old
  <2>3. QED
    BY <1>3, <2>1, <2>2 DEF Spares, Own, New
<1>7. DOMAIN obj' = {"name", "at", "cache", "owed"} /\ obj'.name = n
  BY <1>1 DEF NoObject
<1>8. Closed \notin DOMAIN disk'
  BY <1>2, <1>3 DEF SameBut, Ready
<1>9. QED
  BY <1>2, <1>3, <1>5, <1>6, <1>7, <1>8 DEF Ready, SameBut

\* close() and destroy() delete what del() is told to, if that is the operation's own.
LEMMA DeletesSpare ==
  ASSUME NEW ow, Ready(ow), NEW gone, NEW n, ~ow /\ gone => Own(disk, n),
         CloseDelete(gone, n) \/ Destroy(gone, n)
  PROVE  Ready(ow)' /\ DOMAIN disk' = DOMAIN disk /\ (~ow => Spares(disk, disk'))
<1>1. PICK f \in Flushings :
        /\ disk' = (IF gone THEN Without(f.disk, n) ELSE f.disk)
        /\ obj' = [NoObject EXCEPT !.cache = f.cache] \/ obj' = NoObject
  BY DEF CloseDelete, Destroy
<1>2. IsDisk(f.disk) /\ SameBut(disk, f.disk, obj.name)
  BY <1>1, FlushingsSafe DEF Ready
<1>3. DOMAIN obj' = {"name", "at", "cache", "owed"} /\ obj'.name = Closed
  BY <1>1 DEF NoObject
<1>4. CASE disk' = f.disk
  BY <1>1, <1>2, <1>3, <1>4, FlushingsSpare DEF Ready, SameBut, Own
<1>5. CASE gone /\ n \in DOMAIN f.disk /\ disk' = [f.disk EXCEPT ![n] = Absent]
  <2>1. DOMAIN disk' = DOMAIN f.disk /\ \A k \in DOMAIN f.disk : disk'[k] = IF k = n THEN Absent ELSE f.disk[k]
    BY <1>2, <1>5 DEF IsDisk
  <2>2. disk' = [k \in DOMAIN disk' |-> disk'[k]]
    BY <1>5
  <2>3. IsDisk(disk')
    BY <1>2, <2>1, <2>2 DEF IsDisk, IsFile, Absent
  <2>4. Closed \notin DOMAIN disk'
    BY <1>2, <2>1 DEF SameBut, Ready
  <2>5. ASSUME ~ow PROVE Spares(disk, disk')
    <3>1. Spares(disk, f.disk)
      BY <1>1, <2>5, FlushingsSpare
    <3>2. disk[n] # Old
      BY <1>2, <1>5, <2>5 DEF Own, Old, SameBut
    <3>3. QED
      BY <2>1, <3>1, <3>2 DEF Spares, Own, Absent
  <2>6. QED
    BY <1>2, <1>3, <2>1, <2>3, <2>4, <2>5 DEF Ready, Own, SameBut
<1>6. QED
  BY <1>1, <1>4, <1>5 DEF Without

-----------------------------------------------------------------------------
(* The operation *)

NamesSafe ==
  /\ del /\ ~cmd.overwrite => Own(disk, oname)
  /\ st = "outopen" => ~del /\ (~Is(Compressors) => opened)
  /\ Is(Compressors) /\ st \in {"in", "open"} => ~del
  /\ ~Is(Compressors) /\ ~opened => ~del

CodecSafe == Ready(cmd.overwrite) /\ DOMAIN disk = Files /\ NamesSafe

\* What a step has to show: the invariant, and that it spared older files.
StepIsSafe == CodecSafe' /\ (~cmd.overwrite => Spares(disk, disk'))

LEMMA InitSafe == Init => CodecSafe
<1> SUFFICES ASSUME Init PROVE CodecSafe
  OBVIOUS
<1>1. disk \in [Files -> {Absent, Old}] /\ obj = NoObject
  BY DEF Init, OutputInit, Files
<1>2. Closed \notin Files
  <2>1. \E S : cmd.files \in Seq(S)
    BY CodecAssumption DEF Init
  <2>2. Len(cmd.files) \in Nat
    BY <2>1
  <2>3. QED
    BY <2>2 DEF Files, Closed
<1>3. \A n \in Files : IsFile(disk[n])
  BY <1>1 DEF IsFile, Absent, Old
<1>4. Ready(cmd.overwrite)
  BY <1>1, <1>2, <1>3 DEF Ready, IsDisk, NoObject, Own
<1>5. QED
  BY <1>1, <1>4 DEF CodecSafe, NamesSafe, Init

\* Steps that keep the name or delete nothing, whatever they write.
LEMMA LoopStep ==
  ASSUME CodecSafe, UNCHANGED cmd, NEW p, NEW o,
         FlushUnchecked \/ Close \/ WriteWhole(p, o) \/ WritePart(p) \/ UNCHANGED outvars,
         ~del' \/ (del' = del /\ oname' = oname),
         st' = "outopen" => ~del' /\ (~Is(Compressors) => opened'),
         Is(Compressors) /\ st' \in {"in", "open"} => ~del',
         ~Is(Compressors) /\ ~opened' => ~del'
  PROVE  StepIsSafe
<1>1. Ready(cmd.overwrite)' /\ DOMAIN disk' = DOMAIN disk /\ (~cmd.overwrite => Spares(disk, disk'))
  BY CallsSpare DEF CodecSafe, Ready
<1>2. QED
  BY <1>1 DEF CodecSafe, NamesSafe, StepIsSafe, Files, Is, Spares

\* I_OUT_OPEN names nothing: the output was named when nothing was to be deleted.
LEMMA OpenStep == ASSUME CodecSafe, NEW then, then \notin {"in", "open", "outopen"}, OpenOut(then)
                  PROVE  StepIsSafe
<1>1. /\ UNCHANGED <<cmd, opened, oname>> /\ ~del /\ (~Is(Compressors) => opened)
      /\ st' \notin {"in", "open", "outopen"}
  BY DEF OpenOut, At, Goto, GoEnd, CodecSafe, NamesSafe
<1>2. CASE OpenFile(oname, cmd.overwrite)
  <2>1. /\ Ready(cmd.overwrite)' /\ DOMAIN disk' = DOMAIN disk
        /\ ~cmd.overwrite => Spares(disk, disk') /\ Own(disk', oname)
    BY <1>1, <1>2, OpenFileSpares DEF CodecSafe, Ready
  <2>2. QED
    BY <1>1, <2>1 DEF CodecSafe, NamesSafe, StepIsSafe, Files, Is
<1>3. CASE OpenFails(oname, cmd.overwrite) /\ del' = del
  <2>1. /\ Ready(cmd.overwrite)' /\ DOMAIN disk' = DOMAIN disk
        /\ ~cmd.overwrite => Spares(disk, disk')
    BY <1>1, <1>3, OpenFailsSpares DEF CodecSafe, Ready
  <2>2. QED
    BY <1>1, <1>3, <2>1 DEF CodecSafe, NamesSafe, StepIsSafe, Files, Is
<1>4. QED
  BY <1>2, <1>3 DEF OpenOut

\* gz_close(), zst_close(), ...
LEMMA FinishStep == ASSUME CodecSafe, Finish PROVE StepIsSafe
<1>1. UNCHANGED <<cmd, opened, oname, del>> /\ Destroy(del, oname) /\ st' = "over"
  BY DEF Finish, names
<1>2. /\ Ready(cmd.overwrite)' /\ DOMAIN disk' = DOMAIN disk
      /\ ~cmd.overwrite => Spares(disk, disk')
  BY <1>1, DeletesSpare DEF CodecSafe, NamesSafe, Ready
<1>3. QED
  BY <1>1, <1>2 DEF CodecSafe, NamesSafe, StepIsSafe, Files, Is, Spares

\* The states that all of them have.
LEMMA CommonStep ==
  ASSUME CodecSafe, NEW then, then \notin {"in", "open", "outopen"},
         \/ UNCHANGED vars \/ Signal \/ Stop \/ NextInput \/ ReadFails \/ Write(then)
  PROVE  StepIsSafe
<1> USE DEF At, Goto, GoEnd, names, CodecSafe, NamesSafe
<1>1. CASE UNCHANGED vars \/ Signal \/ Stop
  BY <1>1, LoopStep DEF vars, loop, Signal, Stop
<1>2. CASE NextInput \/ ReadFails
  BY <1>2, LoopStep DEF NextInput, ReadFails
<1>3. CASE Write(then)
  BY <1>3, LoopStep DEF Write
<1>4. QED
  BY <1>1, <1>2, <1>3

LEMMA CompressorStep ==
  ASSUME CodecSafe, Is(Compressors),
         \/ GzOpenIn \/ ZstOpenIn \/ ReadPlain \/ GzComp \/ ZstComp
  PROVE  StepIsSafe
<1> USE DEF At, Goto, GoEnd, names, CodecSafe, NamesSafe
<1>1. CASE GzOpenIn \/ ZstOpenIn
  BY <1>1, LoopStep DEF GzOpenIn, ZstOpenIn
<1>2. CASE ReadPlain
  BY <1>2, LoopStep DEF ReadPlain
<1>3. CASE GzComp \/ ZstComp
  BY <1>3, LoopStep DEF GzComp, ZstComp, CodeOut, CodeMore, CodeDone
<1>4. QED
  BY <1>1, <1>2, <1>3

LEMMA DecompressorStep ==
  ASSUME CodecSafe, ~Is(Compressors),
         \/ UngzOpenIn \/ UnxzOpenIn \/ UnzstOpenIn \/ ReadMembers \/ NeedsMore \/ RefusesChunk \/ UnxzRefuses
         \/ UngzDecomp \/ UnxzSeek \/ UnxzDecomp \/ UnzstRead \/ UnzstDecomp
  PROVE  StepIsSafe
<1> USE DEF At, Goto, GoEnd, names, CodecSafe, NamesSafe
<1>1. CASE UngzOpenIn \/ UnxzOpenIn \/ UnzstOpenIn
  BY <1>1, LoopStep DEF UngzOpenIn, UnxzOpenIn, UnzstOpenIn
<1>2. CASE ReadMembers
  BY <1>2, LoopStep DEF ReadMembers
<1>3. CASE NeedsMore \/ RefusesChunk \/ UnxzRefuses \/ UnxzSeek
  BY <1>3, LoopStep DEF NeedsMore, RefusesChunk, UnxzRefuses, Fails, UnxzSeek
<1>4. CASE UngzDecomp
  BY <1>4, LoopStep DEF UngzDecomp, FirstOutput
<1>5. CASE UnxzDecomp
  <2>1. CASE del' = del /\ UNCHANGED <<cmd, opened, oname, outvars>> /\ st' = "code"
    BY <2>1, LoopStep
  <2>2. CASE del' = del /\ UNCHANGED <<cmd, outvars>> /\ FirstOutput("write")
    BY <2>2, LoopStep DEF FirstOutput
  <2>3. CASE ~del' /\ UNCHANGED <<cmd, opened, oname, outvars>> /\ st' = "read"
    BY <2>3, LoopStep
  <2>4. QED
    BY <1>5, <2>1, <2>2, <2>3 DEF UnxzDecomp, FirstOutput
<1>6. CASE UnzstRead
  BY <1>6, LoopStep DEF UnzstRead, FirstOutput
<1>7. CASE UnzstDecomp
  BY <1>7, LoopStep DEF UnzstDecomp
<1>8. QED
  BY <1>1, <1>2, <1>3, <1>4, <1>5, <1>6, <1>7

LEMMA NextStep == ASSUME CodecSafe, [Next]_vars PROVE StepIsSafe
<1>1. CASE UNCHANGED vars \/ Signal \/ Stop \/ Finish
  <2>1. "code" \notin {"in", "open", "outopen"}
    OBVIOUS
  <2>2. QED
    BY <1>1, <2>1, CommonStep, FinishStep
<1>2. CASE GzRun \/ ZstRun
  <2>1. Is(Compressors)
    BY <1>2 DEF GzRun, ZstRun, Is, Compressors
  <2>2. \/ OpenOut("read") \/ NextInput \/ ReadFails \/ Write("code")
        \/ GzOpenIn \/ ZstOpenIn \/ ReadPlain \/ GzComp \/ ZstComp
    BY <1>2 DEF GzRun, ZstRun, CompressorStates
  <2>3. QED
    BY <2>1, <2>2, OpenStep, CommonStep, CompressorStep
<1>3. CASE UngzRun \/ UnxzRun \/ UnzstRun
  <2>1. ~Is(Compressors)
    BY <1>3 DEF UngzRun, UnxzRun, UnzstRun, Is, Compressors
  <2>2. \/ OpenOut("code") \/ OpenOut("write") \/ NextInput \/ ReadFails \/ Write("code")
        \/ UngzOpenIn \/ UnxzOpenIn \/ UnzstOpenIn \/ ReadMembers \/ NeedsMore \/ RefusesChunk \/ UnxzRefuses
        \/ UngzDecomp \/ UnxzSeek \/ UnxzDecomp \/ UnzstRead \/ UnzstDecomp
    BY <1>3 DEF UngzRun, UnxzRun, UnzstRun, DecompressorStates
  <2>3. QED
    BY <2>1, <2>2, OpenStep, CommonStep, DecompressorStep
<1>4. QED
  BY <1>1, <1>2, <1>3 DEF Next, Step

\* The whole invariant, for every command line and every set of failures.
THEOREM CodecInvariant == Spec => []CodecSafe
<1>1. CodecSafe /\ [Next]_vars => CodecSafe'
  BY NextStep DEF StepIsSafe
<1>2. QED
  BY <1>1, InitSafe, PTL DEF Spec

\* Whatever fails, and whenever the operation is stopped, gz, zst, ungz, unxz and
\* unzst leave every older file as it is if there is no --overwrite.
THEOREM CodecSparesOldFiles == Spec => OldFilesStay
<1>1. CodecSafe /\ [Next]_vars =>
        [\A i \in Files : (disk[i] = Old /\ ~cmd.overwrite) => disk'[i] = Old]_vars
  BY NextStep DEF StepIsSafe, CodecSafe, Spares
<1>2. QED
  BY <1>1, CodecInvariant, PTL DEF Spec, OldFilesStay
-----------------------------------------------------------------------------
(* What is in the outputs *)

Closing(f) == f # <<>> /\ (f[Len(f)] = "end" \/ \E k \in DOMAIN f : f[k] = "bad")

\* The command lines that the loops handle: the decompressors but unzst, and zst,
\* keep the state of an input for the next one; ungz overlooks the end of a file
\* that cuts a member behind another, and unzst any cut; unxz makes no file for an
\* archive that is empty.  What follows the last member is not data.
Handles(c) ==
  /\ c.op \in {"zst", "ungz", "unxz"} => Len(c.files) <= 1
  /\ \A i \in DOMAIN c.files :
       LET f == c.files[i] IN
       /\ c.op = "ungz" =>
            IF SeveralMembers(f) THEN Closing(f)
            ELSE \A j, k \in DOMAIN f : f[j] = "end" /\ j < k => f[k] # "data"
       /\ c.op = "unxz" =>
            /\ \A k \in DOMAIN f : f[k] = "end" => k = Len(f)
            /\ \E k \in DOMAIN f : f[k] = "data"
       /\ c.op = "unzst" => Closing(f)

Pairs == Nat \X Nat
Looping == {"in", "open", "outopen", "read", "code", "write"}
Busy == {"outopen", "read", "code", "write"}
Coding == {"read", "code", "write"}

Types ==
  /\ cmd \in Commands /\ Handles(cmd)
  /\ cur \in 0 .. Len(cmd.files) /\ st \in Looping \cup {"end", "over"}
  /\ st \in {"open"} \cup Busy => cur # 0
  /\ rc \in {0, 1} /\ oname \in 0 .. cur
  /\ fin \in BOOLEAN /\ inside \in BOOLEAN /\ whole \in BOOLEAN /\ opened \in BOOLEAN
  /\ del \in BOOLEAN /\ stop \in BOOLEAN
  /\ off \in Nat /\ Len(buf) <= off
  /\ enc \in Seq(Pairs) /\ piece \in Seq(Pairs)
  /\ st = "write" => piece # <<>>

\* The output object and del_on_close.
OutputTypes ==
  /\ DOMAIN disk = Files /\ IsDisk(disk) /\ \A i \in Files : disk[i].kind \in {"absent", "old", "new"}
  /\ DOMAIN obj = {"name", "at", "cache", "owed"} /\ lost \in BOOLEAN
Names ==
  /\ obj.name \in 0 .. cur
  /\ st = "write" => IsOpen
  /\ del => cur # 0 /\ oname = cur /\ (IsOpen => obj.name = cur)
  /\ st \in {"in", "open"} \/ (st = "end" /\ rc = 0) => ~del

\* What was read follows the chunks that were consumed.
Follow(b, n) == \A k \in 1 .. Len(b) : b[k] = n + k
Reading ==
  /\ buf \in Seq(Nat)
  /\ st \in Busy => off <= Len(Input) /\ Follow(buf, off - Len(buf))
  /\ st \in {"in", "open", "read"} => buf = <<>>

\* What the callers wrote to the open file, and what the output of an input will be
\* when it is closed.
Stream == [k \in 1 .. obj.at |-> IF k <= Len(disk[obj.name].has) THEN disk[obj.name].has[k] ELSE obj.cache[k - 1]]
Contents(i) == IF obj.name = i THEN Stream ELSE disk[i].has

Layers ==
  /\ obj.at \in Nat
  /\ \A i \in Files : disk[i].has \in Seq(Pairs)
  /\ IsOpen =>
       /\ obj.name \in Files /\ disk[obj.name].kind = "new" /\ Len(disk[obj.name].has) <= obj.at
       /\ DOMAIN obj.cache = Len(disk[obj.name].has) .. obj.at - 1
       /\ \A o \in DOMAIN obj.cache : obj.cache[o] \in Pairs
  /\ ~IsOpen => obj.cache = Empty
Owes == st \in Looping => obj.owed = Nothing \/ (st = "write" /\ obj.owed = piece[1])

\* A compressor: what it has written, is writing and holds are the first n chunks of
\* the input, of which the last one stands for what closes the file.
Lists(f, c, x, at) == \A k \in 1 .. Len(x) : x[k] = IF at + k <= Len(f) THEN <<c, at + k>> ELSE <<c, 0>>
Accounts(f, c, n, s, p, e) ==
  /\ n <= Len(f) + 1 /\ Len(s) + Len(p) + Len(e) = n
  /\ Lists(f, c, s, 0) /\ Lists(f, c, p, Len(s)) /\ Lists(f, c, e, Len(s) + Len(p))
Pending == IF st = "write" THEN piece ELSE <<>>
Given == off - Len(buf) + (IF whole THEN 1 ELSE 0)

Fresh == enc = <<>> /\ ~fin /\ ~whole
Encodes ==
  /\ obj.name = cur /\ oname = cur /\ del
  /\ fin => off = Len(Input)
  /\ whole => fin /\ enc = <<>> /\ buf = <<>>
  /\ st = "read" => ~fin
  /\ st = "write" => enc = <<>> /\ buf = <<>>
  /\ ~lost => Accounts(Input, cur, Given, Contents(cur), Pending, enc)
Compressing ==
  /\ Is({"zst"}) /\ (st = "open" \/ (st = "in" /\ cur = 0)) => Fresh
  /\ st = "outopen" => oname = cur /\ off = 0 /\ buf = <<>> /\ ~del /\ Fresh
  /\ st \in Coding => Encodes

\* A decompressor: how many chunks it has consumed, and that these are members.
Consumed == IF Is({"unxz"}) /\ ~fin /\ ~whole THEN 0 ELSE off - Len(buf)
Parsed(f, n, within) ==
  /\ \A k \in 1 .. n : f[k] # "bad"
  /\ n # 0 => f[1] = "head"
  /\ \A k \in 1 .. n - 1 : f[k] = "end" <=> f[k + 1] = "head"
  /\ within <=> n # 0 /\ f[n] # "end"
NoData(f, n) == \A k \in 1 .. n : f[k] # "data"
Ended(f, n) == \E k \in 1 .. n : f[k] = "end"
IsPiece(n) == n # 0 /\ Input[n] = "data" /\ piece = << <<cur, n>> >>

\* Nothing was opened for this input.
NotOpened(n) ==
  /\ ~del /\ st \in {"read", "code"} /\ NoData(Input, n)
  /\ ~Is({"unxz"}) => n = 0
  /\ Is({"unzst"}) => st = "read"
\* The output is about to be opened ...
Opens(n) ==
  /\ opened /\ ~del /\ oname = cur /\ (~Is({"unzst"}) => ~whole)
  /\ IF Is({"unxz"}) THEN IsPiece(n) /\ NoData(Input, n - 1) ELSE NoData(Input, n)
\* ... and is.
Decodes(n) ==
  /\ opened /\ obj.name = cur /\ oname = cur
  /\ ~del => ~Is({"unzst"}) /\ Ended(Input, n)
  /\ st = "write" => IsPiece(n)
  /\ ~lost => DataUpTo(Input, cur, IF st = "write" THEN n - 1 ELSE n, Contents(cur))

Members(n) ==
  /\ Parsed(Input, n, inside)
  /\ IF st = "outopen" THEN Opens(n) ELSE IF opened THEN Decodes(n) ELSE NotOpened(n)
  /\ opened /\ Is({"ungz"}) => n # 0
  /\ ~Is({"unzst"}) /\ whole => ~del /\ Ended(Input, n)
  /\ Is({"unxz"}) /\ whole => st = "read"
Decompressing ==
  /\ st = "open" \/ (st = "in" /\ (cur = 0 \/ Is({"unzst"}))) => ~opened /\ ~inside
  /\ ~Is({"unzst"}) /\ (st = "open" \/ (st = "in" /\ cur = 0)) => off = 0 /\ ~fin /\ ~whole
  /\ st \in Busy => Members(Consumed)

\* The outputs: those of earlier inputs are whole, there are none of later ones.
Done(i) ==
  /\ Is(Compressors) \/ Decodable(cmd.files[i])
  /\ disk[i].kind = "new" /\ WholeOutput(i, Contents(i))
Exempt(i) == Is({"ungz"}) /\ SeveralMembers(cmd.files[i])
Unmade(i) == i > cur \/ (i = cur /\ (st \in {"open", "outopen"} \/ (st \in Busy /\ ~Is(Compressors) /\ ~opened)))
NoHalf(i) == disk[i].kind = "new" => (st = "end" /\ del /\ oname = i) \/ WholeOutput(i, Contents(i)) \/ Exempt(i)
Results ==
  \A i \in Files :
    /\ i < cur \/ (i = cur /\ st = "in") \/ (st \in {"end", "over"} /\ rc = 0) => Done(i)
    /\ Unmade(i) => disk[i].kind # "new"
    /\ st \in {"end", "over"} => NoHalf(i)

CInv ==
  /\ Types /\ OutputTypes /\ Names /\ Reading
  /\ Is(Compressors) => Compressing
  /\ ~Is(Compressors) => Decompressing
  /\ ~lost => Layers /\ Owes /\ Results
  /\ st = "over" => obj = NoObject


-----------------------------------------------------------------------------
(* Accounts of a compressor *)

\* Sequences one after the other.
LEMMA Joined ==
  ASSUME NEW S, NEW a \in Seq(S), NEW b \in Seq(S)
  PROVE  /\ a \o b \in Seq(S) /\ Len(a \o b) = Len(a) + Len(b)
         /\ \A k \in 1 .. Len(a) + Len(b) : (a \o b)[k] = IF k <= Len(a) THEN a[k] ELSE b[k - Len(a)]
OBVIOUS

LEMMA Appended ==
  ASSUME NEW S, NEW a \in Seq(S), NEW x \in S
  PROVE  /\ Append(a, x) \in Seq(S) /\ Len(Append(a, x)) = Len(a) + 1
         /\ \A k \in 1 .. Len(a) : Append(a, x)[k] = a[k]
         /\ Append(a, x)[Len(a) + 1] = x
OBVIOUS

LEMMA Made ==
  ASSUME NEW S, NEW n \in Nat, NEW x \in [1 .. n -> S]
  PROVE  x \in Seq(S) /\ Len(x) = n
OBVIOUS

LEMMA NoneOf == Len(<<>>) = 0 /\ <<>> \in Seq(Pairs) /\ \A f, c, at : Lists(f, c, <<>>, at)
BY DEF Lists

\* Nothing was read yet.
LEMMA AccountsNone ==
  ASSUME NEW c \in Nat, NEW f \in Seq({"data"})
  PROVE  Accounts(f, c, 0, <<>>, <<>>, <<>>)
<1>1. Len(f) \in Nat
  OBVIOUS
<1>2. QED
  BY <1>1, NoneOf DEF Accounts

\* The encoder is fed the chunks that were read, ...
LEMMA AccountsFeed ==
  ASSUME NEW c \in Nat, NEW f, Len(f) \in Nat, NEW s \in Seq(Pairs), NEW e \in Seq(Pairs),
         NEW n \in Nat, NEW b, Len(b) \in Nat, n + Len(b) <= Len(f),
         Follow(b, n),
         Accounts(f, c, n, s, <<>>, e)
  PROVE  LET d == e \o [k \in 1 .. Len(b) |-> <<c, b[k]>>] IN
         /\ d \in Seq(Pairs) /\ Accounts(f, c, n + Len(b), s, <<>>, d)
<1>1. Len(f) \in Nat /\ Len(b) \in Nat /\ Len(s) \in Nat /\ Len(e) \in Nat
  OBVIOUS
<1>2. PICK x : x = [k \in 1 .. Len(b) |-> <<c, b[k]>>]
  OBVIOUS
<1>3. x \in Seq(Pairs) /\ Len(x) = Len(b) /\ \A k \in 1 .. Len(b) : x[k] = <<c, n + k>>
  <2>1. \A k \in 1 .. Len(b) : <<c, b[k]>> \in Pairs
    BY DEF Pairs, Follow
  <2>2. x \in [1 .. Len(b) -> Pairs]
    BY <1>2, <2>1
  <2>3. QED
    <3>1. x \in Seq(Pairs) /\ Len(x) = Len(b)
      BY <1>1, <2>2, Made
    <3>2. \A k \in 1 .. Len(b) : x[k] = <<c, n + k>>
      BY <1>2 DEF Follow
    <3>3. QED
      BY <3>1, <3>2
<1>4. PICK d : d = e \o x
  OBVIOUS
<1>5. /\ d \in Seq(Pairs) /\ Len(d) = Len(e) + Len(b)
      /\ \A k \in 1 .. Len(e) + Len(b) : d[k] = IF k <= Len(e) THEN e[k] ELSE x[k - Len(e)]
  <2>1. /\ e \o x \in Seq(Pairs) /\ Len(e \o x) = Len(e) + Len(x)
        /\ \A k \in 1 .. Len(e) + Len(x) : (e \o x)[k] = IF k <= Len(e) THEN e[k] ELSE x[k - Len(e)]
    <3>1. x \in Seq(Pairs)
      BY <1>3
    <3>2. QED
      BY <3>1, Joined, Zenon
  <2>2. QED
    BY <2>1, <1>3, <1>4
<1>6. /\ Len(s) + Len(e) = n /\ Lists(f, c, s, 0) /\ Lists(f, c, <<>>, Len(s))
      /\ \A k \in 1 .. Len(e) : e[k] = IF Len(s) + k <= Len(f) THEN <<c, Len(s) + k>> ELSE <<c, 0>>
  <2>1. Len(s) + 0 = Len(s)
    BY <1>1
  <2>2. QED
    BY <2>1, <1>1, NoneOf DEF Accounts, Lists
<1>7. ASSUME NEW k \in 1 .. Len(d)
      PROVE  d[k] = IF Len(s) + k <= Len(f) THEN <<c, Len(s) + k>> ELSE <<c, 0>>
  <2> k \in Nat /\ 1 <= k /\ k <= Len(e) + Len(b) /\ k \in 1 .. Len(e) + Len(b)
    BY <1>1, <1>5
  <2>1. CASE k <= Len(e)
    <3>1. k \in 1 .. Len(e) /\ d[k] = e[k]
      BY <2>1, <1>1, <1>5
    <3>2. QED
      BY <3>1, <1>6
  <2>2. CASE ~(k <= Len(e))
    <3>1. PICK j : j = k - Len(e)
      OBVIOUS
    <3>2. j \in 1 .. Len(b) /\ n + j = Len(s) + k /\ Len(s) + k <= Len(f)
      <4>1. Len(s) + Len(e) = n
        BY <1>6
      <4>2. QED
        BY <2>2, <3>1, <1>1, <4>1
    <3>3. d[k] = x[j] /\ x[j] = <<c, n + j>>
      BY <3>1, <3>2, <2>2, <1>3, <1>5
    <3>4. QED
      BY <3>2, <3>3
  <2>3. QED
    BY <2>1, <2>2
<1>8. Lists(f, c, d, Len(s))
  BY <1>7 DEF Lists
<1>9. Len(s) + Len(<<>>) = Len(s) /\ Len(s) + Len(<<>>) + Len(d) = n + Len(b)
  <2>1. Len(d) = Len(e) + Len(b) /\ Len(s) + Len(e) = n /\ Len(<<>>) = 0
    BY <1>5, <1>6, NoneOf
  <2>2. QED
    BY <2>1, <1>1
<1>10. Accounts(f, c, n + Len(b), s, <<>>, d)
  BY <1>1, <1>6, <1>8, <1>9 DEF Accounts
<1>11. QED
  BY <1>2, <1>4, <1>5, <1>10

\* ... gives what it holds, ...
LEMMA AccountsOut ==
  ASSUME NEW c, NEW f \in Seq({"data"}), NEW s \in Seq(Pairs), NEW e \in Seq(Pairs), NEW n \in Nat,
         Accounts(f, c, n, s, <<>>, e)
  PROVE  Accounts(f, c, n, s, e, <<>>)
<1>1. Len(s) \in Nat /\ Len(e) \in Nat
  OBVIOUS
<1>2. Len(s) + Len(<<>>) = Len(s) /\ Len(s) + Len(e) + Len(<<>>) = Len(s) + Len(<<>>) + Len(e)
  BY <1>1, NoneOf
<1>3. QED
  BY <1>2, NoneOf DEF Accounts

\* ... and closes the file when it has the whole of the input.
LEMMA AccountsEnd ==
  ASSUME NEW c \in Nat, NEW f \in Seq({"data"}), NEW s \in Seq(Pairs), NEW e \in Seq(Pairs),
         Accounts(f, c, Len(f), s, <<>>, e)
  PROVE  /\ Append(e, <<c, 0>>) \in Seq(Pairs)
         /\ Accounts(f, c, Len(f) + 1, s, Append(e, <<c, 0>>), <<>>)
<1>1. Len(f) \in Nat /\ Len(s) \in Nat /\ Len(e) \in Nat
  OBVIOUS
<1>2. <<c, 0>> \in Pairs
  BY DEF Pairs
<1>3. PICK d : d = Append(e, <<c, 0>>)
  OBVIOUS
<1>4. /\ d \in Seq(Pairs) /\ Len(d) = Len(e) + 1
      /\ d[Len(e) + 1] = <<c, 0>> /\ \A k \in 1 .. Len(e) : d[k] = e[k]
  BY <1>2, <1>3, Appended
<1>5. /\ Len(s) + Len(e) = Len(f) /\ Lists(f, c, s, 0)
      /\ \A k \in 1 .. Len(e) : e[k] = IF Len(s) + k <= Len(f) THEN <<c, Len(s) + k>> ELSE <<c, 0>>
  <2>1. Len(s) + 0 = Len(s)
    BY <1>1
  <2>2. QED
    BY <2>1, <1>1, NoneOf DEF Accounts, Lists
<1>6. ASSUME NEW k \in 1 .. Len(d)
      PROVE  d[k] = IF Len(s) + k <= Len(f) THEN <<c, Len(s) + k>> ELSE <<c, 0>>
  <2>1. CASE k \in 1 .. Len(e)
    BY <2>1, <1>4, <1>5
  <2>2. CASE k = Len(e) + 1
    <3>1. ~(Len(s) + k <= Len(f))
      BY <2>2, <1>1, <1>5
    <3>2. QED
      BY <2>2, <3>1, <1>4
  <2>3. QED
    BY <2>1, <2>2, <1>1, <1>4
<1>7. Lists(f, c, d, Len(s))
  BY <1>6 DEF Lists
<1>8. Len(s) + Len(d) + Len(<<>>) = Len(f) + 1
  BY <1>1, <1>4, <1>5, NoneOf
<1>9. Accounts(f, c, Len(f) + 1, s, d, <<>>)
  BY <1>1, <1>5, <1>7, <1>8, NoneOf DEF Accounts
<1>10. QED
  BY <1>3, <1>4, <1>9

\* A piece is written.
LEMMA AccountsWrite ==
  ASSUME NEW c, NEW f \in Seq({"data"}), NEW s \in Seq(Pairs), NEW p \in Seq(Pairs), p # <<>>,
         NEW n \in Nat, Accounts(f, c, n, s, p, <<>>)
  PROVE  Accounts(f, c, n, Append(s, p[1]), Tail(p), <<>>)
<1>1. Len(f) \in Nat /\ Len(s) \in Nat /\ Len(p) \in Nat \ {0} /\ p[1] \in Pairs
  OBVIOUS
<1>2. PICK t, q : t = Append(s, p[1]) /\ q = Tail(p)
  OBVIOUS
<1>3. /\ t \in Seq(Pairs) /\ Len(t) = Len(s) + 1 /\ t[Len(s) + 1] = p[1] /\ \A k \in 1 .. Len(s) : t[k] = s[k]
  BY <1>1, <1>2, Appended
<1>4. /\ q \in Seq(Pairs) /\ Len(q) = Len(p) - 1 /\ \A k \in 1 .. Len(q) : q[k] = p[k + 1]
  BY <1>1, <1>2
<1>5. /\ Len(s) + Len(p) = n /\ n <= Len(f) + 1
      /\ \A k \in 1 .. Len(p) : p[k] = IF Len(s) + k <= Len(f) THEN <<c, Len(s) + k>> ELSE <<c, 0>>
      /\ \A k \in 1 .. Len(s) : s[k] = IF 0 + k <= Len(f) THEN <<c, 0 + k>> ELSE <<c, 0>>
  <2>1. Lists(f, c, p, Len(s)) /\ Lists(f, c, s, 0)
    BY DEF Accounts
  <2>2. Len(s) + Len(p) = n /\ n <= Len(f) + 1
    BY <1>1, NoneOf DEF Accounts
  <2>3. \A k \in 1 .. Len(p) : p[k] = IF Len(s) + k <= Len(f) THEN <<c, Len(s) + k>> ELSE <<c, 0>>
    BY <2>1 DEF Lists
  <2>4. \A k \in 1 .. Len(s) : s[k] = IF 0 + k <= Len(f) THEN <<c, 0 + k>> ELSE <<c, 0>>
    BY <2>1 DEF Lists
  <2>5. QED
    BY <2>2, <2>3, <2>4
<1>6. ASSUME NEW k \in 1 .. Len(q)
      PROVE  q[k] = IF Len(t) + k <= Len(f) THEN <<c, Len(t) + k>> ELSE <<c, 0>>
  <2>1. k + 1 \in 1 .. Len(p) /\ Len(t) + k = Len(s) + (k + 1) /\ q[k] = p[k + 1]
    BY <1>1, <1>3, <1>4
  <2>2. QED
    BY <2>1, <1>5
<1>7. ASSUME NEW k \in 1 .. Len(t)
      PROVE  t[k] = IF 0 + k <= Len(f) THEN <<c, 0 + k>> ELSE <<c, 0>>
  <2>1. CASE k \in 1 .. Len(s)
    BY <2>1, <1>3, <1>5
  <2>2. CASE k = Len(s) + 1
    <3>1. 1 \in 1 .. Len(p) /\ 0 + k = Len(s) + 1
      BY <2>2, <1>1
    <3>2. QED
      BY <2>2, <3>1, <1>3, <1>5
  <2>3. QED
    BY <2>1, <2>2, <1>1, <1>3
<1>8. Len(t) + Len(q) + Len(<<>>) = n
  <2>1. Len(t) = Len(s) + 1 /\ Len(q) = Len(p) - 1 /\ Len(s) + Len(p) = n /\ Len(<<>>) = 0
    BY <1>3, <1>4, <1>5, NoneOf
  <2>2. QED
    BY <2>1, <1>1
<1>9. Lists(f, c, t, 0) /\ Lists(f, c, q, Len(t))
  BY <1>6, <1>7 DEF Lists
<1>10. QED
  BY <1>2, <1>5, <1>8, <1>9, NoneOf DEF Accounts

\* Nothing is left: the output is whole.
LEMMA AccountsWhole ==
  ASSUME NEW c \in Nat, NEW f \in Seq({"data"}), NEW s \in Seq(Pairs), Accounts(f, c, Len(f) + 1, s, <<>>, <<>>)
  PROVE  s # <<>> /\ Last(s) = <<c, 0>> /\ DataUpTo(f, c, Len(f), Front(s))
<1>1. Len(f) \in Nat /\ Len(s) = Len(f) + 1
      /\ \A k \in 1 .. Len(s) : s[k] = IF 0 + k <= Len(f) THEN <<c, 0 + k>> ELSE <<c, 0>>
  BY NoneOf DEF Accounts, Lists
<1>2. s # <<>> /\ Last(s) = <<c, 0>>
  BY <1>1 DEF Last
<1>3. PICK t : t = Front(s)
  OBVIOUS
<1>4. DOMAIN t = 1 .. Len(f) /\ \A k \in 1 .. Len(f) : t[k] = <<c, k>>
  <2>1. t = SubSeq(s, 1, Len(f))
    BY <1>1, <1>3 DEF Front
  <2>2. DOMAIN t = 1 .. Len(f) /\ \A k \in 1 .. Len(f) : t[k] = s[k]
    BY <1>1, <2>1
  <2>3. QED
    BY <1>1, <2>2
<1>5. \A q \in 1 .. Len(f) : f[q] = "data"
  OBVIOUS
<1>6. DataUpTo(f, c, Len(f), t)
  <2>1. {q \in 1 .. Len(f) : f[q] = "data"} = 1 .. Len(f)
    BY <1>5
  <2> DEFINE D == {<<c, p>> : p \in 1 .. Len(f)}
  <2>2. \A k \in DOMAIN t : t[k] \in D
    BY <1>4
  <2>3. \A d \in D : \E k \in DOMAIN t : t[k] = d
    BY <1>4
  <2>4. \A k, l \in DOMAIN t : k < l => t[k][2] < t[l][2]
    BY <1>4
  <2>5. QED
    BY <2>1, <2>2, <2>3, <2>4 DEF DataUpTo
<1>7. QED
  BY <1>2, <1>3, <1>6

-----------------------------------------------------------------------------
(* What a decompressor has consumed *)

\* What the library does not refuse makes members.
LEMMA ParsedNext ==
  ASSUME NEW f \in Seq(Chunks), NEW n \in Nat, n + 1 <= Len(f), NEW within \in BOOLEAN, Parsed(f, n, within),
         f[n + 1] # "bad", ~(f[n + 1] = "head" <=> within)
  PROVE  Parsed(f, n + 1, f[n + 1] # "end")
<1>1. CASE n = 0
  BY <1>1 DEF Parsed
<1>2. CASE n # 0
  <2>1. f[n] = "end" <=> f[n + 1] = "head"
    BY <1>2 DEF Parsed
  <2>2. \A k \in 1 .. n : f[k] = "end" <=> f[k + 1] = "head"
    BY <2>1, <1>2 DEF Parsed
  <2>3. QED
    BY <2>2, <1>2 DEF Parsed
<1>3. QED
  BY <1>1, <1>2

LEMMA ParsedNone ==
  ASSUME NEW f
  PROVE  Parsed(f, 0, FALSE) /\ NoData(f, 0)
BY DEF Parsed, NoData

LEMMA ParsedDecodable ==
  ASSUME NEW f \in Seq(Chunks), NEW within, Parsed(f, Len(f), within), f # <<>>, f[Len(f)] = "end"
  PROVE  Decodable(f)
<1>1. Len(f) \in Nat \ {0} /\ DOMAIN f = 1 .. Len(f)
  OBVIOUS
<1>2. "bad" \notin ToSet(f)
  BY <1>1 DEF Parsed, ToSet
<1>3. f[1] = "head" /\ Last(f) = "end"
  BY <1>1 DEF Parsed, Last
<1>4. QED
  BY <1>1, <1>2, <1>3 DEF Decodable, Parsed

\* A chunk that is not data adds nothing, ...
LEMMA DataSkip ==
  ASSUME NEW f, NEW c, NEW n \in Nat, NEW s, f[n + 1] # "data"
  PROVE  DataUpTo(f, c, n + 1, s) <=> DataUpTo(f, c, n, s)
<1>1. {q \in 1 .. n + 1 : f[q] = "data"} = {q \in 1 .. n : f[q] = "data"}
  OBVIOUS
<1>2. QED
  BY <1>1 DEF DataUpTo

\* ... nor do several of them, ...
LEMMA DataSame ==
  ASSUME NEW f, NEW c, NEW n \in Nat, NEW m \in Nat, n <= m, NEW s, \A k \in n + 1 .. m : f[k] # "data"
  PROVE  DataUpTo(f, c, m, s) <=> DataUpTo(f, c, n, s)
<1>1. {q \in 1 .. m : f[q] = "data"} = {q \in 1 .. n : f[q] = "data"}
  OBVIOUS
<1>2. QED
  BY <1>1 DEF DataUpTo

\* ... and data is the next piece.
LEMMA DataNext ==
  ASSUME NEW f, NEW c \in Nat, NEW n \in Nat \ {0}, NEW s \in Seq(Pairs), f[n] = "data", DataUpTo(f, c, n - 1, s)
  PROVE  DataUpTo(f, c, n, Append(s, <<c, n>>))
<1> DEFINE D(m) == {<<c, p>> : p \in {q \in 1 .. m : f[q] = "data"}}
<1>1. \A d : d \in D(n) <=> d \in D(n - 1) \/ d = <<c, n>>
  OBVIOUS
<1>2. <<c, n>> \in Pairs /\ Len(s) \in Nat
  BY DEF Pairs
<1>3. PICK t : t = Append(s, <<c, n>>)
  OBVIOUS
<1>4. /\ DOMAIN s = 1 .. Len(s) /\ DOMAIN t = 1 .. Len(s) + 1
      /\ t[Len(s) + 1] = <<c, n>> /\ \A k \in 1 .. Len(s) : t[k] = s[k]
  BY <1>2, <1>3
<1>5. /\ \A k \in DOMAIN s : s[k] \in D(n - 1)
      /\ \A d \in D(n - 1) : \E k \in DOMAIN s : s[k] = d
      /\ \A k, l \in DOMAIN s : k < l => s[k][2] < s[l][2]
  BY DEF DataUpTo
<1>6. \A d \in D(n - 1) : d[2] \in 1 .. n - 1
  OBVIOUS
<1> HIDE DEF D
<1>7. \A k \in DOMAIN t : t[k] \in D(n)
  BY <1>1, <1>2, <1>4, <1>5
<1>8. \A d \in D(n) : \E k \in DOMAIN t : t[k] = d
  <2>1. SUFFICES ASSUME NEW d \in D(n) PROVE \E k \in DOMAIN t : t[k] = d
    OBVIOUS
  <2>2. CASE d = <<c, n>>
    BY <2>2, <1>2, <1>4
  <2>3. CASE d \in D(n - 1)
    <3>1. PICK k \in DOMAIN s : s[k] = d
      BY <2>3, <1>5
    <3>2. k \in DOMAIN t /\ t[k] = d
      BY <3>1, <1>2, <1>4
    <3>3. QED
      BY <3>2
  <2>4. QED
    BY <2>2, <2>3, <1>1
<1>9. \A k, l \in DOMAIN t : k < l => t[k][2] < t[l][2]
  <2>1. SUFFICES ASSUME NEW k \in DOMAIN t, NEW l \in DOMAIN t, k < l PROVE t[k][2] < t[l][2]
    OBVIOUS
  <2>2. k \in DOMAIN s /\ t[k] = s[k]
    BY <2>1, <1>2, <1>4
  <2>3. CASE l \in DOMAIN s
    BY <2>1, <2>2, <2>3, <1>4, <1>5
  <2>4. CASE l = Len(s) + 1
    <3>1. t[l] = <<c, n>> /\ s[k][2] \in 1 .. n - 1
      BY <2>2, <2>4, <1>4, <1>5, <1>6
    <3>2. t[l][2] = n
      BY <3>1
    <3>3. QED
      BY <2>2, <3>1, <3>2
  <2>5. QED
    BY <2>3, <2>4, <1>2, <1>4
<1>10. DataUpTo(f, c, n, t)
  BY <1>7, <1>8, <1>9 DEF DataUpTo, D
<1>11. QED
  BY <1>3, <1>10

LEMMA DataNone ==
  ASSUME NEW f, NEW c, NEW n \in Nat, NoData(f, n)
  PROVE  DataUpTo(f, c, n, <<>>)
<1>1. {q \in 1 .. n : f[q] = "data"} = {}
  BY DEF NoData
<1>2. DOMAIN <<>> = {}
  OBVIOUS
<1>3. QED
  BY <1>1, <1>2 DEF DataUpTo
-----------------------------------------------------------------------------
(* What the calls of the output object do to the outputs *)

\* A call that leaves every output but those of S as they are.
KeepsBut(S) ==
  /\ OutputTypes' /\ (lost => lost') /\ (~lost' => Layers')
  /\ \A i \in Files \ S : disk'[i].kind = disk[i].kind /\ (~lost' => Contents(i)' = Contents(i))

LEMMA FilesTyped ==
  ASSUME Types
  PROVE  /\ Len(cmd.files) \in Nat /\ Closed \notin Files
         /\ \A i \in Files : cmd.files[i] \in Seq(Chunks) /\ Len(cmd.files[i]) \in Nat
         /\ Is(Compressors) => \A i \in Files : cmd.files[i] \in Seq({"data"})
<1>1. cmd.files \in Seq(Seq(IF cmd.op \in Compressors THEN {"data"} ELSE Chunks))
  BY CodecAssumption DEF Types
<1>2. Len(cmd.files) \in Nat /\ \A i \in Files : cmd.files[i] \in Seq(IF cmd.op \in Compressors THEN {"data"} ELSE Chunks)
  BY <1>1 DEF Files
<1>3. ASSUME NEW f \in Seq({"data"}) PROVE f \in Seq(Chunks)
  BY <1>3 DEF Chunks
<1>4. \A i \in Files : cmd.files[i] \in Seq(Chunks)
  BY <1>2, <1>3
<1>5. \A i \in Files : Len(cmd.files[i]) \in Nat
  BY <1>4
<1>6. Is(Compressors) => \A i \in Files : cmd.files[i] \in Seq({"data"})
  BY <1>2 DEF Is
<1>7. QED
  BY <1>2, <1>4, <1>5, <1>6 DEF Files, Closed

LEMMA GreatestOf == ASSUME NEW S, NEW m \in S, S \subseteq Int, \A x \in S : m >= x PROVE Max(S) = m
<1>1. \A x \in S : (\A y \in S : x >= y) => x = m
  OBVIOUS
<1>2. \E x \in S : \A y \in S : x >= y
  OBVIOUS
<1>3. QED
  BY <1>1, <1>2 DEF Max

\* What was written to the open file is a sequence, ...
LEMMA StreamTyped ==
  ASSUME OutputTypes, Layers, IsOpen
  PROVE  Stream \in Seq(Pairs) /\ Len(Stream) = obj.at
<1>1. PICK h : h = disk[obj.name].has
  OBVIOUS
<1>2. h \in Seq(Pairs) /\ Len(h) \in Nat /\ Len(h) <= obj.at /\ obj.at \in Nat
  BY <1>1 DEF Layers
<1>3. DOMAIN obj.cache = Len(h) .. obj.at - 1 /\ \A o \in DOMAIN obj.cache : obj.cache[o] \in Pairs
  BY <1>1 DEF Layers
<1>4. ASSUME NEW k \in 1 .. obj.at
      PROVE  (IF k <= Len(h) THEN h[k] ELSE obj.cache[k - 1]) \in Pairs
  <2>1. CASE k <= Len(h)
    BY <2>1, <1>2
  <2>2. CASE ~(k <= Len(h))
    <3>1. k - 1 \in DOMAIN obj.cache
      BY <2>2, <1>2, <1>3
    <3>2. QED
      BY <2>2, <3>1, <1>3
  <2>3. QED
    BY <2>1, <2>2
<1>5. Stream \in [1 .. obj.at -> Pairs]
  BY <1>1, <1>4 DEF Stream
<1>6. QED
  BY <1>2, <1>5, Made

\* ... which file_flush() makes the file's contents.
LEMMA FlushedIs ==
  ASSUME OutputTypes, Layers, IsOpen
  PROVE  Flushed(disk[obj.name].has) = Stream
<1>1. PICK h : h = disk[obj.name].has
  OBVIOUS
<1>2. h \in Seq(Pairs) /\ Len(h) \in Nat /\ Len(h) <= obj.at /\ obj.at \in Nat
  BY <1>1 DEF Layers
<1>3. DOMAIN obj.cache = Len(h) .. obj.at - 1
  BY <1>1 DEF Layers
<1> DEFINE S == {Len(h)} \cup {o + 1 : o \in DOMAIN obj.cache}
<1>4. Max(S) = obj.at
  <2>1. \A x : x \in S <=> x = Len(h) \/ x \in Len(h) + 1 .. obj.at
    <3>1. \A x : x \in {o + 1 : o \in DOMAIN obj.cache} <=> x \in Len(h) + 1 .. obj.at
      <4>1. \A o \in DOMAIN obj.cache : o + 1 \in Len(h) + 1 .. obj.at
        BY <1>2, <1>3
      <4>2. \A x \in Len(h) + 1 .. obj.at : x - 1 \in DOMAIN obj.cache /\ x = (x - 1) + 1
        BY <1>2, <1>3
      <4>3. QED
        BY <4>1, <4>2
    <3>2. QED
      BY <3>1
  <2>2. obj.at \in S /\ S \subseteq Int /\ \A x \in S : obj.at >= x
    BY <2>1, <1>2
  <2>3. QED
    BY <2>2, GreatestOf
<1>5. ASSUME NEW k \in 1 .. obj.at
      PROVE  (IF k - 1 \in DOMAIN obj.cache THEN obj.cache[k - 1] ELSE IF k <= Len(h) THEN h[k] ELSE Gap)
             = (IF k <= Len(h) THEN h[k] ELSE obj.cache[k - 1])
  <2>1. k - 1 \in DOMAIN obj.cache <=> ~(k <= Len(h))
    BY <1>2, <1>3
  <2>2. QED
    BY <2>1
<1>6. Flushed(h) = [k \in 1 .. Max(S) |->
        IF k - 1 \in DOMAIN obj.cache THEN obj.cache[k - 1] ELSE IF k <= Len(h) THEN h[k] ELSE Gap]
  BY DEF Flushed
<1>7. Stream = [k \in 1 .. obj.at |-> IF k <= Len(h) THEN h[k] ELSE obj.cache[k - 1]]
  BY <1>1 DEF Stream
<1> HIDE DEF S
<1>8. QED
  BY <1>1, <1>4, <1>5, <1>6, <1>7

LEMMA EmptyIs == DOMAIN Empty = {}
BY DEF Empty

\* What one flush leaves, if it does not fail.
LEMMA FlushGives ==
  ASSUME Types, OutputTypes, Layers, NEW f \in Flushings, ~f.err
  PROVE  /\ f.cache = Empty
         /\ \A i \in Files : f.disk[i].has = Contents(i)
<1>1. CASE IsOpen
  <2>1. f.cache = Empty /\ f.disk = [disk EXCEPT ![obj.name].has = Flushed(@)]
    BY <1>1 DEF Flushings
  <2>2. f.disk = [disk EXCEPT ![obj.name].has = Stream]
    BY <2>1, <1>1, FlushedIs
  <2>3. DOMAIN disk = Files /\ IsDisk(disk)
    BY DEF OutputTypes
  <2> HIDE DEF Stream
  <2>4. \A i \in Files : f.disk[i].has = IF i = obj.name THEN Stream ELSE disk[i].has
    BY <2>2, <2>3 DEF IsDisk, IsFile
  <2>5. QED
    BY <2>1, <2>4 DEF Contents
<1>2. CASE ~IsOpen
  <2>1. f.cache = Empty /\ f.disk = disk
    BY <1>2 DEF Flushings, Layers
  <2>2. obj.name \notin Files
    BY <1>2, FilesTyped DEF IsOpen
  <2>3. QED
    BY <2>1, <2>2 DEF Contents
<1>3. QED
  BY <1>1, <1>2

\* Outputs are pieces, those in the object too.
LEMMA ContentsTyped ==
  ASSUME Types, OutputTypes, Layers, NEW i \in Files
  PROVE  Contents(i) \in Seq(Pairs)
<1>1. CASE obj.name = i /\ IsOpen
  BY <1>1, StreamTyped DEF Contents
<1>2. CASE obj.name # i
  BY <1>2 DEF Contents, Layers
<1>3. CASE ~IsOpen /\ obj.name = i
  BY <1>3, FilesTyped DEF IsOpen
<1>4. QED
  BY <1>1, <1>2, <1>3

\* Once it is flushed, the object may be closed or go on.
LEMMA FlushKeeps ==
  ASSUME Types, OutputTypes, ~lost => Layers, UNCHANGED cmd,
         NEW f \in Flushings, disk' = f.disk, lost' = (lost \/ f.err),
         \/ obj' = [obj EXCEPT !.cache = f.cache]
         \/ obj' = [NoObject EXCEPT !.cache = f.cache]
  PROVE  KeepsBut({})
<1>1. Files' = Files /\ Closed \notin Files
  BY FilesTyped DEF Files
<1>2. f.err \in BOOLEAN /\ lost' \in BOOLEAN /\ (lost => lost')
  <2>1. f.err = FALSE \/ f.err = TRUE
    BY DEF Flushings
  <2>2. lost = TRUE \/ lost = FALSE
    BY DEF OutputTypes
  <2>3. QED
    BY <2>1, <2>2
<1>3. IsDisk(disk') /\ SameBut(disk, disk', obj.name)
  BY FlushingsSafe DEF OutputTypes
<1>4. DOMAIN obj' = {"name", "at", "cache", "owed"} /\ obj'.cache = f.cache
      /\ ((obj'.name = obj.name /\ obj'.at = obj.at) \/ (obj'.name = Closed /\ obj'.at = 0))
  BY DEF OutputTypes, NoObject
<1>5. OutputTypes'
  BY <1>1, <1>2, <1>3, <1>4 DEF OutputTypes, SameBut
<1>6. \A i \in Files : disk'[i].kind = disk[i].kind
  BY <1>3 DEF SameBut, OutputTypes
<1>7. ASSUME ~lost' PROVE Layers' /\ \A i \in Files : Contents(i)' = Contents(i)
  <2>1. ~lost /\ ~f.err /\ Layers
    BY <1>2, <1>7
  <2>2. f.cache = Empty /\ \A i \in Files : disk'[i].has = Contents(i)
    BY <2>1, FlushGives
  <2>3. \A i \in Files : disk'[i].has \in Seq(Pairs)
    BY <2>1, <2>2, ContentsTyped
  <2>4. CASE obj'.name = Closed
    <3> obj'.at \in Nat
      BY <2>1, <1>4 DEF Layers
    <3>1. Layers'
      BY <2>2, <2>3, <2>4, <1>1, <1>4 DEF Layers, IsOpen
    <3>2. \A i \in Files : Contents(i)' = disk'[i].has
      BY <2>4, <1>1 DEF Contents
    <3>3. QED
      BY <3>1, <3>2, <2>2
  <2>5. CASE obj'.name = obj.name /\ obj'.at = obj.at /\ IsOpen
    <3>1. obj.name \in Files /\ disk[obj.name].kind = "new" /\ obj.at \in Nat
      BY <2>1, <2>5 DEF Layers
    <3>2. disk'[obj.name].has = Stream /\ Stream \in Seq(Pairs) /\ Len(Stream) = obj.at
      BY <2>1, <2>2, <2>5, <3>1, StreamTyped DEF Contents
    <3>3. DOMAIN obj'.cache = Len(disk'[obj.name].has) .. obj.at - 1
      BY <3>1, <3>2, <2>2, <1>4, EmptyIs
    <3>4. disk'[obj.name].kind = "new" /\ Len(disk'[obj.name].has) <= obj.at
      BY <3>1, <3>2, <1>6
    <3>5. \A o \in DOMAIN obj'.cache : FALSE
      BY <2>2, <1>4, EmptyIs
    <3>6. Layers'
      BY <3>1, <3>3, <3>4, <3>5, <2>3, <2>5, <1>1 DEF Layers, IsOpen
    <3>7. Stream' = Stream
      <4>1. Stream' = [k \in 1 .. obj.at |-> IF k <= Len(disk'[obj.name].has) THEN disk'[obj.name].has[k] ELSE obj'.cache[k - 1]]
        BY <2>5 DEF Stream
      <4>2. PICK t : t = Stream
        OBVIOUS
      <4>3. Stream' = [k \in 1 .. obj.at |-> t[k]]
        BY <4>1, <4>2, <3>1, <3>2
      <4>4. t = [k \in 1 .. Len(t) |-> t[k]]
        BY <4>2, <3>2
      <4>5. QED
        BY <4>2, <4>3, <4>4, <3>2
    <3>8. \A i \in Files : Contents(i)' = Contents(i)
      BY <3>7, <2>2, <2>5 DEF Contents
    <3>9. QED
      BY <3>6, <3>8
  <2>6. QED
    BY <2>4, <2>5, <1>4 DEF IsOpen
<1>8. QED
  BY <1>1, <1>2, <1>5, <1>6, <1>7 DEF KeepsBut

LEMMA NothingKeeps ==
  ASSUME Types, OutputTypes, ~lost => Layers, UNCHANGED cmd, UNCHANGED outvars
  PROVE  KeepsBut({}) /\ UNCHANGED obj
<1>1. UNCHANGED <<disk, obj, lost>> /\ Files' = Files
  BY DEF outvars, Files
<1>2. OutputTypes' /\ (~lost' => Layers') /\ \A i \in Files : Contents(i)' = Contents(i)
  BY <1>1 DEF OutputTypes, Layers, IsOpen, Contents, Stream
<1>3. QED
  BY <1>1, <1>2 DEF KeepsBut

\* file_flush(), and file_close() or a file_open() that is refused.
LEMMA UncheckedKeeps ==
  ASSUME Types, OutputTypes, ~lost => Layers, UNCHANGED cmd, FlushUnchecked
  PROVE  KeepsBut({}) /\ obj'.name = obj.name /\ obj'.owed = obj.owed
<1>1. PICK f \in Flushings : disk' = f.disk /\ obj' = [obj EXCEPT !.cache = f.cache] /\ lost' = (lost \/ f.err)
  BY DEF FlushUnchecked
<1>2. obj'.name = obj.name /\ obj'.owed = obj.owed
  BY <1>1 DEF OutputTypes
<1>3. QED
  BY <1>1, <1>2, FlushKeeps

LEMMA ClosedKeeps ==
  ASSUME Types, OutputTypes, ~lost => Layers, UNCHANGED cmd, NEW n, NEW ow, Close \/ OpenFails(n, ow)
  PROVE  KeepsBut({}) /\ obj'.name = Closed /\ obj'.owed = Nothing
<1>1. PICK f \in Flushings : disk' = f.disk /\ obj' = [NoObject EXCEPT !.cache = f.cache] /\ lost' = (lost \/ f.err)
  BY DEF Close, OpenFails
<1>2. obj'.name = Closed /\ obj'.owed = Nothing
  BY <1>1 DEF NoObject
<1>3. QED
  BY <1>1, <1>2, FlushKeeps

\* file_open() makes an empty file; what the object had before is in its own file.
LEMMA OpenKeeps ==
  ASSUME Types, OutputTypes, ~lost => Layers, UNCHANGED cmd, NEW n \in Files, NEW ow, OpenFile(n, ow)
  PROVE  /\ KeepsBut({n}) /\ obj'.name = n /\ obj'.owed = Nothing
         /\ disk'[n].kind = "new" /\ (~lost' => Contents(n)' = <<>>)
<1>1. PICK f \in Flushings :
        /\ disk' = [f.disk EXCEPT ![n] = New(<<>>)]
        /\ obj' = [NoObject EXCEPT !.name = n, !.cache = f.cache]
        /\ lost' = (lost \/ f.err)
  BY DEF OpenFile
<1>2. Files' = Files /\ n # Closed
  BY FilesTyped DEF Files
<1>3. IsDisk(f.disk) /\ SameBut(disk, f.disk, obj.name) /\ DOMAIN disk = Files
  BY FlushingsSafe DEF OutputTypes
<1>4. DOMAIN disk' = Files /\ \A i \in Files : disk'[i] = IF i = n THEN New(<<>>) ELSE f.disk[i]
  BY <1>1, <1>3 DEF IsDisk, SameBut
<1>5. disk' = [i \in DOMAIN disk' |-> disk'[i]]
  BY <1>1
<1>6. disk'[n].kind = "new" /\ disk'[n].has = <<>> /\ IsFile(disk'[n])
  BY <1>4 DEF New, IsFile
<1>7. \A i \in Files : IsFile(disk'[i])
  BY <1>3, <1>4, <1>6 DEF IsDisk, SameBut
<1>8. \A i \in Files \ {n} : disk'[i].kind = disk[i].kind
  BY <1>3, <1>4 DEF SameBut
<1>9. /\ DOMAIN obj' = {"name", "at", "cache", "owed"} /\ obj'.name = n /\ obj'.owed = Nothing
      /\ obj'.at = 0 /\ obj'.cache = f.cache
  BY <1>1 DEF NoObject
<1>10. (lost => lost') /\ lost' \in BOOLEAN
  <2>1. f.err = FALSE \/ f.err = TRUE
    BY DEF Flushings
  <2>2. lost = TRUE \/ lost = FALSE
    BY DEF OutputTypes
  <2>3. QED
    BY <1>1, <2>1, <2>2
<1>11. OutputTypes'
  BY <1>2, <1>4, <1>5, <1>6, <1>7, <1>8, <1>9, <1>10 DEF OutputTypes, IsDisk
<1>12. ASSUME ~lost'
       PROVE  Layers' /\ Contents(n)' = <<>> /\ \A i \in Files \ {n} : Contents(i)' = Contents(i)
  <2>1. ~lost /\ ~f.err /\ Layers
    BY <1>1, <1>12
  <2>2. f.cache = Empty /\ \A i \in Files : f.disk[i].has = Contents(i)
    BY <2>1, FlushGives
  <2>3. \A i \in Files : disk'[i].has = IF i = n THEN <<>> ELSE Contents(i)
    BY <2>2, <1>4, <1>6
  <2>4. \A i \in Files : Contents(i) \in Seq(Pairs)
    BY <2>1, ContentsTyped
  <2>5. \A i \in Files : disk'[i].has \in Seq(Pairs)
    BY <2>3, <2>4, NoneOf
  <2>6. Len(<<>>) = 0 /\ DOMAIN obj'.cache = 0 .. 0 - 1
    BY <2>2, <1>9, EmptyIs
  <2>7. Layers'
    BY <2>5, <2>6, <1>2, <1>6, <1>9 DEF Layers, IsOpen
  <2>8. \A i \in Files \ {n} : Contents(i)' = Contents(i)
    BY <2>3, <1>9 DEF Contents
  <2>9. Contents(n)' = <<>>
    BY <1>9 DEF Contents, Stream
  <2>10. QED
    BY <2>7, <2>8, <2>9
<1>13. QED
  BY <1>6, <1>8, <1>9, <1>10, <1>11, <1>12 DEF KeepsBut

\* file_write() adds its piece, if no other call is owed, ...
LEMMA WriteKeeps ==
  ASSUME Types, OutputTypes, ~lost => Layers, UNCHANGED cmd, IsOpen, NEW p \in Pairs, ~lost => obj.owed \in {Nothing, p},
         WriteWhole(p, -1)
  PROVE  /\ KeepsBut({obj.name}) /\ obj'.name = obj.name /\ obj'.owed = Nothing /\ disk' = disk
         /\ ~lost' => Contents(obj.name)' = Append(Contents(obj.name), p)
<1>1. Files' = Files /\ disk' = disk /\ lost' = lost
  BY DEF Files, WriteWhole
<1>2. /\ DOMAIN obj' = {"name", "at", "cache", "owed"} /\ obj'.name = obj.name /\ obj'.owed = Nothing
      /\ obj'.at = obj.at + 1 /\ obj'.cache = Cached(obj.cache, obj.at, Kept(p))
  BY DEF WriteWhole, Offset, OutputTypes
<1>3. OutputTypes'
  BY <1>1, <1>2 DEF OutputTypes
<1>4. \A i \in Files \ {obj.name} : Contents(i)' = Contents(i)
  BY <1>1, <1>2 DEF Contents
<1>5. ASSUME ~lost'
      PROVE  Layers' /\ Contents(obj.name)' = Append(Contents(obj.name), p)
  <2>1. Layers /\ Kept(p) = p
    BY <1>1, <1>5 DEF Kept
  <2>2. PICK h : h = disk[obj.name].has
    OBVIOUS
  <2>3. /\ Len(h) \in Nat /\ obj.at \in Nat /\ Len(h) <= obj.at
        /\ DOMAIN obj.cache = Len(h) .. obj.at - 1 /\ \A o \in DOMAIN obj.cache : obj.cache[o] \in Pairs
        /\ obj.name \in Files /\ disk[obj.name].kind = "new"
    <3>1. h \in Seq(Pairs)
      BY <2>1, <2>2 DEF Layers
    <3>2. QED
      BY <2>1, <2>2, <3>1 DEF Layers
  <2>4. obj'.cache = [k \in DOMAIN obj.cache \cup {obj.at} |-> IF k = obj.at THEN p ELSE obj.cache[k]]
    BY <1>2, <2>1 DEF Cached
  <2>5. DOMAIN obj'.cache = Len(h) .. obj.at
    BY <2>3, <2>4
  <2>6. \A o \in Len(h) .. obj.at : obj'.cache[o] = IF o = obj.at THEN p ELSE obj.cache[o]
    BY <2>4, <2>5
  <2>7. \A o \in Len(h) .. obj.at : obj'.cache[o] \in Pairs
    BY <2>3, <2>6
  <2>8. obj.at + 1 \in Nat /\ Len(h) <= obj.at + 1 /\ (obj.at + 1) - 1 = obj.at
    BY <2>3
  <2>9. Layers'
    BY <1>1, <1>2, <2>1, <2>2, <2>3, <2>5, <2>7, <2>8 DEF Layers, IsOpen
  <2>10. PICK t, u : t = Stream /\ u = Stream'
    OBVIOUS
  <2>11. t = [k \in 1 .. obj.at |-> IF k <= Len(h) THEN h[k] ELSE obj.cache[k - 1]]
    BY <2>2, <2>10 DEF Stream
  <2>12. u = [k \in 1 .. obj.at + 1 |-> IF k <= Len(h) THEN h[k] ELSE obj'.cache[k - 1]]
    BY <1>1, <1>2, <2>2, <2>10 DEF Stream
  <2>13. t \in Seq(Pairs) /\ Len(t) = obj.at
    BY <2>1, <2>10, StreamTyped
  <2>14. Append(t, p) = [k \in 1 .. obj.at + 1 |-> IF k <= obj.at THEN t[k] ELSE p]
    <3>1. PICK w : w = Append(t, p)
      OBVIOUS
    <3>2. w \in Seq(Pairs) /\ Len(w) = obj.at + 1 /\ (\A k \in 1 .. obj.at : w[k] = t[k]) /\ w[obj.at + 1] = p
      BY <3>1, <2>13, Appended
    <3>3. w = [k \in 1 .. obj.at + 1 |-> w[k]]
      BY <3>2
    <3>4. \A k \in 1 .. obj.at + 1 : k <= obj.at <=> k \in 1 .. obj.at
      BY <2>3
    <3>5. \A k \in 1 .. obj.at + 1 : w[k] = IF k <= obj.at THEN t[k] ELSE p
      BY <3>2, <3>4, <2>3
    <3>6. QED
      BY <3>1, <3>3, <3>5
  <2>15. ASSUME NEW k \in 1 .. obj.at + 1
         PROVE  (IF k <= Len(h) THEN h[k] ELSE obj'.cache[k - 1]) = (IF k <= obj.at THEN t[k] ELSE p)
    <3>1. CASE k <= Len(h)
      BY <3>1, <2>3, <2>11
    <3>2. CASE ~(k <= Len(h)) /\ k <= obj.at
      <4>1. k - 1 \in Len(h) .. obj.at /\ k - 1 # obj.at
        BY <3>2, <2>3
      <4>2. QED
        BY <3>2, <4>1, <2>6, <2>11
    <3>3. CASE ~(k <= Len(h)) /\ ~(k <= obj.at)
      <4>1. k - 1 = obj.at /\ obj.at \in Len(h) .. obj.at
        BY <3>3, <2>3
      <4>2. QED
        BY <3>3, <4>1, <2>6
    <3>4. QED
      BY <3>1, <3>2, <3>3
  <2>16. u = Append(t, p)
    BY <2>12, <2>14, <2>15
  <2>17. QED
    BY <1>2, <2>9, <2>10, <2>16 DEF Contents
<1>6. QED
  BY <1>1, <1>2, <1>3, <1>4, <1>5 DEF KeepsBut

\* ... or a part of it, which adds nothing.
LEMMA PartKeeps ==
  ASSUME Types, OutputTypes, ~lost => Layers, UNCHANGED cmd, NEW p, WritePart(p)
  PROVE  KeepsBut({}) /\ obj'.name = obj.name /\ obj'.owed = p /\ obj.owed = Nothing
<1>1. Files' = Files /\ disk' = disk /\ lost' = lost /\ obj.owed = Nothing
  BY DEF Files, WritePart
<1>2. /\ DOMAIN obj' = {"name", "at", "cache", "owed"} /\ obj'.name = obj.name /\ obj'.owed = p
      /\ obj'.at = obj.at /\ obj'.cache = obj.cache
  BY DEF WritePart, OutputTypes
<1>3. OutputTypes' /\ (~lost' => Layers') /\ \A i \in Files : Contents(i)' = Contents(i)
  BY <1>1, <1>2 DEF OutputTypes, Layers, IsOpen, Contents, Stream
<1>4. QED
  BY <1>1, <1>2, <1>3 DEF KeepsBut

\* At the end the output is deleted if that was asked for.
LEMMA DestroyKeeps ==
  ASSUME Types, OutputTypes, ~lost => Layers, UNCHANGED cmd, NEW gone \in BOOLEAN, NEW n, Destroy(gone, n),
         gone => n \in Files /\ (IsOpen => obj.name = n)
  PROVE  /\ KeepsBut(IF gone THEN {n} ELSE {}) /\ obj' = NoObject
         /\ gone => disk'[n].kind = "absent"
<1>1. PICK f \in Flushings :
        /\ disk' = (IF gone THEN Without(f.disk, n) ELSE f.disk)
        /\ lost' = (lost \/ (f.err /\ ~gone))
        /\ obj' = NoObject
  BY DEF Destroy
<1>2. Files' = Files /\ Closed \notin Files
  BY FilesTyped DEF Files
<1>3. IsDisk(f.disk) /\ SameBut(disk, f.disk, obj.name) /\ DOMAIN disk = Files
  BY FlushingsSafe DEF OutputTypes
<1>4. /\ DOMAIN disk' = Files /\ disk' = [i \in DOMAIN disk' |-> disk'[i]]
      /\ \A i \in Files : disk'[i] = IF gone /\ i = n THEN Absent ELSE f.disk[i]
  <2>1. CASE gone
    <3>1. disk' = [f.disk EXCEPT ![n] = Absent]
      BY <1>1, <1>3, <2>1 DEF Without, SameBut
    <3>2. QED
      BY <3>1, <1>3, <2>1 DEF IsDisk, SameBut
  <2>2. CASE ~gone
    BY <1>1, <1>3, <2>2 DEF IsDisk, SameBut
  <2>3. QED
    BY <2>1, <2>2
<1>5. gone => disk'[n].kind = "absent" /\ disk'[n].has = <<>> /\ IsFile(disk'[n])
  BY <1>4 DEF Absent, IsFile
<1>6. \A i \in Files : IsFile(disk'[i]) /\ ((gone /\ i = n) \/ disk'[i].kind = disk[i].kind)
  BY <1>3, <1>4, <1>5 DEF IsDisk, SameBut
<1>7. (lost => lost') /\ lost' \in BOOLEAN
  <2>1. f.err = FALSE \/ f.err = TRUE
    BY DEF Flushings
  <2>2. lost = TRUE \/ lost = FALSE
    BY DEF OutputTypes
  <2>3. QED
    BY <1>1, <2>1, <2>2
<1>8. DOMAIN obj' = {"name", "at", "cache", "owed"} /\ obj'.name = Closed /\ obj'.at = 0 /\ obj'.cache = Empty
  BY <1>1 DEF NoObject
<1>9. OutputTypes'
  BY <1>2, <1>4, <1>5, <1>6, <1>7, <1>8 DEF OutputTypes, IsDisk
<1>10. ASSUME ~lost'
       PROVE  Layers' /\ \A i \in Files : (gone /\ i = n) \/ Contents(i)' = Contents(i)
  <2>1. ~lost /\ Layers /\ (~gone => ~f.err)
    BY <1>1, <1>10
  <2>2. \A i \in Files : Contents(i) \in Seq(Pairs)
    BY <2>1, ContentsTyped
  <2>3. \A i \in Files : (gone /\ i = n) \/ f.disk[i].has = Contents(i)
    <3>1. CASE gone
      <4>1. \A i \in Files : i = n \/ (i # obj.name /\ f.disk[i] = disk[i])
        BY <3>1, <1>2, <1>3 DEF SameBut, IsOpen
      <4>2. QED
        BY <3>1, <4>1 DEF Contents
    <3>2. CASE ~gone
      BY <3>2, <2>1, FlushGives
    <3>3. QED
      BY <3>1, <3>2
  <2>4. \A i \in Files : disk'[i].has = IF gone /\ i = n THEN <<>> ELSE Contents(i)
    BY <2>3, <1>4, <1>5
  <2>5. \A i \in Files : disk'[i].has \in Seq(Pairs)
    BY <2>2, <2>4, NoneOf
  <2>6. Layers'
    BY <2>5, <1>2, <1>8 DEF Layers, IsOpen
  <2>7. \A i \in Files : (gone /\ i = n) \/ Contents(i)' = Contents(i)
    BY <2>4, <1>2, <1>8 DEF Contents
  <2>8. QED
    BY <2>6, <2>7
<1>11. QED
  BY <1>1, <1>5, <1>6, <1>7, <1>9, <1>10 DEF KeepsBut
-----------------------------------------------------------------------------
(* What the loop keeps *)

LEMMA WholeKept ==
  ASSUME UNCHANGED cmd, NEW i, Contents(i)' = Contents(i)
  PROVE  WholeOutput(i, Contents(i))' <=> WholeOutput(i, Contents(i))
BY DEF WholeOutput, Is

LEMMA DoneKept ==
  ASSUME UNCHANGED cmd, NEW S, KeepsBut(S), ~lost', NEW i \in Files \ S
  PROVE  /\ Done(i) <=> Done(i)'
         /\ WholeOutput(i, Contents(i))' <=> WholeOutput(i, Contents(i))
         /\ Exempt(i)' <=> Exempt(i)
         /\ disk'[i].kind = disk[i].kind
<1>1. disk'[i].kind = disk[i].kind /\ Contents(i)' = Contents(i)
  BY DEF KeepsBut
<1>2. WholeOutput(i, Contents(i))' <=> WholeOutput(i, Contents(i))
  BY <1>1, WholeKept
<1>3. QED
  BY <1>1, <1>2 DEF Done, Exempt, Is

\* The results of other inputs stay, ...
LEMMA ResultsStep ==
  ASSUME CInv, UNCHANGED <<cmd, cur>>, st \in Looping, st' \in Looping, NEW S, S \subseteq {cur}, KeepsBut(S),
         st' = "in" => st = "in" \/ (~lost' => Done(cur)'),
         Unmade(cur)' => Unmade(cur) /\ cur \notin S,
         st = "in" => S = {}
  PROVE  ~lost' => Results'
<1> SUFFICES ASSUME ~lost', NEW i \in Files'
             PROVE  /\ (i < cur \/ (i = cur /\ st = "in") \/ (st \in {"end", "over"} /\ rc = 0) => Done(i))'
                    /\ (Unmade(i) => disk[i].kind # "new")'
                    /\ (st \in {"end", "over"} => NoHalf(i))'
  BY DEF Results
<1>1. i \in Files /\ ~lost /\ Results /\ cur \in Nat /\ i \in Nat
  BY FilesTyped DEF CInv, KeepsBut, Files, Types
<1>2. st' \notin {"end", "over"} /\ st \notin {"end", "over"}
  BY DEF Looping
<1>3. CASE i # cur
  <2>1. Done(i) <=> Done(i)'
    BY <1>1, <1>3, DoneKept
  <2>2. disk'[i].kind = disk[i].kind
    BY <1>1, <1>3, DoneKept
  <2>3. Unmade(i)' <=> Unmade(i)
    BY <1>3 DEF Unmade
  <2>4. QED
    BY <2>1, <2>2, <2>3, <1>1, <1>2, <1>3 DEF Results
<1>4. CASE i = cur
  <2>1. st' = "in" => Done(i)'
    <3>1. CASE st = "in"
      <4>1. Done(i)
        BY <3>1, <1>1, <1>4 DEF Results
      <4>2. QED
        BY <3>1, <4>1, <1>1, DoneKept
    <3>2. QED
      BY <3>1, <1>4
  <2>2. Unmade(i)' => disk'[i].kind # "new"
    <3>1. ASSUME Unmade(i)' PROVE disk'[i].kind # "new"
      <4>1. Unmade(i) /\ i \in Files \ S
        BY <3>1, <1>1, <1>4
      <4>2. disk[i].kind # "new"
        BY <4>1, <1>1 DEF Results
      <4>3. QED
        BY <4>1, <4>2, <1>1, DoneKept
    <3>2. QED
      BY <3>1
  <2>3. QED
    BY <2>1, <2>2, <1>1, <1>2, <1>4
<1>5. QED
  BY <1>3, <1>4

LEMMA ConsumedIn ==
  ASSUME Types, Reading, st \in Busy
  PROVE  /\ Input \in Seq(Chunks) /\ Len(Input) \in Nat /\ cur \in Files
         /\ Consumed \in 0 .. Len(Input) /\ off - Len(buf) \in 0 .. Len(Input)
<1>1. cur \in Files
  BY FilesTyped DEF Types, Files
<1>2. Len(Input) \in Nat /\ Input \in Seq(Chunks)
  BY <1>1, FilesTyped DEF Input
<1>3. off \in Nat /\ Len(buf) \in Nat /\ Len(buf) <= off /\ off <= Len(Input)
  <2>1. Len(buf) \in Nat
    BY DEF Reading
  <2>2. QED
    BY <2>1 DEF Types, Reading
<1>4. QED
  BY <1>1, <1>2, <1>3 DEF Consumed

\* The chunk that the library takes next.
LEMMA NextChunk ==
  ASSUME Types, Reading, st \in Busy, buf # <<>>
  PROVE  /\ buf[1] = off - Len(buf) + 1 /\ buf[1] \in 1 .. Len(Input) /\ Input[buf[1]] \in Chunks
         /\ Tail(buf) \in Seq(Nat) /\ Len(Tail(buf)) = Len(buf) - 1
         /\ Follow(Tail(buf), off - Len(Tail(buf)))
         /\ off - Len(Tail(buf)) = off - Len(buf) + 1 /\ Len(Tail(buf)) <= off
<1>1. Input \in Seq(Chunks) /\ Len(Input) \in Nat /\ off \in Nat /\ off <= Len(Input) /\ Len(buf) <= off
  BY ConsumedIn DEF Types, Reading
<1>2. buf \in Seq(Nat) /\ Len(buf) \in Nat \ {0} /\ Follow(buf, off - Len(buf))
  BY DEF Reading
<1>3. buf[1] = off - Len(buf) + 1
  BY <1>2 DEF Follow
<1>4. PICK q : q = Tail(buf)
  OBVIOUS
<1>5. q \in Seq(Nat) /\ Len(q) = Len(buf) - 1 /\ \A k \in 1 .. Len(q) : q[k] = buf[k + 1]
  BY <1>2, <1>4
<1>6. off - Len(q) = off - Len(buf) + 1 /\ Len(q) <= off /\ off - Len(buf) + 1 \in 1 .. Len(Input)
  <2>1. Len(q) = Len(buf) - 1 /\ Len(buf) \in Nat \ {0}
    BY <1>2, <1>5
  <2>2. QED
    BY <2>1, <1>1
<1>7. ASSUME NEW k \in 1 .. Len(q) PROVE q[k] = off - Len(q) + k
  <2>1. k + 1 \in 1 .. Len(buf) /\ q[k] = buf[k + 1]
    BY <1>2, <1>5
  <2>2. buf[k + 1] = off - Len(buf) + (k + 1)
    BY <2>1, <1>2 DEF Follow
  <2>3. QED
    BY <2>1, <2>2, <1>1, <1>2, <1>5
<1>8. Input[buf[1]] \in Chunks
  BY <1>1, <1>3, <1>6
<1>9. QED
  BY <1>3, <1>4, <1>5, <1>6, <1>7, <1>8 DEF Follow

\* Where a file ends, nothing more is decoded.
LEMMA EndedIs ==
  ASSUME Types, cur \in Files, Is({"ungz", "unxz"}), ~Exempt(cur), NEW n \in 0 .. Len(Input), Ended(Input, n)
  PROVE  /\ Input[n] # "data"
         /\ \A k \in n + 1 .. Len(Input) : Input[k] # "data"
<1>1. Input \in Seq(Chunks) /\ Len(Input) \in Nat /\ DOMAIN Input = 1 .. Len(Input)
  BY FilesTyped DEF Input
<1>2. PICK j \in 1 .. n : Input[j] = "end"
  BY DEF Ended
<1>3. j \in 1 .. Len(Input)
  BY <1>1
<1>4. Handles(cmd) /\ DOMAIN cmd.files = Files
  <2>1. \E X : cmd.files \in Seq(X)
    BY CodecAssumption DEF Types
  <2>2. QED
    BY <2>1 DEF Types, Files
<1>5. \A k \in 1 .. Len(Input) : j < k => Input[k] # "data"
  <2>1. CASE Is({"ungz"})
    <3>1. ~SeveralMembers(Input)
      BY <2>1 DEF Exempt, Input
    <3>2. QED
      BY <2>1, <3>1, <1>1, <1>2, <1>3, <1>4 DEF Handles, Is, Input
  <2>2. CASE Is({"unxz"})
    <3>1. j = Len(Input)
      BY <2>2, <1>1, <1>2, <1>3, <1>4 DEF Handles, Is, Input
    <3>2. QED
      BY <3>1, <1>1
  <2>3. QED
    BY <2>1, <2>2 DEF Is
<1>6. Input[n] # "data"
  <2>1. CASE n = j
    BY <2>1, <1>2
  <2>2. CASE n # j
    <3>1. j < n /\ n \in 1 .. Len(Input)
      BY <2>2, <1>1, <1>2
    <3>2. QED
      BY <3>1, <1>5
  <2>3. QED
    BY <2>1, <2>2
<1>7. QED
  BY <1>1, <1>2, <1>5, <1>6

\* ... and when the loop is left, an output is whole, or will be deleted, or is one
\* of those that ungz takes for whole.
LEMMA NewFiles ==
  ASSUME CInv, ~lost, st \in Looping, NEW i \in Files, disk[i].kind = "new"
  PROVE  (del /\ oname = i) \/ WholeOutput(i, Contents(i)) \/ Exempt(i)
<1>1. cur \in Nat /\ i \in Nat /\ Results
  BY FilesTyped DEF CInv, Types, Files
<1>2. i <= cur /\ ~Unmade(i)
  BY <1>1 DEF Results, Unmade
<1>3. CASE i < cur \/ (i = cur /\ st = "in")
  BY <1>1, <1>3 DEF Results, Done
<1>4. CASE i = cur /\ st # "in"
  <2>1. st \in Coding /\ (~Is(Compressors) => opened) /\ st \in Busy /\ st # "outopen"
    BY <1>2, <1>4 DEF Unmade, Looping, Coding, Busy
  <2>2. CASE Is(Compressors)
    BY <1>4, <2>1, <2>2 DEF CInv, Compressing, Encodes
  <2>3. CASE ~Is(Compressors)
    <3>1. Decodes(Consumed) /\ opened
      BY <2>1, <2>3 DEF CInv, Decompressing, Members
    <3>2. SUFFICES ASSUME ~del, ~Exempt(cur) PROVE WholeOutput(i, Contents(i))
      BY <1>4, <3>1 DEF Decodes
    <3>3. Is({"ungz", "unxz"}) /\ Ended(Input, Consumed)
      <4>1. cmd.op \in Ops
        BY CodecAssumption DEF CInv, Types
      <4>2. QED
        BY <4>1, <2>3, <3>1, <3>2 DEF Decodes, Is, Ops
    <3>4. Consumed \in 0 .. Len(Input) /\ cur \in Files /\ Len(Input) \in Nat
      BY <2>1, ConsumedIn DEF CInv
    <3>5. Input[Consumed] # "data" /\ \A k \in Consumed + 1 .. Len(Input) : Input[k] # "data"
      BY <3>2, <3>3, <3>4, EndedIs DEF CInv
    <3>6. DataUpTo(Input, cur, Consumed, Contents(cur))
      BY <3>1, <3>5 DEF Decodes, IsPiece
    <3>7. DataUpTo(Input, cur, Len(Input), Contents(cur))
      BY <3>4, <3>5, <3>6, DataSame
    <3>8. QED
      BY <3>7, <2>3, <1>4 DEF WholeOutput, Input
  <2>4. QED
    BY <2>2, <2>3
<1>5. QED
  BY <1>1, <1>2, <1>3, <1>4

\* An error, and the end of the input, leave the loop.
LEMMA EndStep ==
  ASSUME CInv, st \in Looping, st' = "end", UNCHANGED <<cmd, cur, stop, reader, coder, names, piece>>,
         KeepsBut({}), obj'.name \in {obj.name, Closed},
         rc' = 1 \/ (rc' = 0 /\ st = "in" /\ cur = Len(cmd.files))
  PROVE  CInv'
<1> USE DEF reader, coder, names
<1>1. Types' /\ Reading'
  BY DEF CInv, Types, Reading, Busy, Looping
<1>2. Names'
  BY DEF CInv, Names, IsOpen, Types, Closed
<1>3. st' \notin Looping /\ st' \notin Busy /\ st' \notin Coding /\ st' \notin {"in", "open", "outopen", "over"}
  BY DEF Looping, Busy, Coding
<1>4. Compressing' /\ Decompressing'
  BY <1>3 DEF Compressing, Decompressing
<1>5. ASSUME ~lost' PROVE Results'
  <2>1. SUFFICES ASSUME NEW i \in Files'
                 PROVE  /\ (i < cur \/ (i = cur /\ st = "in") \/ (st \in {"end", "over"} /\ rc = 0) => Done(i))'
                        /\ (Unmade(i) => disk[i].kind # "new")'
                        /\ (st \in {"end", "over"} => NoHalf(i))'
    BY DEF Results
  <2>2. i \in Files /\ ~lost /\ Results /\ cur \in Nat /\ i \in Nat
    BY <1>5, FilesTyped DEF CInv, KeepsBut, Files, Types
  <2>3. /\ Done(i) <=> Done(i)'
        /\ WholeOutput(i, Contents(i))' <=> WholeOutput(i, Contents(i))
        /\ Exempt(i)' <=> Exempt(i)
        /\ disk'[i].kind = disk[i].kind
    BY <1>5, <2>2, DoneKept
  <2>4. i < cur \/ rc' = 0 => Done(i)
    <3>1. i < cur \/ (st = "in" /\ i = cur) => Done(i)
      BY <2>2 DEF Results
    <3>2. i <= Len(cmd.files)
      BY <2>2 DEF Files
    <3>3. QED
      BY <3>1, <3>2, <2>2, FilesTyped DEF CInv
  <2>5. Unmade(i)' => Unmade(i)
    BY <1>3 DEF Unmade
  <2>6. disk[i].kind = "new" => (del /\ oname = i) \/ WholeOutput(i, Contents(i)) \/ Exempt(i)
    BY <2>2, NewFiles
  <2>7. NoHalf(i)'
    BY <2>3, <2>6 DEF NoHalf
  <2>8. QED
    BY <2>2, <2>3, <2>4, <2>5, <2>7, <1>3 DEF Results
<1>6. Owes'
  BY <1>3 DEF Owes
<1>7. QED
  BY <1>1, <1>2, <1>3, <1>4, <1>5, <1>6 DEF CInv, KeepsBut
-----------------------------------------------------------------------------
(* The steps that all of them have *)

\* A signal, and a step of something else.
LEMMA SignalStep ==
  ASSUME CInv, UNCHANGED <<cmd, st, cur, rc, reader, coder, names, piece, outvars>>, stop' \in BOOLEAN
  PROVE  CInv'
<1> USE DEF reader, coder, names
<1>1. KeepsBut({}) /\ UNCHANGED obj
  BY NothingKeeps DEF CInv
<1>2. Types' /\ Names' /\ Reading'
  BY <1>1 DEF CInv, Types, Names, Reading, IsOpen, Input
<1>3. Files' = Files /\ lost' = lost /\ disk' = disk
  BY DEF Files, outvars
<1>4. \A i : Contents(i)' = Contents(i)
  BY <1>1, <1>3 DEF Contents, Stream
<1>5. Input' = Input /\ Consumed' = Consumed /\ Given' = Given /\ Pending' = Pending
  BY DEF Input, Consumed, Given, Pending, Is
<1>6. PICK c : c = cur
  OBVIOUS
<1>7. Contents(cur)' = Contents(cur)
  BY <1>4, <1>6
<1>8. Is(Compressors) => Compressing'
  BY <1>1, <1>3, <1>5, <1>7 DEF CInv, Compressing, Encodes, Is, Fresh
<1>9. ~Is(Compressors) => Decompressing'
  <2>1. Members(Consumed) => Members(Consumed)'
    BY <1>1, <1>3, <1>5, <1>7 DEF Members, Opens, Decodes, NotOpened, IsPiece, Is
  <2>2. QED
    BY <2>1 DEF CInv, Decompressing, Is
<1>10. Results /\ ~lost' => Results'
  <2>1. SUFFICES ASSUME Results, ~lost', NEW i \in Files'
                 PROVE  /\ (i < cur \/ (i = cur /\ st = "in") \/ (st \in {"end", "over"} /\ rc = 0) => Done(i))'
                        /\ (Unmade(i) => disk[i].kind # "new")'
                        /\ (st \in {"end", "over"} => NoHalf(i))'
    BY DEF Results
  <2>2. i \in Files
    BY <1>3, <2>1
  <2>3. /\ Done(i) <=> Done(i)'
        /\ WholeOutput(i, Contents(i))' <=> WholeOutput(i, Contents(i))
        /\ Exempt(i)' <=> Exempt(i)
        /\ disk'[i].kind = disk[i].kind
    BY <1>1, <2>1, <2>2, DoneKept
  <2>4. (Unmade(i)' <=> Unmade(i)) /\ (NoHalf(i)' <=> NoHalf(i))
    BY <2>3 DEF Unmade, NoHalf, Is
  <2>5. QED
    BY <2>1, <2>2, <2>3, <2>4 DEF Results
<1>11. QED
  BY <1>1, <1>2, <1>3, <1>8, <1>9, <1>10 DEF CInv, Owes, Is, KeepsBut, NoObject

\* The output is deleted or kept.
LEMMA FinishInv ==
  ASSUME CInv, Finish
  PROVE  CInv'
<1> USE DEF reader, coder, names
<1>1. /\ st = "end" /\ st' = "over" /\ Destroy(del, oname)
      /\ UNCHANGED <<cmd, cur, stop, rc, reader, coder, names, piece>>
  BY DEF Finish
<1>2. /\ Types /\ OutputTypes /\ Names /\ (~lost => Layers /\ Results) /\ del \in BOOLEAN
      /\ Len(cmd.files) \in Nat /\ cur \in 0 .. Len(cmd.files)
  BY FilesTyped DEF CInv, Types
<1>3. del => oname \in Files /\ (IsOpen => obj.name = oname) /\ oname = cur
  BY <1>2 DEF Names, Files
<1>4. PICK g, n : g = del /\ n = oname
  OBVIOUS
<1>5. Destroy(g, n) /\ g \in BOOLEAN /\ UNCHANGED cmd /\ (g => n \in Files /\ (IsOpen => obj.name = n))
  BY <1>1, <1>2, <1>3, <1>4
<1>6. KeepsBut(IF g THEN {n} ELSE {}) /\ obj' = NoObject /\ (g => disk'[n].kind = "absent")
  BY <1>2, <1>5, DestroyKeeps
<1>7. Types' /\ Reading'
  BY <1>1 DEF CInv, Types, Reading, Busy, Looping
<1>8. Names'
  BY <1>1, <1>2, <1>6 DEF Names, IsOpen, NoObject, Closed
<1>9. Compressing' /\ Decompressing'
  BY <1>1 DEF Compressing, Decompressing, Coding, Busy
<1>10. ASSUME ~lost' PROVE Results'
  <2>1. SUFFICES ASSUME NEW i \in Files'
                 PROVE  /\ (i < cur \/ (i = cur /\ st = "in") \/ (st \in {"end", "over"} /\ rc = 0) => Done(i))'
                        /\ (Unmade(i) => disk[i].kind # "new")'
                        /\ (st \in {"end", "over"} => NoHalf(i))'
    BY DEF Results
  <2>2. i \in Files /\ Results /\ i \in Nat /\ cur \in Nat
    BY <1>1, <1>2, <1>6, <1>10 DEF KeepsBut, Files
  <2>3. Unmade(i)' => Unmade(i)
    BY <1>1 DEF Unmade, Busy
  <2>4. CASE g /\ i = n
    <3>1. disk'[i].kind = "absent" /\ i = cur /\ ~(st = "end" /\ rc = 0)
      BY <2>4, <1>2, <1>3, <1>4, <1>6 DEF Names
    <3>2. ~(i < cur)
      BY <3>1, <2>2
    <3>3. QED
      BY <3>1, <3>2, <1>1 DEF NoHalf
  <2>5. CASE ~(g /\ i = n)
    <3>1. /\ Done(i) <=> Done(i)'
          /\ WholeOutput(i, Contents(i))' <=> WholeOutput(i, Contents(i))
          /\ Exempt(i)' <=> Exempt(i)
          /\ disk'[i].kind = disk[i].kind
      BY <1>1, <1>6, <1>10, <2>2, <2>5, DoneKept
    <3>2. NoHalf(i)'
      <4>1. NoHalf(i)
        BY <2>2, <1>1 DEF Results
      <4>2. QED
        BY <3>1, <4>1, <2>5, <1>4 DEF NoHalf
    <3>3. QED
      BY <3>1, <3>2, <2>2, <2>3, <1>1 DEF Results
  <2>6. QED
    BY <2>4, <2>5
<1>11. Owes'
  BY <1>1 DEF Owes, Looping
<1>12. QED
  BY <1>1, <1>6, <1>7, <1>8, <1>9, <1>10, <1>11 DEF CInv, KeepsBut

\* The next input: what was written is whole.
LEMMA NextInputInv ==
  ASSUME CInv, NextInput
  PROVE  CInv'
<1> USE DEF reader, coder, names
<1>1. st = "in" /\ UNCHANGED <<cmd, stop, reader, coder, names, piece, outvars>>
  BY DEF NextInput, At, GoEnd
<1>2. KeepsBut({}) /\ UNCHANGED obj
  BY <1>1, NothingKeeps DEF CInv
<1>3. /\ Types /\ OutputTypes /\ Names /\ (~lost => Layers /\ Results /\ Owes)
      /\ Len(cmd.files) \in Nat /\ cur \in 0 .. Len(cmd.files)
  BY FilesTyped DEF CInv, Types
<1>4. CASE st' = "end" /\ UNCHANGED cur /\ (rc' = 1 \/ (rc' = 0 /\ cur = Len(cmd.files)))
  BY <1>1, <1>2, <1>4, EndStep DEF Looping
<1>5. CASE cur < Len(cmd.files) /\ cur' = cur + 1 /\ st' = "open" /\ rc' = rc
  <2>1. Types'
    BY <1>1, <1>3, <1>5 DEF Types, Looping
  <2>2. Names'
    BY <1>1, <1>2, <1>3, <1>5 DEF Names, IsOpen
  <2>3. Reading'
    BY <1>1, <1>5 DEF CInv, Reading, Busy
  <2>4. Is({"zst", "ungz", "unxz"}) => cur = 0
    <3>1. Is({"zst", "ungz", "unxz"}) => Len(cmd.files) <= 1
      BY <1>3 DEF Types, Handles, Is
    <3>2. QED
      BY <3>1, <1>3, <1>5
  <2>5. Is(Compressors) => Compressing'
    BY <2>4, <1>1, <1>5 DEF CInv, Compressing, Is, Fresh, Coding
  <2>6. ~Is(Compressors) => Decompressing'
    <3>1. cmd.op \in Ops
      BY <1>3, CodecAssumption DEF Types
    <3>2. ~Is(Compressors) => cur = 0 \/ Is({"unzst"})
      BY <3>1, <2>4 DEF Is, Ops
    <3>3. QED
      BY <3>2, <1>1, <1>5 DEF CInv, Decompressing, Is, Busy
  <2>7. ASSUME ~lost' PROVE Results'
    <3>1. SUFFICES ASSUME NEW i \in Files'
                   PROVE  /\ (i < cur \/ (i = cur /\ st = "in") \/ (st \in {"end", "over"} /\ rc = 0) => Done(i))'
                          /\ (Unmade(i) => disk[i].kind # "new")'
                          /\ (st \in {"end", "over"} => NoHalf(i))'
      BY DEF Results
    <3>2. i \in Files /\ Results /\ i \in Nat /\ cur \in Nat
      BY <1>1, <1>2, <1>3, <2>7 DEF KeepsBut, Files
    <3>3. /\ Done(i) <=> Done(i)'
          /\ disk'[i].kind = disk[i].kind
      BY <1>1, <1>2, <2>7, <3>2, DoneKept
    <3>4. i < cur' => Done(i)
      <4>1. i < cur' => i < cur \/ i = cur
        BY <3>2, <1>5
      <4>2. QED
        BY <4>1, <3>2, <1>1 DEF Results
    <3>5. Unmade(i)' => Unmade(i)
      BY <3>2, <1>5 DEF Unmade
    <3>6. QED
      BY <3>2, <3>3, <3>4, <3>5, <1>5 DEF Results
  <2>8. ~lost' => Owes'
    BY <1>1, <1>2, <1>3, <1>5 DEF Owes, Looping, KeepsBut
  <2>9. QED
    BY <1>1, <1>2, <1>5, <2>1, <2>2, <2>3, <2>5, <2>6, <2>7, <2>8 DEF CInv, KeepsBut, Is
<1>6. QED
  BY <1>1, <1>4, <1>5 DEF NextInput, GoEnd

\* The output is there and empty.
LEMMA Opened ==
  ASSUME CInv, st = "outopen", UNCHANGED <<cmd, cur, oname>>, NEW ow, OpenFile(oname, ow)
  PROVE  /\ KeepsBut({cur}) /\ obj'.name = cur /\ obj'.owed = Nothing /\ oname = cur /\ cur # 0 /\ cur \in Nat
         /\ disk'[cur].kind = "new" /\ (~lost' => Contents(cur)' = <<>>)
<1>1. oname = cur
  <2>1. st \in Busy
    BY DEF Busy
  <2>2. QED
    BY <2>1 DEF CInv, Compressing, Decompressing, Members, Opens
<1>2. cur \in Files /\ cur # 0 /\ cur \in Nat
  BY FilesTyped DEF CInv, Types, Busy, Files
<1>3. PICK c : c = cur
  OBVIOUS
<1>4. c \in Files /\ OpenFile(c, ow) /\ c = cur'
  BY <1>1, <1>2, <1>3
<1>5. /\ KeepsBut({c}) /\ obj'.name = c /\ obj'.owed = Nothing
      /\ disk'[c].kind = "new" /\ (~lost' => Contents(c)' = <<>>)
  BY <1>4, OpenKeeps DEF CInv
<1>6. QED
  BY <1>1, <1>2, <1>3, <1>4, <1>5

\* I_OUT_OPEN
LEMMA OpenOutInv ==
  ASSUME CInv, NEW then, then \in Coding, OpenOut(then),
         Is(Compressors) => then = "read",
         ~Is(Compressors) => then = IF Is({"unxz"}) THEN "write" ELSE "code"
  PROVE  CInv'
<1> USE DEF reader, coder, names
<1>1. /\ st = "outopen" /\ st \in Busy /\ st \in Looping
      /\ UNCHANGED <<cmd, cur, stop, reader, coder, opened, oname, piece>>
  BY DEF OpenOut, At, Goto, GoEnd, Busy, Looping
<1>2. Types /\ OutputTypes /\ Names /\ Reading
  BY DEF CInv
<1>3. CASE OpenFails(oname, cmd.overwrite) /\ GoEnd(1) /\ UNCHANGED del
  <2>1. KeepsBut({}) /\ obj'.name = Closed
    BY <1>1, <1>3, ClosedKeeps DEF CInv
  <2>2. QED
    BY <1>1, <1>3, <2>1, EndStep DEF GoEnd
<1>4. CASE OpenFile(oname, cmd.overwrite) /\ del' = TRUE /\ (Goto(then) \/ (GoEnd(1) /\ Is({"unxz", "unzst"})))
  <2>1. /\ KeepsBut({cur}) /\ obj'.name = cur /\ obj'.owed = Nothing /\ oname = cur /\ cur # 0 /\ cur \in Nat
        /\ disk'[cur].kind = "new" /\ (~lost' => Contents(cur)' = <<>>)
    BY <1>1, <1>4, Opened
  <2>2. CASE GoEnd(1)
    <3>1. Types' /\ Reading'
      BY <1>1, <1>2, <1>4, <2>2 DEF Types, Reading, GoEnd, Looping, Busy
    <3>2. Names'
      BY <1>1, <2>1, <2>2, <1>4 DEF Names, GoEnd, IsOpen
    <3>3. Compressing' /\ Decompressing' /\ Owes' /\ st' # "over" /\ st' = "end" /\ rc' = 1
      BY <2>2 DEF Compressing, Decompressing, Owes, GoEnd, Looping, Busy, Coding
    <3>4. ASSUME ~lost' PROVE Results'
      <4>1. SUFFICES ASSUME NEW i \in Files'
                     PROVE  /\ (i < cur \/ (i = cur /\ st = "in") \/ (st \in {"end", "over"} /\ rc = 0) => Done(i))'
                            /\ (Unmade(i) => disk[i].kind # "new")'
                            /\ (st \in {"end", "over"} => NoHalf(i))'
        BY DEF Results
      <4>2. i \in Files /\ Results /\ i \in Nat /\ ~lost
        BY <1>1, <2>1, <3>4 DEF KeepsBut, Files, CInv
      <4>3. CASE i = cur
        BY <4>3, <3>3, <2>1, <1>1, <1>4 DEF NoHalf, Unmade, Busy
      <4>4. CASE i # cur
        <5>1. /\ Done(i) <=> Done(i)'
              /\ WholeOutput(i, Contents(i))' <=> WholeOutput(i, Contents(i))
              /\ Exempt(i)' <=> Exempt(i)
              /\ disk'[i].kind = disk[i].kind
          BY <1>1, <2>1, <3>4, <4>2, <4>4, DoneKept
        <5>2. disk[i].kind = "new" => (del /\ oname = i) \/ WholeOutput(i, Contents(i)) \/ Exempt(i)
          BY <1>1, <4>2, NewFiles
        <5>3. NoHalf(i)' /\ (Unmade(i)' => Unmade(i))
          BY <5>1, <5>2, <2>1, <1>1, <4>4 DEF NoHalf, Unmade
        <5>4. QED
          BY <5>1, <5>3, <4>2, <4>4, <1>1, <3>3 DEF Results
      <4>5. QED
        BY <4>3, <4>4
    <3>5. QED
      BY <1>1, <2>1, <3>1, <3>2, <3>3, <3>4 DEF CInv, KeepsBut, Is
  <2>3. CASE Goto(then)
    <3>1. st' \in Coding /\ st' = then /\ UNCHANGED <<rc, cmd, cur, stop>> /\ st' \in Looping /\ st' \in Busy
          /\ st' \notin {"in", "open", "outopen", "end", "over"}
      BY <2>3 DEF Goto, Looping, Busy, Coding
    <3>2. Reading'
      <4>1. st' = "read" => Is(Compressors)
        BY <3>1 DEF Coding
      <4>2. st' = "read" => buf = <<>>
        BY <4>1, <1>1 DEF CInv, Compressing
      <4>3. Input' = Input
        BY <1>1 DEF Input
      <4>4. QED
        BY <1>1, <1>2, <3>1, <4>2, <4>3 DEF Reading
    <3>3. Names'
      BY <3>1, <1>1, <1>4, <2>1 DEF Names, IsOpen, Closed
    <3>4. ~lost' => Results'
      <4>1. ~Unmade(cur)'
        BY <1>1, <2>1, <3>1, <1>2 DEF Unmade, CInv, Decompressing, Members, Opens, Coding, Is
      <4>2. QED
        BY <1>1, <2>1, <3>1, <4>1, ResultsStep
    <3>5. Owes'
      BY <2>1 DEF Owes
    <3>6. Input' = Input /\ (Is(Compressors)' <=> Is(Compressors))
      BY <1>1 DEF Input, Is
    <3>7. CASE Is(Compressors)
      <4>1. st' = "read" /\ off = 0 /\ buf = <<>> /\ Fresh
        BY <3>1, <3>7, <1>1 DEF CInv, Compressing
      <4>2. Types'
        BY <1>1, <1>2, <3>1, <4>1, <1>4 DEF Types
      <4>3. Given' = 0 /\ Pending' = <<>>
        BY <4>1, <1>1, NoneOf DEF Given, Pending, Fresh
      <4>4. Input \in Seq({"data"})
        BY <3>7, <1>1, <1>2, FilesTyped, ConsumedIn DEF Input
      <4>5. Accounts(Input, cur, 0, <<>>, <<>>, <<>>)
        BY <4>4, <2>1, AccountsNone
      <4>6. ~lost' => Accounts(Input, cur, Given, Contents(cur), Pending, enc)'
        BY <4>1, <4>3, <4>5, <3>6, <2>1, <1>1 DEF Fresh
      <4>7. Encodes'
        BY <4>1, <4>6, <2>1, <1>1, <1>4 DEF Encodes, Fresh
      <4>8. Compressing'
        BY <4>7, <3>1 DEF Compressing
      <4>9. QED
        BY <4>2, <4>8, <3>1, <3>2, <3>3, <3>4, <3>5, <3>6, <3>7, <2>1 DEF CInv, KeepsBut
    <3>8. CASE ~Is(Compressors)
      <4>1. Members(Consumed) /\ Opens(Consumed) /\ opened
        BY <3>8, <1>1 DEF CInv, Decompressing, Members, Opens
      <4>2. Consumed' = Consumed /\ (Is({"unxz"})' <=> Is({"unxz"})) /\ (Is({"ungz"})' <=> Is({"ungz"}))
            /\ (Is({"unzst"})' <=> Is({"unzst"}))
        BY <1>1 DEF Consumed, Is
      <4>3. then = (IF Is({"unxz"}) THEN "write" ELSE "code")
        BY <3>8
      <4>4. st' = "write" => IsPiece(Consumed) /\ NoData(Input, Consumed - 1)
        BY <4>1, <4>3, <3>1 DEF Opens
      <4>5. st' # "write" => NoData(Input, Consumed)
        BY <4>1, <4>3, <3>1 DEF Opens
      <4>6. Types'
        <5>1. st' = "write" => piece # <<>>
          BY <4>4 DEF IsPiece
        <5>2. QED
          BY <1>1, <1>2, <3>1, <5>1, <1>4 DEF Types
      <4>7. DataUpTo(Input, cur, IF st' = "write" THEN Consumed - 1 ELSE Consumed, <<>>)
        <5>1. Consumed \in Nat /\ (Consumed # 0 => Consumed - 1 \in Nat)
          BY <1>1, <1>2, ConsumedIn
        <5>2. st' = "write" => DataUpTo(Input, cur, Consumed - 1, <<>>)
          BY <4>4, <5>1, DataNone DEF IsPiece
        <5>3. st' # "write" => DataUpTo(Input, cur, Consumed, <<>>)
          BY <4>5, <5>1, DataNone
        <5>4. QED
          BY <5>2, <5>3
      <4>8. Decodes(Consumed)'
        <5>1. IsPiece(Consumed)' <=> IsPiece(Consumed)
          BY <4>2, <3>6, <1>1 DEF IsPiece
        <5>2. ~lost' => DataUpTo(Input, cur, IF st = "write" THEN Consumed - 1 ELSE Consumed, Contents(cur))'
          BY <4>2, <4>7, <3>6, <2>1, <1>1
        <5>3. QED
          BY <5>1, <5>2, <4>1, <4>4, <2>1, <1>1, <1>4 DEF Decodes
      <4>9. Members(Consumed)'
        BY <4>1, <4>2, <4>8, <3>1, <3>6, <1>1 DEF Members, Opens
      <4>10. Decompressing'
        BY <4>9, <3>1 DEF Decompressing
      <4>11. QED
        BY <4>6, <4>10, <3>1, <3>2, <3>3, <3>4, <3>5, <3>6, <3>8, <2>1 DEF CInv, KeepsBut
    <3>9. QED
      BY <3>7, <3>8
  <2>4. QED
    BY <1>4, <2>2, <2>3
<1>5. QED
  BY <1>3, <1>4 DEF OpenOut

\* I_WRITE
LEMMA WriteInv ==
  ASSUME CInv, Write("code")
  PROVE  CInv'
<1> USE DEF reader, coder, names
<1>1. /\ st = "write" /\ st \in Busy /\ st \in Looping /\ st \in Coding /\ st # "outopen"
      /\ UNCHANGED <<cmd, cur, stop, reader, coder, names>>
  BY DEF Write, At, Goto, GoEnd, Busy, Looping, Coding
<1>2. /\ Types /\ OutputTypes /\ Names /\ Reading /\ (~lost => Layers /\ Owes /\ Results)
      /\ (Is(Compressors) => Encodes) /\ (~Is(Compressors) => Members(Consumed) /\ Decodes(Consumed))
  <2>1. Is(Compressors) => Encodes
    BY <1>1 DEF CInv, Compressing
  <2>2. ~Is(Compressors) => Members(Consumed) /\ Decodes(Consumed)
    BY <1>1 DEF CInv, Decompressing, Members, NotOpened
  <2>3. QED
    BY <2>1, <2>2 DEF CInv
<1>3. /\ piece \in Seq(Pairs) /\ piece # <<>> /\ Len(piece) \in Nat \ {0} /\ piece[1] \in Pairs /\ piece[1] # Nothing
      /\ Tail(piece) \in Seq(Pairs) /\ Len(Tail(piece)) = Len(piece) - 1
  <2>1. piece \in Seq(Pairs) /\ piece # <<>>
    BY <1>1, <1>2 DEF Types
  <2>2. Len(piece) \in Nat \ {0} /\ piece[1] \in Pairs /\ Tail(piece) \in Seq(Pairs) /\ Len(Tail(piece)) = Len(piece) - 1
    BY <2>1
  <2>3. \A p \in Pairs : p # Nothing
    BY DEF Pairs, Nothing
  <2>4. QED
    BY <2>1, <2>2, <2>3
<1>4. obj.name = cur /\ IsOpen /\ cur \in Files /\ cur \in Nat /\ oname = cur /\ cur # 0
  <2>1. obj.name = cur /\ oname = cur
    BY <1>2 DEF Encodes, Decodes
  <2>2. cur \in Files /\ cur \in Nat
    BY <1>1, <1>2, ConsumedIn DEF Types
  <2>3. QED
    BY <2>1, <2>2, <1>1, <1>2 DEF Names, IsOpen, Closed
<1>5. /\ Input' = Input /\ Consumed' = Consumed /\ Given' = Given
      /\ \A S : Is(S)' <=> Is(S)
  BY <1>1 DEF Input, Consumed, Given, Is
<1>6. CASE GoEnd(1) /\ UNCHANGED <<piece, outvars>>
  <2>1. KeepsBut({}) /\ UNCHANGED obj
    BY <1>1, <1>6, NothingKeeps DEF CInv
  <2>2. QED
    BY <1>1, <1>6, <2>1, EndStep DEF GoEnd
<1>7. CASE WritePart(piece[1]) /\ Goto("write") /\ UNCHANGED piece
  <2>1. KeepsBut({}) /\ obj'.name = obj.name /\ obj'.owed = piece[1]
    <3>1. PICK p : p = piece[1]
      OBVIOUS
    <3>2. KeepsBut({}) /\ obj'.name = obj.name /\ obj'.owed = p
      BY <1>1, <1>2, <1>7, <3>1, PartKeeps
    <3>3. QED
      BY <3>1, <3>2
  <2>2. st' = st /\ UNCHANGED <<cmd, cur, stop, rc>>
    BY <1>1, <1>7 DEF Goto
  <2>3. Types' /\ Names' /\ Reading' /\ Owes' /\ st' # "over"
    BY <1>1, <1>2, <1>5, <1>7, <2>1, <2>2 DEF Types, Names, Reading, Owes, IsOpen
  <2>4. ~lost' => Results'
    <3>1. Unmade(cur)' => Unmade(cur)
      BY <1>1, <1>5, <2>2 DEF Unmade
    <3>2. st' # "in" /\ st' \in Looping
      BY <1>1, <2>2
    <3>3. QED
      BY <1>1, <2>1, <2>2, <3>1, <3>2, ResultsStep
  <2>5. ~lost' => ~lost /\ Contents(cur)' = Contents(cur)
    <3>1. PICK c \in Files : c = cur
      BY <1>4
    <3>2. ~lost' => ~lost /\ Contents(c)' = Contents(c)
      BY <2>1 DEF KeepsBut
    <3>3. QED
      BY <3>1, <3>2, <2>2
  <2>6. Is(Compressors) => Encodes'
    BY <1>1, <1>2, <1>5, <1>7, <2>1, <2>2, <2>5 DEF Encodes, Pending
  <2>7. ~Is(Compressors) => Members(Consumed)'
    BY <1>1, <1>2, <1>5, <1>7, <2>1, <2>2, <2>5 DEF Members, Decodes, IsPiece
  <2>8. (Is(Compressors) => Compressing') /\ (~Is(Compressors) => Decompressing')
    BY <2>2, <2>6, <2>7, <1>1 DEF Compressing, Decompressing
  <2>9. QED
    BY <1>5, <2>1, <2>2, <2>3, <2>4, <2>8 DEF CInv, KeepsBut
<1>8. CASE /\ WriteWhole(piece[1], -1) /\ piece' = Tail(piece)
           /\ Goto(IF Len(piece) = 1 THEN "code" ELSE "write")
  <2>1. /\ KeepsBut({cur}) /\ obj'.name = cur /\ obj'.owed = Nothing /\ disk' = disk
        /\ ~lost' => ~lost /\ Contents(cur)' = Append(Contents(cur), piece[1])
    <3>1. PICK p, c : p = piece[1] /\ c = cur
      OBVIOUS
    <3>2. ~lost => obj.owed \in {Nothing, p}
      BY <1>1, <1>2, <3>1 DEF Owes
    <3>3. /\ KeepsBut({obj.name}) /\ obj'.name = obj.name /\ obj'.owed = Nothing /\ disk' = disk
          /\ ~lost' => Contents(obj.name)' = Append(Contents(obj.name), p)
      BY <1>1, <1>2, <1>3, <1>4, <1>8, <3>1, <3>2, WriteKeeps
    <3>4. QED
      BY <1>1, <1>4, <3>1, <3>3 DEF KeepsBut
  <2>2. /\ st' = (IF Len(piece) = 1 THEN "code" ELSE "write") /\ UNCHANGED <<cmd, cur, stop, rc>>
        /\ st' \in Coding /\ st' \in Looping /\ st' \in Busy /\ st' \notin {"in", "open", "outopen", "read", "end", "over"}
    BY <1>8 DEF Goto, Coding, Busy, Looping
  <2>3. Types'
    <3>1. st' = "write" => Tail(piece) # <<>>
      <4>1. st' = "write" => Len(Tail(piece)) # 0
        BY <2>2, <1>3
      <4>2. QED
        BY <4>1, NoneOf
    <3>2. QED
      BY <1>1, <1>2, <1>3, <1>8, <2>2, <3>1 DEF Types
  <2>4. Names' /\ Reading' /\ Owes'
    BY <1>1, <1>2, <1>4, <1>5, <2>1, <2>2 DEF Names, Reading, Owes, IsOpen
  <2>5. ~lost' => Results'
    <3>1. ~Unmade(cur)
      BY <1>1, <1>2, <1>4 DEF Unmade, Decodes
    <3>2. ~Unmade(cur)'
      BY <3>1, <1>1, <1>5, <2>2 DEF Unmade
    <3>3. QED
      BY <1>1, <2>1, <2>2, <3>2, ResultsStep
  <2>6. CASE Is(Compressors)
    <3>1. Input \in Seq({"data"}) /\ Given \in Nat
      <4>1. Input \in Seq({"data"})
        BY <2>6, <1>2, <1>4, FilesTyped DEF Input
      <4>2. off \in Nat /\ off - Len(buf) \in Nat
        BY <1>1, <1>2, ConsumedIn DEF Types
      <4>3. QED
        BY <4>1, <4>2 DEF Given
    <3>2. ASSUME ~lost'
          PROVE  Accounts(Input, cur, Given, Contents(cur)', Pending', <<>>)
      <4>1. Contents(cur) \in Seq(Pairs)
        <5>1. PICK c \in Files : c = cur
          BY <1>4
        <5>2. Contents(c) \in Seq(Pairs)
          BY <3>2, <2>1, <1>2, ContentsTyped
        <5>3. QED
          BY <5>1, <5>2
      <4>2. Accounts(Input, cur, Given, Contents(cur), piece, <<>>)
        BY <3>2, <2>1, <2>6, <1>1, <1>2 DEF Encodes, Pending
      <4>3. Accounts(Input, cur, Given, Append(Contents(cur), piece[1]), Tail(piece), <<>>)
        BY <4>1, <4>2, <3>1, <1>3, AccountsWrite
      <4>4. Pending' = Tail(piece)
        <5>1. CASE Len(piece) = 1
          <6>1. Len(Tail(piece)) = 0
            BY <5>1, <1>3
          <6>2. Tail(piece) = <<>>
            BY <6>1, <1>3
          <6>3. QED
            BY <6>2, <5>1, <2>2 DEF Pending
        <5>2. CASE Len(piece) # 1
          BY <5>2, <2>2, <1>8 DEF Pending
        <5>3. QED
          BY <5>1, <5>2
      <4>5. QED
        BY <4>3, <4>4, <3>2, <2>1
    <3>3. Encodes'
      BY <3>2, <2>1, <2>2, <2>6, <1>1, <1>2, <1>5 DEF Encodes
    <3>4. Compressing'
      BY <3>3, <2>2 DEF Compressing
    <3>5. QED
      BY <3>4, <1>5, <2>1, <2>2, <2>3, <2>4, <2>5, <2>6 DEF CInv, KeepsBut
  <2>7. CASE ~Is(Compressors)
    <3>1. Members(Consumed) /\ Decodes(Consumed) /\ IsPiece(Consumed)
      BY <1>1, <1>2, <2>7 DEF Decodes
    <3>2. Consumed \in Nat \ {0} /\ Input[Consumed] = "data" /\ piece = << <<cur, Consumed>> >>
      BY <3>1, <1>1, <1>2, ConsumedIn DEF IsPiece
    <3>3. st' = "code" /\ piece[1] = <<cur, Consumed>>
      BY <3>2, <2>2
    <3>4. ASSUME ~lost'
          PROVE  DataUpTo(Input, cur, Consumed, Contents(cur)')
      <4>1. Contents(cur) \in Seq(Pairs)
        <5>1. PICK c \in Files : c = cur
          BY <1>4
        <5>2. Contents(c) \in Seq(Pairs)
          BY <3>4, <2>1, <1>2, ContentsTyped
        <5>3. QED
          BY <5>1, <5>2
      <4>2. DataUpTo(Input, cur, Consumed - 1, Contents(cur))
        BY <3>1, <3>4, <2>1, <1>1 DEF Decodes
      <4>3. DataUpTo(Input, cur, Consumed, Append(Contents(cur), <<cur, Consumed>>))
        BY <4>1, <4>2, <3>2, <1>4, DataNext
      <4>4. QED
        BY <4>3, <3>3, <3>4, <2>1
    <3>5. Decodes(Consumed)'
      BY <3>1, <3>3, <3>4, <2>1, <2>2, <1>1, <1>5 DEF Decodes
    <3>6. Members(Consumed)'
      BY <3>1, <3>3, <3>5, <2>2, <1>1, <1>5 DEF Members, Decodes
    <3>7. Decompressing'
      BY <3>6, <2>2 DEF Decompressing
    <3>8. QED
      BY <3>7, <1>5, <2>1, <2>2, <2>3, <2>4, <2>5, <2>7 DEF CInv, KeepsBut
  <2>8. QED
    BY <2>6, <2>7
<1>9. QED
  BY <1>1, <1>6, <1>7, <1>8 DEF Write

-----------------------------------------------------------------------------
(* The steps of the compressors *)

\* I_IN_OPEN
LEMMA EncoderOpens ==
  ASSUME CInv, Is(Compressors), GzOpenIn \/ ZstOpenIn
  PROVE  CInv'
<1> USE DEF reader, coder, names
<1>1. /\ st = "open" /\ st \in Looping
      /\ UNCHANGED <<cmd, cur, stop, buf, inside, opened, del, piece, outvars>>
  BY DEF GzOpenIn, ZstOpenIn, At, Goto, GoEnd, Looping
<1>2. KeepsBut({}) /\ UNCHANGED obj
  BY <1>1, NothingKeeps DEF CInv
<1>3. Types /\ OutputTypes /\ Names /\ Reading /\ Compressing /\ buf = <<>> /\ ~del
  BY <1>1 DEF CInv, Names, Reading
<1>4. CASE GoEnd(1) /\ UNCHANGED <<reader, coder, names>>
  BY <1>1, <1>2, <1>4, EndStep DEF GoEnd
<1>5. CASE /\ off' = 0 /\ oname' = cur /\ enc' = <<>> /\ ~fin' /\ ~whole' /\ fin' \in BOOLEAN /\ whole' \in BOOLEAN
           /\ Goto("outopen")
  <2>1. st' = "outopen" /\ rc' = rc /\ st' \in Looping /\ st' \in Busy /\ st' \notin {"in", "open", "write", "read", "end", "over"}
        /\ st' \notin Coding
    BY <1>5 DEF Goto, Looping, Busy, Coding
  <2>2. Len(<<>>) = 0 /\ <<>> \in Seq(Pairs) /\ <<>> \in Seq(Nat)
    BY NoneOf
  <2>3. Types'
    BY <1>1, <1>3, <1>5, <2>1, <2>2 DEF Types
  <2>4. Names'
    BY <1>1, <1>2, <1>3, <1>5, <2>1 DEF Names, IsOpen
  <2>5. Reading'
    <3>1. Len(Input') \in Nat /\ Input' = Input
      <4>1. cur \in Files
        BY <1>1, <1>3, FilesTyped DEF Types, Files
      <4>2. QED
        BY <4>1, <1>1, <1>3, FilesTyped DEF Input
    <3>2. \A n : Follow(<<>>, n)
      BY <2>2 DEF Follow
    <3>3. QED
      BY <3>1, <3>2, <2>1, <2>2, <1>1, <1>3, <1>5 DEF Reading
  <2>6. ~lost' => Results'
    <3>1. Unmade(cur)' => Unmade(cur)
      BY <1>1 DEF Unmade
    <3>2. QED
      BY <1>1, <1>2, <2>1, <3>1, ResultsStep
  <2>7. ~lost' => Owes'
    BY <1>1, <1>2, <2>1 DEF CInv, Owes, KeepsBut
  <2>8. Compressing'
    BY <1>1, <1>3, <1>5, <2>1 DEF Compressing, Fresh
  <2>9. Is(Compressors)'
    BY <1>1 DEF Is
  <2>10. QED
    BY <1>2, <2>1, <2>3, <2>4, <2>5, <2>6, <2>7, <2>8, <2>9 DEF CInv, KeepsBut
<1>6. CASE GzOpenIn
  BY <1>4, <1>5, <1>6, <1>1 DEF GzOpenIn, GzFresh
<1>7. CASE ZstOpenIn
  <2>1. Fresh /\ fin \in BOOLEAN /\ whole \in BOOLEAN
    BY <1>1, <1>3, <1>7 DEF ZstOpenIn, Compressing, Types
  <2>2. QED
    BY <1>4, <1>5, <1>7, <1>1, <2>1 DEF ZstOpenIn, Fresh
<1>8. QED
  BY <1>6, <1>7

LEMMA ArrivedIs ==
  ASSUME NEW o \in Nat, NEW n \in Nat
  PROVE  [k \in 1 .. n |-> o + k] \in Seq(Nat) /\ Len([k \in 1 .. n |-> o + k]) = n /\ Follow([k \in 1 .. n |-> o + k], o)
<1>1. PICK b : b = [k \in 1 .. n |-> o + k]
  OBVIOUS
<1>2. b \in [1 .. n -> Nat] /\ \A k \in 1 .. n : b[k] = o + k
  BY <1>1
<1>3. b \in Seq(Nat) /\ Len(b) = n
  BY <1>2, Made
<1>4. QED
  BY <1>1, <1>2, <1>3 DEF Follow

\* A read: the chunks follow those that were consumed.
LEMMA ReadIs ==
  ASSUME Types, Reading, st = "read", UNCHANGED <<cmd, cur>>, ~AtEof, ReadSome
  PROVE  /\ off' \in Nat /\ off' <= Len(Input) /\ buf' \in Seq(Nat) /\ Len(buf') <= off' /\ Len(buf') \in Nat
         /\ off' - Len(buf') = off /\ Follow(buf', off' - Len(buf')) /\ off - Len(buf) = off /\ Input' = Input
<1>1. st \in Busy /\ Len(buf) = 0
  BY NoneOf DEF Busy, Reading
<1>2. Len(Input) \in Nat /\ off \in Nat
  BY <1>1, ConsumedIn DEF Types
<1>3. PICK n \in 1 .. (Len(Input) - off) : off' = off + n /\ buf' = Arrived(n)
  BY DEF ReadSome
<1>4. n \in Nat /\ off + n <= Len(Input)
  BY <1>2
<1>5. buf' \in Seq(Nat) /\ Len(buf') = n /\ Follow(buf', off)
  BY <1>2, <1>3, <1>4, ArrivedIs DEF Arrived
<1>6. Len(buf') <= off' /\ off' - Len(buf') = off /\ off' \in Nat /\ off' <= Len(Input) /\ off - Len(buf) = off
  BY <1>1, <1>2, <1>3, <1>4, <1>5
<1>7. QED
  BY <1>4, <1>5, <1>6 DEF Input

\* I_READ
LEMMA EncoderReads ==
  ASSUME CInv, ReadPlain
  PROVE  CInv'
<1> USE DEF reader, coder, names
<1>1. /\ st = "read" /\ st \in Looping /\ st \in Busy /\ st \in Coding /\ Is(Compressors) /\ Is(Compressors)'
      /\ st' = "code" /\ st' \in Looping /\ st' \in Busy /\ st' \in Coding /\ st' \notin {"in", "open", "outopen", "write", "read", "end", "over"}
      /\ UNCHANGED <<cmd, cur, stop, rc, enc, inside, whole, opened, oname, del, piece, outvars>>
  BY DEF ReadPlain, At, Goto, Looping, Busy, Coding, Is
<1>2. KeepsBut({}) /\ UNCHANGED obj
  BY <1>1, NothingKeeps DEF CInv
<1>3. Types /\ OutputTypes /\ Names /\ Reading /\ Encodes /\ buf = <<>> /\ ~fin /\ ~whole
  BY <1>1 DEF CInv, Compressing, Encodes, Reading
<1>4. cur \in Files /\ Len(Input) \in Nat /\ off \in Nat /\ off <= Len(Input) /\ Len(buf) = 0 /\ Input' = Input
  BY <1>1, <1>3, ConsumedIn, NoneOf DEF Types, Input, Reading
<1>5. /\ off' \in Nat /\ off' <= Len(Input) /\ buf' \in Seq(Nat) /\ Len(buf') <= off' /\ Len(buf') \in Nat
      /\ off' - Len(buf') = off /\ Follow(buf', off' - Len(buf')) /\ fin' \in BOOLEAN
      /\ (fin' => off' = Len(Input))
  <2>1. CASE AtEof /\ fin' = TRUE /\ UNCHANGED reader
    <3>1. off = Len(Input)
      BY <2>1, <1>4 DEF AtEof
    <3>2. Follow(buf, off - Len(buf)) /\ buf \in Seq(Nat)
      BY <1>1, <1>3 DEF Reading
    <3>3. QED
      BY <2>1, <3>1, <3>2, <1>4
  <2>2. CASE ~AtEof /\ ReadSome /\ UNCHANGED fin
    <3>1. fin \in BOOLEAN
      BY <1>3 DEF Types
    <3>2. QED
      BY <3>1, <2>2, <1>1, <1>3, ReadIs
  <2>3. QED
    BY <2>1, <2>2 DEF ReadPlain
<1>6. Types' /\ Reading'
  BY <1>1, <1>3, <1>4, <1>5 DEF Types, Reading
<1>7. Names'
  BY <1>1, <1>2, <1>3 DEF Names, IsOpen
<1>8. ~lost' => Results'
  <2>1. Unmade(cur)' => Unmade(cur)
    BY <1>1 DEF Unmade
  <2>2. QED
    BY <1>1, <1>2, <2>1, ResultsStep
<1>9. ~lost' => Owes'
  BY <1>1, <1>2 DEF CInv, Owes, KeepsBut
<1>10. Given' = Given /\ Pending' = Pending
  BY <1>1, <1>3, <1>4, <1>5 DEF Given, Pending
<1>11. ~lost' => Accounts(Input, cur, Given, Contents(cur), Pending, enc)'
  <2>1. PICK c \in Files : c = cur
    BY <1>4
  <2>2. ~lost' => ~lost /\ Contents(c)' = Contents(c)
    BY <1>2 DEF KeepsBut
  <2>3. QED
    BY <2>1, <2>2, <1>1, <1>3, <1>4, <1>10 DEF Encodes
<1>12. Compressing'
  BY <1>1, <1>2, <1>3, <1>4, <1>5, <1>11 DEF Compressing, Encodes
<1>13. QED
  BY <1>1, <1>2, <1>6, <1>7, <1>8, <1>9, <1>12 DEF CInv, KeepsBut

\* What the encoder holds once it was fed what was read.
LEMMA FedIs ==
  ASSUME CInv, Is(Compressors), st = "code", ~whole
  PROVE  /\ Fed \in Seq(Pairs) /\ off <= Len(Input) /\ off \in Nat
         /\ ~lost => Accounts(Input, cur, off, Contents(cur), <<>>, Fed)
<1>1. st \in Busy /\ st \in Coding /\ Types /\ Reading /\ Encodes /\ OutputTypes /\ (~lost => Layers)
  BY DEF Busy, Coding, CInv, Compressing
<1>2. cur \in Files /\ cur \in Nat /\ Len(Input) \in Nat /\ off - Len(buf) \in Nat /\ off \in Nat /\ off <= Len(Input)
  BY <1>1, ConsumedIn DEF Types, Reading
<1>3. PICK n : n = off - Len(buf)
  OBVIOUS
<1>4. n \in Nat /\ Len(buf) \in Nat /\ Follow(buf, n) /\ n + Len(buf) = off /\ enc \in Seq(Pairs) /\ buf \in Seq(Nat)
  <2>1. Len(buf) \in Nat /\ buf \in Seq(Nat)
    BY <1>1 DEF Reading
  <2>2. QED
    BY <2>1, <1>1, <1>2, <1>3 DEF Reading, Types
<1>5. Fed \in Seq(Pairs)
  <2>1. \A k \in 1 .. Len(buf) : buf[k] \in Nat
    BY <1>4
  <2>2. [k \in 1 .. Len(buf) |-> <<cur, buf[k]>>] \in [1 .. Len(buf) -> Pairs]
    BY <2>1, <1>2 DEF Pairs
  <2>3. [k \in 1 .. Len(buf) |-> <<cur, buf[k]>>] \in Seq(Pairs)
    BY <2>2, <1>4, Made
  <2>4. QED
    BY <2>3, <1>4, Joined DEF Fed
<1>6. ASSUME ~lost PROVE Accounts(Input, cur, off, Contents(cur), <<>>, Fed)
  <2>1. Contents(cur) \in Seq(Pairs)
    <3>1. PICK c \in Files : c = cur
      BY <1>2
    <3>2. Contents(c) \in Seq(Pairs)
      BY <1>1, <1>6, ContentsTyped
    <3>3. QED
      BY <3>1, <3>2
  <2>2. Given = n /\ Pending = <<>>
    BY <1>2, <1>3 DEF Given, Pending
  <2>3. Accounts(Input, cur, n, Contents(cur), <<>>, enc)
    BY <2>2, <1>1, <1>6 DEF Encodes
  <2>4. Accounts(Input, cur, n + Len(buf), Contents(cur), <<>>, enc \o [k \in 1 .. Len(buf) |-> <<cur, buf[k]>>])
    BY <2>1, <2>3, <1>2, <1>4, AccountsFeed
  <2>5. QED
    BY <2>4, <1>4 DEF Fed
<1>7. QED
  BY <1>2, <1>5, <1>6

\* I_COMP
LEMMA EncoderWorks ==
  ASSUME CInv, Is(Compressors), GzComp \/ ZstComp
  PROVE  CInv'
<1> USE DEF reader, coder, names
<1>1. /\ st = "code" /\ st \in Looping /\ st \in Busy /\ st \in Coding /\ Is(Compressors)' /\ buf' = <<>>
      /\ UNCHANGED <<cmd, cur, stop, rc, off, fin, inside, opened, oname, outvars>>
  BY DEF GzComp, ZstComp, At, Goto, Looping, Busy, Coding, Is, CodeOut, CodeMore, CodeDone
<1>2. KeepsBut({}) /\ UNCHANGED obj
  BY <1>1, NothingKeeps DEF CInv
<1>3. Types /\ OutputTypes /\ Names /\ Reading /\ Encodes /\ (~lost => Layers /\ Results /\ Owes)
  BY <1>1 DEF CInv, Compressing
<1>4. /\ cur \in Files /\ cur \in Nat /\ cur # 0 /\ off \in Nat /\ off <= Len(Input) /\ Len(Input) \in Nat
      /\ Input' = Input /\ Input \in Seq({"data"})
  <2>1. cur \in Files /\ off \in Nat /\ off <= Len(Input) /\ Len(Input) \in Nat /\ cur \in Nat /\ cur # 0
    BY <1>1, <1>3, ConsumedIn DEF Types, Reading
  <2>2. Input \in Seq({"data"})
    BY <2>1, <1>3, FilesTyped DEF Input
  <2>3. QED
    BY <2>1, <2>2, <1>1 DEF Input
<1>5. Len(<<>>) = 0 /\ <<>> \in Seq(Pairs) /\ <<>> \in Seq(Nat) /\ \A n : Follow(<<>>, n)
  BY NoneOf DEF Follow
<1>6. Reading' /\ off' - Len(buf') = off
  BY <1>1, <1>3, <1>4, <1>5 DEF Reading
<1>7. ~lost' => ~lost /\ Contents(cur)' = Contents(cur)
  <2>1. PICK c \in Files : c = cur
    BY <1>4
  <2>2. ~lost' => ~lost /\ Contents(c)' = Contents(c)
    BY <1>2 DEF KeepsBut
  <2>3. QED
    BY <2>1, <2>2, <1>1
<1>8. ~Unmade(cur)
  BY <1>1, <1>3, <1>4 DEF Unmade
<1>9. whole => Fed = <<>>
  <2>1. whole => enc = <<>> /\ buf = <<>>
    BY <1>3 DEF Encodes
  <2>2. [k \in 1 .. 0 |-> <<cur, buf[k]>>] = <<>>
    OBVIOUS
  <2>3. <<>> \o <<>> = <<>>
    OBVIOUS
  <2>4. QED
    BY <2>1, <2>2, <2>3, <1>5 DEF Fed
<1>10. CASE ~whole /\ (fin \/ Fed # <<>>) /\ CodeOut
  <2>1. /\ st' = "write" /\ st' \in Looping /\ st' \in Busy /\ st' \in Coding /\ st' \notin {"in", "open", "outopen", "read", "end", "over"}
        /\ enc' = <<>> /\ whole' = fin /\ del' = del
        /\ piece' = (IF fin THEN Append(Fed, <<cur, 0>>) ELSE Fed)
    BY <1>10 DEF CodeOut, Goto, Looping, Busy, Coding
  <2>2. Fed \in Seq(Pairs) /\ (~lost => Accounts(Input, cur, off, Contents(cur), <<>>, Fed))
    BY <1>1, <1>10, FedIs
  <2>3. piece' \in Seq(Pairs) /\ piece' # <<>>
    <3>1. <<cur, 0>> \in Pairs
      BY <1>4 DEF Pairs
    <3>2. PICK d : d = Append(Fed, <<cur, 0>>)
      OBVIOUS
    <3>3. d \in Seq(Pairs) /\ Len(d) = Len(Fed) + 1
      BY <3>1, <3>2, <2>2, Appended
    <3>4. Len(Fed) \in Nat
      BY <2>2
    <3>5. d # <<>>
      BY <3>3, <3>4, <1>5
    <3>6. QED
      BY <3>2, <3>3, <3>5, <2>1, <2>2, <1>10
  <2>4. Types'
    BY <1>1, <1>3, <1>4, <1>5, <2>1, <2>3 DEF Types
  <2>5. Names'
    BY <1>1, <1>2, <1>3, <1>4, <2>1 DEF Names, IsOpen, Encodes, Closed
  <2>6. ~lost' => Results'
    <3>1. ~Unmade(cur)'
      BY <1>1, <1>4, <2>1 DEF Unmade
    <3>2. QED
      BY <1>1, <1>2, <2>1, <3>1, ResultsStep
  <2>7. ~lost' => Owes'
    BY <1>1, <1>2, <1>3, <1>7, <2>1 DEF Owes
  <2>8. ASSUME ~lost' PROVE Accounts(Input, cur, Given, Contents(cur), Pending, enc)'
    <3>1. Contents(cur) \in Seq(Pairs)
      <4>1. PICK c \in Files : c = cur
        BY <1>4
      <4>2. Contents(c) \in Seq(Pairs)
        BY <1>3, <1>7, <2>8, ContentsTyped
      <4>3. QED
        BY <4>1, <4>2
    <3>2. Accounts(Input, cur, off, Contents(cur), <<>>, Fed)
      BY <2>2, <2>8, <1>7
    <3>3. Pending' = piece'
      BY <2>1 DEF Pending
    <3>4. CASE fin
      <4>1. off = Len(Input) /\ Given' = Len(Input) + 1
        BY <3>4, <1>1, <1>3, <1>4, <1>6, <2>1 DEF Encodes, Given
      <4>2. Accounts(Input, cur, Len(Input) + 1, Contents(cur), Append(Fed, <<cur, 0>>), <<>>)
        BY <4>1, <3>1, <3>2, <2>2, <1>4, AccountsEnd
      <4>3. QED
        BY <4>1, <4>2, <3>3, <3>4, <2>1, <2>8, <1>1, <1>4, <1>7
    <3>5. CASE ~fin
      <4>1. Given' = off
        BY <3>5, <1>4, <1>6, <2>1 DEF Given
      <4>2. Accounts(Input, cur, off, Contents(cur), Fed, <<>>)
        BY <3>1, <3>2, <2>2, <1>4, AccountsOut
      <4>3. QED
        BY <4>1, <4>2, <3>3, <3>5, <2>1, <2>8, <1>1, <1>4, <1>7
    <3>6. QED
      BY <3>4, <3>5
  <2>9. Encodes'
    BY <2>1, <2>8, <1>1, <1>2, <1>3, <1>4 DEF Encodes
  <2>10. Compressing'
    BY <2>1, <2>9 DEF Compressing
  <2>11. QED
    BY <1>1, <1>2, <1>6, <2>1, <2>4, <2>5, <2>6, <2>7, <2>10 DEF CInv, KeepsBut
<1>11. CASE ~fin /\ CodeMore
  <2>1. /\ st' = "read" /\ st' \in Looping /\ st' \in Busy /\ st' \in Coding /\ st' \notin {"in", "open", "outopen", "write", "end", "over"}
        /\ enc' = Fed /\ UNCHANGED <<whole, piece, del>> /\ ~whole
    BY <1>3, <1>11 DEF CodeMore, Goto, Looping, Busy, Coding, Encodes
  <2>2. Fed \in Seq(Pairs) /\ (~lost => Accounts(Input, cur, off, Contents(cur), <<>>, Fed))
    BY <1>1, <2>1, FedIs
  <2>3. Types'
    BY <1>1, <1>3, <1>4, <1>5, <2>1, <2>2 DEF Types
  <2>4. Names'
    BY <1>1, <1>2, <1>3, <1>4, <2>1 DEF Names, IsOpen
  <2>5. ~lost' => Results'
    <3>1. ~Unmade(cur)'
      BY <1>1, <1>4, <2>1 DEF Unmade
    <3>2. QED
      BY <1>1, <1>2, <2>1, <3>1, ResultsStep
  <2>6. ~lost' => Owes'
    BY <1>1, <1>2, <1>3, <1>7, <2>1 DEF Owes
  <2>7. Given' = off /\ Pending' = <<>>
    BY <1>4, <1>6, <2>1 DEF Given, Pending
  <2>8. Encodes'
    BY <2>1, <2>2, <2>7, <1>1, <1>2, <1>3, <1>4, <1>7, <1>11 DEF Encodes
  <2>9. Compressing'
    BY <2>1, <2>8 DEF Compressing
  <2>10. QED
    BY <1>1, <1>2, <1>6, <2>1, <2>3, <2>4, <2>5, <2>6, <2>9 DEF CInv, KeepsBut
<1>12. CASE fin /\ whole /\ CodeDone
  <2>1. /\ st' = "in" /\ st' \in Looping /\ st' \notin Busy /\ st' \notin Coding /\ st' \notin {"write", "outopen", "open", "end", "over"}
        /\ ~del' /\ del' \in BOOLEAN /\ UNCHANGED <<enc, whole, piece>>
    BY <1>12 DEF CodeDone, Goto, Looping, Busy, Coding
  <2>2. Types'
    BY <1>1, <1>3, <1>4, <1>5, <2>1 DEF Types
  <2>3. Names'
    BY <1>1, <1>2, <1>3, <2>1 DEF Names, IsOpen
  <2>4. ASSUME ~lost' PROVE Done(cur)'
    <3>1. Contents(cur) \in Seq(Pairs)
      <4>1. PICK c \in Files : c = cur
        BY <1>4
      <4>2. Contents(c) \in Seq(Pairs)
        BY <1>3, <1>7, <2>4, ContentsTyped
      <4>3. QED
        BY <4>1, <4>2
    <3>2. enc = <<>> /\ Pending = <<>> /\ Given = Len(Input) + 1
      BY <1>1, <1>3, <1>4, <1>5, <1>12 DEF Encodes, Given, Pending
    <3>3. Accounts(Input, cur, Len(Input) + 1, Contents(cur), <<>>, <<>>)
      BY <3>2, <2>4, <1>3, <1>7 DEF Encodes
    <3>4. Contents(cur) # <<>> /\ Last(Contents(cur)) = <<cur, 0>> /\ DataUpTo(Input, cur, Len(Input), Front(Contents(cur)))
      BY <3>1, <3>3, <1>4, AccountsWhole
    <3>5. WholeOutput(cur, Contents(cur))
      BY <3>4 DEF WholeOutput, Input
    <3>6. disk[cur].kind = "new"
      BY <2>4, <1>3, <1>4, <1>7 DEF Layers, Encodes, IsOpen, Closed
    <3>7. PICK c \in Files : c = cur
      BY <1>4
    <3>8. Done(c)
      BY <3>5, <3>6, <3>7 DEF Done
    <3>9. Done(c)'
      BY <3>8, <1>1, <1>2, <2>4, DoneKept
    <3>10. QED
      BY <3>7, <3>9, <1>1
  <2>5. ~lost' => Results'
    <3>1. ~Unmade(cur)'
      BY <1>1, <1>4, <2>1 DEF Unmade
    <3>2. QED
      BY <1>1, <1>2, <2>1, <2>4, <3>1, ResultsStep
  <2>6. ~lost' => Owes'
    BY <1>1, <1>2, <1>3, <1>7, <2>1 DEF Owes
  <2>7. Compressing'
    BY <1>1, <1>4, <2>1 DEF Compressing
  <2>8. QED
    BY <1>1, <1>2, <1>6, <2>1, <2>2, <2>3, <2>5, <2>6, <2>7 DEF CInv, KeepsBut
<1>13. QED
  <2>1. whole => fin
    BY <1>3 DEF Encodes
  <2>2. CASE GzComp
    BY <2>1, <2>2, <1>10, <1>11, <1>12 DEF GzComp
  <2>3. CASE ZstComp
    BY <2>1, <2>3, <1>9, <1>10, <1>11, <1>12 DEF ZstComp
  <2>4. QED
    BY <2>2, <2>3
-----------------------------------------------------------------------------
(* The steps of ungz, unxz and unzst *)

\* The decompressor goes from n to m consumed chunks: what it has to show.
LEMMA DecoderStep ==
  ASSUME CInv, ~Is(Compressors), st \in {"read", "code"}, st' \in Busy,
         UNCHANGED <<cmd, cur, stop, rc, enc>>,
         KeepsBut({}), obj'.name = obj.name, obj'.owed = obj.owed,
         off' \in Nat, off' <= Len(Input), buf' \in Seq(Nat), Len(buf') <= off', Follow(buf', off' - Len(buf')),
         st' = "read" => buf' = <<>>,
         fin' \in BOOLEAN, inside' \in BOOLEAN, whole' \in BOOLEAN, opened' \in BOOLEAN, del' \in BOOLEAN,
         piece' \in Seq(Pairs), del' => del,
         NEW n, n = Consumed, NEW m, m = Consumed', Parsed(Input, m, inside'),
         st' = "write" => opened /\ m # 0 /\ Input[m] = "data" /\ piece' = << <<cur, m>> >>,
         opened => /\ opened' /\ st' # "outopen" /\ oname' = oname
                   /\ ~del' => ~Is({"unzst"}) /\ Ended(Input, m)
                   /\ \A s : DataUpTo(Input, cur, n, s) =>
                               DataUpTo(Input, cur, IF st' = "write" THEN m - 1 ELSE m, s),
         ~opened => /\ oname' \in {oname, cur}
                    /\ IF st' = "outopen" THEN Opens(m)' ELSE ~opened' /\ NotOpened(m)',
         opened' /\ Is({"ungz"}) => m # 0,
         ~Is({"unzst"}) /\ whole' => ~del' /\ Ended(Input, m),
         Is({"unxz"}) /\ whole' => st' = "read"
  PROVE  CInv'
<1>1. /\ Types /\ OutputTypes /\ Names /\ st \in Looping /\ st \in Busy /\ st' \in Looping
      /\ st \notin {"in", "open", "outopen", "write"} /\ st' \notin {"in", "open", "end", "over"}
      /\ Members(Consumed) /\ cur # 0 /\ cur \in Nat
      /\ Input' = Input /\ \A S : Is(S)' <=> Is(S)
  <2>1. st \in Looping /\ st \in Busy /\ st' \in Looping /\ st \notin {"in", "open", "outopen", "write"}
        /\ st' \notin {"in", "open", "end", "over"}
    BY DEF Looping, Busy
  <2>2. Types /\ OutputTypes /\ Names /\ Members(Consumed)
    BY <2>1 DEF CInv, Decompressing
  <2>3. cur # 0 /\ cur \in Nat
    BY <2>1, <2>2, FilesTyped DEF Types
  <2>4. Input' = Input /\ \A S : Is(S)' <=> Is(S)
    BY DEF Input, Is
  <2>5. QED
    BY <2>1, <2>2, <2>3, <2>4
<1>2. /\ opened => Decodes(n) /\ obj.name = cur /\ oname = cur
      /\ ~opened => NotOpened(n) /\ ~del
  BY <1>1 DEF Members, Decodes, NotOpened
<1>3. Types'
  <2>1. st' = "write" => piece' # <<>>
    <3>1. << <<cur, m>> >> # <<>>
      OBVIOUS
    <3>2. QED
      BY <3>1
  <2>2. oname' \in 0 .. cur
    BY <1>1 DEF Types
  <2>3. QED
    BY <1>1, <2>1, <2>2 DEF Types
<1>4. Reading'
  BY <1>1 DEF Reading
<1>5. Names'
  BY <1>1, <1>2 DEF Names, IsOpen, Closed
<1>6. ~lost' => Results'
  <2>1. Unmade(cur)' => Unmade(cur)
    BY <1>1 DEF Unmade
  <2>2. QED
    BY <1>1, <2>1, ResultsStep
<1>7. ~lost' => Owes'
  BY <1>1 DEF CInv, Owes, KeepsBut
<1>8. Members(Consumed)'
  <2>1. ASSUME opened PROVE Decodes(m)'
    <3>1. ASSUME ~lost' PROVE DataUpTo(Input, cur, IF st' = "write" THEN m - 1 ELSE m, Contents(cur)')
      <4>1. PICK c : c = cur
        OBVIOUS
      <4>2. c \in Files
        BY <4>1, <1>1 DEF Types, Files
      <4>3. Contents(c)' = Contents(c) /\ ~lost
        BY <4>2, <3>1 DEF KeepsBut
      <4>4. DataUpTo(Input, cur, n, Contents(c))
        BY <4>1, <4>3, <2>1, <1>1, <1>2 DEF Decodes
      <4>5. QED
        BY <4>1, <4>3, <4>4, <2>1
    <3>2. QED
      BY <2>1, <3>1, <1>1, <1>2 DEF Decodes, IsPiece
  <2>2. Members(m)'
    BY <2>1, <1>1 DEF Members
  <2>3. QED
    BY <2>2
<1>9. Decompressing'
  BY <1>1, <1>8 DEF Decompressing
<1>10. QED
  BY <1>1, <1>3, <1>4, <1>5, <1>6, <1>7, <1>9 DEF CInv, KeepsBut

\* I_IN_OPEN: nothing of this input was read.
LEMMA DecoderOpens ==
  ASSUME CInv, UngzOpenIn \/ UnxzOpenIn \/ UnzstOpenIn
  PROVE  CInv'
<1> USE DEF reader, coder, names
<1>1. /\ st = "open" /\ st \in Looping /\ st \notin Busy /\ ~Is(Compressors) /\ Is({"ungz", "unxz", "unzst"})
      /\ UNCHANGED <<cmd, cur, stop, buf, coder, names, piece, outvars>>
  BY DEF UngzOpenIn, UnxzOpenIn, UnzstOpenIn, At, Goto, GoEnd, Looping, Busy, Is, Compressors
<1>2. KeepsBut({}) /\ UNCHANGED obj
  BY <1>1, NothingKeeps DEF CInv
<1>3. CASE GoEnd(1) /\ UNCHANGED off
  BY <1>1, <1>2, <1>3, EndStep DEF GoEnd
<1>4. CASE Goto("read") /\ (IF Is({"unzst"}) THEN off' = 0 ELSE UNCHANGED off)
  <2>1. /\ st' = "read" /\ st' \in Looping /\ st' \in Busy /\ st' \notin {"in", "open", "outopen", "code", "write", "end", "over"}
        /\ UNCHANGED rc
    BY <1>4 DEF Goto, Looping, Busy
  <2>2. /\ Types /\ OutputTypes /\ Names /\ Reading /\ cur # 0 /\ cur \in Files /\ ~del /\ buf = <<>>
        /\ ~opened /\ ~inside /\ (~Is({"unzst"}) => off = 0 /\ ~fin /\ ~whole)
    <3>1. Types /\ OutputTypes /\ Names /\ Reading /\ Decompressing
      BY <1>1 DEF CInv
    <3>2. QED
      BY <3>1, <1>1, FilesTyped DEF Types, Files, Names, Reading, Decompressing
  <2>3. off' = 0 /\ Len(buf) = 0 /\ Len(Input) \in Nat /\ Input' = Input /\ \A S : Is(S)' <=> Is(S)
    BY <1>1, <1>4, <2>2, FilesTyped, NoneOf DEF Input, Is
  <2>4. Types'
    BY <1>1, <2>1, <2>2, <2>3 DEF Types
  <2>5. Names'
    BY <1>1, <1>2, <2>1, <2>2 DEF Names, IsOpen
  <2>6. Reading'
    BY <1>1, <2>1, <2>2, <2>3 DEF Reading, Follow
  <2>7. ~lost' => Results'
    <3>1. Unmade(cur)' => Unmade(cur)
      BY <1>1 DEF Unmade
    <3>2. QED
      BY <1>1, <1>2, <2>1, <3>1, ResultsStep
  <2>8. ~lost' => Owes'
    BY <1>1, <1>2, <2>1 DEF CInv, Owes, KeepsBut
  <2>9. Consumed' = 0
    BY <1>1, <2>3 DEF Consumed
  <2>10. Members(0)'
    <3>1. Parsed(Input, 0, FALSE) /\ NoData(Input, 0)
      BY ParsedNone
    <3>2. NotOpened(0)'
      BY <3>1, <1>1, <2>1, <2>2, <2>3 DEF NotOpened
    <3>3. inside' = FALSE /\ ~opened' /\ (~Is({"unzst"})' => ~whole')
      BY <1>1, <2>2, <2>3 DEF Types
    <3>4. QED
      BY <3>1, <3>2, <3>3, <2>1, <2>3 DEF Members
  <2>11. Decompressing'
    BY <2>1, <2>9, <2>10 DEF Decompressing
  <2>12. QED
    BY <1>1, <1>2, <2>1, <2>3, <2>4, <2>5, <2>6, <2>7, <2>8, <2>11 DEF CInv, KeepsBut
<1>5. QED
  BY <1>1, <1>3, <1>4 DEF UngzOpenIn, UnxzOpenIn, UnzstOpenIn, Is

\* What the states of a decompressor have in common.
LEMMA DecoderIs ==
  ASSUME CInv, ~Is(Compressors), st \in {"read", "code"}
  PROVE  /\ st \in Looping /\ st \in Busy /\ st \notin {"in", "open", "outopen", "write"}
         /\ Types /\ OutputTypes /\ Names /\ Reading /\ Members(Consumed)
         /\ Parsed(Input, Consumed, inside) /\ Is({"ungz", "unxz", "unzst"})
         /\ opened => Decodes(Consumed) /\ obj.name = cur /\ oname = cur /\ (Is({"ungz"}) => Consumed # 0)
         /\ ~opened => NotOpened(Consumed) /\ ~del
         /\ ~Is({"unzst"}) /\ whole => ~del /\ Ended(Input, Consumed)
         /\ cur \in Files /\ cur \in Nat /\ Input \in Seq(Chunks) /\ Len(Input) \in Nat
         /\ Consumed \in 0 .. Len(Input) /\ off - Len(buf) \in 0 .. Len(Input) /\ off \in Nat /\ off <= Len(Input)
         /\ Len(buf) \in Nat
<1>1. st \in Looping /\ st \in Busy /\ st \notin {"in", "open", "outopen", "write"}
  BY DEF Looping, Busy
<1>2. Types /\ OutputTypes /\ Names /\ Reading /\ Members(Consumed)
  BY <1>1 DEF CInv, Decompressing
<1>3. Is({"ungz", "unxz", "unzst"})
  <2>1. cmd.op \in Ops
    BY <1>2, CodecAssumption DEF Types
  <2>2. QED
    BY <2>1 DEF Is, Ops
<1>4. /\ opened => Decodes(Consumed) /\ obj.name = cur /\ oname = cur
      /\ ~opened => NotOpened(Consumed) /\ ~del
  BY <1>1, <1>2 DEF Members, Decodes, NotOpened
<1>5. /\ cur \in Files /\ Input \in Seq(Chunks) /\ Len(Input) \in Nat
      /\ Consumed \in 0 .. Len(Input) /\ off - Len(buf) \in 0 .. Len(Input)
  BY <1>1, <1>2, ConsumedIn
<1>6. cur \in Nat /\ off \in Nat /\ off <= Len(Input) /\ Len(buf) \in Nat
  BY <1>1, <1>2 DEF Types, Reading
<1>7. QED
  BY <1>1, <1>2, <1>3, <1>4, <1>5, <1>6 DEF Members

\* A member ended and the file does: it is decodable.
LEMMA EndIsDecodable ==
  ASSUME Types, cur \in Files, Is({"ungz", "unxz"}), Ended(Input, Len(Input)), NEW within, Parsed(Input, Len(Input), within)
  PROVE  Decodable(Input)
<1>1. Input \in Seq(Chunks) /\ Len(Input) \in Nat
  BY FilesTyped DEF Input
<1>2. PICK f, n : f = Input /\ n = Len(Input)
  OBVIOUS
<1>3. f \in Seq(Chunks) /\ n \in Nat /\ n = Len(f) /\ DOMAIN f = 1 .. n /\ f = cmd.files[cur] /\ Parsed(f, n, within)
  <2>1. Input \in Seq(Chunks) => DOMAIN Input = 1 .. Len(Input)
    OBVIOUS
  <2>2. QED
    BY <2>1, <1>1, <1>2 DEF Input
<1>4. PICK e \in 1 .. n : f[e] = "end"
  BY <1>2 DEF Ended
<1>5. n # 0 /\ \A k \in 1 .. n : f[k] \in Chunks /\ f[k] # "bad"
  BY <1>3, <1>4 DEF Parsed
<1>6. Handles(cmd) /\ cur \in DOMAIN cmd.files
  <2>1. cmd.files \in Seq(Seq(IF cmd.op \in Compressors THEN {"data"} ELSE Chunks))
    BY CodecAssumption DEF Types
  <2>2. DOMAIN cmd.files = 1 .. Len(cmd.files)
    BY <2>1
  <2>3. QED
    BY <2>2 DEF Types, Files
<1>7. /\ Is({"ungz"}) => IF SeveralMembers(f) THEN Closing(f)
                         ELSE \A j, k \in 1 .. n : f[j] = "end" /\ j < k => f[k] # "data"
      /\ Is({"unxz"}) => \A k \in 1 .. n : f[k] = "end" => k = n
  <2>1. Is({"ungz"}) => IF SeveralMembers(f) THEN Closing(f)
                        ELSE \A j, k \in DOMAIN f : f[j] = "end" /\ j < k => f[k] # "data"
    BY <1>3, <1>6 DEF Handles, Is
  <2>2. Is({"unxz"}) => \A k \in DOMAIN f : f[k] = "end" => k = Len(f)
    BY <1>3, <1>6 DEF Handles, Is
  <2>3. QED
    BY <2>1, <2>2, <1>3
<1>8. f[n] = "end"
  <2>1. CASE Is({"unxz"})
    BY <2>1, <1>4, <1>7
  <2>2. CASE Is({"ungz"}) /\ SeveralMembers(f)
    BY <2>2, <1>3, <1>5, <1>7 DEF Closing
  <2>3. CASE Is({"ungz"}) /\ ~SeveralMembers(f)
    <3>1. CASE e = n
      BY <3>1, <1>4
    <3>2. CASE e # n
      <4>1. e < n /\ n \in 1 .. n /\ 1 \in 1 .. n /\ n # 1
        <5>1. n \in Nat /\ e \in 1 .. n /\ e # n
          BY <3>2, <1>3
        <5>2. QED
          BY <5>1
      <4>2. f[n] # "data"
        BY <4>1, <2>3, <1>4, <1>7
      <4>3. f[n] # "head"
        BY <4>1, <2>3, <1>3 DEF Parsed, SeveralMembers
      <4>4. QED
        BY <4>1, <4>2, <4>3, <1>5 DEF Chunks
    <3>3. QED
      BY <3>1, <3>2
  <2>4. QED
    BY <2>1, <2>2, <2>3 DEF Is
<1>9. f # <<>>
  BY <1>3, <1>5, NoneOf
<1>10. QED
  BY <1>2, <1>3, <1>8, <1>9, ParsedDecodable

\* I_READ of ungz and unxz
LEMMA MembersRead ==
  ASSUME CInv, Is({"ungz", "unxz"}), ReadMembers
  PROVE  CInv'
<1> USE DEF reader, coder, names
<1>1. st = "read" /\ ~Is(Compressors) /\ ~Is({"unzst"}) /\ UNCHANGED <<cmd, cur, stop, enc, fin, inside, names, piece>>
  BY DEF ReadMembers, At, Goto, GoEnd, Is, Compressors
<1>2. /\ st \in Looping /\ st \in Busy /\ st \notin {"in", "open", "outopen", "write"}
      /\ Types /\ OutputTypes /\ Names /\ Reading /\ Members(Consumed)
      /\ Parsed(Input, Consumed, inside)
      /\ opened => Decodes(Consumed) /\ obj.name = cur /\ oname = cur /\ (Is({"ungz"}) => Consumed # 0)
      /\ ~opened => NotOpened(Consumed) /\ ~del
      /\ whole => ~del /\ Ended(Input, Consumed)
      /\ cur \in Files /\ cur \in Nat /\ Input \in Seq(Chunks) /\ Len(Input) \in Nat
      /\ Consumed \in 0 .. Len(Input) /\ off \in Nat /\ off <= Len(Input)
  BY <1>1, DecoderIs
<1>3. buf = <<>> /\ off - Len(buf) = off
  BY <1>1, <1>2, NoneOf DEF Reading
<1>4. whole => Consumed = off
  BY <1>3 DEF Consumed
<1>5. CASE AtEof /\ FlushUnchecked /\ UNCHANGED <<reader, whole>>
  <2>1. KeepsBut({}) /\ obj'.name = obj.name /\ obj'.owed = obj.owed
    BY <1>1, <1>2, <1>5, UncheckedKeeps DEF CInv
  <2>2. off = Len(Input)
    BY <1>2, <1>5 DEF AtEof
  <2>3. CASE ~whole /\ GoEnd(1)
    BY <2>1, <2>3, <1>1, <1>2, <1>5, EndStep DEF GoEnd
  <2>4. CASE whole /\ Goto("in")
    <3>1. /\ st' = "in" /\ st' \in Looping /\ st' \notin Busy /\ st' \notin {"write", "outopen", "open", "end", "over"}
          /\ UNCHANGED rc
      BY <2>4 DEF Goto, Looping, Busy
    <3>2. Types'
      BY <3>1, <1>1, <1>2, <1>5 DEF Types
    <3>3. Names'
      BY <3>1, <2>1, <2>4, <1>1, <1>2 DEF Names, IsOpen
    <3>4. Reading'
      BY <3>1, <1>2, <1>3, <1>5 DEF Reading
    <3>5. opened
      <4>1. SUFFICES ASSUME NotOpened(Len(Input)) PROVE FALSE
        BY <2>2, <2>4, <1>2, <1>4
      <4>2. Ended(Input, Len(Input)) /\ NoData(Input, Len(Input))
        BY <4>1, <2>2, <2>4, <1>2, <1>4 DEF NotOpened
      <4>3. CASE Is({"ungz"})
        BY <4>1, <4>2, <4>3 DEF NotOpened, Ended, Is
      <4>4. CASE Is({"unxz"})
        <5>1. cur \in DOMAIN cmd.files /\ DOMAIN Input = 1 .. Len(Input)
          <6>1. cmd.files \in Seq(Seq(IF cmd.op \in Compressors THEN {"data"} ELSE Chunks))
            BY <1>2, CodecAssumption DEF Types
          <6>2. DOMAIN cmd.files = 1 .. Len(cmd.files)
            BY <6>1
          <6>3. QED
            BY <6>2, <1>2 DEF Files
        <5>2. \E k \in DOMAIN Input : Input[k] = "data"
          BY <5>1, <4>4, <1>2 DEF Types, Handles, Is, Input
        <5>3. QED
          BY <5>1, <5>2, <4>2 DEF NoData
      <4>5. QED
        BY <4>3, <4>4 DEF Is
    <3>6. ASSUME ~lost' PROVE Done(cur)'
      <4>1. ~lost /\ Layers
        BY <3>6, <2>1 DEF CInv, KeepsBut
      <4>2. Decodable(Input)
        BY <2>2, <2>4, <1>2, <1>4, EndIsDecodable
      <4>3. DataUpTo(Input, cur, Len(Input), Contents(cur))
        BY <4>1, <3>5, <2>2, <2>4, <1>2, <1>4 DEF Decodes
      <4>4. disk[cur].kind = "new"
        BY <4>1, <3>5, <1>2 DEF Layers, IsOpen, Closed, Types
      <4>5. PICK c \in Files : c = cur
        BY <1>2
      <4>6. Done(c)
        BY <4>2, <4>3, <4>4, <4>5, <1>1 DEF Done, WholeOutput, Input
      <4>7. Done(c)'
        BY <4>6, <3>6, <2>1, <1>1, DoneKept
      <4>8. QED
        BY <4>5, <4>7, <1>1
    <3>7. ~lost' => Results'
      <4>1. ~Unmade(cur)'
        BY <3>1, <1>1, <1>2 DEF Unmade
      <4>2. QED
        BY <4>1, <3>1, <3>6, <2>1, <1>1, <1>2, ResultsStep
    <3>8. ~lost' => Owes'
      BY <3>1, <2>1, <1>2 DEF CInv, Owes, KeepsBut
    <3>9. Decompressing'
      BY <3>1, <1>1, <1>2 DEF Decompressing, Types, Is
    <3>10. QED
      BY <3>1, <3>2, <3>3, <3>4, <3>7, <3>8, <3>9, <2>1, <1>1 DEF CInv, KeepsBut, Is
  <2>5. QED
    BY <2>3, <2>4, <1>5, <1>1 DEF ReadMembers
<1>6. CASE ~AtEof /\ ReadSome /\ whole' = FALSE /\ Goto("code") /\ UNCHANGED outvars
  <2>1. KeepsBut({}) /\ UNCHANGED obj
    BY <1>1, <1>2, <1>6, NothingKeeps DEF CInv
  <2>2. st' = "code" /\ st' \in Busy /\ st' \notin {"in", "open", "outopen", "read", "write", "end", "over"} /\ UNCHANGED rc
    BY <1>6 DEF Goto, Busy
  <2>3. /\ off' \in Nat /\ off' <= Len(Input) /\ buf' \in Seq(Nat) /\ Len(buf') <= off'
        /\ off' - Len(buf') = off /\ Follow(buf', off' - Len(buf')) /\ Input' = Input
    BY <1>1, <1>2, <1>6, ReadIs
  <2>4. Is({"unxz"}) => ~whole
    <3>1. SUFFICES ASSUME Is({"unxz"}), whole PROVE FALSE
      BY <1>2 DEF Types
    <3>2. PICK k \in 1 .. off : Input[k] = "end"
      BY <3>1, <1>2, <1>4 DEF Ended
    <3>3. k \in 1 .. Len(Input)
      BY <3>2, <1>2
    <3>4. cur \in DOMAIN cmd.files /\ DOMAIN Input = 1 .. Len(Input)
      <4>1. cmd.files \in Seq(Seq(IF cmd.op \in Compressors THEN {"data"} ELSE Chunks))
        BY <1>2, CodecAssumption DEF Types
      <4>2. DOMAIN cmd.files = 1 .. Len(cmd.files)
        BY <4>1
      <4>3. QED
        BY <4>2, <1>2 DEF Files
    <3>5. k = Len(Input)
      BY <3>1, <3>2, <3>3, <3>4, <1>2 DEF Types, Handles, Is, Input
    <3>6. QED
      BY <3>2, <3>5, <1>2, <1>6 DEF AtEof
  <2>5. Consumed' = Consumed
    BY <2>3, <2>4, <1>1, <1>3, <1>6 DEF Consumed, Is
  <2>6. PICK n : n = Consumed
    OBVIOUS
  <2>7. ~opened => ~opened' /\ NotOpened(n)'
    BY <2>2, <2>3, <2>6, <1>1, <1>2 DEF NotOpened, Is
  <2>8. opened /\ ~del => ~Is({"unzst"}) /\ Ended(Input, n)
    BY <2>6, <1>2 DEF Decodes
  <2>9. fin \in BOOLEAN /\ inside \in BOOLEAN /\ opened \in BOOLEAN /\ del \in BOOLEAN /\ piece \in Seq(Pairs)
    BY <1>2 DEF Types
  <2>10. n = Consumed' /\ Parsed(Input, n, inside') /\ (opened /\ Is({"ungz"}) => n # 0)
    BY <2>5, <2>6, <1>1, <1>2
  <2>11. QED
    BY <2>1, <2>2, <2>3, <2>6, <2>7, <2>8, <2>9, <2>10, <1>1, <1>6, DecoderStep
<1>7. QED
  BY <1>1, <1>5, <1>6 DEF ReadMembers

\* I_DECOMP wants more, refuses a chunk, or (unxz) looks for the index first.
LEMMA MoreIs ==
  ASSUME CInv, ~Is(Compressors), NeedsMore
  PROVE  CInv'
<1> USE DEF reader, coder, names
<1>1. /\ st = "code" /\ buf = <<>> /\ UNCHANGED <<cmd, cur, stop, rc, reader, coder, names, piece, outvars>>
      /\ st' = "read" /\ st' \in Busy /\ st' \notin {"in", "open", "outopen", "code", "write", "end", "over"}
  BY DEF NeedsMore, At, Goto, Busy
<1>2. /\ st \in Looping /\ st \in Busy /\ st \notin {"in", "open", "outopen", "write"}
      /\ Types /\ OutputTypes /\ Names /\ Reading /\ Members(Consumed)
      /\ Parsed(Input, Consumed, inside)
      /\ opened => Decodes(Consumed) /\ obj.name = cur /\ oname = cur /\ (Is({"ungz"}) => Consumed # 0)
      /\ ~opened => NotOpened(Consumed) /\ ~del
      /\ ~Is({"unzst"}) /\ whole => ~del /\ Ended(Input, Consumed)
      /\ off \in Nat /\ off <= Len(Input)
  BY <1>1, DecoderIs
<1>3. KeepsBut({}) /\ UNCHANGED obj
  BY <1>1, <1>2, NothingKeeps DEF CInv
<1>4. Input' = Input /\ Consumed' = Consumed /\ \A S : Is(S)' <=> Is(S)
  BY <1>1 DEF Input, Consumed, Is
<1>5. PICK n : n = Consumed
  OBVIOUS
<1>6. ~opened => ~opened' /\ NotOpened(n)'
  BY <1>1, <1>2, <1>4, <1>5 DEF NotOpened
<1>7. opened /\ ~del => ~Is({"unzst"}) /\ Ended(Input, n)
  BY <1>2, <1>5 DEF Decodes
<1>8. /\ fin \in BOOLEAN /\ inside \in BOOLEAN /\ whole \in BOOLEAN /\ opened \in BOOLEAN /\ del \in BOOLEAN
      /\ piece \in Seq(Pairs) /\ Len(buf) <= off /\ buf \in Seq(Nat) /\ Follow(buf, off - Len(buf))
  BY <1>2 DEF Types, Reading
<1>9. n = Consumed' /\ Parsed(Input, n, inside') /\ (opened /\ Is({"ungz"}) => n # 0)
  BY <1>1, <1>2, <1>4, <1>5
<1>10. QED
  BY <1>1, <1>2, <1>3, <1>4, <1>5, <1>6, <1>7, <1>8, <1>9, DecoderStep

LEMMA FailsIs ==
  ASSUME CInv, Fails
  PROVE  CInv'
<1>1. /\ st = "code" /\ st \in Looping /\ GoEnd(1) /\ UNCHANGED <<reader, coder, names, piece, outvars>>
  BY DEF Fails, At, Looping
<1>2. KeepsBut({}) /\ UNCHANGED obj
  BY <1>1, NothingKeeps DEF CInv, GoEnd
<1>3. QED
  BY <1>1, <1>2, EndStep DEF GoEnd

LEMMA SeekIs ==
  ASSUME CInv, UnxzSeek
  PROVE  CInv'
<1> USE DEF reader, coder, names
<1>1. /\ st = "code" /\ ~fin /\ buf # <<>> /\ Is({"unxz"}) /\ ~Is(Compressors) /\ ~Is({"unzst"}) /\ ~Is({"ungz"})
      /\ UNCHANGED <<cmd, cur, stop, rc, enc, inside, whole, names, piece, outvars>>
      /\ buf' = <<>> /\ st' = "read" /\ st' \in Busy /\ st' \notin {"in", "open", "outopen", "code", "write", "end", "over"}
  BY DEF UnxzSeek, At, Goto, Busy, Is, Compressors
<1>2. /\ st \in Looping /\ st \in Busy /\ st \notin {"in", "open", "outopen", "write"}
      /\ Types /\ OutputTypes /\ Names /\ Reading /\ Members(Consumed)
      /\ Parsed(Input, Consumed, inside)
      /\ opened => Decodes(Consumed) /\ obj.name = cur /\ oname = cur
      /\ ~opened => NotOpened(Consumed) /\ ~del
      /\ off \in Nat /\ off <= Len(Input) /\ Len(Input) \in Nat
  BY <1>1, DecoderIs
<1>3. KeepsBut({}) /\ UNCHANGED obj
  BY <1>1, <1>2, NothingKeeps DEF CInv
<1>4. ~whole /\ Consumed = 0
  BY <1>1, <1>2 DEF Members, Consumed
<1>5. /\ off' \in Nat /\ off' <= Len(Input) /\ fin' \in BOOLEAN /\ (fin' => off' = 0)
  <2>1. /\ buf[1] \in 1 .. Len(Input) /\ fin \in BOOLEAN
    BY <1>1, <1>2, NextChunk DEF Types
  <2>2. (off' = Len(Input) - 1 /\ fin' = fin) \/ (off' = 0 /\ fin' = TRUE)
    BY DEF UnxzSeek
  <2>3. Len(Input) \in Nat /\ Len(Input) # 0
    BY <2>1, <1>2
  <2>4. off' \in Nat /\ off' <= Len(Input)
    BY <2>2, <2>3
  <2>5. fin' \in BOOLEAN /\ (fin' => off' = 0)
    <3>1. CASE fin' = fin
      BY <2>1, <3>1, <1>1
    <3>2. CASE off' = 0 /\ fin' = TRUE
      BY <3>2
    <3>3. QED
      BY <2>2, <3>1, <3>2
  <2>6. QED
    BY <2>4, <2>5
<1>6. Input' = Input /\ Len(buf') = 0 /\ \A S : Is(S)' <=> Is(S)
  BY <1>1, NoneOf DEF Input, Is
<1>7. Consumed' = 0
  BY <1>1, <1>4, <1>5, <1>6 DEF Consumed
<1>8. ~opened => ~opened' /\ NotOpened(0)'
  BY <1>1, <1>2, <1>4, <1>6 DEF NotOpened
<1>9. opened /\ ~del => ~Is({"unzst"}) /\ Ended(Input, 0)
  BY <1>2, <1>4 DEF Decodes
<1>10. /\ inside \in BOOLEAN /\ whole \in BOOLEAN /\ opened \in BOOLEAN /\ del \in BOOLEAN
       /\ piece \in Seq(Pairs) /\ <<>> \in Seq(Nat) /\ Follow(buf', off' - Len(buf'))
  BY <1>2, <1>6 DEF Types, Reading, Follow
<1>11. PICK n : n = 0
  OBVIOUS
<1>12. n = Consumed /\ n = Consumed' /\ Parsed(Input, n, inside') /\ (~opened => NotOpened(n)')
       /\ (opened /\ ~del => Ended(Input, n))
  <2>1. n = Consumed /\ n = Consumed'
    BY <1>4, <1>7, <1>11
  <2>2. Parsed(Input, n, inside')
    BY <1>1, <1>2, <1>4, <2>1
  <2>3. ~opened => NotOpened(n)'
    BY <1>8, <1>11
  <2>4. opened /\ ~del => Ended(Input, n)
    BY <1>9, <1>11
  <2>5. QED
    BY <2>1, <2>2, <2>3, <2>4
<1>13. QED
  BY <1>1, <1>2, <1>3, <1>4, <1>5, <1>6, <1>8, <1>10, <1>12, DecoderStep

\* The library takes a chunk.
LEMMA Takes ==
  ASSUME CInv, ~Is(Compressors), st = "code", buf # <<>>, ~Refused, Consume, Is({"unxz"}) => fin, UNCHANGED <<cmd, cur>>,
         NEW n, n = Consumed
  PROVE  /\ off' = off /\ off \in Nat /\ off <= Len(Input)
         /\ buf' \in Seq(Nat) /\ Len(buf') <= off' /\ off' - Len(buf') = n + 1 /\ Follow(buf', off' - Len(buf'))
         /\ buf[1] = n + 1 /\ Chunk = Input[n + 1] /\ Chunk \in Chunks /\ n \in Nat /\ n + 1 <= Len(Input) /\ Len(Input) \in Nat
         /\ Parsed(Input, n + 1, Chunk # "end")
         /\ Chunk # "head" => inside = TRUE /\ n # 0
         /\ Chunk # "data" => \A s : DataUpTo(Input, cur, n, s) => DataUpTo(Input, cur, n + 1, s)
         /\ Ended(Input, n) \/ Chunk = "end" => Ended(Input, n + 1)
         /\ << <<cur, buf[1]>> >> = << <<cur, n + 1>> >> /\ << <<cur, n + 1>> >> \in Seq(Pairs)
<1>1. /\ st \in Busy /\ Types /\ Reading /\ Parsed(Input, Consumed, inside) /\ off \in Nat /\ off <= Len(Input)
      /\ Input \in Seq(Chunks) /\ Len(Input) \in Nat /\ Consumed \in 0 .. Len(Input) /\ Len(buf) \in Nat /\ cur \in Nat
  BY DecoderIs
<1>2. n = off - Len(buf) /\ n \in Nat
  BY <1>1 DEF Consumed
<1>3. /\ buf[1] = off - Len(buf) + 1 /\ buf[1] \in 1 .. Len(Input) /\ Input[buf[1]] \in Chunks
      /\ Tail(buf) \in Seq(Nat) /\ Len(Tail(buf)) = Len(buf) - 1
      /\ Follow(Tail(buf), off - Len(Tail(buf)))
      /\ off - Len(Tail(buf)) = off - Len(buf) + 1 /\ Len(Tail(buf)) <= off
  BY <1>1, NextChunk
<1>4. /\ off' = off /\ buf' = Tail(buf) /\ off' - Len(buf') = n + 1 /\ buf[1] = n + 1 /\ n + 1 <= Len(Input)
      /\ Chunk = Input[n + 1] /\ Chunk \in Chunks
  BY <1>2, <1>3 DEF Consume, Chunk
<1>5. Chunk # "bad" /\ ~((Chunk = "head") <=> inside)
  BY DEF Refused
<1>6. inside \in BOOLEAN
  BY <1>1 DEF Types
<1>7. Parsed(Input, n + 1, Chunk # "end")
  BY <1>1, <1>2, <1>4, <1>5, <1>6, ParsedNext
<1>8. Chunk # "head" => inside = TRUE /\ n # 0
  BY <1>1, <1>5, <1>6 DEF Parsed
<1>9. Chunk # "data" => \A s : DataUpTo(Input, cur, n, s) => DataUpTo(Input, cur, n + 1, s)
  BY <1>2, <1>4, DataSkip
<1>10. Ended(Input, n) \/ Chunk = "end" => Ended(Input, n + 1)
  <2>1. 1 .. n \subseteq 1 .. n + 1 /\ n + 1 \in 1 .. n + 1
    BY <1>2
  <2>2. QED
    BY <2>1, <1>4 DEF Ended
<1>11. << <<cur, n + 1>> >> \in Seq(Pairs)
  <2>1. <<cur, n + 1>> \in Pairs
    BY <1>1, <1>2 DEF Pairs
  <2>2. QED
    BY <2>1
<1>12. QED
  BY <1>1, <1>2, <1>3, <1>4, <1>7, <1>8, <1>9, <1>10, <1>11, Zenon

\* The first member of an input opens its output, where no data was yet.
LEMMA OpensIs ==
  ASSUME CInv, ~Is(Compressors), st \in {"read", "code"}, ~opened,
         opened' = TRUE, oname' = cur, UNCHANGED <<cmd, cur, del>>,
         NEW m, IF Is({"unxz"}) THEN IsPiece(m)' /\ NoData(Input, m - 1) ELSE NoData(Input, m),
         ~Is({"unzst"}) => ~whole'
  PROVE  Opens(m)'
<1>1. ~del
  BY DecoderIs
<1>2. Input' = Input /\ \A S : Is(S)' <=> Is(S)
  BY DEF Input, Is
<1>3. QED
  BY <1>1, <1>2 DEF Opens

LEMMA UngzWorks ==
  ASSUME CInv, UngzDecomp
  PROVE  CInv'
<1> USE DEF reader, coder, names
<1>1. /\ st = "code" /\ buf # <<>> /\ ~Refused /\ Consume /\ Is({"ungz"}) /\ ~Is(Compressors) /\ ~Is({"unzst"}) /\ ~Is({"unxz"})
      /\ UNCHANGED <<cmd, cur, stop, rc, enc, fin, outvars>>
  BY DEF UngzDecomp, Accepts, FirstOutput, Goto, At, Is, Compressors
<1>2. /\ st \in Busy /\ Types /\ OutputTypes /\ Names
      /\ opened => Decodes(Consumed) /\ oname = cur
      /\ ~opened => NotOpened(Consumed) /\ ~del
      /\ whole => ~del /\ Ended(Input, Consumed)
  BY <1>1, DecoderIs
<1>3. KeepsBut({}) /\ UNCHANGED obj
  BY <1>1, <1>2, NothingKeeps DEF CInv
<1>4. PICK n, m : n = Consumed /\ m = n + 1
  OBVIOUS
<1>5. /\ off' = off /\ off \in Nat /\ off <= Len(Input)
      /\ buf' \in Seq(Nat) /\ Len(buf') <= off' /\ off' - Len(buf') = m /\ Follow(buf', off' - Len(buf'))
      /\ buf[1] = m /\ Chunk = Input[m] /\ Chunk \in Chunks /\ n \in Nat
      /\ Parsed(Input, m, Chunk # "end")
      /\ Chunk # "head" => inside = TRUE /\ n # 0
      /\ Chunk # "data" => \A s : DataUpTo(Input, cur, n, s) => DataUpTo(Input, cur, m, s)
      /\ Ended(Input, n) \/ Chunk = "end" => Ended(Input, m)
      /\ << <<cur, buf[1]>> >> = << <<cur, m>> >> /\ << <<cur, m>> >> \in Seq(Pairs)
  BY <1>1, <1>4, Takes
<1>6. /\ m = Consumed' /\ m # 0 /\ m - 1 = n /\ (opened /\ ~del => Ended(Input, m))
      /\ ~opened => n = 0
  BY <1>1, <1>2, <1>4, <1>5 DEF Consumed, Is, Decodes, NotOpened
<1>7. /\ fin \in BOOLEAN /\ inside \in BOOLEAN /\ whole \in BOOLEAN /\ opened \in BOOLEAN /\ del \in BOOLEAN
      /\ piece \in Seq(Pairs)
  BY <1>2 DEF Types
<1>8. CASE Chunk = "head" /\ inside' = TRUE /\ FirstOutput("code") /\ UNCHANGED <<whole, del, piece>>
  <2>1. CASE opened /\ st' = "code" /\ UNCHANGED <<opened, oname>>
    BY <1>1, <1>2, <1>3, <1>4, <1>5, <1>6, <1>7, <1>8, <2>1, DecoderStep DEF Busy
  <2>2. CASE ~opened /\ opened' = TRUE /\ oname' = cur /\ st' = "outopen"
    <3>1. ~whole
      BY <1>2, <1>4, <1>6, <2>2 DEF Ended
    <3>2. NoData(Input, m)
      <4>1. \A k \in 1 .. m : k = m
        BY <1>4, <1>6, <2>2
      <4>2. QED
        BY <4>1, <1>5, <1>8 DEF NoData
    <3>3. Opens(m)'
      BY <1>1, <1>8, <2>2, <3>1, <3>2, OpensIs
    <3>4. QED
      BY <1>1, <1>2, <1>3, <1>4, <1>5, <1>6, <1>7, <1>8, <2>2, <3>1, <3>3, DecoderStep DEF Busy
  <2>3. QED
    BY <2>1, <2>2, <1>8 DEF FirstOutput, Goto
<1>9. CASE Chunk = "data" /\ piece' = << <<cur, buf[1]>> >> /\ st' = "write" /\ UNCHANGED <<inside, whole, names>>
  BY <1>1, <1>2, <1>3, <1>4, <1>5, <1>6, <1>7, <1>9, DecoderStep DEF Busy
<1>10. CASE /\ Chunk = "end" /\ inside' = FALSE /\ whole' = TRUE /\ del' = FALSE /\ st' = "code"
            /\ UNCHANGED <<opened, oname, piece>>
  BY <1>1, <1>2, <1>3, <1>4, <1>5, <1>6, <1>7, <1>10, DecoderStep DEF Busy
<1>11. QED
  BY <1>8, <1>9, <1>10 DEF UngzDecomp, Accepts, Goto

LEMMA UnxzWorks ==
  ASSUME CInv, UnxzDecomp
  PROVE  CInv'
<1> USE DEF reader, coder, names
<1>1. /\ st = "code" /\ fin /\ buf # <<>> /\ ~Refused /\ Consume /\ Is({"unxz"}) /\ ~Is(Compressors) /\ ~Is({"unzst"}) /\ ~Is({"ungz"})
      /\ UNCHANGED <<cmd, cur, stop, rc, enc, outvars>>
  BY DEF UnxzDecomp, Accepts, FirstOutput, Goto, At, Is, Compressors
<1>2. /\ st \in Busy /\ Types /\ OutputTypes /\ Names /\ Members(Consumed)
      /\ opened => Decodes(Consumed) /\ oname = cur
      /\ ~opened => NotOpened(Consumed) /\ ~del
  BY <1>1, DecoderIs
<1>3. KeepsBut({}) /\ UNCHANGED obj
  BY <1>1, <1>2, NothingKeeps DEF CInv
<1>4. PICK n, m : n = Consumed /\ m = n + 1
  OBVIOUS
<1>5. /\ off' = off /\ off \in Nat /\ off <= Len(Input)
      /\ buf' \in Seq(Nat) /\ Len(buf') <= off' /\ off' - Len(buf') = m /\ Follow(buf', off' - Len(buf'))
      /\ buf[1] = m /\ Chunk = Input[m] /\ Chunk \in Chunks /\ n \in Nat
      /\ Parsed(Input, m, Chunk # "end")
      /\ Chunk # "head" => inside = TRUE /\ n # 0
      /\ Chunk # "data" => \A s : DataUpTo(Input, cur, n, s) => DataUpTo(Input, cur, m, s)
      /\ Ended(Input, n) \/ Chunk = "end" => Ended(Input, m)
      /\ << <<cur, buf[1]>> >> = << <<cur, m>> >> /\ << <<cur, m>> >> \in Seq(Pairs)
      /\ m <= Len(Input) /\ Len(Input) \in Nat
  BY <1>1, <1>4, Takes
<1>6. /\ m # 0 /\ m - 1 = n /\ (opened /\ ~del => Ended(Input, m))
      /\ ~whole /\ (~opened => NoData(Input, n))
  BY <1>1, <1>2, <1>4, <1>5 DEF Decodes, NotOpened, Members
<1>7. /\ fin \in BOOLEAN /\ inside \in BOOLEAN /\ whole \in BOOLEAN /\ opened \in BOOLEAN /\ del \in BOOLEAN
      /\ piece \in Seq(Pairs)
  BY <1>2 DEF Types
<1>8. fin' \/ whole' => m = Consumed'
  BY <1>1, <1>5 DEF Consumed
<1>9. Input' = Input /\ Is({"unxz"})' /\ ~Is({"unzst"})' /\ ~Is({"ungz"})'
  BY <1>1 DEF Input, Is
<1>10. Chunk # "data" /\ ~opened => NoData(Input, m)
  <2>1. \A k \in 1 .. m : k \in 1 .. n \/ k = m
    BY <1>4, <1>5
  <2>2. QED
    BY <2>1, <1>5, <1>6 DEF NoData
<1>11. CASE Chunk = "head" /\ inside' = TRUE /\ st' = "code" /\ UNCHANGED <<fin, whole, names, piece>>
  <2>1. ~opened => NotOpened(m)'
    BY <1>2, <1>9, <1>10, <1>11 DEF NotOpened
  <2>2. m = Consumed'
    BY <1>1, <1>8, <1>11
  <2>3. QED
    BY <1>1, <1>2, <1>3, <1>4, <1>5, <1>6, <1>7, <2>1, <2>2, <1>11, DecoderStep DEF Busy
<1>12. CASE Chunk = "data" /\ piece' = << <<cur, buf[1]>> >> /\ FirstOutput("write") /\ UNCHANGED <<inside, fin, whole, del>>
  <2>1. m = Consumed'
    BY <1>1, <1>8, <1>12
  <2>2. CASE opened /\ st' = "write" /\ UNCHANGED <<opened, oname>>
    BY <1>1, <1>2, <1>3, <1>4, <1>5, <1>6, <1>7, <1>12, <2>1, <2>2, DecoderStep DEF Busy
  <2>3. CASE ~opened /\ opened' = TRUE /\ oname' = cur /\ st' = "outopen"
    <3>1. IsPiece(m)' /\ NoData(Input, m - 1)
      BY <1>1, <1>5, <1>6, <1>9, <1>12, <2>3 DEF IsPiece
    <3>2. ~whole'
      BY <1>6, <1>12
    <3>3. Opens(m)'
      BY <1>1, <1>12, <2>3, <3>1, <3>2, OpensIs
    <3>4. QED
      BY <1>1, <1>2, <1>3, <1>4, <1>5, <1>6, <1>7, <1>12, <2>1, <2>3, <3>2, <3>3, DecoderStep DEF Busy
  <2>4. QED
    BY <2>2, <2>3, <1>12 DEF FirstOutput, Goto
<1>13. CASE /\ Chunk = "end" /\ inside' = FALSE /\ fin' = FALSE /\ whole' = TRUE /\ del' = FALSE /\ st' = "read"
            /\ UNCHANGED <<opened, oname, piece>>
  <2>1. ~opened => NotOpened(m)'
    BY <1>2, <1>9, <1>10, <1>13 DEF NotOpened
  <2>2. m = Consumed'
    BY <1>8, <1>13
  <2>3. buf' = <<>>
    <3>1. cur \in Files /\ cur \in DOMAIN cmd.files /\ m \in DOMAIN Input
      <4>1. cmd.files \in Seq(Seq(IF cmd.op \in Compressors THEN {"data"} ELSE Chunks))
        BY <1>2, CodecAssumption DEF Types
      <4>2. DOMAIN cmd.files = 1 .. Len(cmd.files) /\ cur \in Files
        BY <4>1, <1>1, DecoderIs
      <4>3. Input \in Seq(Chunks)
        BY <1>1, DecoderIs
      <4>4. m \in DOMAIN Input
        BY <4>3, <1>4, <1>5
      <4>5. QED
        BY <4>2, <4>4 DEF Files
    <3>2. m = Len(Input)
      BY <3>1, <1>1, <1>2, <1>5, <1>13 DEF Types, Handles, Is, Input
    <3>3. Len(buf') \in Nat /\ Len(buf') = 0
      BY <3>2, <1>5
    <3>4. QED
      BY <3>3, <1>5
  <2>4. QED
    BY <1>1, <1>2, <1>3, <1>4, <1>5, <1>6, <1>7, <1>13, <2>1, <2>2, <2>3, DecoderStep DEF Busy
<1>14. QED
  BY <1>11, <1>12, <1>13 DEF UnxzDecomp, Accepts, Goto

LEMMA UnzstReads ==
  ASSUME CInv, Is({"unzst"}), UnzstRead
  PROVE  CInv'
<1> USE DEF reader, coder, names
<1>1. st = "read" /\ ~Is(Compressors) /\ ~Is({"ungz"}) /\ ~Is({"unxz"}) /\ UNCHANGED <<cmd, cur, stop, rc, enc, fin, whole, piece>>
  BY DEF UnzstRead, At, Goto, FirstOutput, Is, Compressors
<1>2. /\ st \in Looping /\ st \in Busy /\ st \notin {"in", "open", "outopen", "write"}
      /\ Types /\ OutputTypes /\ Names /\ Reading
      /\ Parsed(Input, Consumed, inside)
      /\ opened => Decodes(Consumed) /\ obj.name = cur /\ oname = cur
      /\ ~opened => NotOpened(Consumed) /\ ~del
      /\ cur \in Files /\ cur \in Nat /\ Input \in Seq(Chunks) /\ Len(Input) \in Nat
      /\ off \in Nat /\ off <= Len(Input)
  BY <1>1, DecoderIs
<1>3. buf = <<>> /\ off - Len(buf) = off /\ Consumed = off
  BY <1>1, <1>2, NoneOf DEF Reading, Consumed
<1>4. ~opened => off = 0 /\ NoData(Input, 0)
  BY <1>1, <1>2, <1>3 DEF NotOpened
<1>5. CASE AtEof /\ Close /\ inside' = FALSE /\ opened' = FALSE /\ del' = FALSE /\ Goto("in") /\ UNCHANGED <<reader, oname>>
  <2>1. KeepsBut({}) /\ obj'.name = Closed /\ obj'.owed = Nothing
    <3>1. PICK n, ow : Close \/ OpenFails(n, ow)
      BY <1>5
    <3>2. QED
      BY <3>1, <1>1, <1>2, ClosedKeeps DEF CInv
  <2>2. off = Len(Input)
    BY <1>2, <1>5 DEF AtEof
  <2>3. st' = "in" /\ st' \in Looping /\ st' \notin Busy /\ st' \notin {"write", "outopen", "open", "end", "over"}
    BY <1>5 DEF Goto, Looping, Busy
  <2>4. Types'
    BY <2>3, <1>1, <1>2, <1>5 DEF Types
  <2>5. Names'
    BY <2>1, <2>3, <1>1, <1>2, <1>5 DEF Names, Closed
  <2>6. Reading'
    BY <2>3, <1>2, <1>3, <1>5 DEF Reading
  <2>7. Closing(Input) /\ Decodable(Input) /\ opened
    <3>1. PICK f, n : f = Input /\ n = Len(Input)
      OBVIOUS
    <3>2. f \in Seq(Chunks) /\ n = Len(f) /\ DOMAIN f = 1 .. n /\ Parsed(f, n, inside)
      <4>1. DOMAIN Input = 1 .. Len(Input)
        BY <1>2
      <4>2. QED
        BY <4>1, <3>1, <1>2, <1>3, <2>2
    <3>3. Closing(f)
      <4>1. cmd.files \in Seq(Seq(IF cmd.op \in Compressors THEN {"data"} ELSE Chunks))
        BY <1>2, CodecAssumption DEF Types
      <4>2. DOMAIN cmd.files = 1 .. Len(cmd.files)
        BY <4>1
      <4>3. cur \in DOMAIN cmd.files
        BY <4>2, <1>2 DEF Files
      <4>4. QED
        BY <4>3, <3>1, <1>2 DEF Types, Handles, Is, Input
    <3>4. f # <<>> /\ f[n] = "end"
      BY <3>2, <3>3 DEF Closing, Parsed
    <3>5. Decodable(f)
      BY <3>2, <3>4, ParsedDecodable
    <3>6. n # 0
      BY <3>2, <3>4
    <3>7. QED
      BY <3>1, <3>3, <3>5, <3>6, <1>4, <2>2
  <2>8. ASSUME ~lost' PROVE Done(cur)'
    <3>1. ~lost /\ Layers
      BY <2>1, <2>8 DEF CInv, KeepsBut
    <3>2. DataUpTo(Input, cur, Len(Input), Contents(cur))
      BY <3>1, <2>2, <2>7, <1>2, <1>3 DEF Decodes
    <3>3. disk[cur].kind = "new"
      BY <3>1, <2>7, <1>2 DEF Layers, IsOpen, Closed, Types
    <3>4. PICK c \in Files : c = cur
      BY <1>2
    <3>5. Done(c)
      BY <2>7, <3>2, <3>3, <3>4, <1>1 DEF Done, WholeOutput, Input
    <3>6. Done(c)'
      BY <3>5, <2>1, <2>8, <1>1, DoneKept
    <3>7. QED
      BY <3>4, <3>6, <1>1
  <2>9. ~lost' => Results'
    <3>1. ~Unmade(cur)'
      BY <2>3, <1>1, <1>2 DEF Unmade
    <3>2. QED
      BY <3>1, <2>1, <2>3, <2>8, <1>1, <1>2, ResultsStep
  <2>10. Owes'
    BY <2>1 DEF Owes
  <2>11. Decompressing'
    BY <2>3, <1>1, <1>5 DEF Decompressing, Is
  <2>12. QED
    BY <2>1, <2>3, <2>4, <2>5, <2>6, <2>9, <2>10, <2>11, <1>1 DEF CInv, KeepsBut, Is
<1>6. CASE ~AtEof /\ ReadSome /\ FirstOutput("code") /\ UNCHANGED <<inside, del, outvars>>
  <2>1. KeepsBut({}) /\ UNCHANGED obj
    BY <1>1, <1>2, <1>6, NothingKeeps DEF CInv
  <2>2. /\ off' \in Nat /\ off' <= Len(Input) /\ buf' \in Seq(Nat) /\ Len(buf') <= off'
        /\ off' - Len(buf') = off /\ Follow(buf', off' - Len(buf')) /\ Input' = Input
    BY <1>1, <1>2, <1>6, ReadIs
  <2>3. PICK n : n = Consumed
    OBVIOUS
  <2>4. n = Consumed' /\ Parsed(Input, n, inside') /\ (~opened => NoData(Input, n)) /\ (opened => del)
    <3>1. Consumed' = off
      BY <2>2, <1>1 DEF Consumed, Is
    <3>2. opened => del
      BY <1>1, <1>2 DEF Decodes
    <3>3. QED
      BY <3>1, <3>2, <2>3, <1>2, <1>3, <1>4, <1>6
  <2>5. fin \in BOOLEAN /\ inside \in BOOLEAN /\ whole \in BOOLEAN /\ opened \in BOOLEAN /\ del \in BOOLEAN /\ piece \in Seq(Pairs)
    BY <1>2 DEF Types
  <2>6. CASE opened /\ st' = "code" /\ UNCHANGED <<opened, oname>>
    BY <2>1, <2>2, <2>3, <2>4, <2>5, <2>6, <1>1, <1>2, <1>6, DecoderStep DEF Busy
  <2>7. CASE ~opened /\ opened' = TRUE /\ oname' = cur /\ st' = "outopen"
    <3>1. Opens(n)'
      BY <2>4, <2>7, <1>1, <1>6, OpensIs
    <3>2. QED
      BY <2>1, <2>2, <2>3, <2>4, <2>5, <2>7, <3>1, <1>1, <1>2, <1>6, DecoderStep DEF Busy
  <2>8. QED
    BY <2>6, <2>7, <1>6 DEF FirstOutput, Goto
<1>7. QED
  BY <1>5, <1>6 DEF UnzstRead

LEMMA UnzstWorks ==
  ASSUME CInv, UnzstDecomp
  PROVE  CInv'
<1> USE DEF reader, coder, names
<1>1. /\ st = "code" /\ buf # <<>> /\ ~Refused /\ Consume /\ Is({"unzst"}) /\ ~Is(Compressors) /\ ~Is({"ungz"}) /\ ~Is({"unxz"})
      /\ UNCHANGED <<cmd, cur, stop, rc, enc, fin, whole, names, outvars>>
  BY DEF UnzstDecomp, Accepts, Goto, At, Is, Compressors
<1>2. /\ st \in Busy /\ Types /\ OutputTypes /\ Names
      /\ opened => Decodes(Consumed) /\ oname = cur
      /\ ~opened => NotOpened(Consumed)
  BY <1>1, DecoderIs
<1>3. KeepsBut({}) /\ UNCHANGED obj
  BY <1>1, <1>2, NothingKeeps DEF CInv
<1>4. opened /\ del
  BY <1>1, <1>2 DEF Decodes, NotOpened
<1>5. PICK n, m : n = Consumed /\ m = n + 1
  OBVIOUS
<1>6. /\ off' = off /\ off \in Nat /\ off <= Len(Input)
      /\ buf' \in Seq(Nat) /\ Len(buf') <= off' /\ off' - Len(buf') = m /\ Follow(buf', off' - Len(buf'))
      /\ buf[1] = m /\ Chunk = Input[m] /\ Chunk \in Chunks /\ n \in Nat
      /\ Parsed(Input, m, Chunk # "end")
      /\ Chunk # "head" => inside = TRUE /\ n # 0
      /\ Chunk # "data" => \A s : DataUpTo(Input, cur, n, s) => DataUpTo(Input, cur, m, s)
      /\ << <<cur, buf[1]>> >> = << <<cur, m>> >> /\ << <<cur, m>> >> \in Seq(Pairs)
  BY <1>1, <1>5, Takes
<1>7. m = Consumed' /\ m # 0 /\ m - 1 = n
  BY <1>1, <1>5, <1>6 DEF Consumed, Is
<1>8. /\ fin \in BOOLEAN /\ inside \in BOOLEAN /\ whole \in BOOLEAN /\ opened \in BOOLEAN /\ del \in BOOLEAN
      /\ piece \in Seq(Pairs)
  BY <1>2 DEF Types
<1>9. CASE Chunk = "data" /\ piece' = << <<cur, buf[1]>> >> /\ st' = "write" /\ UNCHANGED inside
  BY <1>1, <1>2, <1>3, <1>4, <1>5, <1>6, <1>7, <1>8, <1>9, DecoderStep DEF Busy
<1>10. CASE Chunk \in {"head", "end"} /\ inside' = ~inside /\ st' = "code" /\ UNCHANGED piece
  <2>1. inside' = (Chunk # "end")
    <3>1. Chunk = "head" => inside = FALSE
      BY <1>1, <1>8 DEF Refused
    <3>2. QED
      BY <3>1, <1>6, <1>10
  <2>2. Parsed(Input, m, inside')
    BY <2>1, <1>6
  <2>3. Chunk # "data" /\ inside' \in BOOLEAN
    BY <2>1, <1>10
  <2>4. QED
    BY <2>2, <2>3, <1>1, <1>2, <1>3, <1>4, <1>5, <1>6, <1>7, <1>8, <1>10, DecoderStep DEF Busy
<1>11. QED
  BY <1>9, <1>10 DEF UnzstDecomp, Accepts, Goto
-----------------------------------------------------------------------------
(* The operation *)

LEMMA InitInv == ASSUME \A c \in Commands : Handles(c), Init PROVE CInv
<1>1. /\ cmd \in Commands /\ Handles(cmd) /\ disk \in [Files -> {Absent, Old}] /\ obj = NoObject /\ lost = FALSE
      /\ st = "in" /\ cur = 0 /\ stop = FALSE /\ rc = 0 /\ off = 0 /\ buf = <<>>
      /\ enc = <<>> /\ fin = FALSE /\ inside = FALSE /\ whole = FALSE
      /\ opened = FALSE /\ oname = 0 /\ del = FALSE /\ piece = <<>>
  BY DEF Init, OutputInit, Files
<1>2. Len(<<>>) = 0 /\ <<>> \in Seq(Pairs) /\ <<>> \in Seq(Nat)
  BY NoneOf
<1>3. Len(cmd.files) \in Nat
  <2>1. \E S : cmd.files \in Seq(S)
    BY <1>1, CodecAssumption
  <2>2. QED
    BY <2>1
<1>4. Types
  <2>1. off \in Nat /\ Len(buf) <= off /\ enc \in Seq(Pairs) /\ piece \in Seq(Pairs)
    BY <1>1, <1>2
  <2>2. cur \in 0 .. Len(cmd.files) /\ oname \in 0 .. cur
    BY <1>1, <1>3
  <2>3. fin \in BOOLEAN /\ inside \in BOOLEAN /\ whole \in BOOLEAN /\ opened \in BOOLEAN /\ del \in BOOLEAN /\ stop \in BOOLEAN
    BY <1>1
  <2>4. cmd \in Commands /\ Handles(cmd) /\ st = "in" /\ rc = 0
    BY <1>1
  <2>5. QED
    BY <2>1, <2>2, <2>3, <2>4 DEF Types, Looping, Busy
<1>5. OutputTypes
  <2>1. \A i \in Files : disk[i] \in {Absent, Old}
    BY <1>1
  <2>2. \A i \in Files : IsFile(disk[i]) /\ disk[i].kind \in {"absent", "old", "new"}
    BY <2>1 DEF IsFile, Absent, Old
  <2>3. DOMAIN disk = Files /\ disk = [n \in DOMAIN disk |-> disk[n]]
    BY <1>1
  <2>4. IsDisk(disk)
    BY <2>2, <2>3 DEF IsDisk
  <2>5. DOMAIN obj = {"name", "at", "cache", "owed"} /\ lost \in BOOLEAN
    BY <1>1 DEF NoObject
  <2>6. QED
    BY <2>2, <2>3, <2>4, <2>5 DEF OutputTypes
<1>6. Names
  BY <1>1, <1>3 DEF Names, NoObject, Closed
<1>7. Reading
  BY <1>1, <1>2 DEF Reading, Busy
<1>8. Compressing /\ Decompressing
  BY <1>1 DEF Compressing, Decompressing, Fresh, Coding, Busy
<1>9. Layers
  <2>1. \A i \in Files : disk[i].has = <<>>
    BY <1>1 DEF Absent, Old
  <2>2. obj.at = 0 /\ obj.cache = Empty /\ ~IsOpen
    BY <1>1 DEF NoObject, IsOpen, Closed
  <2>3. \A i \in Files : disk[i].has \in Seq(Pairs)
    BY <2>1, <1>2
  <2>4. obj.at \in Nat
    BY <2>2
  <2>5. QED
    BY <2>2, <2>3, <2>4 DEF Layers
<1>10. Owes
  BY <1>1 DEF Owes, NoObject
<1>11. Results
  <2>1. \A i \in Files : i > 0 /\ ~(i < 0) /\ i # 0
    BY <1>3 DEF Files
  <2>2. \A i \in Files : disk[i].kind # "new"
    BY <1>1 DEF Absent, Old
  <2>3. QED
    BY <2>1, <2>2, <1>1 DEF Results
<1>12. QED
  BY <1>1, <1>4, <1>5, <1>6, <1>7, <1>8, <1>9, <1>10, <1>11 DEF CInv

LEMMA StepInv == ASSUME CInv, [Next]_vars PROVE CInv'
<1>1. CASE UNCHANGED vars \/ Signal
  <2>1. stop \in BOOLEAN
    BY DEF CInv, Types
  <2>2. QED
    BY <1>1, <2>1, SignalStep DEF vars, loop, Signal
<1>2. CASE Finish
  BY <1>2, FinishInv
<1>3. CASE Stop \/ ReadFails
  <2>1. /\ st \in Looping /\ GoEnd(1) /\ UNCHANGED <<cmd, cur, stop, reader, coder, names, piece, outvars>>
    BY <1>3 DEF CInv, Types, Stop, ReadFails, At, GoEnd, Looping
  <2>2. KeepsBut({}) /\ UNCHANGED obj
    BY <2>1, NothingKeeps DEF CInv
  <2>3. QED
    BY <2>1, <2>2, EndStep DEF GoEnd
<1>4. CASE NextInput \/ Write("code")
  BY <1>4, NextInputInv, WriteInv
<1>5. CASE GzRun \/ ZstRun
  <2>1. Is(Compressors)
    BY <1>5 DEF GzRun, ZstRun, Is, Compressors
  <2>2. \/ OpenOut("read") \/ NextInput \/ ReadFails \/ Write("code")
        \/ GzOpenIn \/ ZstOpenIn \/ ReadPlain \/ GzComp \/ ZstComp
    BY <1>5 DEF GzRun, ZstRun, CompressorStates
  <2>3. "read" \in Coding
    BY DEF Coding
  <2>4. QED
    BY <2>1, <2>2, <2>3, <1>3, <1>4, OpenOutInv, EncoderOpens, EncoderReads, EncoderWorks
<1>6. CASE UngzRun \/ UnxzRun \/ UnzstRun
  <2>1. ~Is(Compressors) /\ "code" \in Coding /\ "write" \in Coding
    BY <1>6 DEF UngzRun, UnxzRun, UnzstRun, Is, Compressors, Coding
  <2>2. \/ (Is({"ungz", "unxz"}) /\ ReadMembers) \/ (Is({"unzst"}) /\ UnzstRead)
        \/ UngzOpenIn \/ UnxzOpenIn \/ UnzstOpenIn \/ NeedsMore \/ Fails
        \/ UngzDecomp \/ UnxzSeek \/ UnxzDecomp \/ UnzstDecomp
        \/ NextInput \/ ReadFails \/ Write("code")
        \/ (~Is({"unxz"}) /\ OpenOut("code")) \/ (Is({"unxz"}) /\ OpenOut("write"))
    BY <1>6 DEF UngzRun, UnxzRun, UnzstRun, DecompressorStates, RefusesChunk, UnxzRefuses, Is
  <2>3. CASE (~Is({"unxz"}) /\ OpenOut("code")) \/ (Is({"unxz"}) /\ OpenOut("write"))
    BY <2>1, <2>3, OpenOutInv
  <2>4. CASE (Is({"ungz", "unxz"}) /\ ReadMembers) \/ (Is({"unzst"}) /\ UnzstRead)
    BY <2>4, MembersRead, UnzstReads
  <2>5. CASE UngzOpenIn \/ UnxzOpenIn \/ UnzstOpenIn \/ NeedsMore \/ Fails
    BY <2>1, <2>5, DecoderOpens, MoreIs, FailsIs
  <2>6. CASE UngzDecomp \/ UnxzSeek \/ UnxzDecomp \/ UnzstDecomp
    BY <2>6, UngzWorks, SeekIs, UnxzWorks, UnzstWorks
  <2>7. QED
    BY <2>2, <2>3, <2>4, <2>5, <2>6, <1>3, <1>4
<1>7. QED
  BY <1>1, <1>2, <1>3, <1>5, <1>6 DEF Next, Step

\* What the invariant says of the states that the runs look at.
LEMMA InvariantTells == CInv => CodecInv
<1> SUFFICES ASSUME CInv PROVE CodecInv
  OBVIOUS
<1>1. TypeOK
  <2>1. Types /\ OutputTypes /\ Names
    BY DEF CInv
  <2>2. QED
    BY <2>1 DEF Types, OutputTypes, Names, TypeOK, Looping
<1>2. ASSUME st = "over", ~lost, NEW i \in Files
      PROVE  Results /\ Contents(i) = disk[i].has
  <2>1. Results /\ obj.name = 0 /\ i # 0
    BY <1>2, FilesTyped DEF CInv, NoObject, Closed
  <2>2. QED
    BY <2>1 DEF Contents
<1>3. SuccessIsWhole
  BY <1>2 DEF SuccessIsWhole, Results, Done
<1>4. NoHalfFile
  BY <1>2 DEF NoHalfFile, Results, NoHalf, Exempt
<1>5. QED
  BY <1>1, <1>3, <1>4 DEF CodecInv

\* The state of the loops, the output object and the files, for command lines of any
\* number and length of files.
THEOREM CodecStates ==
  ASSUME \A c \in Commands : Handles(c)
  PROVE  Spec => []CInv
<1>1. Init => CInv
  BY InitInv
<1>2. CInv /\ [Next]_vars => CInv'
  BY StepInv
<1>3. QED
  BY <1>1, <1>2, PTL DEF Spec

\* Whatever fails and whenever the operation is stopped: exit code 0 of gz, zst, ungz,
\* unxz and unzst means that every output is whole, and no result leaves half of
\* one, for all command lines but those of Handles that the code gets wrong.
THEOREM CodecIsCorrect ==
  ASSUME \A c \in Commands : Handles(c)
  PROVE  Spec => []CodecInv
<1>1. Spec => []CInv
  BY CodecStates
<1>2. QED
  BY <1>1, InvariantTells, PTL
=============================================================================
