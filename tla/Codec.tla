-------------------------------- MODULE Codec --------------------------------
(***************************************************************************)
(* "fcom gz", "zst", "ungz", "unxz" and "unzst": the loops around the      *)
(* compression libraries, and the files they leave.                        *)
(*                                                                         *)
(* An input file is a sequence of chunks.  A plain file has "data" only;   *)
(* in a compressed one every member (frame, stream) is "head", "data",     *)
(* ..., "end", and a chunk that the library refuses is "bad".  A read      *)
(* returns one chunk or several.  What is written is named after the chunk *)
(* it comes from; <<i, 0>> closes what a compressor makes of input i.      *)
(*                                                                         *)
(* An action is a state of the loop.  "stop" is tested at the loop's top   *)
(* only; a fall-through is a step here too, and to stop before it or after *)
(* it leaves the same files.  A read that returns ASYNC, and a warning of  *)
(* the library, change nothing.  Left out: --test, --stdout, and -o with   *)
(* several inputs.                                                         *)
(***************************************************************************)
EXTENDS Output

CONSTANTS
  Commands   \* the command lines: [op, files, overwrite]

Compressors == {"gz", "zst"}
Ops == Compressors \cup {"ungz", "unxz", "unzst"}
Chunks == {"head", "data", "end", "bad"}
FailureKinds ==
  {"input", "open", "info", "read", "create", "write",  \* the call fails
   "flush", "short",                                    \* as in Output
   "signal"}

ASSUME CodecAssumption ==
  /\ \A c \in Commands :
       /\ c.op \in Ops /\ c.overwrite \in BOOLEAN
       /\ c.files \in Seq(Seq(IF c.op \in Compressors THEN {"data"} ELSE Chunks))
  /\ Failures \subseteq FailureKinds

VARIABLES
  cmd,     \* the command
  st,      \* z->st
  cur,     \* the current input
  off,     \* where the next read begins: in_off, or the file object's own offset
  buf,     \* the chunks that were read and not yet processed, by their index
  enc,     \* a compressor: pieces that were fed to it and have not come out
  fin,     \* a compressor: it was told to finish (zst_flags); unxz: the library has
           \* seen the file's index
  inside,  \* a decompressor: a member has begun
  whole,   \* a compressor: the library has closed what it made;
           \* a decompressor: next_chunk_begin
  opened,  \* out_opened
  piece,   \* what is being written: the pieces in z->zdata or z->data
  oname,   \* the input after which the output is named
  del,     \* del_on_close
  stop, rc

loop == <<cmd, st, cur, stop, rc>>
reader == <<off, buf>>
coder == <<enc, fin, inside, whole>>
names == <<opened, oname, del>>
vars == <<loop, reader, coder, names, piece, outvars>>

Files == 1 .. Len(cmd.files)
Input == cmd.files[cur]

Init ==
  /\ cmd \in Commands
  /\ OutputInit(1 .. Len(cmd.files))
  /\ st = "in" /\ cur = 0 /\ stop = FALSE /\ rc = 0
  /\ off = 0 /\ buf = <<>>
  /\ enc = <<>> /\ fin = FALSE /\ inside = FALSE /\ whole = FALSE
  /\ opened = FALSE /\ oname = 0 /\ del = FALSE
  /\ piece = <<>>

At(s) == st = s /\ ~stop
Is(ops) == cmd.op \in ops
Goto(s) == st' = s /\ UNCHANGED <<cmd, cur, stop, rc>>
GoEnd(code) == st' = "end" /\ rc' = code /\ UNCHANGED <<cmd, cur, stop>>

-----------------------------------------------------------------------------
(***************************************************************************)
(* The states that all of them have                                        *)
(***************************************************************************)
NextInput ==
  /\ At("in")
  /\ \/ cur = Len(cmd.files) /\ GoEnd(0)
     \/ cur < Len(cmd.files) /\ cur' = cur + 1 /\ st' = "open" /\ UNCHANGED <<cmd, stop, rc>>
     \/ MayFail("input") /\ GoEnd(1)
  /\ UNCHANGED <<reader, coder, names, piece, outvars>>

\* A read at offset "off" returns some of the chunks that are left.
Arrived(n) == [k \in 1 .. n |-> off + k]
ReadSome ==
  \E n \in 1 .. (Len(Input) - off) : off' = off + n /\ buf' = Arrived(n)
AtEof == off >= Len(Input)

ReadFails ==
  /\ At("read") /\ MayFail("read")
  /\ GoEnd(1) /\ UNCHANGED <<reader, coder, names, piece, outvars>>

\* Mutant: del_on_close is set before the file is opened.
OpenOut_DelEarly(then) ==
  /\ At("outopen") /\ del' = TRUE
  /\ \/ OpenFile(oname, cmd.overwrite) /\ Goto(then)
     \/ OpenFails(oname, cmd.overwrite) /\ GoEnd(1)
  /\ UNCHANGED <<reader, coder, opened, oname, piece>>

\* I_OUT_OPEN; the decompressors ask for the input's time once more (info).
OpenOut(then) ==
  /\ At("outopen")
  /\ \/ OpenFile(oname, cmd.overwrite) /\ del' = TRUE
        /\ \/ Goto(then)
           \/ Is({"unxz", "unzst"}) /\ MayFail("info") /\ GoEnd(1)
     \/ OpenFails(oname, cmd.overwrite) /\ GoEnd(1) /\ UNCHANGED del
  /\ UNCHANGED <<reader, coder, opened, oname, piece>>

\* I_WRITE, one piece after the other.
Write(then) ==
  /\ At("write")
  /\ \/ WriteWhole(piece[1], -1) /\ piece' = Tail(piece)
        /\ Goto(IF Len(piece) = 1 THEN then ELSE "write")
     \/ WritePart(piece[1]) /\ Goto("write") /\ UNCHANGED piece
     \/ MayFail("write") /\ GoEnd(1) /\ UNCHANGED <<piece, outvars>>
  /\ UNCHANGED <<reader, coder, names>>

Stop ==
  /\ stop /\ st \notin {"end", "over"}
  /\ GoEnd(1) /\ UNCHANGED <<reader, coder, names, piece, outvars>>

\* gz_close(), zst_close(), ... and complete()
Finish ==
  /\ st = "end" /\ st' = "over"
  /\ Destroy(del, oname)
  /\ UNCHANGED <<cmd, cur, stop, rc, reader, coder, names, piece>>

\* gz_signal(), zst_signal(), ...
Signal ==
  /\ MayFail("signal") /\ ~stop /\ st # "over" /\ stop' = TRUE
  /\ UNCHANGED <<cmd, st, cur, rc, reader, coder, names, piece, outvars>>

-----------------------------------------------------------------------------
(***************************************************************************)
(* gz, zst                                                                 *)
(***************************************************************************)
\* Mutant: the encoder of the file before goes on.
GzFresh_Not == UNCHANGED <<enc, fin, whole>>

\* ffgzwrite_init()
GzFresh == enc' = <<>> /\ fin' = FALSE /\ whole' = FALSE

GzOpenIn ==
  /\ Is({"gz"}) /\ At("open")
  /\ \/ off' = 0 /\ oname' = cur /\ GzFresh /\ Goto("outopen")
     \/ /\ MayFail("open") \/ MayFail("info")
        /\ GoEnd(1) /\ UNCHANGED <<off, oname, enc, fin, whole>>
  /\ UNCHANGED <<buf, inside, opened, del, piece, outvars>>

\* One encoder for all files: nothing of it is reset, nor is zst_flags.
ZstOpenIn ==
  /\ Is({"zst"}) /\ At("open")
  /\ \/ off' = 0 /\ oname' = cur /\ Goto("outopen")
     \/ MayFail("open") /\ GoEnd(1) /\ UNCHANGED <<off, oname>>
  /\ UNCHANGED <<buf, coder, opened, del, piece, outvars>>

\* I_READ: at the end of the file the encoder is told to finish.
ReadPlain ==
  /\ Is(Compressors) /\ At("read")
  /\ \/ AtEof /\ fin' = TRUE /\ UNCHANGED reader
     \/ ~AtEof /\ ReadSome /\ UNCHANGED fin
  /\ Goto("code") /\ UNCHANGED <<enc, inside, whole, names, piece, outvars>>

\* What the encoder holds once it has consumed its input.
Fed == enc \o [k \in 1 .. Len(buf) |-> <<cur, buf[k]>>]

\* 'data': some come out, or with "fin" all of them and what closes the file.
CodeOut ==
  /\ piece' = (IF fin THEN Append(Fed, <<cur, 0>>) ELSE Fed)
  /\ enc' = <<>> /\ whole' = fin /\ Goto("write") /\ UNCHANGED del
\* Mutants: del_on_close is cleared too early; nothing is read.
CodeMore_Keeps == enc' = Fed /\ del' = FALSE /\ Goto("read") /\ UNCHANGED <<whole, piece>>
CodeMore_Stays == enc' = Fed /\ Goto("code") /\ UNCHANGED <<whole, piece, del>>
\* 'more'
CodeMore == enc' = Fed /\ Goto("read") /\ UNCHANGED <<whole, piece, del>>
\* 'done'
CodeDone == del' = FALSE /\ Goto("in") /\ UNCHANGED <<enc, whole, piece>>

\* gzcomp()
GzComp ==
  /\ Is({"gz"}) /\ At("code") /\ buf' = <<>>
  /\ \/ fin /\ ~whole /\ CodeOut
     \/ ~fin /\ Fed # <<>> /\ CodeOut
     \/ ~fin /\ CodeMore
     \/ fin /\ whole /\ CodeDone
  /\ UNCHANGED <<off, fin, inside, opened, oname, outvars>>

\* zstd_encode(): with FINISH whatever is fed becomes a frame of its own; a
\* finished encoder that is fed nothing gives nothing, which means "done".
ZstComp ==
  /\ Is({"zst"}) /\ At("code") /\ buf' = <<>>
  /\ \/ fin /\ (Fed # <<>> \/ ~whole) /\ CodeOut
     \/ ~fin /\ Fed # <<>> /\ CodeOut
     \/ ~fin /\ CodeMore
     \/ fin /\ Fed = <<>> /\ whole /\ CodeDone
  /\ UNCHANGED <<off, fin, inside, opened, oname, outvars>>

CompressorStates == NextInput \/ OpenOut("read") \/ ReadPlain \/ ReadFails \/ Write("code")

\* gz_run(), zst_run()
GzRun == Is({"gz"}) /\ (GzOpenIn \/ GzComp \/ CompressorStates)
ZstRun == Is({"zst"}) /\ (ZstOpenIn \/ ZstComp \/ CompressorStates)

-----------------------------------------------------------------------------
(***************************************************************************)
(* ungz, unxz, unzst                                                       *)
(***************************************************************************)
\* in_off is not reset for another input.
UngzOpenIn ==
  /\ Is({"ungz"}) /\ At("open")
  /\ \/ Goto("read")
     \/ MayFail("open") /\ GoEnd(1)
  /\ UNCHANGED <<reader, coder, names, piece, outvars>>

UnxzOpenIn ==
  /\ Is({"unxz"}) /\ At("open")
  /\ \/ Goto("read")
     \/ (MayFail("open") \/ MayFail("info")) /\ GoEnd(1)
  /\ UNCHANGED <<reader, coder, names, piece, outvars>>

UnzstOpenIn ==
  /\ Is({"unzst"}) /\ At("open")
  /\ \/ off' = 0 /\ Goto("read")
     \/ MayFail("open") /\ GoEnd(1) /\ UNCHANGED off
  /\ UNCHANGED <<buf, coder, names, piece, outvars>>

\* I_READ of ungz and unxz.  What the library has left of an earlier read is
\* dropped.
ReadMembers ==
  /\ At("read")
  /\ \/ /\ AtEof /\ FlushUnchecked
        /\ \/ whole /\ Goto("in")
           \/ ~whole /\ GoEnd(1)
        /\ UNCHANGED <<reader, whole>>
     \/ ~AtEof /\ ReadSome /\ whole' = FALSE /\ Goto("code") /\ UNCHANGED outvars
  /\ UNCHANGED <<enc, fin, inside, names, piece>>

\* The library's next chunk, and whether it refuses it.
Chunk == Input[buf[1]]
Refused == Chunk = "bad" \/ ((Chunk = "head") <=> inside)
Accepts(kind) == buf # <<>> /\ ~Refused /\ Chunk = kind
Consume == buf' = Tail(buf) /\ UNCHANGED off

\* I_DECOMP gives 'more', or 'erro', in all of them.
NeedsMore ==
  /\ At("code") /\ buf = <<>>
  /\ Goto("read") /\ UNCHANGED <<reader, coder, names, piece, outvars>>
Fails ==
  /\ At("code") /\ buf # <<>>
  /\ GoEnd(1) /\ UNCHANGED <<reader, coder, names, piece, outvars>>
RefusesChunk == Fails /\ Refused

\* Mutant: the output of a file is not opened.
FirstOutput_Unopened(then) == opened' = TRUE /\ oname' = cur /\ Goto(then)

\* The output is opened for the first member of the first input only.
FirstOutput(then) ==
  IF opened THEN Goto(then) /\ UNCHANGED <<opened, oname>>
            ELSE opened' = TRUE /\ oname' = cur /\ Goto("outopen")

\* gzread() and what ungz_run() does with its result.
UngzDecomp ==
  /\ Is({"ungz"}) /\ At("code")
  /\ \/ Accepts("head") /\ inside' = TRUE /\ FirstOutput("code") /\ UNCHANGED <<whole, del, piece>>
     \/ Accepts("data") /\ piece' = <<<<cur, buf[1]>>>> /\ Goto("write")
        /\ UNCHANGED <<inside, whole, names>>
     \/ Accepts("end") /\ inside' = FALSE /\ whole' = TRUE /\ del' = FALSE /\ Goto("code")
        /\ UNCHANGED <<opened, oname, piece>>
  /\ Consume /\ UNCHANGED <<enc, fin, outvars>>

\* xzread(): the library first asks for the end of the file, where the index is, and
\* then for its beginning (FFXZREAD_SEEK).
UnxzSeek ==
  /\ Is({"unxz"}) /\ At("code") /\ ~fin /\ buf # <<>>
  /\ \/ buf[1] < Len(Input) /\ off' = Len(Input) - 1 /\ UNCHANGED fin
     \/ buf[1] = Len(Input) /\ Chunk = "end" /\ off' = 0 /\ fin' = TRUE
  /\ buf' = <<>> /\ Goto("read")
  /\ UNCHANGED <<enc, inside, whole, names, piece, outvars>>
UnxzDecomp ==
  /\ Is({"unxz"}) /\ At("code") /\ fin
  /\ \/ Accepts("head") /\ inside' = TRUE /\ Goto("code") /\ UNCHANGED <<fin, whole, names, piece>>
     \/ Accepts("data") /\ piece' = <<<<cur, buf[1]>>>> /\ FirstOutput("write")
        /\ UNCHANGED <<inside, fin, whole, del>>
     \/ Accepts("end") /\ inside' = FALSE /\ fin' = FALSE /\ whole' = TRUE /\ del' = FALSE
        /\ Goto("read") /\ UNCHANGED <<opened, oname, piece>>
  /\ Consume /\ UNCHANGED <<enc, outvars>>
UnxzRefuses ==
  /\ Is({"unxz"}) /\ Fails
  /\ IF fin THEN Refused ELSE buf[1] = Len(Input) /\ Chunk # "end"

\* I_READ of unzst: the end of the file is taken for the end of the data; flush()
\* and close() are one step, nothing comes between them.
UnzstRead ==
  /\ Is({"unzst"}) /\ At("read")
  /\ \/ /\ AtEof /\ Close /\ inside' = FALSE /\ opened' = FALSE /\ del' = FALSE
        /\ Goto("in") /\ UNCHANGED <<reader, oname>>
     \/ /\ ~AtEof /\ ReadSome /\ FirstOutput("code") /\ UNCHANGED <<inside, del, outvars>>
  /\ UNCHANGED <<enc, fin, whole, piece>>

\* zst_read()
UnzstDecomp ==
  /\ Is({"unzst"}) /\ At("code")
  /\ \/ Accepts("data") /\ piece' = <<<<cur, buf[1]>>>> /\ Goto("write") /\ UNCHANGED inside
     \/ /\ Accepts("head") \/ Accepts("end")
        /\ inside' = ~inside /\ Goto("code") /\ UNCHANGED piece
  /\ Consume /\ UNCHANGED <<enc, fin, whole, names, outvars>>

DecompressorStates == NextInput \/ ReadFails \/ NeedsMore

\* ungz_run(), unxz_run(), unzst_run()
UngzRun == Is({"ungz"}) /\ (UngzOpenIn \/ ReadMembers \/ UngzDecomp \/ RefusesChunk
                            \/ OpenOut("code") \/ Write("code") \/ DecompressorStates)
UnxzRun == Is({"unxz"}) /\ (UnxzOpenIn \/ ReadMembers \/ UnxzSeek \/ UnxzDecomp \/ UnxzRefuses
                            \/ OpenOut("write") \/ Write("code") \/ DecompressorStates)
UnzstRun == Is({"unzst"}) /\ (UnzstOpenIn \/ UnzstRead \/ UnzstDecomp \/ RefusesChunk
                              \/ OpenOut("code") \/ Write("code") \/ DecompressorStates)

Step == GzRun \/ ZstRun \/ UngzRun \/ UnxzRun \/ UnzstRun \/ Stop \/ Finish
Next == Step \/ Signal
Spec == Init /\ [][Next]_vars
FairSpec == Spec /\ WF_vars(Step)

-----------------------------------------------------------------------------
(***************************************************************************)
(* Properties                                                              *)
(***************************************************************************)
\* The data among the first n chunks of f, which is input i, are in s, each once and
\* in order.
DataUpTo(f, i, n, s) ==
  LET Data == {<<i, p>> : p \in {q \in 1 .. n : f[q] = "data"}}
  IN /\ \A k \in DOMAIN s : s[k] \in Data
     /\ \A d \in Data : \E k \in DOMAIN s : s[k] = d
     /\ \A k, l \in DOMAIN s : k < l => s[k][2] < s[l][2]

\* What the output of input i must be, and whether f is what the decompressors can
\* decode: members that begin and end.
WholeOutput(i, s) ==
  LET f == cmd.files[i] IN
  IF Is(Compressors)
  THEN s # <<>> /\ Last(s) = <<i, 0>> /\ DataUpTo(f, i, Len(f), Front(s))
  ELSE DataUpTo(f, i, Len(f), s)
Decodable(f) ==
  /\ f # <<>> /\ f[1] = "head" /\ Last(f) = "end" /\ "bad" \notin ToSet(f)
  /\ \A k \in 1 .. Len(f) - 1 : (f[k] = "end") <=> (f[k + 1] = "head")

\* The variables keep to their types.
TypeOK ==
  /\ cur \in 0 .. Len(cmd.files) /\ oname \in 0 .. cur
  /\ st \in {"in", "open", "outopen", "read", "code", "write", "end", "over"}
  /\ off \in Nat /\ Len(buf) <= off
  /\ {fin, inside, whole, opened, del, stop, lost} \subseteq BOOLEAN /\ rc \in {0, 1}
  /\ (st = "write") => (piece # <<>> /\ IsOpen)
  /\ \A i \in Files : disk[i].kind \in {"absent", "old", "new"}

\* Exit code 0 means that every input was decodable and is in its output whole,
\* each piece once and in order, unless an error of a flush was not looked at.
\* gz.c: the encoder and the output change from file to file; a call repeated
\* after ASYNC continues what it began.
SuccessIsWhole ==
  (st = "over" /\ rc = 0 /\ ~lost) =>
    \A i \in Files :
      /\ Is(Compressors) \/ Decodable(cmd.files[i])
      /\ disk[i].kind = "new" /\ WholeOutput(i, disk[i].has)

\* When the operation is over, with whatever result, no half of an output is
\* left: del_on_close is set as long as the file is not complete, and no longer.
\* ungz clears it at the end of the first of several members (ungz.c:243).
SeveralMembers(f) == \E j, k \in DOMAIN f : j # k /\ f[j] = "head" /\ f[k] = "head"
NoHalfFile ==
  (st = "over" /\ ~lost) =>
    \A i \in Files :
      disk[i].kind = "new" =>
        \/ WholeOutput(i, disk[i].has)
        \/ Is({"ungz"}) /\ SeveralMembers(cmd.files[i])

\* What holds in every state of the loops: the parts above.
CodecInv == TypeOK /\ SuccessIsWhole /\ NoHalfFile

\* Without --overwrite no step changes a file that was there before: what is
\* deleted on close is always the operation's own output.
OldFilesStay ==
  [][\A i \in Files : (disk[i] = Old /\ ~cmd.overwrite) => disk'[i] = Old]_vars

\* The operation completes: every state leads on, and a call that was asked to
\* be repeated is repeated.
Ends == <>(st = "over")
=============================================================================
