------------------------------ MODULE FileWrite ------------------------------
(***************************************************************************)
(* The write side of a file object: core/file.c and fbuf_write() of        *)
(* core/fbuf.h.                                                            *)
(*                                                                         *)
(* file_write() alternates between fw_cache(), which collects the caller's *)
(* data in a buffer until it has a chunk for the kernel, and fw_write(),   *)
(* which hands the chunk over.  When the kernel takes a part of it, or     *)
(* nothing, file_write() returns FCOM_FILE_ASYNC: the caller repeats the   *)
(* SAME call later and the object goes on where it was.  w_write,          *)
(* wcache.continued and w.async carry that from call to call.              *)
(* file_flush() writes the buffer out; file_close() and                    *)
(* file_behaviour(TRUNC_PREALLOC) flush it and cut the preallocated tail;  *)
(* file_trunc() gives a file that was just opened the size it should have. *)
(*                                                                         *)
(* An action is one pass of file_write()'s loop or one write to the        *)
(* kernel.  Bytes are numbers, every byte a caller passes is a new one, so *)
(* that a lost, doubled or misplaced byte shows.  DIRECTIO and what only   *)
(* Windows builds do are left out.                                         *)
(***************************************************************************)
EXTENDS Integers, Sequences, SequencesExt

CONSTANTS
  Stdouts,     \* the files of this instance: with FCOM_FILE_STDOUT, without, or both
  Cap,         \* buffer_size, in bytes of the model
  MaxBytes,    \* bound: bytes written by all calls together
  MaxLen,      \* bound: bytes of one call
  Callers,     \* what the callers of this instance do, a subset of CallerKinds
  AlignPower2(_)  \* ffint_align_power2(): the power of two at or above a number

CallerKinds ==
  {"offsets",  \* they pass explicit offsets
   "gaps",     \* ... also ones beyond the buffered bytes but in the buffer's range
   "nocache",  \* the file is opened with FCOM_FILE_NOCACHE
   "reuse"}    \* they open the object again after a flush failed

ASSUME FileAssumption ==
  /\ Cap \in Nat \ {0} /\ MaxBytes \in Nat /\ MaxLen \in Nat
  /\ Callers \subseteq CallerKinds
  /\ Stdouts \subseteq BOOLEAN
  /\ \A n \in 1 .. MaxBytes : AlignPower2(n) \in Nat /\ AlignPower2(n) >= n

VARIABLES
  stdout,     \* FCOM_FILE_STDOUT: a pipe that may be full; else a regular file
  content,    \* the bytes the kernel has: the file's, or all that went down the pipe
  size, curOff, prealloc,       \* f->size, f->cur_off, f->w.prealloc
  noPrealloc, \* FCOM_FILE_NO_PREALLOC is set in f->open_flags
  buf,        \* f->wcache.buf: [off, data]
  wWrite,     \* f->w_write
  continued, userData,          \* f->wcache.continued, f->wcache.user_data
  async, wbuf,                  \* f->w.async; f->w.buf and f->w.off: [off, data]
  pc,         \* where the object is: one of Places
  call,       \* the caller's arguments: [off, data], off = -1: the current offset
  io,         \* the chunk file_write() or file_flush() is at: [off, data]
  total,      \* history: how many bytes the callers have passed
  want,       \* history: what this file should hold after all calls so far
  pos,        \* history: the current offset as the callers know it
  failed,     \* history: this file met an error, or its caller gave up
  cut         \* history: ASYNC ended a file_flush() that had written a part

fvars == <<size, curOff, prealloc, noPrealloc>>
cvars == <<buf, wWrite, continued, userData, async, wbuf>>
hvars == <<total, want, pos, failed, cut>>
vars  == <<stdout, content, fvars, cvars, pc, call, io, hvars>>

NoCache == "nocache" \in Callers
Chunk(o, d) == [off |-> o, data |-> d]
Nothing == Chunk(0, <<>>)
Hole == 0      \* a byte of a file that nobody wrote
Stale == -1    \* a byte of the buffer's memory that belongs to no call

\* Places of a call that has not returned, of one that returned ASYNC, and where
\* the next call comes.
InFlush == {"flush", "trunc", "closing"}   \* called by the user, behaviour(), close()
Places == {"idle", "loop", "async", "flushed", "error", "closed"} \cup InFlush

MaxOf(a, b) == IF a > b THEN a ELSE b
MinOf(a, b) == IF a < b THEN a ELSE b
From(s, n) == SubSeq(s, n + 1, Len(s))                     \* ffstr_shift(s, n)

\* The bytes of s after d is written at offset o; a gap is filled with g.
Overlay(s, o, d, g) ==
  IF d = <<>> THEN s ELSE
  [i \in 1 .. MaxOf(Len(s), o + Len(d)) |->
     IF i > o /\ i <= o + Len(d) THEN d[i - o]
     ELSE IF i <= Len(s) THEN s[i] ELSE g]

\* fffile_trunc(), of a regular file
Resize(s, n) == [i \in 1 .. n |-> IF i <= Len(s) THEN s[i] ELSE Hole]

Init ==
  /\ stdout \in Stdouts
  /\ content = <<>> /\ size = 0 /\ curOff = 0 /\ prealloc = 0
  /\ noPrealloc \in IF stdout THEN {TRUE} ELSE BOOLEAN
  /\ buf = Nothing /\ wWrite = FALSE
  /\ continued = FALSE /\ userData = <<>>
  /\ async = FALSE /\ wbuf = Nothing
  /\ pc = "idle" /\ call = Nothing /\ io = Nothing
  /\ total = 0 /\ want = <<>> /\ pos = 0 /\ failed = FALSE /\ cut = FALSE

-----------------------------------------------------------------------------
(***************************************************************************)
(* file_write() is entered.                                                *)
(***************************************************************************)
\* Where a call writes: its own offset or the current one.
Target(c) == IF c.off = -1 THEN curOff ELSE c.off

\* Offset o is beyond the buffered bytes but inside the buffer's range.
InGap(o) ==
  buf.data # <<>> /\ o > buf.off + Len(buf.data) /\ o < buf.off + Cap

\* The first lines of file_write(): without a cache the offset is resolved and
\* cur_off moved on at once, on every call.
Enter(c) ==
  /\ pc' = "loop" /\ call' = c
  /\ IF NoCache THEN io' = Chunk(Target(c), c.data)
                     /\ curOff' = Target(c) + Len(c.data)
                ELSE io' = c /\ UNCHANGED curOff
  /\ UNCHANGED <<stdout, content, size, prealloc, noPrealloc, cvars, failed, cut>>

Write ==
  /\ pc = "idle"
  /\ \E n \in 1 .. MinOf(MaxLen, MaxBytes - total),
        o \in {-1} \cup (IF "offsets" \in Callers /\ ~stdout THEN 0 .. Len(want) ELSE {}) :
       LET c == Chunk(o, [i \in 1 .. n |-> total + i])
       IN  /\ InGap(Target(c)) => "gaps" \in Callers
           /\ total' = total + n
           /\ LET at == IF o = -1 THEN pos ELSE o
              IN  want' = Overlay(want, at, c.data, Hole) /\ pos' = at + n
           /\ Enter(c)

\* After ASYNC the caller repeats its call.
Retry == pc = "async" /\ Enter(call) /\ UNCHANGED <<total, want, pos>>

-----------------------------------------------------------------------------
(***************************************************************************)
(* fw_cache() and fbuf_write()                                             *)
(***************************************************************************)
\* What fw_cache() works on: the rest of the data it gave a chunk of before, or
\* the caller's.
Input == IF continued THEN Chunk(curOff, userData) ELSE Chunk(Target(io), io.data)

Hits(in) == buf.data # <<>> /\ in.off >= buf.off /\ in.off < buf.off + Cap

\* fbuf_write() took all of the input into the buffer: OK.
Keep(in, newbuf) ==
  /\ buf' = newbuf
  /\ curOff' = in.off + Len(in.data)
  /\ continued' = FALSE /\ userData' = <<>>
  /\ pc' = "idle" /\ call' = Nothing /\ io' = Nothing
  /\ UNCHANGED <<stdout, content, size, prealloc, noPrealloc, wWrite, async, wbuf, hvars>>

\* fbuf_write() gives out a chunk; the rest of the input waits in user_data.
Give(in, taken, out) ==
  /\ buf' = Nothing
  /\ curOff' = in.off + taken
  /\ continued' = TRUE /\ userData' = From(in.data, taken)
  /\ io' = out
  /\ wWrite' = TRUE
  /\ UNCHANGED <<stdout, content, size, prealloc, noPrealloc, async, wbuf, pc, call, hvars>>

\* The buffer after the first n bytes of the input are copied into it.
Filled(in, n) ==
  Chunk(buf.off, Overlay(buf.data, in.off - buf.off, SubSeq(in.data, 1, n), Stale))

\* Mutant: the copy is not limited to the room that is left.
Room_All(in) == Len(in.data)

\* How much of the input fits into the range of the buffer.
Room(in) == MinOf(Len(in.data), buf.off + Cap - in.off)

\* The range of the buffer is hit: it takes what fits, and is given out unless it
\* has grown and is not full.
Merge(in) ==
  LET b == Filled(in, Room(in))
  IN  IF Len(b.data) > Len(buf.data) /\ Len(b.data) # Cap
        THEN Keep(in, b) ELSE Give(in, Room(in), b)

\* Mutant: ... whatever is in the buffer.
Bypasses_Always(in) == Len(in.data) >= Cap

\* Large data passes by an empty buffer.
Bypasses(in) == Len(in.data) >= Cap /\ buf.data = <<>>

FwCache ==
  /\ pc = "loop" /\ ~wWrite /\ ~NoCache
  /\ LET in == Input
     IN  IF in.data = <<>> THEN Keep(in, buf)
         ELSE IF Bypasses(in) THEN Give(in, Len(in.data), in)
         ELSE \/ buf.data = <<>> /\ Keep(in, in)
              \/ Hits(in) /\ Merge(in)
              \* data for another place: the buffer is given out first
              \/ buf.data # <<>> /\ ~Hits(in) /\ Give(in, 0, buf)

-----------------------------------------------------------------------------
(***************************************************************************)
(* fw_write() and f_write()                                                *)
(***************************************************************************)
\* The chunk fw_write() works on.
OutChunk == IF async THEN wbuf ELSE io

InFwWrite == pc = "loop" /\ (wWrite \/ NoCache)

\* The file is grown before the first write beyond what was preallocated; when
\* the kernel refuses, it is not tried again.
Unallocated(c) == ~noPrealloc /\ prealloc < c.off + Len(c.data)
Preallocate ==
  /\ InFwWrite
  /\ LET c == OutChunk
         p == AlignPower2(c.off + Len(c.data))
     IN  /\ Unallocated(c)
         /\ prealloc' = p
         /\ \/ content' = Resize(content, p) /\ UNCHANGED noPrealloc
            \/ noPrealloc' = TRUE /\ UNCHANGED content
  /\ UNCHANGED <<stdout, size, curOff, cvars, pc, call, io, hvars>>

\* f_write() writes to a stream at its end only.
SeekError(c) == stdout /\ c.off # size

\* The kernel takes the first r bytes of c.
Accept(c, r) ==
  /\ content' = Overlay(content, c.off, SubSeq(c.data, 1, r), Hole)
  /\ size' = MaxOf(size, c.off + r)
  /\ prealloc' = MaxOf(prealloc, c.off + (IF stdout THEN r ELSE Len(c.data)))

\* Mutant: the rest is not cut off the data.
TookPart_OldData(c, r) ==
  /\ async' = TRUE /\ wbuf' = Chunk(c.off + r, c.data)
  /\ pc' = "async"
  /\ UNCHANGED <<wWrite, call>>

\* Mutant: the rest is offered at the chunk's own offset.
TookPart_OldOffset(c, r) ==
  /\ async' = TRUE /\ wbuf' = Chunk(c.off, From(c.data, r))
  /\ pc' = "async"
  /\ UNCHANGED <<wWrite, call>>

\* ASYNC: the rest of the chunk waits in w.buf.
TookPart(c, r) ==
  /\ async' = TRUE /\ wbuf' = Chunk(c.off + r, From(c.data, r))
  /\ pc' = "async"
  /\ UNCHANGED <<wWrite, call>>

\* Mutant: w_write is not changed back.
TookAll_StaysInWrite(c) ==
  /\ UNCHANGED wWrite /\ async' = FALSE
  /\ wbuf' = Chunk(c.off + Len(c.data), <<>>)
  /\ IF NoCache THEN pc' = "idle" /\ call' = Nothing ELSE UNCHANGED <<pc, call>>

\* The loop goes back to fw_cache(); without a cache the call is over.
TookAll(c) ==
  /\ wWrite' = FALSE /\ async' = FALSE
  /\ wbuf' = Chunk(c.off + Len(c.data), <<>>)
  /\ IF NoCache THEN pc' = "idle" /\ call' = Nothing ELSE UNCHANGED <<pc, call>>

FwWriteAccepted ==
  /\ InFwWrite
  /\ LET c == OutChunk IN
     /\ ~Unallocated(c) /\ ~SeekError(c)
     /\ \E r \in 1 .. Len(c.data) :
          /\ Accept(c, r)
          /\ IF r = Len(c.data) THEN TookAll(c) ELSE TookPart(c, r)
  /\ io' = Nothing
  /\ UNCHANGED <<stdout, noPrealloc, curOff, buf, continued, userData, hvars>>

\* EAGAIN, of a full pipe only: the chunk waits.
FwWriteAgain ==
  /\ InFwWrite /\ stdout /\ ~SeekError(OutChunk)
  /\ async' = TRUE /\ wbuf' = OutChunk
  /\ pc' = "async" /\ io' = Nothing
  /\ UNCHANGED <<stdout, content, fvars, buf, wWrite, continued, userData, call, hvars>>

\* The kernel reports an error, or the stream would have to seek: ERR.
FwWriteFails ==
  /\ InFwWrite /\ ~Unallocated(OutChunk)
  /\ async' = FALSE /\ wbuf' = [wbuf EXCEPT !.data = IF async THEN <<>> ELSE @]
  /\ pc' = "error" /\ io' = Nothing /\ call' = Nothing
  /\ failed' = TRUE
  /\ UNCHANGED <<stdout, content, fvars, buf, wWrite, continued, userData, total, want, pos, cut>>

-----------------------------------------------------------------------------
(***************************************************************************)
(* file_flush() and its callers                                            *)
(***************************************************************************)
Called(place) ==
  /\ pc' = place /\ io' = buf
  /\ UNCHANGED <<stdout, content, fvars, cvars, call, total, want, pos, cut>>

\* file_flush() by the user, again after ASYNC.
Flush == pc \in {"idle", "flushed"} /\ Called("flush") /\ UNCHANGED failed

\* file_behaviour(FCOM_FBEH_TRUNC_PREALLOC)
Behaviour == pc = "idle" /\ ~stdout /\ Called("trunc") /\ UNCHANGED failed

\* file_close(), also by a caller that was stopped or has got an error.
Close ==
  /\ pc \in {"idle", "async", "flushed", "error"}
  /\ Called("closing")
  /\ failed' = (failed \/ pc = "async")

\* One f_write() of the flush loop.  The kernel may take a part.
FlushWrites ==
  /\ pc \in InFlush /\ io.data # <<>> /\ ~SeekError(io)
  /\ \E r \in 1 .. Len(io.data) :
       /\ Accept(io, r)
       /\ io' = Chunk(io.off + r, From(io.data, r))
  /\ UNCHANGED <<stdout, noPrealloc, curOff, cvars, pc, call, hvars>>

\* Mutant: a file that lies in the buffer as a whole is not cut.
TailLeft_IfWritten == prealloc > size /\ buf.data = <<>>

\* prealloc_trunc() has something to do.
TailLeft == prealloc > size

\* How the callers of file_flush() go on: close() and behaviour() ignore what it
\* returned and cut the preallocated tail with prealloc_trunc(), which may fail;
\* close() ends with the object closed.
FlushEnds(ok) ==
  /\ io' = Nothing
  /\ IF pc = "flush" THEN UNCHANGED <<content, prealloc, call, failed>>
     ELSE /\ pc' = IF pc = "trunc" THEN "idle" ELSE "closed"
          /\ call' = Nothing
          /\ \/ ~TailLeft /\ failed' = (failed \/ ~ok) /\ UNCHANGED <<content, prealloc>>
             \/ /\ TailLeft /\ ~stdout /\ failed' = (failed \/ ~ok)
                /\ content' = Resize(content, size) /\ prealloc' = size
             \/ TailLeft /\ failed' = TRUE /\ UNCHANGED <<content, prealloc>>

\* All is written: OK.
FlushDone ==
  /\ pc \in InFlush /\ io.data = <<>>
  /\ buf' = Nothing
  /\ pc = "flush" => pc' = "idle"
  /\ FlushEnds(TRUE)
  /\ UNCHANGED <<stdout, size, curOff, noPrealloc, wWrite, continued, userData, async, wbuf,
                 total, want, pos, cut>>

\* EAGAIN: ASYNC.  What was written of the buffer is forgotten; in close() the
\* rest is lost.
FlushAgain ==
  /\ pc \in InFlush /\ io.data # <<>> /\ stdout /\ ~SeekError(io)
  /\ pc = "flush" => pc' = "flushed"
  /\ cut' = (cut \/ io # buf)
  /\ FlushEnds(FALSE)
  /\ UNCHANGED <<stdout, size, curOff, noPrealloc, cvars, total, want, pos>>

\* An error of the kernel, or the stream would have to seek: ERR.
FlushFails ==
  /\ pc \in InFlush /\ io.data # <<>>
  /\ IF pc = "flush"
       THEN /\ pc' = "error" /\ io' = Nothing /\ failed' = TRUE
            /\ UNCHANGED <<content, prealloc, call>>
       ELSE FlushEnds(FALSE)
  /\ UNCHANGED <<stdout, size, curOff, noPrealloc, cvars, total, want, pos, cut>>

\* file_open() of the next file with the same object.  Nothing of the write
\* cache is reset.
Open ==
  /\ pc = "closed" /\ ~stdout
  /\ failed => "reuse" \in Callers
  /\ content' = <<>> /\ size' = 0 /\ prealloc' = 0 /\ curOff' = 0
  /\ noPrealloc' \in BOOLEAN
  /\ pc' = "idle"
  /\ want' = <<>> /\ pos' = 0 /\ failed' = FALSE /\ cut' = FALSE
  /\ UNCHANGED <<stdout, cvars, call, io, total>>

\* file_trunc(), which the unpackers and copy call right after file_open(), with the
\* size an archive or the source states: any number, here up to MaxBytes.  A pipe
\* cannot be truncated.
Trunc ==
  /\ pc = "idle" /\ want = <<>> /\ prealloc = 0
  /\ \E n \in 0 .. MaxBytes :
       /\ prealloc' = n
       /\ \/ ~stdout /\ content' = Resize(content, n) /\ UNCHANGED noPrealloc
          \/ noPrealloc' = TRUE /\ UNCHANGED content
  /\ UNCHANGED <<stdout, size, curOff, cvars, pc, call, io, hvars>>

Caller == Write \/ Flush \/ Behaviour \/ Close \/ Open \/ Trunc
Kernel == FwWriteAgain \/ FwWriteFails \/ FlushAgain \/ FlushFails
Work == \/ FwCache \/ Preallocate \/ FwWriteAccepted
        \/ FlushWrites \/ FlushDone
Next == Caller \/ Retry \/ Kernel \/ Work

(***************************************************************************)
(* Fairness: a call that was made runs on; who got ASYNC calls again       *)
(* (com->async() posts the operation); a pipe's reader reads, so that a    *)
(* write that is tried again and again is accepted sometimes.              *)
(***************************************************************************)
Fairness ==
  /\ WF_vars(FwCache \/ Preallocate \/ FlushDone)
  /\ WF_vars(SeekError(io) /\ FlushFails)
  /\ WF_vars(Retry)
  /\ WF_vars(pc = "flushed" /\ Flush)
  /\ SF_vars(FwWriteAccepted)
  /\ SF_vars(FlushWrites)

Spec == Init /\ [][Next]_vars
FairSpec == Spec /\ Fairness

-----------------------------------------------------------------------------
(***************************************************************************)
(* Properties                                                              *)
(***************************************************************************)
Bytes == {Stale, Hole} \cup 1 .. MaxBytes
IsChunk(c) == c.off \in Nat \cup {-1} /\ \A i \in 1 .. Len(c.data) : c.data[i] \in Bytes

\* The type invariant.  It also says that the buffer's memory is never written
\* beyond its end.
TypeOK ==
  /\ IsChunk(buf) /\ Len(buf.data) <= Cap
  /\ IsChunk(wbuf) /\ IsChunk(call) /\ IsChunk(io)
  /\ {size, curOff, prealloc, total, pos} \subseteq Nat
  /\ {noPrealloc, wWrite, continued, async, failed, cut} \subseteq BOOLEAN
  /\ pc \in Places

\* The file as its callers see it: what the kernel has, over it the chunk on its
\* way there, the buffer, and what is left of the call in progress.
Rest == IF pc \in {"loop", "async"} /\ (continued \/ (~wWrite /\ ~NoCache))
          THEN Input ELSE Nothing
InTransit == IF pc \in {"loop", "async"} /\ (wWrite \/ NoCache) THEN OutChunk ELSE Nothing
Over(s, c) == Overlay(s, c.off, c.data, Hole)
Visible == Over(Over(Over(content, InTransit), buf), Rest)

\* No byte is lost, doubled or misplaced, wherever a call is interrupted by ASYNC
\* and however calls overlap what is buffered: as long as nothing failed, what the
\* object holds in all its places together is what the calls so far should give.
NothingLost == ~failed => IsPrefix(want, Visible)

\* What holds at every step of file_write(), file_flush() and file_close(): the
\* buffer is in bounds and no byte is lost.
FileWriteInv == TypeOK /\ NothingLost

\* A close that met no error leaves the file exactly as it should be: all bytes
\* there, the preallocated tail gone.
CloseIsExact == pc = "closed" /\ ~failed => content = want

\* Down a pipe go the bytes of the calls in their order, each once; whatever fails
\* and whenever the caller gives up, the reader has a prefix of them.
InOrder == stdout => IsPrefix(content, want)

\* Writing at the current offset never makes a stream seek, however often the pipe
\* is full in between: no chunk of file_write() is refused on that account, and
\* file_flush() finds its buffer where the stream ends, unless an earlier
\* file_flush() was ended by ASYNC with a part of the buffer written.
NeverSeeks ==
  /\ InFwWrite => ~SeekError(OutChunk)
  /\ pc \in InFlush /\ io.data # <<>> /\ ~failed /\ ~cut => ~SeekError(io)

\* A file_flush() that returned ASYNC goes on when it is called again, as tar, ungz,
\* unxz and unzst do: it is not refused as a seek.
FlushGoesOn == pc = "flush" /\ io.data # <<>> /\ ~failed => ~SeekError(io)

\* What fbuf_write() merges overlaps or continues the buffered bytes: no memory
\* of the buffer that no call has filled gets into it.
NoStaleBytes == Stale \notin ToSet(buf.data) \cup ToSet(content)

\* A call of file_write() or file_flush() that is repeated after each ASYNC
\* finally returns OK or ERR.
CallsReturn ==
  LET Pending == {"loop", "async", "flushed"} \cup InFlush
  IN  pc \in Pending ~> pc \notin Pending
=============================================================================
