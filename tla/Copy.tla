-------------------------------- MODULE Copy --------------------------------
(***************************************************************************)
(* "fcom copy": the state machine of fs/copy.c with fs/copy-output.h and   *)
(* fs/copy-verify.h, and the files it leaves behind.                       *)
(*                                                                         *)
(* For each input the target is created (or truncated) to reserve its      *)
(* name, the data goes to TARGET.fcomtmp, which is flushed, verified,      *)
(* closed and renamed over the target; then the source may be renamed to   *)
(* *.deleted.  Any system call may fail, a signal may stop the loop, and   *)
(* the process may be killed between any two of them.                      *)
(*                                                                         *)
(* The data are numbered blocks, one for every pass of the read/write      *)
(* loop.  The output's file object is abstracted from FileWrite: a block   *)
(* is in the file, in the write cache, or waits as the rest of a short     *)
(* write.  Directories, symbolic links, encryption, stdout, --update and   *)
(* --test are left out.                                                    *)
(***************************************************************************)
EXTENDS Integers

CONSTANTS
  Inputs,     \* the number of input files
  Blocks,     \* the number of blocks of each
  Modes,      \* the command lines of this instance: [overwrite, into, verify]
  Failures    \* what may go wrong in it, a subset of FailureKinds

FailureKinds ==
  {"open", "info", "read", "write", "rename", "remove",  \* the system call fails
   "short",   \* the kernel takes a part of a chunk
   "flush",   \* a write by file_flush() fails
   "signal", "crash"}

ASSUME CopyAssumption ==
  /\ Inputs \in Nat /\ Blocks \in Nat
  /\ Modes \subseteq [overwrite : BOOLEAN, into : BOOLEAN, verify : BOOLEAN]
  /\ Failures \subseteq FailureKinds

Files == 1 .. Inputs
AllBlocks == Files \X (1 .. Blocks)

\* What is under a name: nothing, somebody's older file, or what the copy wrote.
Absent == [kind |-> "absent", has |-> {}]
Old == [kind |-> "old", has |-> {}]
New(blocks) == [kind |-> "new", has |-> blocks]
Whole(i) == New({i} \X (1 .. Blocks))

VARIABLES
  mode,       \* --overwrite, --write-into, --verify
  out, tmp,   \* the files TARGET and TARGET.fcomtmp of every input
  renamed,    \* the inputs that are named *.deleted
  st,         \* c->st, and where an iteration is inside a state
  cur,        \* the input that is being copied
  next,       \* the block that is read next
  path,       \* which file the output object has open: "none", "out", "tmp"
  cache,      \* blocks in the output object's write cache
  rest,       \* blocks of which a part waits in w.buf
  del,        \* c->o.del_on_close
  stop,       \* c->stop
  rc,         \* the exit code of the operation
  left,       \* history: the names of the last output that could not be removed
  damaged     \* history: a short write was not completed by its caller, or the
              \* error of a flush was not looked at

fsvars == <<out, tmp, renamed>>
ovars == <<path, cache, rest>>
vars == <<mode, left, fsvars, st, cur, next, ovars, del, stop, rc, damaged>>

\* "close", "opentmp", "rename", "complete": inside I_OPEN_OUT and I_DONE; "remtmp",
\* "remout": inside output_close().
LoopStates == {"src", "open", "read", "write", "rddone", "verify", "done"}
States == LoopStates \cup {"close", "opentmp", "rename", "complete", "end", "remtmp", "remout",
                        "over", "crashed"}

Init ==
  /\ mode \in Modes
  /\ out \in [Files -> {Absent, Old}] /\ tmp \in [Files -> {Absent, Old}]
  /\ renamed = {}
  /\ st = "src" /\ cur = 0 /\ next = 1
  /\ path = "none" /\ cache = {} /\ rest = {}
  /\ del = FALSE /\ stop = FALSE /\ rc = 0 /\ damaged = FALSE /\ left = {}

\* An iteration of copy_run()'s loop begins in state s.
At(s) == st = s /\ ~stop
MayFail(f) == f \in Failures

\* "goto end"
GoEnd(code) == st' = "end" /\ rc' = code

\* The open output file holds these blocks.
Held == IF path = "out" THEN out[cur].has ELSE tmp[cur].has
Put(blocks) ==
  IF path = "out" THEN out' = [out EXCEPT ![cur] = New(@.has \cup blocks)] /\ UNCHANGED tmp
                  ELSE tmp' = [tmp EXCEPT ![cur] = New(@.has \cup blocks)] /\ UNCHANGED out

-----------------------------------------------------------------------------
(***************************************************************************)
(* copy_input_next() and output_open()                                     *)
(***************************************************************************)
NextSource ==
  /\ At("src")
  /\ IF cur = Inputs
       THEN GoEnd(0) /\ UNCHANGED <<cur, next>>
       ELSE /\ cur' = cur + 1 /\ next' = 1
            /\ \/ st' = "open" /\ UNCHANGED rc
               \/ MayFail("open") /\ GoEnd(1)
  /\ UNCHANGED <<mode, left, damaged, fsvars, ovars, del, stop>>

\* Mutant: the file is always opened with CREATE_TRUNC.
CanCreate_Always(file) == TRUE

\* fcom_file_cominfo_flags_o(): CREATE_TRUNC or CREATENEW.
CanCreate(file) == mode.overwrite \/ file = Absent

\* The target itself is opened first.  Its size is 0 afterwards in either case:
\* output_fin() never finds an old target to move to trash.
OpenOut ==
  /\ At("open")
  /\ \/ /\ CanCreate(out[cur])
        /\ out' = [out EXCEPT ![cur] = New({})]
        /\ path' = "out"
        /\ \/ mode.into /\ st' = "read" /\ del' = TRUE /\ UNCHANGED rc
           \/ ~mode.into /\ st' = "close" /\ UNCHANGED <<del, rc>>
           \/ MayFail("info") /\ GoEnd(1) /\ UNCHANGED del
     \/ /\ ~CanCreate(out[cur]) \/ MayFail("open")
        /\ GoEnd(1)
        /\ UNCHANGED <<out, path, del>>
  /\ UNCHANGED <<mode, left, damaged, tmp, renamed, cur, next, cache, rest, stop>>

\* Mutant: the cache is given up, not written.
FlushCache_Drops == cache' = {} /\ UNCHANGED <<out, tmp, damaged>>

\* file_flush() as close() and behaviour() call it: an error is ignored, and the
\* cache keeps what it has.
FlushCache ==
  \/ cache' = {} /\ Put(cache) /\ UNCHANGED damaged
  \/ /\ MayFail("flush") /\ cache # {}
     /\ damaged' = TRUE
     /\ UNCHANGED <<out, tmp, cache>>

\* The target is closed again.  Nothing was written to it, but file_close() flushes
\* what a failed flush of the file before has left in the cache.
CloseReserved ==
  /\ st = "close"
  /\ FlushCache
  /\ path' = "none" /\ st' = "opentmp"
  /\ UNCHANGED <<mode, left, renamed, cur, next, rest, del, stop, rc>>

OpenTmp ==
  /\ st = "opentmp"
  /\ \/ /\ CanCreate(tmp[cur])
        /\ tmp' = [tmp EXCEPT ![cur] = New({})]
        /\ path' = "tmp"
        /\ \/ st' = "read" /\ del' = TRUE /\ UNCHANGED rc
           \/ MayFail("info") /\ GoEnd(1) /\ UNCHANGED del
     \/ /\ ~CanCreate(tmp[cur]) \/ MayFail("open")
        /\ GoEnd(1)
        /\ UNCHANGED <<tmp, path, del>>
  /\ UNCHANGED <<mode, left, damaged, out, renamed, cur, next, cache, rest, stop>>

-----------------------------------------------------------------------------
(***************************************************************************)
(* The data                                                                *)
(***************************************************************************)
\* Mutant: the end of the file is noticed one block late.
Read_PastEnd ==
  /\ At("read")
  /\ \/ st' = (IF next <= Blocks + 1 THEN "write" ELSE "rddone") /\ UNCHANGED rc
     \/ MayFail("read") /\ GoEnd(1)
  /\ UNCHANGED <<mode, left, damaged, fsvars, cur, next, ovars, del, stop>>

Read ==
  /\ At("read")
  /\ \/ st' = (IF next <= Blocks THEN "write" ELSE "rddone") /\ UNCHANGED rc
     \/ MayFail("read") /\ GoEnd(1)
  /\ UNCHANGED <<mode, left, damaged, fsvars, cur, next, ovars, del, stop>>

\* The block stays in the cache, or the cache and the block go to the file.
StoreBlock(b) ==
  /\ rest = {}
  /\ \/ cache' = cache \cup {b} /\ UNCHANGED <<out, tmp>>
     \/ cache' = {} /\ Put(cache \cup {b})
  /\ UNCHANGED <<rest, damaged>>

\* The kernel takes a part of the chunk the block is in, the end of it at least is
\* left: file_write() gives ASYNC, which output_write() takes for success.
StorePart(b) ==
  /\ MayFail("short")
  /\ rest = {}
  /\ \E taken \in SUBSET cache : rest' = (cache \ taken) \cup {b} /\ Put(taken)
  /\ cache' = {} /\ damaged' = TRUE

\* file_write() goes on with the rest of the call before, which it believes is
\* repeated: the block is never looked at.
StoreRest ==
  /\ rest # {}
  /\ \/ rest' = {} /\ Put(rest)
     \/ MayFail("short") /\ UNCHANGED <<rest, out, tmp>>
  /\ UNCHANGED <<cache, damaged>>

\* output_write()
Write ==
  /\ At("write")
  /\ LET b == <<cur, next>> IN
     \/ /\ StoreBlock(b) \/ StorePart(b) \/ StoreRest
        /\ next' = next + 1
        /\ st' = "read" /\ UNCHANGED rc
     \/ /\ MayFail("write")
        /\ GoEnd(1)
        /\ cache' = {} /\ rest' = {}      \* the chunk is given up
        /\ UNCHANGED <<out, tmp, next, damaged>>
  /\ UNCHANGED <<mode, left, renamed, cur, path, del, stop>>

\* FCOM_FBEH_TRUNC_PREALLOC
ReadDone ==
  /\ At("rddone")
  /\ FlushCache
  /\ st' = IF mode.verify THEN "verify" ELSE "done"
  /\ UNCHANGED <<mode, left, renamed, cur, next, path, rest, del, stop, rc>>

\* Mutant: the file is read again but the checksums are not compared.
Same_NotCompared == TRUE

\* The checksums of what was read and of what is in the file are the same.
Same == Held = {cur} \X (1 .. Blocks)

\* The file is read again from the disk, to its end.
VerifyOut ==
  /\ At("verify")
  /\ \/ Same /\ st' = "done" /\ UNCHANGED rc
     \/ (~Same \/ MayFail("read")) /\ GoEnd(1)
  /\ UNCHANGED <<mode, left, damaged, fsvars, cur, next, ovars, del, stop>>

-----------------------------------------------------------------------------
(***************************************************************************)
(* output_fin(), copy_complete(), copy_close()                             *)
(***************************************************************************)
\* Closed: what the cache could not write stays in it.
CloseOut ==
  /\ At("done")
  /\ FlushCache
  /\ path' = "none" /\ del' = FALSE
  /\ st' = IF mode.into THEN "complete" ELSE "rename"
  /\ UNCHANGED <<mode, left, renamed, cur, next, rest, stop, rc>>

RenameTmp ==
  /\ st = "rename"
  /\ \/ /\ out' = [out EXCEPT ![cur] = tmp[cur]]
        /\ tmp' = [tmp EXCEPT ![cur] = Absent]
        /\ st' = "complete" /\ UNCHANGED rc
     \/ MayFail("rename") /\ GoEnd(1) /\ UNCHANGED <<out, tmp>>
  /\ UNCHANGED <<mode, left, damaged, renamed, cur, next, ovars, del, stop>>

\* --rename-source; a failure is only logged.
Complete ==
  /\ st = "complete"
  /\ \/ renamed' = renamed \cup {cur}
     \/ MayFail("rename") /\ UNCHANGED renamed
  /\ st' = "src"
  /\ UNCHANGED <<mode, left, damaged, out, tmp, cur, next, ovars, del, stop, rc>>

Stop ==
  /\ st \in LoopStates /\ stop
  /\ GoEnd(1)
  /\ UNCHANGED <<mode, left, damaged, fsvars, cur, next, ovars, del, stop>>

\* copy_close() and output_close(): the output object is destroyed, which flushes an
\* open file.  The files of a copy that did not come to its end are removed then.
CloseCopy ==
  /\ st = "end"
  /\ IF path = "none" THEN UNCHANGED <<out, tmp>>
     ELSE \/ Put(cache)
          \/ MayFail("flush") /\ UNCHANGED <<out, tmp>>
  /\ st' = IF ~del THEN "over" ELSE IF mode.into THEN "remout" ELSE "remtmp"
  /\ path' = "none" /\ cache' = {} /\ rest' = {}
  /\ UNCHANGED <<mode, left, damaged, renamed, cur, next, del, stop, rc>>

\* Mutant: the temporary file is forgotten.
RemoveTmp_Forgets ==
  /\ st = "remtmp"
  /\ st' = "remout"
  /\ UNCHANGED <<mode, left, damaged, fsvars, cur, next, ovars, del, stop, rc>>

\* core->file->del(), whose result is not looked at.
RemoveTmp ==
  /\ st = "remtmp"
  /\ \/ tmp' = [tmp EXCEPT ![cur] = Absent] /\ UNCHANGED left
     \/ MayFail("remove") /\ left' = left \cup {"tmp"} /\ UNCHANGED tmp
  /\ st' = "remout"
  /\ UNCHANGED <<mode, damaged, out, renamed, cur, next, ovars, del, stop, rc>>

RemoveOut ==
  /\ st = "remout"
  /\ \/ out' = [out EXCEPT ![cur] = Absent] /\ UNCHANGED left
     \/ MayFail("remove") /\ left' = left \cup {"out"} /\ UNCHANGED out
  /\ st' = "over"
  /\ UNCHANGED <<mode, damaged, tmp, renamed, cur, next, ovars, del, stop, rc>>

Signal ==
  /\ MayFail("signal") /\ ~stop /\ st \notin {"over", "crashed"}
  /\ stop' = TRUE
  /\ UNCHANGED <<mode, left, damaged, fsvars, st, cur, next, ovars, del, rc>>

\* The process is killed: the files stay as they are.
Crash ==
  /\ MayFail("crash") /\ st \notin {"over", "crashed"}
  /\ st' = "crashed"
  /\ UNCHANGED <<mode, left, damaged, fsvars, cur, next, ovars, del, stop, rc>>

Step ==
  \/ NextSource \/ OpenOut \/ CloseReserved \/ OpenTmp \/ Read \/ Write \/ ReadDone \/ VerifyOut
  \/ CloseOut \/ RenameTmp \/ Complete \/ Stop \/ CloseCopy \/ RemoveTmp \/ RemoveOut
Next == Step \/ Signal \/ Crash

Spec == Init /\ [][Next]_vars

-----------------------------------------------------------------------------
(***************************************************************************)
(* Properties                                                              *)
(***************************************************************************)
FileStates == [kind : {"absent", "old", "new"}, has : SUBSET AllBlocks]
TypeOK ==
  /\ mode \in Modes
  /\ out \in [Files -> FileStates] /\ tmp \in [Files -> FileStates]
  /\ renamed \subseteq Files
  /\ st \in States /\ cur \in 0 .. Inputs /\ next \in 1 .. Blocks + 1
  /\ path \in {"none", "out", "tmp"}
  /\ cache \subseteq AllBlocks /\ rest \subseteq AllBlocks /\ left \subseteq {"out", "tmp"}
  /\ {del, stop, damaged} \subseteq BOOLEAN /\ rc \in {0, 1}

\* "Rename source file to *.deleted after successful operation" (fs/copy.c): once
\* a source is put aside, its target holds all of its data and nothing else, at
\* every later moment, whatever happens to the copies after it.
RenamedIsCopied == \A i \in renamed : out[i] = Whole(i)

\* An operation that ends with success has copied every input.
SuccessIsComplete == st = "over" /\ rc = 0 => \A i \in Files : out[i] = Whole(i)

\* With --verify, or as long as neither a short write nor the error of a flush was
\* overlooked, both are true: a wrong copy never gets past the verification.
Trusted == mode.verify \/ ~damaged
TrustedIsCopied == Trusted => RenamedIsCopied
TrustedIsComplete == Trusted => SuccessIsComplete

\* A target appears in one step: nobody, not even after a crash, finds a part of a
\* file under the final name.  (An empty one may be there: it reserves the name.)
TargetIsWhole ==
  Trusted /\ ~mode.into => \A i \in Files : out[i] \in {Absent, Old, New({}), Whole(i)}

\* A file that was there before is changed only by --overwrite.
OldFilesStay ==
  [][~mode.overwrite => \A i \in Files : /\ out[i] = Old => out'[i] = Old
                                         /\ tmp[i] = Old => tmp'[i] = Old]_vars

\* A copy that fails or is stopped cleans up after itself: what it leaves under
\* either name is somebody's older file or a whole one, or, when it failed between
\* opening the files and del_on_close (or to rename one over the other), the empty
\* file it had just made.  A name that cannot be removed keeps what it has, and the
\* other one is removed all the same.
Tidied(i) ==
  LET tidy == {Absent, Old, Whole(i), New({})} IN
  /\ out[i] \in tidy \/ (i = cur /\ "out" \in left)
  /\ tmp[i] \in tidy \/ (i = cur /\ "tmp" \in left)
NoHalfFile == Trusted /\ st = "over" => \A i \in Files : Tidied(i)
=============================================================================
