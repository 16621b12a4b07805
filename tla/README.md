# fcom: a verification project

`fcom` is a file manager for the command line (with a window for `sync`). One
executable starts a core, the core loads operation modules, and an operation may
start others. These TLA+ modules describe the parts of it whose correctness is a
matter of order: what runs between two steps, what a retry finds, what a failure
leaves behind. TLC checks them on small instances; TLAPS proves theorems about
them for every value of the constants.

## The system

| component | source | state | operations | talks to |
|---|---|---|---|---|
| task queue | `util/taskqueue.h` | list, lock, `t->handler` | post, run | every thread that calls `core->task()` |
| event loop | `core/core.c` | `kq_quit`, wake-up event, timer queue | task, exit, run, timer | OS events; calls handlers |
| command manager | `core/com.c` | list of commands, each with an operation, a task and a result | create, run, async, complete, signal_all, input_next | operations; `core->task()`; the parent through `on_complete()` |
| module loader | `core/mods.h` | table of loaded modules | provide | `dlopen()` |
| file object | `core/file.c`, `core/fbuf.h` | read buffers, write cache, rest of a short write, preallocation | open, close, read, write, flush, trunc, behaviour, move, del, ... | the kernel; every operation |
| start-up | `exe/*` | configuration, log | main, operation, on_signal | core |
| copy | `fs/copy*` | state, the output with its temporary file, checksums | run, signal, close | file object, trash, md5, aes |
| sync | `fs/sync*` | two trees, the list of differences, its filter and order | scan, compare, view, run | copy and trash as children; file move |
| gsync | `fs/gsync.cpp` | the window and its tasks | one handler per button and per stage | `core->task()` from the window's thread, sync's interface on the worker |
| move, trash, list, touch | `fs/*.c` | an input loop | run | file object |
| unpack, pack | `pack/unpack.c`, `pack/pack.c` | state, two pipe ends, the child's result | run | one child, or a writer and a reader with a pipe between them |
| archive operations | `pack/*.c` | a state machine around a format library | run | input, output and, for pipelines, stdin/stdout |
| hash, aes, hex | `ops/*.c` | an input loop | run | file object |
| text, picture, registry | `text`, `pic`, `windows` | sequential conversions | run | file object |
| utilities | `util` | none shared | parsers, string and window helpers | |

Everything except the window and the console's signal handler runs on one
thread, the worker inside `core_run()`. What makes it hard nevertheless:

- the queue is read without its lock and the wake-up event is reset before it is
  read (`taskqueue.h:109-119`, `core.c:113-119`);
- a child's completion calls the parent's `run()` from inside the child's
  `complete()`, so the order in which things are freed follows the call stack
  (`com.c:76-143`);
- every write may be short or refused, and the caller repeats its call; the
  position is spread over five fields of the file object (`file.c:14-46`);
- `copy` must not lose a file whatever fails, whenever it is stopped or killed
  (`copy.c:242-372`, `copy-output.h`);
- `sync` compares what it has scanned once and then changes the target entry by
  entry, so that later entries meet what earlier ones have left
  (`sync-cmp.h:181-273`, `sync-fsync.h`);
- an operation has one input and one output object, one library handle and a few
  flags (`opened`, `del_on_close`, `woff`, `ifile`) for all files of its command line:
  what one file leaves in them meets the next, and with `--skip` an error does too
  (`gz.c`, `zip.c`, `untar.c`, `unzip.c`, `md5.c`);
- `move` renames what the walk it is driven by has not listed yet (`move.c:181`);
- `gsync` runs its scans and batches on the worker, through one task object with
  several functions, while its window reads, refills and frees the same comparison,
  list, flags and state without a lock (`gsync.cpp:804, 612, 180, 203`). Nothing but
  "sync already in progress" (`gsync.cpp:528`) keeps the user from any button.

What makes each part correct:

- queue and loop: no lost wake-up, sound links, every posted task is called,
  `exit()` ends the loop;
- commands: no operation is used after it closed itself, every child is answered
  once, a waiting parent is always woken, nothing is left at exit;
- file object: the bytes of all calls, each once and in place, through any
  number of retries; the exact length after close; a stream never seeks;
- copy: a target appears whole or not at all, success means complete, a source
  is put aside only after that, an older file is touched only by `--overwrite`,
  a failure leaves no half of a file;
- sync: the list is exactly the difference of the trees, each path in it once,
  the same from the other side; success means that everything asked for was done,
  and what both sides have stays where it is;
- compression and archives: success means that every output is whole; whatever is
  left behind after an error is whole too, and older files are touched only by
  `--overwrite`;
- md5, move, trash: a line has the hash of its file; a file is removed only where that
  was asked for and never replaced; success means that everything was done;
- gsync: what is done to the files is what the list showed when it was asked for, in a
  direction that the user has chosen since, whole and once; the marks in the list are true;
  nothing that was started is forgotten halfway, and every scan and batch ends.

`PROJECT.json` lists the hazards one by one with the line where each bites.

## Modules

| module | models | state and actions |
|---|---|---|
| `TaskService` | the promise of `core->task()` | requests pending and running; `Post`, `Start`, `Return`, `Stop` |
| `CoreLoop` | `taskqueue.h`, `core.c` | a critical section of the queue's lock is one action, every unlocked access is another: `SetHandler`, `Link`, `Wake` on any thread; `ReadLen`, `ReadFirst`, `Remove`, `CallHandler`, `HandlerReturns` and the loop's own steps on the worker |
| `CoreLoop_proofs` | theorems about `CoreLoop` | |
| `MCCoreLoop` | instance for TLC | |
| `FileWrite` | the write side of `file.c`, `fbuf_write()`, for a regular file and for standard output | an action is one pass of `file_write()`'s loop (`FwCache`, `Preallocate`, `FwWriteAccepted`, `FwWriteAgain`, `FwWriteFails`) or one write of `file_flush()`; `Write`, `Retry`, `Flush` (also again, after `ASYNC`), `Behaviour`, `Close`, `Open` and `Trunc` (`file_trunc()`, right after the open) are the callers. `AlignPower2` is a constant of which `FileAssumption` says no more than that it does not round down |
| `FileWrite_proofs` | theorems about `FileWrite` | |
| `MCFileWrite` | instance for TLC | the powers of two up to 64 |
| `Com` | `com.c` and how copy, sync, unpack and pack start children | the worker's call stack is a variable; an action is a step of the innermost frame; `Signal` may come between any two, and calls whatever operation a listed command points to, freed or not (`Reached`) |
| `Com_proofs` | theorems about `Com` | |
| `MCCom` | instances for TLC | shapes: which command runs which kind of operation, and what may fail |
| `Copy` | `copy.c`, `copy-output.h`, `copy-verify.h` | one action per state of `copy_run()`, split where the process may die between two system calls, down to the removal of the temporary file and of the target (`RemoveTmp`, `RemoveOut`), each of which may fail; `Signal`, `Crash` |
| `Copy_proofs` | theorems about `Copy` | |
| `MCCopy` | instances for TLC | |
| `SyncDiff` | `sync-cmp.h`: comparison with the table of moved files, filter and swapped view | a tree is a function on paths; one action per path of the walk (`DiffBoth`, `DiffOne`) |
| `Sync` | `sync_run()`, the scan, `sync-fsync.h` | `ScanLeft`, `ScanRight`, `Diff`, `Show`, then one action per entry (`PassOver`, `MoveFile`, `StartChild`) and per end of a child (`CopyEnds`, `CopyFails`, `TrashEnds`, `TrashFails`); `Signal` |
| `Sync_proofs` | theorems about `Sync` and `SyncDiff` | |
| `MCSync` | instances for TLC | all small trees, command lines |
| `Output` | what an operation that writes files sees of `file.c` | the files under the names it may write, the output object with its cache and what a short write owes; operators `OpenFile`, `WriteWhole`, `WritePart`, `CloseDelete`, ... that the next three modules build their actions from |
| `Codec` | `gz.c`, `zst.c`, `ungz.c`, `unxz.c`, `unzst.c` | an action per state of each loop; the library is what it gives back for the chunks it is fed (`GzComp`, `ZstComp`, `UngzDecomp`, ...); `Signal` |
| `Archive` | `tar.c`, `zip.c`, `iso.c` | the same for writers of archives, with the walk over the input (`In`, `Info`) and `zip --each` |
| `Extract` | `untar.c`, `unzip.c`, `un7z.c`, `uniso.c` | the same for readers, with members that are not chosen, `--skip` (`MemberFails`) and `--recovery` (`RecoveryList`) |
| `Codec_proofs`, `Archive_proofs` | theorems about `Codec` and `Archive` | |
| `FileOps` | `md5.c`, `move.c`, `trash.c`, `md5sum.h`, `file_move()`, `cmd_input_next()` | where every file is, and an action per state of the loops: `MoveNext`, `MoveFile`; `TrashNext`, `TrashAll`, `DelAll`, `TrashEach`, ...; `HashNext`, `HashRead`; `CheckList`, `CheckLine`, `CheckRead`; `Stop`, `Signal` |
| `MCCodec`, `MCArchive`, `MCExtract`, `MCFileOps` | instances for TLC | command lines, with their files |
| `Gsync` | `gsync.cpp`, `sync_sync()`, the search for duplicates, `sync_view()` | an action per button (`PressScan`, `PressSync`, `PressSwap`, `PressView`, `PressDelete`, `Quit`), each possible at any time, and per function posted to the window (`RunPost`) on one side; on the other the worker's functions, from `TakeTask` and `CallHandler` through the states of the scan (`FreeDiff` and `ForgetDiff`, `ScanOpen` to `DiffEnds`, `ShowResult`), or through the batch (`SyncItem`, `SyncEnds`, `Unwind`), to the ends of children (`ChildEnds`, `TrashEnds`) |
| `Gsync_proofs` | theorems about `Gsync` | |
| `MCGsync` | instances for TLC | entries, sizes of files and trees, wildcards |

How they fit together: `CoreLoop` implements `TaskService` (checked and proved).
`Com` uses the task queue only through what `TaskService` and `PostedIsCalled`
say: a posted task is called, later, once. `Copy` uses the file object only
through what `FileWrite` shows of it: a block is in the file, in the cache, or
waits as the rest of a short write, and an error of a flush is not told. `Sync`
extends `SyncDiff` and sees a child only as a step that ends well or badly: `Com`
shows that the end is told once, `Copy` what a copy leaves (the whole file, the old
one, an empty one, or none). `Gsync` takes the comparison from `SyncDiff` as a number
with entries of four kinds, and the queue with its one task object as `CoreLoop` has
it: what is taken is unlinked first and its function is read later. The list that
`sync_view()` fills and the duplicates are walked through (`filter`) is a variable. `Codec`, `Archive`
and `Extract` share `Output`, which keeps of `FileWrite` that data may wait in the cache,
that a short write is repeated by its caller, and that `close()` hides the error of the
last flush. All loops return to `Com` with an exit code and nothing else.

Names ending in `_Something` whose comment begins with "Mutant:" are plausible
mistakes in the code. `PROJECT.json` pairs one of them with every property of a passing
run; the others break the remaining parts of an invariant that has several.

## Runs

Most modules state one invariant that joins their type invariant to the parts named here:

| invariant | parts |
|---|---|
| `CoreInv` | `TypeOK`, `LocalsOK`, `LinksSound`, `NoLostWakeup` |
| `FileWriteInv` | `TypeOK`, `NothingLost` |
| `ComInv` | `TypeOK`, `NoUseAfterClose`, `AnsweredOnce` |
| `SyncInv` | `TypeOK`, `NothingTwice` |
| `GsyncInv` | `TypeOK`, `ItemUnderWay` |
| `CodecInv`, `ExtractInv` | `TypeOK`, `SuccessIsWhole`, `NoHalfFile` |
| `ArchiveInv` | `TypeOK`, `SuccessIsWhole`, `KeptIsWhole` |
| `FileOpsInv` | `TypeOK`, `NothingIsLost`, `LinesAreTrue` |
| `WorkEnds` (of `Gsync`, temporal; `GsyncLive.cfg`) | `BatchEnds`, `ScanEnds` |

| run | bounds | shows |
|---|---|---|
| `core_loop` | 3 threads, 2 tasks, 4 call sites | `CoreInv`, refinement of `TaskService`, and, with fairness, `PostedIsCalled` and `ExitEndsLoop`. Three threads are the worker, the window and the console; two tasks are needed for the order of a queue, one of them posted from all sides |
| `file_write` | a regular file and a pipe, buffer of 3 bytes, calls of up to 5, 7 bytes in all | `FileWriteInv`, `CloseIsExact`; for a pipe that may be full at every byte of a write and of a flush `InOrder`, `NeverSeeks`; `CallsReturn`, of a flush that returned `ASYNC` too. A call may be shorter than, equal to or longer than the buffer, and two of them may overlap it in every way |
| `com` | up to 5 commands: sync over copy over trash; unpack over copy; two pipelines | `ComInv`, `ExitLeavesNothing`, and with fairness `CommandsComplete`; signals at any time. `NoUseAfterClose` says that the worker never uses a closed operation, and that a signal can meet one only while its `com->complete()` is on the stack. Three levels are what the program nests at most |
| `copy` | 2 files of 2 blocks, all 8 option sets, all failures, those of removing what is half made included | `TrustedIsCopied`, `TrustedIsComplete`, `TargetIsWhole`, `NoHalfFile`, `OldFilesStay`. Two files, because what a failure leaves in the output object meets the next file |
| `sync` | every source and target tree over 7 paths, up to three levels deep, with files that are equal, alike, or differ in date, size, attributes or content; 11 command lines; a scan that misses something, children that fail, signals | `SyncInv`, `DiffIsExact`, `SwapIsReversal`, `SuccessIsComplete`, `SharedFilesStay`. The trees hold up to three files that look alike on one side and two on the other, a file under two names, a file in place of a directory, and a directory on one side only with a file that moved out of it |
| `gsync` | 2 entries of a comparison (left alone, moved) or of a search for duplicates, trees of 0 to 3 entries with and without wildcards, slices of 2 instead of 100, 2 scans or deletions, any number of batches, swaps and choices of the list, at any time; failing paths, commands, moves and deletions | `GsyncInv`, `DoneAsShown`, `BatchIsWhole`, `WorkGoesOn`, `MarksAreTrue`, `DoneOnce`. Two entries are a batch with an item after the one under way, and a pair for the search; with two to a slice every loop puts itself off; the second scan or deletion meets what the first one, a batch or the window is doing, or has left |
| `codec` | 1 or 2 inputs of up to 2 pieces of data, whole, empty, cut, damaged, or of two members; all system calls may fail, all writes may be short, at any time a signal | `CodecInv`, `OldFilesStay`; with fairness `Ends`. Two inputs, because what the first leaves in the loop's variables meets the second; two pieces, because one may be in the cache while the other is owed |
| `archive` | nothing, or forests of up to 6 entries: a directory in a directory, files of 0 to 2 pieces, links, entries that are missing, excluded or have no name; up to 3 names on the command line, entries numbered in the order of the walk | `ArchiveInv`, `OldFilesStay`; `Ends`. Three archives of `zip --each` have one that is first, one between and one that is last |
| `extract` | 1 or 2 archives of up to 5 members, whole, cut after every chunk, or damaged at every chunk; four sets of chosen members; `--skip` and `--recovery` with one archive | `ExtractInv`, `OldFilesStay`; `Ends`. A member may be a directory, a link, of a type nobody knows, empty, or wanted or not, before and behind every other |
| `fileops` | 172 command lines over trees of 3 to 6 entries: names that collide in the target, repeat, lie below each other, or have the word that is replaced; every option; lists of two lines of each kind | `FileOpsInv`, `SuccessIsDone`; `Ends`. Two entries per target are enough to collide, two lines of a list to swallow one another |

`DiffIsExact` compares the list, which the code makes in one pass with a table, with a
definition on the two trees that knows no order but that of "the first one". It leaves
out `MOVE_CHK_CONTENT`: the comparison of contents uses buffers that hold other
candidates' names (`sync-cmp.h:78`), and may miss or invent a move.

`SuccessIsComplete` and `SharedFilesStay` are stated for scans that missed nothing. An
unreadable directory is logged and looks empty, so that `--delete` removes what the
target has of it; the model contains this case, and the properties fail without the
condition.

The properties of the loops around libraries leave cases out where the code does not
keep them; each such case is an instance in the MC module for which TLC finds the
violation, listed below with the rest.

Some of what the source says of itself does not hold. For two cases a run gives the
counterexample among the runs of `PROJECT.json`:

- `copy_short`: `copy` takes a short write for success; without `--verify` a file
  on a full disk is reported as copied and its source is renamed. An error of the
  last flush is lost the same way (`file.c:131, 573`): the model's `damaged` covers
  both, and `--verify` catches both.
- `sync_move_double`: `--move` acts on the second entry of a moved file too, which
  has only one name; when that is the target's, `sync_move()` follows a null pointer.

More are in the models without being a run of `PROJECT.json`. With a configuration:

- `FileWriteGaps.cfg` (`MCFileWrite`, `NoStaleBytes` fails): `fbuf_write()` takes data that
  begin beyond the buffered bytes for data that overlap them (`fbuf.h:95`); memory that no
  call has written gets into the file. `zip.c` makes such a write when an entry crosses the
  end of a buffer.
- `ComPairFails.cfg` (`MCCom`, `CallerIsThere` fails): when the reader of a pipeline
  fails first, its parent is gone when the writer completes (`unpack.c:100`).
- `FileWriteFlush.cfg` (`MCFileWrite`, `FlushGoesOn` fails): a `file_flush()` that met a full
  pipe after a part of the buffer was written returns `ASYNC` without noting how far it
  came. Called again, as `tar.c:278`, `ungz.c:204`, `unxz.c:196` and `unzst.c:171` do, it
  offers the buffer from its beginning and is refused with "detected seeking attempt on
  output stream" (`file.c:409, 359`). `fcom.h:417` promises "Completely asynchronous file
  operations"; `file.c:203`, which makes the buffer as small as a pipe because "otherwise
  file_flush() may return ASYNC which is not supported", is in the Windows build only. The
  history variable `cut` marks this moment; `NeverSeeks` excepts the flushes after it, and
  no write.
- `ComSignal.cfg` (`MCCom`, `SignalsActive` fails): `close()` frees the operation in
  `cmd_destroy()`, but `c->op` is not reset and the command is listed until `fflist_rm()`
  (`com.c:113`), with `on_complete()` and all that the parent does there in between. A signal
  that arrives then is passed to freed memory by `com_signal_all()` (`com.c:53-62`), of which
  `fcom.h:228` says "Pass the signal to all active operations".
- `ExtractNames.cfg` (`MCExtract`, `SkipEnds` fails): with `--skip` an error of
  `input_next()` leads back to `I_IN` (`unzip.c:285`), and `cmd->input_fd` is still set
  (`com.c:434`): a list of names that cannot be read is read again for ever. `unzip.c:25`
  says "Skip files on error". The state `refused` makes each attempt a step of its own, and
  `Ends` excepts an operation that is refused over and over, and no other.
- Six of gsync, described below, and `GsyncLive.cfg`, which passes.

By another value of one constant (`Commands <- ...`, and `Failures <- None` where there
is one). A name in the third column that is a part of an invariant is to be checked alone:

| module | instance | violated | what the code does |
|---|---|---|---|
| `MCCom` | `UnpackStart` | `NoUseAfterClose` | a failing `com->run()` calls `on_complete()` and returns an error as well (`com.c:321`); `unpack` acts on both |
| `MCCodec` | `Several` | `SuccessIsWhole` | `ungz` and `unxz` read the second of two files from where the first ended (`in_off` is not reset), into the first one's output; `zst` encodes the second with the encoder, and the flags, of the first |
| `MCCodec` | `CutMember` | `SuccessIsWhole` | `ungz` does not notice that the file ends inside a member if another one ended in the same read (`ungz.c:218, 242`) |
| `MCCodec` | `CutFrame` | `SuccessIsWhole` | `unzst` takes the end of the file for the end of the data |
| `MCExtract` | `Padded` | `SuccessIsWhole` | zero blocks that follow the end of an archive in the same read are given to the reader of the next one (`untar.c:276`) |
| `MCExtract` | `AfterDirectory` | `SuccessIsWhole` | `untar` keeps `oname` after a directory, so that a member nobody has chosen is written under it (`untar.c:359`) |
| `MCExtract` | `SkipTwo` | `NoHalfFile`, `OldFilesStay` | with `--skip` an error of reading leads to the next archive and leaves the open member as it is (`unzip.c:302, 604`) |
| `MCExtract` | `SkipIndex` | `TypeOK` | with `--skip` an error in the index raises `ifile` beyond the list (`unzip.c:517, 646`) |
| `MCFileOps` | `Unreadable` | `Ends` | `md5` tries a read that fails for ever (`md5.c:166, 348`) |
| `MCFileOps` | `TrashTest` | `TestChangesNothing` | `trash --test` moves to trash; the help says "Test mode: don't actually write anything" (`help.txt:79`) |
| `MCFileOps` | `LockedTarget` | `ReplacesNothing` | `FCOM_FILE_MOVE_SAFE` opens the target to see whether it is there (`file.c:708`): one that cannot be read is replaced |

And what the models have without a property:

- `trash` with `--wipe` or `--rename` ends with 0 although some files were skipped, and
  leaves them overwritten or under the name `00000000.0000`; with `-f` alone it ends with 0
  if one file was deleted, and counts those that did reach trash as skipped
  (`trash.c:233-242, 270-286`).
- A line of a `.md5` list that is shorter than a sum takes the next line with it
  (`md5sum.h:34`).
- `move --search` renames a directory before it looks into it, and then fails on what is
  in it (`move.c:181`). `--unbranch` of a file named on the command line moves it into the
  current directory, because it has no base.
- `zip` and `iso` end with success although the last flush failed (`zip.c:564`);
  `zip --each` leaves an empty archive for an input that does not exist; `tar` ends at the
  first missing input; `iso` opens every file twice and packs what it finds then.
- `unzip --recovery` takes offsets that count from the beginning of the buffer for offsets
  in the file (`unzip.c:460`).
- `sync --diff` does not show files that differ only in
  their date, but `--update` copies them (`sync-cmp.h:495`, `diff_flags_parse()`).
- A call with `FCOM_FILE_NOCACHE` that is repeated moves the current offset twice
  (`file.c:505`). `FileWrite!Enter` has it; set `Callers = {"nocache"}` and
  `Stdouts = {TRUE}` to see `NeverSeeks` fail.

Deadlock is checked where the system must not stop (`core_loop`). The other
modules end: a file is closed and the byte bound used up, the primary command is
complete, the copy or the synchronisation is over.

### gsync

Nothing in the code orders what the window and the worker do to the comparison, the list and
the task, and nothing in the model does either: every button may be pressed between any two
steps of the worker. Some of these orders are undefined behaviour. The model is exact up to
the step that uses what is not there; that step says in `bad` what it was and is the last one:

| `bad` | what is used | where |
|---|---|---|
| `comparison` | `redraw()` finds the comparison gone that it has just tested, half made, or its list being filled by the worker | `gsync.cpp:180, 191, 203` |
| `row` | rows of a list that was emptied or is being filled, after a failed scan or during one | `gsync.cpp:453, 546, 720, 742` |
| `item` | an item of the batch whose comparison was freed, or one beyond the batch, when its command ends | `gsync.cpp:575, 599` |
| `target` | an entry of a comparison that was freed or made anew, an entry without a status, or the target tree that a search for duplicates has not | `gsync.cpp:612` |
| `snapshot` | a tree that a failed scan has not opened, or another one has given up | `gsync.cpp:285, 290` |
| `walk` | the list of duplicates that the window has made shorter than the walk has come, or one that went with its comparison | `sync-cmp.h:354` |
| `gsync` | the object itself, which `gsync_signal()` frees whatever the worker does with it | `gsync.cpp:1075` |

TLC reaches each of them in the instance of the run `gsync`. No document promises that they
do not happen, so there is no property for it; what the properties say is said up to that
step. One more thing breaks
what a batch promises without being undefined: the one task object is posted with another
function before its function was called, so that one of the two is lost or one is called twice
(`gsync.cpp:804`). The history variable `clash` notes it, and the properties about batches and
scans are stated for behaviours in which it has not happened. No order of buttons is excluded
otherwise: the swap button in the middle of a batch changes the direction of the items that
are left (`gsync.cpp:612`), and `DoneAsShown` admits exactly the directions in force since the
batch was asked for (`sides`), whatever the list showed at the time.

Six configurations show where the code does not keep what it says of itself:

- `GsyncScan.cfg` (`ComparesWhole` fails): the scan ends when neither tree has given an
  entry in one round (`gsync.cpp:295`). An unreadable directory on one side, while the other
  is at its end, is such a round; what was left is compared as missing, which offers the
  other side's files for copying or removal. `this->wildcard` keeps what the last path said
  (`gsync.cpp:235, 270`), so that a `*` in the right path alone skips the scan of the left
  tree. `fcom.h:577` says "Create snapshot from directory".
- `GsyncLost.cfg` (`RefusedWhileInProgress` fails): a scan asked for before the worker has
  taken the batch replaces `sync__worker`; `sync_items` is never emptied, and every later
  batch is refused with "sync already in progress" (`gsync.cpp:529`).
- `GsyncCreate.cfg` (`WaitsForCommand` fails): a command that cannot be created calls
  `on_complete()` inside `run()`, before `sync()` has returned 1; `sync__worker()` then marks
  the entry as in progress, over the mark of the error, for good (`gsync.cpp:613`). In the
  batch after it, a command that could not be created may get this mark too, because the
  pointer is to the item's place (`Pointed`). `gsync.cpp:618` says "wait for on_complete() to
  be called".
- `GsyncTrash.cfg` (`DeletedIsGone` fails): `selected_files_deleted__worker()` does not look
  at the result, and takes the entries from the rows that were selected although the list may
  show others by then (`gsync.cpp:741`). What was not deleted is marked as done, while the
  window says "Moved %L files to Trash" (`gsync.cpp:758`). This is why `MarksAreTrue` admits the
  marks of a deletion.
- `GsyncWalk.cfg` (`DuplicatesAreSet` fails): the walk through the duplicates goes through
  `sd->filter` by number, and the window empties and refills that list meanwhile. Shorter by
  what is equal already, it ends the walk early and leaves files without a status, of which
  `sync-cmp.h:352` says "Set 'EQ' status for the duplicate files; set 'NEQ' otherwise."
- `GsyncDups.cfg` (`ScanKeepsKind` fails): a search for duplicates whose slice of 100 is full
  goes on as a comparison with a right tree that is not there (`gsync.cpp:372`), although
  `gsync.ui:14` calls the action "Scan for Possible Duplicates".

The walk sets `DONE` on the second of two equal files (`sync-cmp.h:393`), although
nothing was done for it; for `MarksAreTrue` such an entry is a `twin`.

`GsyncLive.cfg` passes: with one scan or deletion, and whatever else is pressed, every batch
and every scan comes to its end (`WorkEnds`) unless the window is closed, the program has
crashed or a posted function was replaced. `WorkGoesOn` is the part of it that a safety
property can say, is checked with two of them in the run `gsync`, and is proved.

## Fairness

- `CoreLoop`: threads run; functions that the worker calls return (strong,
  because they may call the core any number of times first); a signalled event is
  delivered although signals interrupt the wait. Nobody ever has to post.
- `FileWrite`: a call goes on; who gets `ASYNC` calls again, which `com->async()`
  makes happen; a write that is tried again and again is accepted at times
  (strong), because the other side of a pipe reads.
- `Com`: a function goes on; the loop calls posted tasks (`PostedIsCalled`); an
  operation that is run again and again ends at last (strong, per command), its input
  being finite. The queue is a sequence: tasks are called in the order they were posted.
  Nothing is assumed of signals and failures.
- `Gsync` (used by `GsyncLive.cfg`; the run has safety and action properties only): the
  worker's loop and the window's run what they are given, and children end
  (`CommandsComplete`). The posted task is taken even if children end again and again
  (strong), because a run of the queue follows every batch of events; that children end and
  that the window runs what is posted is strong as well, because buttons interrupt both.
  Nobody has to press a button, and nothing is assumed once `bad` or `gone` holds.
- `Codec`, `Archive`, `Extract` and `FileOps`: the thread in the operation's `run()` goes
  on, and an `ASYNC` call is repeated (`com->async()`). Input is finite, so no strong
  fairness is needed. `Ends` says that the operation is over in the end, and thereby that
  no round of states repeats for ever; a step that leads back to the same state would be a
  stutter that TLC does not see, so where the code does that (`unzip.c:285`) the model has a
  state for it (`refused`). Nothing is assumed of `Signal`.
- `Copy` and `Sync` have no liveness property: they are loops over finite input.

## Proofs

`CoreLoop_proofs` proves, for all threads, tasks and call sites:

- `CoreInvariant`: `Spec => []CoreInv`, where `CoreInv` is `TypeOK` (the prover's
  share of it), `LocalsOK`, `LinksSound` and `NoLostWakeup`. None of the last two
  is inductive alone. `LinksSound` needs to know that only the worker removes
  items, which `Quota <= Len(queue)` expresses: a run has counted no more items
  than there still are. `NoLostWakeup` needs that in turn for the moment the run
  ends: its quota is 0 then, so whatever is left was linked after the length was
  read, and the thread that linked it is still going to signal or has signalled.
- `LinksAreSound`, `NoWakeupIsLost`, `TypeCorrect`: its parts.
- `HandlersAreKnown` and from it `ServiceImplemented`: `Spec => Service!Spec`
  provided that no task object is posted with two functions
  (`OneFunctionPerTask`). The assumption is needed: the handler is written outside
  the lock, and `gsync.cpp` does post one object with several functions.

The assumptions on the constants (`CoreAssumption`) say that the worker is a thread and
that call sites are made of threads, tasks and functions.

`FileWrite_proofs` proves, for any size of the buffer, any number of calls with any bytes
at any offsets, and however the kernel takes, delays or refuses what is offered:

- `FileWriteSafe`: `FileWriteInv`. `FileCloseIsExact`: `CloseIsExact`. `FileInOrder`:
  `InOrder`. `FileNeverSeeks`: `NeverSeeks`. `NothingLost` compares what the callers wrote
  with four layers (the kernel's bytes, the chunk in transit, the buffer, the rest of the
  call), and is not inductive: it does not say that a layer is empty, where it ends, or
  that the buffer keeps its bytes while `file_flush()` writes them.
- The inductive invariant `FInv` adds that. `View` says it byte by byte: byte i is in the
  uppermost layer that covers it. `Flags` ties `w_write`, `continued` and `async` to the
  layers: with a chunk in transit the buffer is empty, so that the rest of a call never
  lies under older bytes. `Sizes` bounds each layer by what was written, and has `size`,
  `prealloc` and the length of the file in order. `Flushing` says that the kernel has the
  part of the buffer that a flush is past. `Pipe` has the same for a stream, and holds
  after errors too. A step moves bytes from one layer to the next, and there is one lemma
  for each kind of move: `ViewWrite` (a call begins), `ViewMerge` (`fbuf_write()`),
  `ViewAccept` (`f_write()`), `ViewUnder` (a flush) and `ViewMove` (a layer is renamed).
- All four assume `Plain`, that `Callers` has nothing but explicit offsets. With "gaps",
  "nocache" or "reuse" TLC finds `FileWriteInv` and `CloseIsExact` violated, and with
  "nocache" `NeverSeeks` too. Nothing is assumed of the pipe: it may take any part of what a
  write or a flush offers. What `FileNeverSeeks` says of a flush after one that was cut short
  is nothing (`cut`), because it is refused then; what it says of every write holds after it
  too. `NotCut` and `PartIsBehind` are about the moment in between: a repeated flush offers
  bytes that the stream has already, and the buffer never reaches beyond what was written.

`Copy_proofs` proves, for any number of files and blocks, every set of options and of
failures (`CopyAssumption` only types the constants):

- `CopyInvariant`: `Spec => []CopyInv`. The properties of interest speak of finished
  copies, and a finished copy is right because of what held while it was made:
  `Control` ties the position of the loop to the state of the output object, `Quiet`
  says that nothing is buffered between files, and `Account` that every block read
  of the current file is in the file, in the cache or in the rest of a short write,
  none twice. After an overlooked error (`damaged`) blocks may be missing, but it
  remains that none is both in the file and in a buffer. `HeldSound` needs that half:
  when the verification finds the file complete, nothing can be left in a buffer
  that would get into the next file.
- `CopyKeepsData`, `CopySucceeds`, `CopyIsAtomic`, `CopyTypes`: from it
  `TrustedIsCopied`, `TrustedIsComplete`, `TargetIsWhole` and `TypeOK`. The last is
  proved only; `copy` does not check it again.
- `CopySparesOldFiles`: `OldFilesStay`. `OwnOutput` says that without `--overwrite` the
  copy writes to, deletes and renames over only what it has made: an output was opened
  exclusively, so that its name was free; `del_on_close` is set after that; and the name
  stays its own until the copy lets go of it.
- `CopyTidiesUp`: `NoHalfFile`, from `Tidy`. Only the current file can be unfinished,
  only under the name that is open, and in the state `end` only if `del_on_close` is set,
  so that the close tries to delete it. A removal may fail (`left`): then its name keeps what it
  has, and the other one is removed all the same (`RemovingStep`, `OtherNameStays`).

`Com_proofs` proves, for any number of commands and any tree of operations:

- `ComSafe`: `ComInv`. `ComExitsClean`: `ExitLeavesNothing`. `ComCallerIsThere`:
  `CallerIsThere`, the sentence of `doc/arch.md`. Signals are among the steps: that a listed
  command with a closed operation is in a frame of its `complete()` (`ClosingStep`) is what
  holds of them; that the signal finds no such command is false (`ComSignal.cfg`).
- All three assume `SafeShapes`, because without it they are false: where unpack starts
  children one at a time, "start" may not fail, and where there is a pipeline nothing may
  fail but its writer. The run `ComPairFails.cfg` and the instance `UnpackStart` show what
  happens otherwise.
- The inductive invariant `CInv` is about the call stack. `Turns`: an operation is run
  from one place, the queue or the innermost frame, and then none of its children but a
  pipeline's writer is still to answer. `Lives`: a child that has not answered has an open
  parent, and a command that has answered is in a frame "free" until it is unlinked.
  `Frames`: below the innermost frame there are only frames that do not look at their
  operation again ("free", and copy's "called"), with one exception, `Called`: unpack or a
  pipeline waits in the second frame for `com->run()` to return from the error exit, and
  then the child that failed is one that does not run its parent. `Tree` gives
  `ExitLeavesNothing`: a command left behind has a parent left behind, and so on, but
  following `parent` never comes back. That a tree has no circle is said with sets of
  commands, every non-empty set without the root has a member whose parent is outside,
  and needs no induction.

`Gsync_proofs` proves, for any list of entries, any trees, slices, failures and any buttons at
any time (`GsyncAssumption` only types the constants; there is no assumption about the user):

- `GsyncSafe`: `GsyncInv`. `GsyncDoesAsShown`: `DoneAsShown`. `GsyncEndsWhole`: `BatchIsWhole`.
  `GsyncGoesOn`: `WorkGoesOn`. `GsyncMarksTruly`: `MarksAreTrue`. `GsyncDoesOnce`: `DoneOnce`.
- `Types` holds whatever happens, replaced functions included; with it the list shows each
  entry once, and the index of the item is in the batch. `Asked` says what the items are, of
  which comparison and what the list showed of them.
- The rest holds while `~clash`. `OnePlace`: at most one of the posted task, the worker's
  function, the child and the posted end has the batch, so that the end of a child meets its
  own item. `Carried`: at least one of them has it, and the same of a scan. `Logged` ties the
  log to the position in the batch, `Truth` the marks to what was done, `Once` the items to
  what is not done yet, and `Nested` has the callers inside whose `run()` a command that could
  not be created has completed, which may mark an entry of the next batch but none that is done.
- Steps that end in `bad` change nothing else, and are taken apart from the others once, in
  `StepCases`. A button may come at every step, so each part of the invariant is shown for all
  steps of the scan, of the batch and of the window (`CarriedByScan`, `CarriedByBatch`,
  `CarriedByWindow`, and so on).

`Codec_proofs` and `Archive_proofs` prove `OldFilesStay` of their modules, for all inputs,
command lines and failures (`CodecSparesOldFiles`, `ArchiveSparesOldFiles`; the assumptions
say what a command line is):

- Both begin with the same facts about the calls of `Output`: if the open file is the operation's
  own, a call that flushes, writes, or is refused changes no older file (`CallsSpare`); a
  file that was opened is the operation's own, because without `--overwrite` it must not
  have been there (`OpenFileSpares`); and what is deleted was no older file if its name was
  not that of one (`DeletesSpare`).
- What remains is the name under which an unfinished output is deleted, a variable of the
  operation and not of the output object. `NamesSafe` says when it may change: never while
  `del_on_close` is set. The compressors and `zip --each` clear the flag before the next
  name; the decompressors set a name only while nothing was opened.
- There is no such theorem for `Extract`: `SkipTwo` shows that `unzip --skip` breaks
  what it would need.

`Codec_proofs` also proves `CodecInv`, exit code 0 and what is left on the disk, of all
command lines that satisfy `Handles` (`CodecIsCorrect`), from the invariant `CInv`
(`CodecStates`):

- `Handles` excludes what the code gets wrong: several inputs of `zst`, `ungz` and `unxz`
  (`Several`), a cut file of `unzst` (`CutFrame`), a cut member behind a whole one of
  `ungz` (`CutMember`), and an `.xz` file without data, of which no file is made. Behind
  the last member it admits garbage, but for `unxz` nothing, and no data. All other
  inputs may be cut, damaged or empty.
- What callers wrote to the open file is `Stream`: the file, and behind it the cache
  (`Layers`). A flush moves the border and changes nothing (`FlushGives`); `KeepsBut` says
  so of every call of the output object, and each call has its lemma (`OpenKeeps`,
  `WriteKeeps`, `PartKeeps`, `DestroyKeeps`, ...). After a flush whose error was not looked
  at (`lost`) nothing is claimed about the contents.
- For a compressor, `Stream`, what is being written and what the encoder holds are, in
  this order, the first chunks of the input up to what was read, and then what closes the file
  (`Accounts`). That the end is written once needs that `fin` is set only at the end of
  the input and that the encoder is empty when it is finished (`Encodes`).
- For a decompressor, the chunks it has consumed are members (`Parsed`) and `Stream` is
  their data (`Decodes`); `NotOpened` and `Opens` say that what was consumed before there
  was an output had no data. `EndIsDecodable` is the end of `ungz` and `unxz`, which look
  only at whether a member ended in the last read.
- `DataUpTo` says of a sequence that it is the data of a file, without counting: every
  element is such a chunk, every such chunk is an element, and they are in order. One
  chunk more is one element more (`DataNext`), so that no induction over data is needed.

`Archive_proofs` also proves `ArchiveInv` (`ArchiveIsCorrect`): of any forest, command
line and set of failures, exit code 0 means that every entry existed and that each
archive of `tar`, `zip`, `zip --each` and `iso` has exactly the pieces to be packed,
each once and in order, and no archive is left behind that has not. As in the run, `zip`
and `iso` are excepted once `close()` has hidden the error of a flush (`lost`).
`ArchiveAssumption` says of the input only that it is a forest whose entries are
numbered as the walk would meet them. The invariant is `AInv` (`ArchiveStates`), which
has two halves:

- `Control` says where everything is. `Walk`: what the walk has still to give is a chain
  of trees that begins behind the last entry (`Walked`), and what lies between the two
  is below an entry that is no directory (`Skips`). `Found`: without `in_file_notfound`
  no entry looked at so far was missing. `Lib`: which entry the writer has and what of
  it is read, so that data meet their own header; `IsoLib`: `iso`'s list is the files of
  the forest in their order (`ListIn`), and the one in hand is the one at `fnames_i`.
  `Names`: which archive is open.
- `Content`: the pieces in the cache and in hand are exactly those of the archive before
  a mark, an entry and a part of it (`Exact`, `MarkEntry`, `MarkPart`). `zip` writes the
  header of a member twice, so that `Shown` has in its place what will be there.
  `Appends`: the next offset is the end of the archive, but while a header is written
  again; it needs that a write that is repeated still has its offset.
- The mark moves over a piece that is written (`CutGrows`), over what does not belong
  into the archive (`CutOverPlain`, `CutOverEntry`, `CutToNext`), and at the end there
  is nothing behind it (`EndCut`): the walk is over, or has come to the next name, or
  the list is at its end. The last flush then makes the archive whole (`EndWhole`), and
  `Results` says that it stays so while `zip --each` writes others.
- A member of an archive of `zip --each` is an entry below its name. That the walk gives
  nothing of another name in between is `WalkGives`, about chains.

`Sync_proofs` proves, for any trees over any walk, all command lines and failures:

- `SyncSafe`: `SyncInv`. `ComparisonIsExact`: `DiffIsExact`. `ComparisonReverses`:
  `SwapIsReversal`. `SyncIsComplete`: `SuccessIsComplete`. `SharedStay`:
  `SharedFilesStay`. `WalkAssumption` says of the order of the walk only that it has every
  path once and a directory before what is in it; `SyncAssumption` that the trees are
  trees over the walk, with sizes and dates that are numbers.
- `DiffInv` is the invariant of the comparison, which sees each path once. `ListInv` says
  what it has made of the paths behind it: each entry has one of four shapes (`Shapes`: a
  path of both sides, of one, a moved file, the double of one), no path has two entries
  that are not doubles (`Unique`), none has no entry (`Cover`), the table refers to
  entries that are not doubles (`Table`), and the counters count those (`Counts`). A path found
  in the table changes two entries at once, the one it has found and its own, and the
  counters of both; `PairStep` is about that.
- `Exact` is what the table has to be so that the list is the difference: one entry for
  each look (`LookListed`, `LookOnce`) with, on each side, the first path that looks like it
  (`FirstsListed`), and every moved file is in it (`PairsListed`). That a path cannot be
  the first any more when the walk is past it makes it an invariant (`GroupsGrow`).
  `EntriesAre` then reads the difference off the list. If contents are compared, the table
  may have several entries of one look, and which of them is met depends on what could be
  read: nothing is claimed then but `SyncInv` and what happens to the files.
- `HandledPart` is the invariant of the execution: what was done for the entries before
  the current one is still done. A copy of `--update` may change only its own path; a
  deletion removes a path that the source does not have, with all below it; a move renames
  a whole directory, over files at the new place; and both make and lose parents.
  `MoveKeeps`, `TrashKeeps` and `CopyKeeps` say that none of them touches a path that the
  source and the target have, nor brings back one that the source has not. They rest on
  facts about paths (`PrefixOrder`, `ParentsAre`, `RebasedIs`) and on the tree being one:
  what is below a path that the target alone has, the source has not either.
- `LeastNumber` (a set of numbers has a least one) takes the place of an induction. It
  comes from the well-foundedness of the natural numbers, which the library states for
  relations and not for operators.

What is model-checked only:

- liveness under fairness: `PostedIsCalled`, `ExitEndsLoop`, `CallsReturn`,
  `CommandsComplete`, `Ends`, and `WorkEnds` (`GsyncLive.cfg`);
- `ExtractInv`, which compares the outputs with the whole of what was fed to a library,
  computed by folds over its chunks: an induction over data. `CodecInv` and `ArchiveInv` are
  free of it because what is to be written is stated element by element (`DataUpTo`, `Holds`);
- everything about `FileOps`: `FileOpsInv`, `SuccessIsDone`.

## Not modelled, and the plan

Next, in this order:

1. The rest of gsync: the counters of its check boxes, which are decremented for LEFT only
   and for the other side when swapped; the sorting of the list (`gsync.cpp:796`) and the
   drawing of single rows (`gsync.cpp:463`), which test and use the comparison like `redraw()`
   and share one `struct fcom_sync_diff_entry`; filters by name and date; the reallocation of
   items; the timer, and `com->create()` called on the window's thread (`gsync.cpp:727, 849`),
   which changes the list of commands that the worker has no lock for either.
2. The rest of sync: `--replace-date` and sorting.
3. `Pipeline`: writer and reader over a bounded pipe, joining `FileWrite` and `Com`.
4. `Stream` (`util/stream.h`) and the read side of the file object (`fbufset`) as machines
   checked against a reference; the filters of the input walk (`com.c:372-409`).
5. The machine of `ops/aes.c`; `--list` and `--test` of the archive operations, archives
   inside their own input, and directories given to `untar`, `un7z` and `uniso`.
6. Theorems: `FileOps`'s `NothingIsLost`, and `ExtractInv` stated element by element, as
   `CodecInv` and `ArchiveInv` are.

Left out for good: vendored code; format libraries and digests, which are outside
`src/src`; argument and configuration parsers; text and picture conversions; and
what only a Windows build does.
