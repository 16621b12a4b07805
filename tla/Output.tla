------------------------------- MODULE Output -------------------------------
(***************************************************************************)
(* What an operation that writes files sees of core/file.c: the files on   *)
(* the disk and one output object that is opened for one after another.    *)
(*                                                                         *)
(* FileWrite has the object in detail.  Of it remain: what is written may  *)
(* stay in the write cache until the object is closed, opened again or     *)
(* flushed; after an error of that flush the cache keeps its contents, and *)
(* the file opened next gets them; a call that returns ASYNC has taken a   *)
(* part of its data and must be repeated with the same data.               *)
(*                                                                         *)
(* A file is a sequence of pieces, offsets count pieces.                   *)
(***************************************************************************)
EXTENDS Integers, SequencesExt

CONSTANT Failures   \* what may go wrong: a set of strings, each module names its own

VARIABLES
  disk,   \* the file under every name an operation may write to
  obj,    \* the output object: [name, at, cache, owed]
  lost    \* history: an error of a flush was not looked at

outvars == <<disk, obj, lost>>

MayFail(f) == f \in Failures

\* What is under a name: nothing, the user's older file, or written pieces.
Absent == [kind |-> "absent", has |-> <<>>]
Old == [kind |-> "old", has |-> <<>>]
New(pieces) == [kind |-> "new", has |-> pieces]

\* Names are numbers from 1 and pieces are tuples.  The name of an object that is
\* not open, the piece that no call owes, what is left of a piece whose call was
\* not repeated, and what lies before an offset where nothing was written:
Closed == 0
Nothing == <<>>
Torn == <<0>>
Gap == <<1>>
Empty == [k \in {} |-> Nothing]
NoObject == [name |-> Closed, at |-> 0, cache |-> Empty, owed |-> Nothing]
IsOpen == obj.name # Closed

OutputInit(names) ==
  /\ disk \in [names -> {Absent, Old}]
  /\ obj = NoObject
  /\ lost = FALSE

\* The cache is a function from offsets to pieces; a file once they are written:
Flushed(has) ==
  [k \in 1 .. Max({Len(has)} \cup {o + 1 : o \in DOMAIN obj.cache}) |->
     IF k - 1 \in DOMAIN obj.cache THEN obj.cache[k - 1] ELSE IF k <= Len(has) THEN has[k] ELSE Gap]

\* file_flush(): the ways it may end.  After an error the cache is as it was.
Flushings ==
  {[disk |-> IF IsOpen THEN [disk EXCEPT ![obj.name].has = Flushed(@)] ELSE disk,
    cache |-> IF IsOpen THEN Empty ELSE obj.cache, err |-> FALSE]}
  \cup {[disk |-> disk, cache |-> obj.cache, err |-> TRUE] :
          x \in {y \in {1} : MayFail("flush") /\ IsOpen /\ obj.cache # Empty}}

\* file_flush() called by an operation that goes on whatever it returns.
FlushUnchecked ==
  \E f \in Flushings : disk' = f.disk /\ obj' = [obj EXCEPT !.cache = f.cache] /\ lost' = (lost \/ f.err)

\* file_flush(), and whether it returned an error.
Flush(err) ==
  \E f \in Flushings : f.err = err /\ disk' = f.disk /\ obj' = [obj EXCEPT !.cache = f.cache] /\ UNCHANGED lost

\* file_close(), which does not look at what file_flush() returns.
Close ==
  \E f \in Flushings : disk' = f.disk /\ obj' = [NoObject EXCEPT !.cache = f.cache] /\ lost' = (lost \/ f.err)

\* fcom_file_cominfo_flags_o(): CREATE_TRUNC with --overwrite, else CREATENEW.
CanCreate(d, name, overwrite) == overwrite \/ d[name] = Absent

\* file_open(name) closes what was open; then the file is there and empty, ...
OpenFile(name, overwrite) ==
  \E f \in Flushings :
    /\ CanCreate(f.disk, name, overwrite)
    /\ disk' = [f.disk EXCEPT ![name] = New(<<>>)]
    /\ obj' = [NoObject EXCEPT !.name = name, !.cache = f.cache]
    /\ lost' = (lost \/ f.err)

\* ... or it fails.
OpenFails(name, overwrite) ==
  \E f \in Flushings :
    /\ ~CanCreate(f.disk, name, overwrite) \/ MayFail("create")
    /\ disk' = f.disk /\ obj' = [NoObject EXCEPT !.cache = f.cache] /\ lost' = (lost \/ f.err)

\* file_write() takes the whole piece; off = -1 is the current offset.  What an
\* earlier call owes is lost if this is not that call.
Offset(off) == IF off = -1 THEN obj.at ELSE off
Kept(piece) == IF obj.owed \in {Nothing, piece} THEN piece ELSE Torn
Cached(c, o, piece) == [k \in DOMAIN c \cup {o} |-> IF k = o THEN piece ELSE c[k]]
WriteWhole(piece, off) ==
  /\ obj' = [obj EXCEPT !.cache = Cached(@, Offset(off), Kept(piece)), !.at = Offset(off) + 1, !.owed = Nothing]
  /\ UNCHANGED <<disk, lost>>

\* file_write() returns ASYNC: com->async() and the same call again.
WritePart(piece) ==
  /\ MayFail("short") /\ obj.owed = Nothing
  /\ obj' = [obj EXCEPT !.owed = piece]
  /\ UNCHANGED <<disk, lost>>

\* del(); a directory or nothing under the name stays as it is.
Without(d, name) == IF name \in DOMAIN d THEN [d EXCEPT ![name] = Absent] ELSE d

\* close() and then, if asked for, del().
CloseDelete(del, name) ==
  \E f \in Flushings :
    /\ disk' = (IF del THEN Without(f.disk, name) ELSE f.disk)
    /\ lost' = (lost \/ (f.err /\ ~del))
    /\ obj' = [NoObject EXCEPT !.cache = f.cache]

\* The end of an operation: del() if asked for, then destroy(), which writes what
\* is cached, to the file that has no name any more if it was deleted.
Destroy(del, name) ==
  \E f \in Flushings :
    /\ disk' = (IF del THEN Without(f.disk, name) ELSE f.disk)
    /\ lost' = (lost \/ (f.err /\ ~del))
    /\ obj' = NoObject
=============================================================================
