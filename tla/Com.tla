--------------------------------- MODULE Com ---------------------------------
(***************************************************************************)
(* The command manager: the life of a command in core/com.c, with the      *)
(* operations that start other operations (fs/copy-output.h,               *)
(* fs/sync-fsync.h, pack/unpack.c, pack/pack.c).                           *)
(*                                                                         *)
(* com->create() makes a command and lists it; com->run() creates the      *)
(* operation and posts its run() (a primary's is called at once);          *)
(* run() returns after com->async(), or to wait for a child, or it closes  *)
(* the operation and calls com->complete(), which calls on_complete(),     *)
(* unlinks the command and frees it.  on_complete() of a child calls the   *)
(* parent's run() again, INSIDE the child's complete(); so the worker's    *)
(* call stack decides what is still alive, and the model has that stack.   *)
(* Everything runs on the worker; a system signal may interrupt it between *)
(* any two steps and walks over the listed commands.                       *)
(*                                                                         *)
(* What an operation does with its files is abstracted: run() chooses.     *)
(***************************************************************************)
EXTENDS Integers, SequencesExt

CONSTANTS
  Cmds,       \* commands
  Root,       \* the primary command, from main.c
  NoCmd,
  Shapes      \* the instances to check, [kind, may]: for every command what its
              \* operation does, one of Kinds, and what may go wrong

Kinds ==
  {"leaf",    \* starts no command
   "copy",    \* one child at a time; returns whatever com->run() gave (copy, sync)
   "unpack",  \* one child at a time; ends at once when com->run() fails
   "pair",    \* unpack, pack: a writer and a reader with a pipe between them
   "unused"}  \* the command does not occur in this shape

FailureKinds ==
  {"start",   \* com->run(): an unknown operation, wrong arguments
   "writer",  \* the same of a pipeline's writer only
   "run",     \* an operation completes with an error
   "signal"}  \* a system signal comes

ASSUME ComAssumption ==
  /\ Root \in Cmds /\ NoCmd \notin Cmds /\ IsFiniteSet(Cmds)
  /\ Shapes \subseteq [kind : [Cmds -> Kinds], may : SUBSET FailureKinds]

VARIABLES
  shape,    \* one of Shapes, for good
  listed,   \* com.cmds: the commands that are linked, and not freed
  parent,   \* cmd->opaque: who gets on_complete(), NoCmd of the primary
  op,       \* c->op: "none", "open", "closed" (freed by its own close())
  result,   \* c->result
  posted,   \* the commands whose task is in the core's queue, in its order
  stop,     \* commands whose operation has got a signal
  got,      \* unpack's u->result: what the child that ran it again has returned
  waits,    \* the operation is in its state "wait for the child" (I_COMPLETE)
  pw,       \* unpack's pw: its pipe's end for the writer is open
  stack,    \* the worker's call stack, the innermost frame first
  ret,      \* what the com->run() that returned last gave: TRUE is success
  answered, \* history: how often on_complete() was called for a command
  quit      \* core->exit() was called

vars == <<shape, listed, parent, op, result, got, posted, stop, waits, pw, stack, ret, answered, quit>>

(***************************************************************************)
(* Frames: "start" is com->run(c), "run" the operation's run(), "called"   *)
(* the same while a com->run() it made is running, "destroy" and "free"    *)
(* the part of cmd_destroy() before and after on_complete().  failed: the  *)
(* frame belongs to the error exit of com->run().                          *)
(***************************************************************************)
Kind(c) == shape.kind[c]
MayFail(f) == f \in shape.may

Frame(a, c) == [at |-> a, cmd |-> c, failed |-> FALSE]
InFrame(a, c) == stack # <<>> /\ Head(stack).at = a /\ Head(stack).cmd = c
Become(a) == [Head(stack) EXCEPT !.at = a]
Below == Tail(stack)

Init ==
  /\ shape \in Shapes
  /\ listed = {Root}
  /\ parent = [c \in Cmds |-> NoCmd]
  /\ op = [c \in Cmds |-> "none"]
  /\ result = [c \in Cmds |-> 1] /\ got = [c \in Cmds |-> 0]
  /\ posted = <<>> /\ stop = {} /\ waits = {} /\ pw = {}
  /\ stack = <<Frame("start", Root)>>
  /\ ret = TRUE
  /\ answered = [c \in Cmds |-> 0]
  /\ quit = FALSE

\* Commands that were never created.
Fresh == {c \in Cmds \ {Root} : Kind(c) # "unused" /\ parent[c] = NoCmd}

\* Only the writer of a pipeline answers without running its parent.
IsWriter(c) == c \in pw

-----------------------------------------------------------------------------
(***************************************************************************)
(* com->run()                                                              *)
(***************************************************************************)
\* Mutant: the task is not posted.
Started_NotPosted(c) ==
  /\ InFrame("start", c)
  /\ op' = [op EXCEPT ![c] = "open"]
  /\ ret' = TRUE
  /\ stack' = IF parent[c] = NoCmd THEN <<Become("run")>> \o Below ELSE Below
  /\ UNCHANGED <<listed, parent, result, got, posted, stop, waits, pw, answered, quit, shape>>

\* The operation is created: a secondary one is posted, the primary one is run.
Started(c) ==
  /\ InFrame("start", c)
  /\ op' = [op EXCEPT ![c] = "open"]
  /\ ret' = TRUE
  /\ IF parent[c] = NoCmd
       THEN stack' = <<Become("run")>> \o Below /\ UNCHANGED posted
       ELSE stack' = Below /\ posted' = Append(posted, c)
  /\ UNCHANGED <<listed, parent, result, got, stop, waits, pw, answered, quit, shape>>

\* Mutant: the error exit frees the command without a call of on_complete().
StartFails_Silently(c) ==
  /\ MayFail("start") \/ (MayFail("writer") /\ IsWriter(c))
  /\ InFrame("start", c)
  /\ stack' = <<[Become("free") EXCEPT !.failed = TRUE]>> \o Below
  /\ UNCHANGED <<listed, parent, op, result, got, posted, stop, waits, pw, ret, answered, quit, shape>>

\* The error exit: cmd_destroy(), which calls on_complete() with result 1.
StartFails(c) ==
  /\ MayFail("start") \/ (MayFail("writer") /\ IsWriter(c))
  /\ InFrame("start", c)
  /\ stack' = <<[Become("destroy") EXCEPT !.failed = TRUE]>> \o Below
  /\ UNCHANGED <<listed, parent, op, result, got, posted, stop, waits, pw, ret, answered, quit, shape>>

-----------------------------------------------------------------------------
(***************************************************************************)
(* The operation's run()                                                   *)
(***************************************************************************)
\* The queue calls the posted run().  After core->exit() it may still do so: the
\* loop ends only when all tasks of the current run were called.
CallRun(c) ==
  /\ stack = <<>>
  /\ posted # <<>> /\ c = Head(posted)
  /\ posted' = Tail(posted)
  /\ stack' = <<Frame("run", c)>>
  /\ UNCHANGED <<listed, parent, op, result, got, stop, waits, pw, ret, answered, quit, shape>>

\* Another turn of run()'s loop, while it was not told to stop.
Running(c) == InFrame("run", c) /\ c \notin stop

\* The children c waits for.
Unanswered(c) == {e \in Cmds : parent[e] = c /\ answered[e] = 0}

\* Mutant: the parent does not look whether its pipe is still open.
WriterRuns_NotLooked(c) == FALSE

WriterRuns(c) == \E w \in pw : parent[w] = c

\* cmd_async(): the kernel, or a pipe's other side, is to make the next step
\* possible.  A pipeline's parent polls like this until its writer is complete.
Async(c) ==
  /\ Running(c)
  /\ \/ Kind(c) = "leaf"
     \/ Kind(c) = "pair" /\ c \in waits /\ got[c] = 0 /\ WriterRuns(c)
  /\ posted' = Append(posted, c)
  /\ stack' = Below
  /\ UNCHANGED <<listed, parent, op, result, got, stop, waits, pw, ret, answered, quit, shape>>

\* com->create() and com->run() of a child.
StartChild(c, d) ==
  /\ d \in Fresh
  /\ listed' = listed \cup {d}
  /\ parent' = [parent EXCEPT ![d] = c]
  /\ stack' = <<Frame("start", d), Become("called")>> \o Below
  /\ UNCHANGED <<op, result, got, posted, stop, ret, answered, quit, shape>>

\* copy and sync enter the state in which they wait before they call com->run(),
\* unpack after it has returned.
StartOne(c, d) ==
  /\ Running(c) /\ c \notin waits
  /\ Kind(c) \in {"copy", "unpack"}
  /\ StartChild(c, d)
  /\ waits' = IF Kind(c) = "copy" THEN waits \cup {c} ELSE waits
  /\ UNCHANGED pw

StartWriter(c, d) ==
  /\ Running(c) /\ c \notin waits
  /\ Kind(c) = "pair" /\ Kind(d) = "leaf"
  /\ StartChild(c, d)
  /\ pw' = pw \cup {d}
  /\ UNCHANGED waits

\* The reader, after the writer was started.
StartReader(c, d) ==
  /\ InFrame("called", c) /\ ret
  /\ Kind(c) = "pair" /\ Kind(d) = "leaf"
  /\ Cardinality(Unanswered(c)) = 1
  /\ StartChild(c, d)
  /\ UNCHANGED <<waits, pw>>

\* The operation closes itself and calls com->complete(): c->result is set.
End(c, rc) ==
  /\ op' = [op EXCEPT ![c] = "closed"]
  /\ result' = [result EXCEPT ![c] = rc]
  /\ stack' = <<Become("destroy")>> \o Below
  /\ UNCHANGED <<listed, parent, got, posted, stop, waits, pw, ret, answered, quit, shape>>

\* Mutant: the operation goes on by itself as well.
Wait_GoesOn(c) ==
  /\ InFrame("called", c)
  /\ Kind(c) = "copy" \/ ret
  /\ Kind(c) = "pair" => Cardinality(Unanswered(c)) = 2
  /\ waits' = IF Kind(c) = "copy" THEN waits ELSE waits \cup {c}
  /\ posted' = Append(posted, c)
  /\ stack' = Below
  /\ UNCHANGED <<listed, parent, op, result, got, stop, pw, ret, answered, quit, shape>>

\* com->run() has returned to the operation that called it, which now returns
\* and waits ...
Wait(c) ==
  /\ InFrame("called", c)
  /\ Kind(c) = "copy" \/ ret
  /\ Kind(c) = "pair" => Cardinality(Unanswered(c)) = 2
  /\ waits' = IF Kind(c) = "copy" THEN waits ELSE waits \cup {c}
  /\ stack' = Below
  /\ UNCHANGED <<listed, parent, op, result, got, posted, stop, pw, ret, answered, quit, shape>>

\* ... or, where it looks at the result, ends.
StartFailed(c) ==
  /\ InFrame("called", c)
  /\ Kind(c) # "copy" /\ ~ret
  /\ End(c, 1)

\* The child is complete: on to the next input.  copy ignores what trash returned.
NextInput(c) ==
  /\ Running(c) /\ c \in waits
  /\ \/ Kind(c) = "copy"
     \/ Kind(c) \in {"unpack", "pair"} /\ got[c] = 0 /\ ~WriterRuns(c)
  /\ waits' = waits \ {c}
  /\ UNCHANGED <<listed, parent, op, result, got, posted, stop, pw, stack, ret, answered, quit, shape>>

\* All input is done, or an error: the operation ends on its own.  unpack and pack
\* hand on the error of the child; pack ends when both of its children are complete.
Ends(c) ==
  /\ Running(c)
  /\ \E rc \in {0, 1} :
       /\ rc = 1 => MayFail("run") \/ got[c] = 1
       /\ \/ Kind(c) \in {"leaf", "copy"} \/ c \notin waits
          \/ got[c] = 1 /\ rc = 1
          \/ Kind(c) = "pair" /\ got[c] = 0 /\ rc = 0 /\ ~WriterRuns(c)
       /\ End(c, rc)

\* The loop's condition: it was told to stop.
Stops(c) == InFrame("run", c) /\ c \in stop /\ End(c, 1)

-----------------------------------------------------------------------------
(***************************************************************************)
(* com->complete() and cmd_destroy()                                       *)
(***************************************************************************)
\* Mutant: a writer's completion stays on the stack and is told twice.
OnComplete_Again(c) ==
  /\ InFrame("destroy", c)
  /\ LET p == parent[c] IN
     IF p = NoCmd
       THEN stack' = <<Become("free")>> \o Below /\ UNCHANGED <<got, pw, answered>>
       ELSE /\ answered' = [answered EXCEPT ![c] = @ + 1]
            /\ IF IsWriter(c)
                 THEN pw' = pw \ {c} /\ UNCHANGED <<got, stack>>
                 ELSE /\ got' = [got EXCEPT ![p] = result[c]]
                      /\ stack' = <<Frame("run", p), Become("free")>> \o Below
                      /\ UNCHANGED pw
  /\ UNCHANGED <<listed, parent, op, result, posted, stop, waits, ret, quit, shape>>

\* on_complete(): unpack's writer closes the pipe for the reader, every other
\* child calls its parent's run().
OnComplete(c) ==
  /\ InFrame("destroy", c)
  /\ LET p == parent[c] IN
     IF p = NoCmd
       THEN stack' = <<Become("free")>> \o Below /\ UNCHANGED <<got, pw, answered>>
       ELSE /\ answered' = [answered EXCEPT ![c] = @ + 1]
            /\ IF IsWriter(c)
                 THEN /\ pw' = pw \ {c} /\ stack' = <<Become("free")>> \o Below
                      /\ UNCHANGED got
                 ELSE /\ got' = [got EXCEPT ![p] = result[c]]
                      /\ stack' = <<Frame("run", p), Become("free")>> \o Below
                      /\ UNCHANGED pw
  /\ UNCHANGED <<listed, parent, op, result, posted, stop, waits, ret, quit, shape>>

\* The rest of cmd_destroy(): the command is unlinked and freed; the end of the
\* primary command ends the program (com->complete(), or main.c's operation()).
Free(c) ==
  /\ InFrame("free", c)
  /\ listed' = listed \ {c}
  /\ ret' = (ret /\ ~Head(stack).failed)
  /\ quit' = (quit \/ parent[c] = NoCmd)
  /\ stack' = Below
  /\ UNCHANGED <<parent, op, result, got, posted, stop, waits, pw, answered, shape>>

\* The operations com_signal_all() calls: c->op is never reset, so that a listed
\* command whose operation has closed itself is one of them.  What the call does to
\* the freed object is left out.
Reached == {c \in listed : op[c] # "none"}

\* com_signal_all(), in a signal handler.
Signal ==
  /\ MayFail("signal")
  /\ ~(Reached \subseteq stop)
  /\ stop' = stop \cup Reached
  /\ UNCHANGED <<listed, parent, op, result, got, posted, waits, pw, stack, ret,
                 answered, quit, shape>>

Begin(c) == \E d \in Cmds : StartOne(c, d) \/ StartWriter(c, d) \/ StartReader(c, d)
Act(c) ==
  \/ Started(c) \/ StartFails(c)
  \/ CallRun(c) \/ Async(c) \/ Begin(c) \/ Wait(c) \/ StartFailed(c)
  \/ NextInput(c) \/ Ends(c) \/ Stops(c)
  \/ OnComplete(c) \/ Free(c)
Step == \E c \in Cmds : Act(c)
Next == Step \/ Signal

(***************************************************************************)
(* Fairness: a function that was called goes on, the next posted task is   *)
(* called as long as the loop runs (CoreLoop!PostedIsCalled), and an       *)
(* operation that is run again and again comes to its end: its input is    *)
(* finite.                                                                 *)
(***************************************************************************)
Fairness ==
  /\ WF_vars(Step /\ (stack # <<>> \/ ~quit))
  /\ \A c \in Cmds : SF_vars(Ends(c))

Spec == Init /\ [][Next]_vars
FairSpec == Spec /\ Fairness

-----------------------------------------------------------------------------
(***************************************************************************)
(* Properties                                                              *)
(***************************************************************************)
FrameKinds == {"start", "run", "called", "destroy", "free"}
TypeOK ==
  /\ shape \in Shapes
  /\ listed \subseteq Cmds /\ posted \in Seq(Cmds) /\ stop \subseteq Cmds
  /\ waits \subseteq Cmds /\ pw \subseteq Cmds
  /\ parent \in [Cmds -> Cmds \cup {NoCmd}]
  /\ op \in [Cmds -> {"none", "open", "closed"}]
  /\ result \in [Cmds -> {0, 1}] /\ got \in [Cmds -> {0, 1}]
  /\ stack \in Seq([at : FrameKinds, cmd : Cmds, failed : BOOLEAN])
  /\ ret \in BOOLEAN /\ quit \in BOOLEAN
  /\ answered \in [Cmds -> 0 .. 1]

\* Which operation the next step of the worker reads or writes.
Touched ==
  IF stack = <<>> THEN ToSet(posted)
  ELSE LET f == Head(stack) IN
    IF f.at = "run" \/ (f.at = "called" /\ Kind(f.cmd) # "copy") THEN {f.cmd}
    ELSE IF f.at = "destroy" /\ parent[f.cmd] # NoCmd THEN {parent[f.cmd]}
    ELSE {}

\* No use of a closed operation by the worker: however completions nest (a child's
\* complete() runs its parent, which may start the next child, or complete itself and
\* run the grandparent, before any of them has returned), no step of the worker
\* touches an operation that has closed itself, no task of a freed command stays
\* posted, and none is posted twice.  A signal handler may find a closed operation
\* (SignalsActive), but only while that command's com->complete() is on the stack.
NoUseAfterClose ==
  /\ \A c \in Touched : op[c] = "open"
  /\ ToSet(posted) \subseteq listed /\ IsInjective(posted)
  /\ \A c \in listed : op[c] = "closed" =>
       \E n \in 1 .. Len(stack) : stack[n].cmd = c /\ stack[n].at \in {"destroy", "free"}

\* A parent is told exactly once about each child, also when the child could not
\* be started: before a child is freed and not twice.
AnsweredOnce ==
  \A c \in Cmds \ {Root} :
    /\ answered[c] <= 1
    /\ parent[c] # NoCmd /\ c \notin listed => answered[c] = 1

\* "Pass the signal to all active operations" (fcom.h): com_signal_all() calls the
\* operations that are there, and none that has closed and freed itself while its
\* command is still linked.
SignalsActive == [][\A c \in stop' \ stop : op[c] = "open"]_vars

\* What holds between any two steps of the worker: it uses no operation after that
\* closed itself, and every end of a child is told, once.
ComInv == TypeOK /\ NoUseAfterClose /\ AnsweredOnce

\* The program exits with nothing left behind: once the completion that called
\* core->exit() has unwound, no command is listed and no task is posted.
ExitLeavesNothing == quit /\ stack = <<>> => listed = {} /\ posted = <<>>

\* "It just signals to its caller": when a child completes, the operation that
\* started it and waits for it is still there (doc/arch.md).
CallerIsThere ==
  stack # <<>> /\ Head(stack).at = "destroy" /\ parent[Head(stack).cmd] # NoCmd
    => op[parent[Head(stack).cmd]] = "open"

\* The primary command ends, and with it the program, and every command that was
\* created is completed and freed by then: a parent that waits is always woken up.
CommandsComplete == <>(quit /\ listed = {})
=============================================================================
