------------------------------ MODULE CoreLoop ------------------------------
(***************************************************************************)
(* The heart of the program: the task queue (util/taskqueue.h) and the     *)
(* event loop around it (core/core.c).                                     *)
(*                                                                         *)
(* Any thread calls core->task(t, f, p): it writes t->handler, links t     *)
(* under the queue's lock unless it is linked already, and signals the     *)
(* loop's wake-up event.  One worker thread waits for events; on the       *)
(* wake-up event it resets it, reads the queue's length WITHOUT the lock,  *)
(* and removes and calls that many tasks.  A handler may itself call       *)
(* core->task() and core->exit().                                          *)
(*                                                                         *)
(* The steps that other threads can come between are actions of their own. *)
(* A critical section of the queue's lock is one action.  t->handler and   *)
(* t->param are written and read together: every caller in the code always *)
(* gives a task object the same param.                                     *)
(***************************************************************************)
EXTENDS Integers, Sequences, FiniteSets, Functions

CONSTANTS
  Threads,   \* all threads that use the core
  Worker,    \* the one that executes core_run()
  Tasks,     \* fcom_task objects
  Funcs,     \* functions that are given to core->task()
  NoTask, NoFunc,
  Sites,     \* the program's core->task() call sites: <<thread, task, function>>
  Exiters    \* the threads that may call core->exit()

ASSUME CoreAssumption ==
  /\ Worker \in Threads
  /\ NoTask \notin Tasks /\ NoFunc \notin Funcs
  /\ Sites \subseteq Threads \X Tasks \X Funcs
  /\ Exiters \subseteq Threads

(***************************************************************************)
(* Every task object is always posted with one function: what com.c        *)
(* (cmd_run_async) and main.c (operation) do with theirs.                  *)
(***************************************************************************)
OneFunctionPerTask ==
  \A s1, s2 \in Sites : s1[2] = s2[2] => s1[3] = s2[3]

VARIABLES
  queue,      \* fftaskqueue.tasks
  handler,    \* t->handler, for every task
  signalled,  \* the counter of the kq_wake event is not zero
  quit,       \* core.kq_quit
  at,         \* per thread: "idle", or where it is inside core->task()/exit()
  arg,        \* per thread: the task it is posting
  loop,       \* where the worker is in core_run()/tasks_run()
  batch,      \* events returned by ffkq_wait() and not yet handled
  nn, n,      \* the locals of fftaskqueue_run()
  cur         \* the task fftaskqueue_run() is at

qvars == <<queue, handler>>
pvars == <<at, arg>>
wvars == <<loop, batch, nn, n, cur>>
vars  == <<qvars, signalled, quit, pvars, wvars>>

\* fftaskqueue_active(): sib.next is set exactly while the item is in the list.
Active(t) == t \in Range(queue)

Init ==
  /\ queue = <<>>
  /\ handler = [t \in Tasks |-> NoFunc]
  /\ signalled = FALSE
  /\ quit = FALSE
  /\ at = [th \in Threads |-> "idle"]
  /\ arg = [th \in Threads |-> NoTask]
  /\ loop = "test"
  /\ batch = {}
  /\ nn = 0 /\ n = 0
  /\ cur = NoTask

(***************************************************************************)
(* core_task() and core_exit(), on any thread.  The worker executes them   *)
(* only inside a handler.                                                  *)
(***************************************************************************)
MayCall(th) == at[th] = "idle" /\ (th = Worker => loop \in {"handler", "timer"})

\* fftaskqueue_post4(): the handler is written before the lock is taken.
SetHandler(th) ==
  /\ MayCall(th)
  /\ \E s \in Sites :
       /\ s[1] = th
       /\ handler' = [handler EXCEPT ![s[2]] = s[3]]
       /\ arg' = [arg EXCEPT ![th] = s[2]]
  /\ at' = [at EXCEPT ![th] = "link"]
  /\ UNCHANGED <<queue, signalled, quit, wvars>>

\* Mutant: the wake-up is skipped when fftaskqueue_post() says that the queue was
\* not empty.
Link_WakesIfEmpty(th) ==
  /\ at[th] = "link"
  /\ queue' = IF Active(arg[th]) THEN queue ELSE Append(queue, arg[th])
  /\ at' = [at EXCEPT ![th] = IF queue = <<>> THEN "wake" ELSE "idle"]
  /\ arg' = [arg EXCEPT ![th] = NoTask]
  /\ UNCHANGED <<handler, signalled, quit, wvars>>

\* Mutant: an active task is linked again.
Link_Twice(th) ==
  /\ at[th] = "link"
  /\ queue' = Append(queue, arg[th])
  /\ at' = [at EXCEPT ![th] = "wake"]
  /\ arg' = [arg EXCEPT ![th] = NoTask]
  /\ UNCHANGED <<handler, signalled, quit, wvars>>

\* fftaskqueue_post(): under the lock, an active task is left where it is.
Link(th) ==
  /\ at[th] = "link"
  /\ queue' = IF Active(arg[th]) THEN queue ELSE Append(queue, arg[th])
  /\ at' = [at EXCEPT ![th] = "wake"]
  /\ arg' = [arg EXCEPT ![th] = NoTask]
  /\ UNCHANGED <<handler, signalled, quit, wvars>>

\* core_exit(): the flag first, the wake-up event next.
SetQuit(th) ==
  /\ th \in Exiters
  /\ MayCall(th)
  /\ quit' = TRUE
  /\ at' = [at EXCEPT ![th] = "wake"]
  /\ UNCHANGED <<qvars, signalled, arg, wvars>>

\* ffkq_post(): what both end with.
Wake(th) ==
  /\ at[th] = "wake"
  /\ signalled' = TRUE
  /\ at' = [at EXCEPT ![th] = "idle"]
  /\ UNCHANGED <<qvars, quit, arg, wvars>>

(***************************************************************************)
(* The worker: core_run().                                                 *)
(***************************************************************************)
\* The loop's condition: the only place kq_quit is looked at.
TestQuit ==
  /\ loop = "test"
  /\ loop' = IF quit THEN "done" ELSE "wait"
  /\ UNCHANGED <<qvars, signalled, quit, pvars, batch, nn, n, cur>>

\* ffkq_wait() returns: the wake-up event if it is signalled, and the timer's
\* event or not, in the same batch.
WaitReturns ==
  /\ loop = "wait"
  /\ \E tick \in SUBSET {"timer"} :
       batch' = tick \cup (IF signalled THEN {"wake"} ELSE {})
  /\ batch' # {}
  /\ loop' = "batch"
  /\ UNCHANGED <<qvars, signalled, quit, pvars, nn, n, cur>>

\* EINTR: back to the loop's condition.
WaitInterrupted ==
  /\ loop = "wait"
  /\ loop' = "test"
  /\ UNCHANGED <<qvars, signalled, quit, pvars, batch, nn, n, cur>>

\* Any other error of ffkq_wait() ends the loop.
WaitFails ==
  /\ loop = "wait"
  /\ loop' = "done"
  /\ UNCHANGED <<qvars, signalled, quit, pvars, batch, nn, n, cur>>

BatchDone ==
  /\ loop = "batch"
  /\ batch = {}
  /\ loop' = "test"
  /\ UNCHANGED <<qvars, signalled, quit, pvars, batch, nn, n, cur>>

\* tmr_func(): the timer functions it calls run on the worker like handlers.
TimerEvent ==
  /\ loop = "batch"
  /\ "timer" \in batch
  /\ batch' = batch \ {"timer"}
  /\ loop' = "timer"
  /\ UNCHANGED <<qvars, signalled, quit, pvars, nn, n, cur>>

TimerReturns ==
  /\ loop = "timer"
  /\ at[Worker] = "idle"
  /\ loop' = "batch"
  /\ UNCHANGED <<qvars, signalled, quit, pvars, batch, nn, n, cur>>

\* tasks_run(): the event is reset before the queue is looked at.
Consume ==
  /\ loop = "batch"
  /\ "wake" \in batch
  /\ batch' = batch \ {"wake"}
  /\ signalled' = FALSE
  /\ loop' = "len"
  /\ UNCHANGED <<qvars, quit, pvars, nn, n, cur>>

(***************************************************************************)
(* fftaskqueue_run()                                                       *)
(***************************************************************************)
\* Mutant: the counter of the previous run is not reset.
ReadLen_KeepsCount ==
  /\ loop = "len"
  /\ nn' = Len(queue)
  /\ loop' = "first"
  /\ UNCHANGED <<qvars, signalled, quit, pvars, batch, cur, n>>

\* nn = tasks.len, read without the lock.
ReadLen ==
  /\ loop = "len"
  /\ nn' = Len(queue)
  /\ n' = 0
  /\ loop' = "first"
  /\ UNCHANGED <<qvars, signalled, quit, pvars, batch, cur>>

\* Mutant: the event is reset when the run is over.
ReadFirst_ConsumesLate ==
  /\ loop = "first"
  /\ IF n < nn /\ queue # <<>>
       THEN loop' = "remove" /\ cur' = Head(queue) /\ UNCHANGED signalled
       ELSE loop' = "batch" /\ cur' = NoTask /\ signalled' = FALSE
  /\ UNCHANGED <<qvars, quit, pvars, batch, nn, n>>

\* while (n < nn): the first item, read without the lock; leave when it is
\* the sentinel.
ReadFirst ==
  /\ loop = "first"
  /\ IF n < nn /\ queue # <<>>
       THEN loop' = "remove" /\ cur' = Head(queue)
       ELSE loop' = "batch" /\ cur' = NoTask
  /\ UNCHANGED <<qvars, signalled, quit, pvars, batch, nn, n>>

\* Mutant: the task stays linked while its handler runs.
Remove_LeavesLinked ==
  /\ loop = "remove"
  /\ loop' = "call"
  /\ UNCHANGED <<qvars, signalled, quit, pvars, batch, nn, n, cur>>

\* fflist_rm() under the lock; the item is still the first one (LinksSound).
Remove ==
  /\ loop = "remove"
  /\ queue' = Tail(queue)
  /\ loop' = "call"
  /\ UNCHANGED <<handler, signalled, quit, pvars, batch, nn, n, cur>>

\* t->handler is read here, after the lock was released, and called.
CallHandler ==
  /\ loop = "call"
  /\ loop' = "handler"
  /\ UNCHANGED <<qvars, signalled, quit, pvars, batch, nn, n, cur>>

\* Mutant: the run goes on as long as there are tasks.
HandlerReturns_NotCounted ==
  /\ loop = "handler"
  /\ at[Worker] = "idle"
  /\ cur' = NoTask
  /\ loop' = "first"
  /\ UNCHANGED <<qvars, signalled, quit, pvars, batch, nn, n>>

HandlerReturns ==
  /\ loop = "handler"
  /\ at[Worker] = "idle"
  /\ n' = n + 1
  /\ cur' = NoTask
  /\ loop' = "first"
  /\ UNCHANGED <<qvars, signalled, quit, pvars, batch, nn>>

FinishCall(th) == Link(th) \/ Wake(th)
CallCore(th) == SetHandler(th) \/ SetQuit(th)
WorkerStep ==
  \/ TestQuit \/ WaitReturns \/ WaitInterrupted \/ WaitFails \/ BatchDone
  \/ TimerEvent \/ TimerReturns
  \/ Consume \/ ReadLen \/ ReadFirst \/ Remove \/ CallHandler \/ HandlerReturns

Next == WorkerStep \/ \E th \in Threads : CallCore(th) \/ FinishCall(th)

(***************************************************************************)
(* Fairness: the operating system runs every thread; the functions the     *)
(* worker calls return (strong fairness: however often they call the core  *)
(* before that); a signalled wake-up event is delivered even if signals    *)
(* keep interrupting the wait.  Nobody ever has to call the core.          *)
(***************************************************************************)
Progress ==
  \/ TestQuit \/ BatchDone \/ TimerEvent
  \/ Consume \/ ReadLen \/ ReadFirst \/ Remove \/ CallHandler

Fairness ==
  /\ WF_vars(Progress)
  /\ SF_vars(TimerReturns)
  /\ SF_vars(HandlerReturns)
  /\ SF_vars(WaitReturns /\ signalled)
  /\ \A th \in Threads : WF_vars(FinishCall(th))

Spec == Init /\ [][Next]_vars
FairSpec == Spec /\ Fairness

-----------------------------------------------------------------------------
(***************************************************************************)
(* Properties                                                              *)
(***************************************************************************)
LoopStates == {"test", "wait", "batch", "timer", "len", "first", "remove",
               "call", "handler", "done"}

TypeOK ==
  /\ queue \in Seq(Tasks)
  /\ handler \in [Tasks -> Funcs \cup {NoFunc}]
  /\ signalled \in BOOLEAN
  /\ quit \in BOOLEAN
  /\ at \in [Threads -> {"idle", "link", "wake"}]
  /\ arg \in [Threads -> Tasks \cup {NoTask}]
  /\ loop \in LoopStates
  /\ batch \in SUBSET {"wake", "timer"}
  /\ nn \in Nat /\ n \in 0 .. nn
  /\ cur \in Tasks \cup {NoTask}

\* How many linked tasks the run in progress is still going to take.
Quota ==
  IF loop \in {"first", "remove"} THEN nn - n
  ELSE IF loop \in {"call", "handler"} THEN nn - n - 1
  ELSE 0

\* The worker is going to read the queue's length before it waits again.
WillRun == loop = "len" \/ (loop \in {"batch", "timer"} /\ "wake" \in batch)

\* A thread is about to signal the wake-up event.
Waking == \E th \in Threads : at[th] = "wake"

\* No lost wake-up: whenever the queue holds more than the current run will
\* take (all of it, when the worker is outside fftaskqueue_run), the worker has
\* the event in hand, or the event is signalled, or the thread that linked the
\* task is about to signal it.  This is what makes it right to read tasks.len
\* without the lock and to reset the event BEFORE the run.
NoLostWakeup == Len(queue) > Quota => WillRun \/ signalled \/ Waking

\* The list's links stay sound although a task is posted from several threads
\* and again from its own handler: no item is linked twice, between the
\* unlocked read of the first item and its removal it stays the first item, and
\* a run always finds as many items as the length it read without the lock said
\* (the sentinel check never ends it early).
LinksSound ==
  /\ \A i, j \in 1 .. Len(queue) : queue[i] = queue[j] => i = j
  /\ loop = "remove" => queue # <<>> /\ cur = Head(queue)
  /\ Quota <= Len(queue)

\* The parts of the inductive invariant that are about one step only: who may be
\* inside core->task(), and what the locals hold while they are in use.
LocalsOK ==
  /\ at[Worker] # "idle" => loop \in {"handler", "timer"}
  /\ \A th \in Threads : at[th] = "link" => arg[th] \in Tasks
  /\ loop \in {"remove", "call", "handler"} => cur \in Tasks /\ n < nn
CoreInv == TypeOK /\ LocalsOK /\ LinksSound /\ NoLostWakeup

\* What the refinement needs in addition: the handler of a task that is linked,
\* being posted or being run was written by a call site of that task.
HandlerKnown(t) == \E s \in Sites : s[2] = t /\ s[3] = handler[t]
HandlersOK ==
  /\ \A t \in Tasks : handler[t] = NoFunc \/ HandlerKnown(t)
  /\ \A t \in Range(queue) : HandlerKnown(t)
  /\ \A th \in Threads : at[th] = "link" => HandlerKnown(arg[th])
  /\ loop \in {"remove", "call", "handler"} => HandlerKnown(cur)

\* Posting is a request: the program implements the abstract task service,
\* where a function is called only if it was asked for and was not yet called,
\* as long as no task object is posted with two different functions.
Requests == Tasks \X Funcs
Service ==
  INSTANCE TaskService WITH
    Requests <- Requests,
    NoRequest <- <<NoTask, NoFunc>>,
    pending <- {<<t, handler[t]>> : t \in Range(queue)},
    running <- IF loop \in {"call", "handler"} THEN <<cur, handler[cur]>>
                                              ELSE <<NoTask, NoFunc>>,
    stopped <- loop = "done"
ImplementsService == Service!Spec

\* Every call of core->task() is answered: after any thread has written the
\* handler, the task's function is called later, unless the loop has ended.
PostedIsCalled ==
  \A t \in Tasks :
    (\E th \in Threads : at[th] = "link" /\ arg[th] = t)
      ~> (loop = "call" /\ cur = t) \/ loop = "done"

\* core->exit() ends the loop, even when every handler posts its own task again
\* before it returns: a run takes only the tasks that were there at its start.
ExitEndsLoop == quit ~> loop = "done"
=============================================================================
