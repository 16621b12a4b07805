--------------------------- MODULE CoreLoop_proofs ---------------------------
(***************************************************************************)
(* Proofs about CoreLoop, for every number of threads, tasks and call      *)
(* sites: the queue's links stay sound, no wake-up is lost, and the loop   *)
(* implements the abstract task service.                                   *)
(***************************************************************************)
EXTENDS CoreLoop, TLAPS

\* Appending keeps what was there and adds the new item at the end.
LEMMA AppendFacts ==
  ASSUME NEW S, NEW q \in Seq(S), NEW x \in S
  PROVE  /\ Append(q, x) \in Seq(S)
         /\ Len(Append(q, x)) = Len(q) + 1
         /\ \A i \in 1 .. Len(q) : Append(q, x)[i] = q[i]
         /\ Append(q, x)[Len(q) + 1] = x
         /\ q # <<>> => Head(Append(q, x)) = Head(q) /\ Append(q, x) # <<>>
  OBVIOUS

\* Removing the first item shifts the others by one.
LEMMA TailFacts ==
  ASSUME NEW S, NEW q \in Seq(S), q # <<>>
  PROVE  /\ Tail(q) \in Seq(S)
         /\ Len(Tail(q)) = Len(q) - 1
         /\ \A i \in 1 .. Len(q) - 1 : Tail(q)[i] = q[i + 1]
  OBVIOUS

\* The invariant holds initially.
LEMMA InitInv == Init => CoreInv
<1> SUFFICES ASSUME Init PROVE CoreInv
  OBVIOUS
<1> USE CoreAssumption DEF Init
<1>1. TypeOK
  <2>1. queue \in Seq(Tasks)
    OBVIOUS
  <2>2. handler \in [Tasks -> Funcs \cup {NoFunc}]
    OBVIOUS
  <2>3. at \in [Threads -> {"idle", "link", "wake"}]
    OBVIOUS
  <2>4. arg \in [Threads -> Tasks \cup {NoTask}]
    OBVIOUS
  <2>5. nn \in Nat /\ n \in 0 .. nn
    OBVIOUS
  <2>6. signalled \in BOOLEAN /\ quit \in BOOLEAN
    BY Zenon
  <2>7. loop \in LoopStates /\ batch \in SUBSET {"wake", "timer"} /\ cur \in Tasks \cup {NoTask}
    BY DEF LoopStates
  <2>8. QED
    BY <2>1, <2>2, <2>3, <2>4, <2>5, <2>6, <2>7 DEF TypeOK
<1>2. LocalsOK
  BY DEF LocalsOK
<1>3. Quota = 0 /\ Len(queue) = 0
  BY DEF Quota
<1>4. LinksSound /\ NoLostWakeup
  BY <1>3 DEF LinksSound, NoLostWakeup
<1>5. QED
  BY <1>1, <1>2, <1>4 DEF CoreInv

\* Every step keeps the types.
LEMMA TypeStep == CoreInv /\ [Next]_vars => TypeOK'
<1> SUFFICES ASSUME CoreInv, [Next]_vars PROVE TypeOK'
  OBVIOUS
<1> USE CoreAssumption DEF CoreInv
<1>1. ASSUME NEW th \in Threads, SetHandler(th)
      PROVE  TypeOK'
  BY <1>1 DEF SetHandler, TypeOK, LoopStates, qvars, pvars, wvars
<1>2. ASSUME NEW th \in Threads, Link(th)
      PROVE  TypeOK'
  BY <1>2, AppendFacts DEF Link, TypeOK, LocalsOK, LoopStates, qvars, pvars, wvars
<1>3. ASSUME NEW th \in Threads, SetQuit(th)
      PROVE  TypeOK'
  BY <1>3 DEF SetQuit, TypeOK, LoopStates, qvars, pvars, wvars
<1>4. ASSUME NEW th \in Threads, Wake(th)
      PROVE  TypeOK'
  BY <1>4 DEF Wake, TypeOK, LoopStates, qvars, pvars, wvars
<1>5. CASE TestQuit
  BY <1>5 DEF TestQuit, TypeOK, LoopStates, qvars, pvars, wvars
<1>6. CASE WaitReturns
  BY <1>6 DEF WaitReturns, TypeOK, LoopStates, qvars, pvars, wvars
<1>7. CASE WaitInterrupted
  BY <1>7 DEF WaitInterrupted, TypeOK, LoopStates, qvars, pvars, wvars
<1>8. CASE WaitFails
  BY <1>8 DEF WaitFails, TypeOK, LoopStates, qvars, pvars, wvars
<1>9. CASE BatchDone
  BY <1>9 DEF BatchDone, TypeOK, LoopStates, qvars, pvars, wvars
<1>10. CASE TimerEvent
  BY <1>10 DEF TimerEvent, TypeOK, LoopStates, qvars, pvars, wvars
<1>11. CASE TimerReturns
  BY <1>11 DEF TimerReturns, TypeOK, LoopStates, qvars, pvars, wvars
<1>12. CASE Consume
  BY <1>12 DEF Consume, TypeOK, LoopStates, qvars, pvars, wvars
<1>13. CASE ReadLen
  BY <1>13 DEF ReadLen, TypeOK, LoopStates, qvars, pvars, wvars
<1>14. CASE ReadFirst
  BY <1>14 DEF ReadFirst, TypeOK, LoopStates, qvars, pvars, wvars
<1>15. CASE Remove
  BY <1>15, TailFacts DEF Remove, TypeOK, LinksSound, LoopStates, qvars, pvars, wvars
<1>16. CASE CallHandler
  BY <1>16 DEF CallHandler, TypeOK, LoopStates, qvars, pvars, wvars
<1>17. CASE HandlerReturns
  BY <1>17 DEF HandlerReturns, TypeOK, LocalsOK, LoopStates, qvars, pvars, wvars
<1>18. CASE UNCHANGED vars
  BY <1>18 DEF TypeOK, LoopStates, qvars, pvars, wvars, vars, qvars, pvars, wvars
<1>19. QED
  BY <1>1, <1>2, <1>3, <1>4, <1>5, <1>6, <1>7, <1>8, <1>9,
     <1>10, <1>11, <1>12, <1>13, <1>14, <1>15, <1>16, <1>17, <1>18
  DEF Next, WorkerStep, CallCore, FinishCall

\* Every step keeps the threads and the worker's locals consistent.
LEMMA LocalsStep == CoreInv /\ [Next]_vars => LocalsOK'
<1> SUFFICES ASSUME CoreInv, [Next]_vars PROVE LocalsOK'
  OBVIOUS
<1> USE CoreAssumption DEF CoreInv
<1>1. ASSUME NEW th \in Threads, SetHandler(th)
      PROVE  LocalsOK'
  BY <1>1 DEF SetHandler, MayCall, LocalsOK, TypeOK, qvars, pvars, wvars
<1>2. ASSUME NEW th \in Threads, Link(th)
      PROVE  LocalsOK'
  BY <1>2 DEF Link, LocalsOK, TypeOK, qvars, pvars, wvars
<1>3. ASSUME NEW th \in Threads, SetQuit(th)
      PROVE  LocalsOK'
  BY <1>3 DEF SetQuit, MayCall, LocalsOK, TypeOK, qvars, pvars, wvars
<1>4. ASSUME NEW th \in Threads, Wake(th)
      PROVE  LocalsOK'
  BY <1>4 DEF Wake, LocalsOK, TypeOK, qvars, pvars, wvars
<1>5. CASE TestQuit
  BY <1>5 DEF TestQuit, LocalsOK, TypeOK, qvars, pvars, wvars
<1>6. CASE WaitReturns
  BY <1>6 DEF WaitReturns, LocalsOK, TypeOK, qvars, pvars, wvars
<1>7. CASE WaitInterrupted
  BY <1>7 DEF WaitInterrupted, LocalsOK, TypeOK, qvars, pvars, wvars
<1>8. CASE WaitFails
  BY <1>8 DEF WaitFails, LocalsOK, TypeOK, qvars, pvars, wvars
<1>9. CASE BatchDone
  BY <1>9 DEF BatchDone, LocalsOK, TypeOK, qvars, pvars, wvars
<1>10. CASE TimerEvent
  BY <1>10 DEF TimerEvent, LocalsOK, TypeOK, qvars, pvars, wvars
<1>11. CASE TimerReturns
  BY <1>11 DEF TimerReturns, LocalsOK, TypeOK, qvars, pvars, wvars
<1>12. CASE Consume
  BY <1>12 DEF Consume, LocalsOK, TypeOK, qvars, pvars, wvars
<1>13. CASE ReadLen
  BY <1>13 DEF ReadLen, LocalsOK, TypeOK, qvars, pvars, wvars
<1>14. CASE ReadFirst
  BY <1>14 DEF ReadFirst, LocalsOK, TypeOK, qvars, pvars, wvars
<1>15. CASE Remove
  BY <1>15 DEF Remove, LocalsOK, TypeOK, qvars, pvars, wvars
<1>16. CASE CallHandler
  BY <1>16 DEF CallHandler, LocalsOK, TypeOK, qvars, pvars, wvars
<1>17. CASE HandlerReturns
  BY <1>17 DEF HandlerReturns, LocalsOK, TypeOK, qvars, pvars, wvars
<1>18. CASE UNCHANGED vars
  BY <1>18 DEF LocalsOK, TypeOK, qvars, pvars, wvars, vars, qvars, pvars, wvars
<1>19. QED
  BY <1>1, <1>2, <1>3, <1>4, <1>5, <1>6, <1>7, <1>8, <1>9,
     <1>10, <1>11, <1>12, <1>13, <1>14, <1>15, <1>16, <1>17, <1>18
  DEF Next, WorkerStep, CallCore, FinishCall

\* Every step keeps the list's links sound.
LEMMA LinksStep == CoreInv /\ [Next]_vars => LinksSound'
<1> SUFFICES ASSUME CoreInv, [Next]_vars PROVE LinksSound'
  OBVIOUS
<1> USE DEF CoreInv
<1>1. ASSUME NEW th \in Threads, SetHandler(th)
      PROVE  LinksSound'
  BY <1>1 DEF SetHandler, LinksSound, Quota, TypeOK, qvars, pvars, wvars
<1>2. ASSUME NEW th \in Threads, Link(th)
      PROVE  LinksSound'
  <2>1. CASE Active(arg[th])
    BY <1>2, <2>1 DEF Link, LinksSound, Quota, TypeOK, qvars, wvars
  <2>2. CASE ~Active(arg[th])
    <3>1. arg[th] \in Tasks /\ \A i \in 1 .. Len(queue) : queue[i] # arg[th]
      BY <1>2, <2>2 DEF Link, LocalsOK, Active, Range, TypeOK
    <3>2. queue' = Append(queue, arg[th])
      BY <1>2, <2>2 DEF Link
    <3>3. /\ Len(queue') = Len(queue) + 1
          /\ \A i \in 1 .. Len(queue) : queue'[i] = queue[i]
          /\ queue'[Len(queue) + 1] = arg[th]
          /\ queue # <<>> => Head(queue') = Head(queue) /\ queue' # <<>>
      BY <3>1, <3>2, AppendFacts DEF TypeOK
    <3>4. Len(queue) \in Nat
      BY DEF TypeOK
    <3>5. ASSUME NEW i \in 1 .. Len(queue'), NEW j \in 1 .. Len(queue'),
                 queue'[i] = queue'[j]
          PROVE  i = j
      BY <3>1, <3>3, <3>4, <3>5 DEF LinksSound
    <3>6. (loop = "remove" => queue # <<>> /\ cur = Head(queue))'
      BY <1>2, <3>3 DEF Link, LinksSound, wvars
    <3>7. (Quota <= Len(queue))'
      BY <1>2, <3>3, <3>4 DEF Link, LinksSound, Quota, TypeOK, wvars
    <3>8. QED
      BY <3>5, <3>6, <3>7 DEF LinksSound
  <2>3. QED
    BY <2>1, <2>2
<1>3. ASSUME NEW th \in Threads, SetQuit(th)
      PROVE  LinksSound'
  BY <1>3 DEF SetQuit, LinksSound, Quota, TypeOK, qvars, pvars, wvars
<1>4. ASSUME NEW th \in Threads, Wake(th)
      PROVE  LinksSound'
  BY <1>4 DEF Wake, LinksSound, Quota, TypeOK, qvars, pvars, wvars
<1>5. CASE TestQuit
  BY <1>5 DEF TestQuit, LinksSound, Quota, TypeOK, qvars, pvars, wvars
<1>6. CASE WaitReturns
  BY <1>6 DEF WaitReturns, LinksSound, Quota, TypeOK, qvars, pvars, wvars
<1>7. CASE WaitInterrupted
  BY <1>7 DEF WaitInterrupted, LinksSound, Quota, TypeOK, qvars, pvars, wvars
<1>8. CASE WaitFails
  BY <1>8 DEF WaitFails, LinksSound, Quota, TypeOK, qvars, pvars, wvars
<1>9. CASE BatchDone
  BY <1>9 DEF BatchDone, LinksSound, Quota, TypeOK, qvars, pvars, wvars
<1>10. CASE TimerEvent
  BY <1>10 DEF TimerEvent, LinksSound, Quota, TypeOK, qvars, pvars, wvars
<1>11. CASE TimerReturns
  BY <1>11 DEF TimerReturns, LinksSound, Quota, TypeOK, qvars, pvars, wvars
<1>12. CASE Consume
  BY <1>12 DEF Consume, LinksSound, Quota, TypeOK, qvars, pvars, wvars
<1>13. CASE ReadLen
  BY <1>13 DEF ReadLen, LinksSound, Quota, TypeOK, qvars
<1>14. CASE ReadFirst
  BY <1>14 DEF ReadFirst, LinksSound, Quota, TypeOK, qvars, pvars, wvars
<1>15. CASE Remove
  <2>1. queue # <<>> /\ queue' = Tail(queue)
    BY <1>15 DEF Remove, LinksSound
  <2>2. /\ Len(queue') = Len(queue) - 1
        /\ \A i \in 1 .. Len(queue) - 1 : queue'[i] = queue[i + 1]
    BY <2>1, TailFacts DEF TypeOK
  <2>3. Len(queue) \in Nat
    BY DEF TypeOK
  <2>4. ASSUME NEW i \in 1 .. Len(queue'), NEW j \in 1 .. Len(queue'),
               queue'[i] = queue'[j]
        PROVE  i = j
    <3>1. i + 1 \in 1 .. Len(queue) /\ j + 1 \in 1 .. Len(queue)
      BY <2>2, <2>3
    <3>2. queue[i + 1] = queue[j + 1]
      BY <2>2, <2>3, <2>4
    <3>3. QED
      BY <3>1, <3>2 DEF LinksSound
  <2>5. (Quota <= Len(queue))'
    BY <1>15, <2>2, <2>3 DEF Remove, LinksSound, Quota, TypeOK
  <2>6. (loop = "remove" => queue # <<>> /\ cur = Head(queue))'
    BY <1>15 DEF Remove
  <2>7. QED
    BY <2>4, <2>5, <2>6 DEF LinksSound
<1>16. CASE CallHandler
  BY <1>16 DEF CallHandler, LinksSound, Quota, TypeOK, qvars, pvars, wvars
<1>17. CASE HandlerReturns
  BY <1>17 DEF HandlerReturns, LinksSound, Quota, TypeOK, qvars, pvars, wvars
<1>18. CASE UNCHANGED vars
  BY <1>18 DEF LinksSound, Quota, TypeOK, qvars, pvars, wvars, vars
<1>19. QED
  BY <1>1, <1>2, <1>3, <1>4, <1>5, <1>6, <1>7, <1>8, <1>9,
     <1>10, <1>11, <1>12, <1>13, <1>14, <1>15, <1>16, <1>17, <1>18
  DEF Next, WorkerStep, CallCore, FinishCall

\* Every step keeps the wake-up: the event is signalled after the task is linked,
\* and it is reset before the length is read.
LEMMA WakeStep == CoreInv /\ [Next]_vars => NoLostWakeup'
<1> SUFFICES ASSUME CoreInv, [Next]_vars PROVE NoLostWakeup'
  OBVIOUS
<1> USE DEF CoreInv
<1>1. ASSUME NEW th \in Threads, SetHandler(th)
      PROVE  NoLostWakeup'
  <2>1. Waking => Waking'
    BY <1>1 DEF SetHandler, MayCall, Waking, TypeOK
  <2>2. UNCHANGED <<queue, signalled>> /\ Quota' = Quota /\ WillRun' = WillRun
    BY <1>1 DEF SetHandler, Quota, WillRun, wvars
  <2>3. QED
    BY <2>1, <2>2 DEF NoLostWakeup
<1>2. ASSUME NEW th \in Threads, Link(th)
      PROVE  NoLostWakeup'
  <2>1. at'[th] = "wake"
    BY <1>2 DEF Link, TypeOK
  <2>2. QED
    BY <2>1 DEF NoLostWakeup, Waking
<1>3. ASSUME NEW th \in Threads, SetQuit(th)
      PROVE  NoLostWakeup'
  BY <1>3 DEF SetQuit, NoLostWakeup, Quota, WillRun, Waking, TypeOK, LocalsOK, qvars, pvars, wvars
<1>4. ASSUME NEW th \in Threads, Wake(th)
      PROVE  NoLostWakeup'
  BY <1>4 DEF Wake, NoLostWakeup, Quota, WillRun, Waking, TypeOK, LocalsOK, qvars, pvars, wvars
<1>5. CASE TestQuit
  BY <1>5 DEF TestQuit, NoLostWakeup, Quota, WillRun, Waking, TypeOK, LocalsOK, qvars, pvars, wvars
<1>6. CASE WaitReturns
  BY <1>6 DEF WaitReturns, NoLostWakeup, Quota, WillRun, Waking, TypeOK, LocalsOK, qvars, pvars, wvars
<1>7. CASE WaitInterrupted
  BY <1>7 DEF WaitInterrupted, NoLostWakeup, Quota, WillRun, Waking, TypeOK, LocalsOK, qvars, pvars, wvars
<1>8. CASE WaitFails
  BY <1>8 DEF WaitFails, NoLostWakeup, Quota, WillRun, Waking, TypeOK, LocalsOK, qvars, pvars, wvars
<1>9. CASE BatchDone
  BY <1>9 DEF BatchDone, NoLostWakeup, Quota, WillRun, Waking, TypeOK, LocalsOK, qvars, pvars, wvars
<1>10. CASE TimerEvent
  BY <1>10 DEF TimerEvent, NoLostWakeup, Quota, WillRun, Waking, TypeOK, LocalsOK, qvars, pvars, wvars
<1>11. CASE TimerReturns
  BY <1>11 DEF TimerReturns, NoLostWakeup, Quota, WillRun, Waking, TypeOK, LocalsOK, qvars, pvars, wvars
<1>12. CASE Consume
  BY <1>12 DEF Consume, NoLostWakeup, Quota, WillRun, Waking, TypeOK, LocalsOK, qvars, pvars, wvars
<1>13. CASE ReadLen
  BY <1>13 DEF ReadLen, NoLostWakeup, Quota, WillRun, Waking, TypeOK, LocalsOK, qvars, pvars, wvars
<1>14. CASE ReadFirst
  BY <1>14 DEF ReadFirst, NoLostWakeup, Quota, WillRun, Waking, TypeOK, LocalsOK, qvars, pvars, wvars
<1>15. CASE Remove
  <2>1. Len(queue') = Len(queue) - 1 /\ Len(queue) \in Nat
    BY <1>15, TailFacts DEF Remove, LinksSound, TypeOK
  <2>2. Quota' = Quota - 1 /\ Quota \in Int
    BY <1>15 DEF Remove, Quota, TypeOK
  <2>3. ~WillRun /\ signalled' = signalled /\ Waking' = Waking
    BY <1>15 DEF Remove, WillRun, Waking, pvars
  <2>4. QED
    BY <2>1, <2>2, <2>3 DEF NoLostWakeup
<1>16. CASE CallHandler
  BY <1>16 DEF CallHandler, NoLostWakeup, Quota, WillRun, Waking, TypeOK, LocalsOK, qvars, pvars, wvars
<1>17. CASE HandlerReturns
  BY <1>17 DEF HandlerReturns, NoLostWakeup, Quota, WillRun, Waking, TypeOK, LocalsOK, qvars, pvars, wvars
<1>18. CASE UNCHANGED vars
  BY <1>18 DEF NoLostWakeup, Quota, WillRun, Waking, TypeOK, LocalsOK, qvars, pvars, wvars, vars
<1>19. QED
  BY <1>1, <1>2, <1>3, <1>4, <1>5, <1>6, <1>7, <1>8, <1>9,
     <1>10, <1>11, <1>12, <1>13, <1>14, <1>15, <1>16, <1>17, <1>18
  DEF Next, WorkerStep, CallCore, FinishCall

\* CoreInv is an invariant of the loop, for any threads, tasks and call sites.
THEOREM CoreInvariant == Spec => []CoreInv
<1>1. CoreInv /\ [Next]_vars => CoreInv'
  BY TypeStep, LocalsStep, LinksStep, WakeStep DEF CoreInv
<1>2. QED
  BY InitInv, <1>1, PTL DEF Spec

\* Type correctness.
THEOREM TypeCorrect == Spec => []TypeOK
<1>1. CoreInv => TypeOK
  BY DEF CoreInv
<1>2. QED
  BY CoreInvariant, <1>1, PTL

\* The list's links stay sound whichever threads post, from wherever.
THEOREM LinksAreSound == Spec => []LinksSound
<1>1. CoreInv => LinksSound
  BY DEF CoreInv
<1>2. QED
  BY CoreInvariant, <1>1, PTL

\* No wake-up is lost: a linked task that the current run will not take is
\* always followed by another run's event.
THEOREM NoWakeupIsLost == Spec => []NoLostWakeup
<1>1. CoreInv => NoLostWakeup
  BY DEF CoreInv
<1>2. QED
  BY CoreInvariant, <1>1, PTL

\* The items of a list after an item is appended.
LEMMA RangeAppend ==
  ASSUME NEW S, NEW q \in Seq(S), NEW x \in S
  PROVE  Range(Append(q, x)) = Range(q) \cup {x}
<1>1. Len(q) \in Nat /\ DOMAIN q = 1 .. Len(q)
  OBVIOUS
<1>2. DOMAIN Append(q, x) = 1 .. Len(q) + 1
  OBVIOUS
<1>3. ASSUME NEW y \in Range(Append(q, x)) PROVE y \in Range(q) \cup {x}
  <2>1. PICK i \in 1 .. Len(q) + 1 : y = Append(q, x)[i]
    BY <1>2, <1>3 DEF Range
  <2>2. CASE i = Len(q) + 1
    BY <2>1, <2>2, AppendFacts
  <2>3. CASE i \in 1 .. Len(q)
    BY <1>1, <2>1, <2>3, AppendFacts DEF Range
  <2>4. QED
    BY <1>1, <2>2, <2>3
<1>4. ASSUME NEW y \in Range(q) \cup {x} PROVE y \in Range(Append(q, x))
  <2>1. CASE y = x
    BY <1>1, <1>2, <2>1, AppendFacts DEF Range
  <2>2. CASE y \in Range(q)
    <3>1. PICK i \in 1 .. Len(q) : y = q[i]
      BY <1>1, <2>2 DEF Range
    <3>2. i \in 1 .. Len(q) + 1 /\ y = Append(q, x)[i]
      BY <1>1, <3>1, AppendFacts
    <3>3. QED
      BY <1>2, <3>2 DEF Range
  <2>3. QED
    BY <1>4, <2>1, <2>2
<1>5. QED
  BY <1>3, <1>4

\* The items of a list without repetitions after its first item is removed.
LEMMA RangeTail ==
  ASSUME NEW S, NEW q \in Seq(S), q # <<>>,
         \A i, j \in 1 .. Len(q) : q[i] = q[j] => i = j
  PROVE  Range(Tail(q)) = Range(q) \ {Head(q)} /\ Head(q) \in Range(q)
<1>1. Len(q) \in Nat \ {0} /\ DOMAIN q = 1 .. Len(q) /\ Head(q) = q[1]
  OBVIOUS
<1>2. DOMAIN Tail(q) = 1 .. Len(q) - 1
  OBVIOUS
<1>3. ASSUME NEW y \in Range(Tail(q)) PROVE y \in Range(q) \ {Head(q)}
  <2>1. PICK i \in 1 .. Len(q) - 1 : y = Tail(q)[i]
    BY <1>2, <1>3 DEF Range
  <2>2. i + 1 \in 1 .. Len(q) /\ 1 \in 1 .. Len(q) /\ i + 1 # 1 /\ y = q[i + 1]
    BY <1>1, <2>1, TailFacts
  <2>3. QED
    BY <1>1, <2>2 DEF Range
<1>4. ASSUME NEW y \in Range(q) \ {Head(q)} PROVE y \in Range(Tail(q))
  <2>1. PICK i \in 1 .. Len(q) : y = q[i]
    BY <1>1, <1>4 DEF Range
  <2>2. i # 1
    BY <1>1, <1>4, <2>1
  <2>3. i - 1 \in 1 .. Len(q) - 1 /\ Tail(q)[i - 1] = q[(i - 1) + 1] /\ (i - 1) + 1 = i
    BY <1>1, <2>1, <2>2, TailFacts
  <2>4. QED
    BY <1>2, <2>1, <2>3 DEF Range
<1>5. QED
  BY <1>1, <1>3, <1>4 DEF Range

\* Every step keeps the handlers of the tasks in use.
LEMMA HandlersStep == CoreInv /\ HandlersOK /\ [Next]_vars => HandlersOK'
<1> SUFFICES ASSUME CoreInv /\ HandlersOK, [Next]_vars PROVE HandlersOK'
  OBVIOUS
<1> USE DEF CoreInv
<1>1. ASSUME NEW th \in Threads, SetHandler(th)
      PROVE  HandlersOK'
  <2>1. PICK s \in Sites : /\ s[1] = th
                           /\ handler' = [handler EXCEPT ![s[2]] = s[3]]
                           /\ arg' = [arg EXCEPT ![th] = s[2]]
    BY <1>1 DEF SetHandler
  <2>2. s[2] \in Tasks /\ s[3] \in Funcs
    BY CoreAssumption
  <2>3. handler'[s[2]] = s[3] /\ \A t \in Tasks : t # s[2] => handler'[t] = handler[t]
    BY <2>1, <2>2 DEF TypeOK
  <2>4. ASSUME NEW t \in Tasks, HandlerKnown(t) \/ t = s[2] PROVE HandlerKnown(t)'
    BY <2>3, <2>4 DEF HandlerKnown
  <2>5. (\A t \in Tasks : handler[t] = NoFunc \/ HandlerKnown(t))'
    BY <2>3, <2>4 DEF HandlersOK
  <2>6. (\A t \in Range(queue) : HandlerKnown(t))'
    <3>1. queue' = queue /\ Range(queue) \subseteq Tasks
      BY <1>1 DEF SetHandler, TypeOK, Range
    <3>2. QED
      BY <2>4, <3>1 DEF HandlersOK
  <2>7. (\A u \in Threads : at[u] = "link" => HandlerKnown(arg[u]))'
    <3>1. SUFFICES ASSUME NEW u \in Threads, at'[u] = "link"
                   PROVE  HandlerKnown(arg[u])'
      OBVIOUS
    <3>2. CASE u = th
      BY <2>1, <2>2, <2>4, <3>2 DEF TypeOK
    <3>3. CASE u # th
      <4>1. at[u] = "link" /\ arg'[u] = arg[u]
        BY <1>1, <2>1, <3>1, <3>3 DEF SetHandler, TypeOK
      <4>2. arg[u] \in Tasks /\ HandlerKnown(arg[u])
        BY <4>1 DEF HandlersOK, LocalsOK
      <4>3. \E z \in Sites : z[2] = arg[u] /\ z[3] = handler'[arg[u]]
        BY <2>4, <4>2 DEF HandlerKnown
      <4>4. QED
        BY <4>1, <4>3 DEF HandlerKnown
    <3>4. QED
      BY <3>2, <3>3
  <2>8. (loop \in {"remove", "call", "handler"} => HandlerKnown(cur))'
    <3>1. loop' = loop /\ cur' = cur
      BY <1>1 DEF SetHandler, wvars
    <3>2. SUFFICES ASSUME loop \in {"remove", "call", "handler"} PROVE HandlerKnown(cur)'
      BY <3>1
    <3>3. cur \in Tasks /\ HandlerKnown(cur)
      BY <3>2 DEF HandlersOK, LocalsOK
    <3>4. QED
      BY <2>4, <3>1, <3>3 DEF HandlerKnown
  <2>9. QED
    BY <2>5, <2>6, <2>7, <2>8 DEF HandlersOK
<1>2. ASSUME NEW th \in Threads, Link(th)
      PROVE  HandlersOK'
  <2>1. arg[th] \in Tasks /\ HandlerKnown(arg[th])
    BY <1>2 DEF Link, LocalsOK, HandlersOK
  <2>2. Range(queue') \subseteq Range(queue) \cup {arg[th]}
    BY <1>2, <2>1, RangeAppend DEF Link, TypeOK
  <2>3. \A u \in Threads : at'[u] = "link" => at[u] = "link" /\ arg'[u] = arg[u]
    BY <1>2 DEF Link, TypeOK
  <2>4. UNCHANGED <<handler, loop, cur>>
    BY <1>2 DEF Link, wvars
  <2>5. QED
    BY <2>1, <2>2, <2>3, <2>4 DEF HandlersOK, HandlerKnown
<1>3. ASSUME NEW th \in Threads, SetQuit(th)
      PROVE  HandlersOK'
  BY <1>3 DEF SetQuit, HandlersOK, HandlerKnown, TypeOK, qvars, pvars, wvars
<1>4. ASSUME NEW th \in Threads, Wake(th)
      PROVE  HandlersOK'
  BY <1>4 DEF Wake, HandlersOK, HandlerKnown, TypeOK, qvars, pvars, wvars
<1>5. CASE TestQuit
  BY <1>5 DEF TestQuit, HandlersOK, HandlerKnown, TypeOK, qvars, pvars, wvars
<1>6. CASE WaitReturns
  BY <1>6 DEF WaitReturns, HandlersOK, HandlerKnown, TypeOK, qvars, pvars, wvars
<1>7. CASE WaitInterrupted
  BY <1>7 DEF WaitInterrupted, HandlersOK, HandlerKnown, TypeOK, qvars, pvars, wvars
<1>8. CASE WaitFails
  BY <1>8 DEF WaitFails, HandlersOK, HandlerKnown, TypeOK, qvars, pvars, wvars
<1>9. CASE BatchDone
  BY <1>9 DEF BatchDone, HandlersOK, HandlerKnown, TypeOK, qvars, pvars, wvars
<1>10. CASE TimerEvent
  BY <1>10 DEF TimerEvent, HandlersOK, HandlerKnown, TypeOK, qvars, pvars, wvars
<1>11. CASE TimerReturns
  BY <1>11 DEF TimerReturns, HandlersOK, HandlerKnown, TypeOK, qvars, pvars, wvars
<1>12. CASE Consume
  BY <1>12 DEF Consume, HandlersOK, HandlerKnown, TypeOK, qvars, pvars, wvars
<1>13. CASE ReadLen
  BY <1>13 DEF ReadLen, HandlersOK, HandlerKnown, TypeOK, qvars, pvars, wvars
<1>14. CASE ReadFirst
  <2>1. UNCHANGED <<queue, handler, at, arg>>
    BY <1>14 DEF ReadFirst, qvars, pvars
  <2>2. loop' \in {"remove", "call", "handler"} => cur' \in Range(queue)
    BY <1>14 DEF ReadFirst, TypeOK, Range
  <2>3. QED
    BY <2>1, <2>2 DEF HandlersOK, HandlerKnown
<1>15. CASE Remove
  <2>1. Range(queue') \subseteq Range(queue)
    BY <1>15, RangeTail DEF Remove, LinksSound, TypeOK
  <2>2. UNCHANGED <<handler, at, arg, cur>> /\ loop = "remove"
    BY <1>15 DEF Remove, pvars
  <2>3. QED
    BY <2>1, <2>2 DEF HandlersOK, HandlerKnown
<1>16. CASE CallHandler
  BY <1>16 DEF CallHandler, HandlersOK, HandlerKnown, TypeOK, qvars, pvars, wvars
<1>17. CASE HandlerReturns
  BY <1>17 DEF HandlerReturns, HandlersOK, HandlerKnown, TypeOK, qvars, pvars, wvars
<1>18. CASE UNCHANGED vars
  BY <1>18 DEF HandlersOK, HandlerKnown, TypeOK, qvars, pvars, wvars, vars
<1>19. QED
  BY <1>1, <1>2, <1>3, <1>4, <1>5, <1>6, <1>7, <1>8, <1>9,
     <1>10, <1>11, <1>12, <1>13, <1>14, <1>15, <1>16, <1>17, <1>18
  DEF Next, WorkerStep, CallCore, FinishCall

\* The initial state has no handlers to know.
LEMMA InitHandlers == Init => HandlersOK
<1>1. ASSUME Init PROVE Range(queue) = {}
  BY <1>1 DEF Init, Range
<1>2. QED
  BY <1>1 DEF Init, HandlersOK

\* Handlers in use are always known.
THEOREM HandlersAreKnown == Spec => [](CoreInv /\ HandlersOK)
<1>1. Init => CoreInv /\ HandlersOK
  BY InitInv, InitHandlers
<1>2. CoreInv /\ HandlersOK /\ [Next]_vars => (CoreInv /\ HandlersOK)'
  BY TypeStep, LocalsStep, LinksStep, WakeStep, HandlersStep DEF CoreInv
<1>3. QED
  BY <1>1, <1>2, PTL DEF Spec

-----------------------------------------------------------------------------
(***************************************************************************)
(* The refinement.                                                         *)
(***************************************************************************)
Pending == {<<t, handler[t]>> : t \in Range(queue)}
Running == IF loop \in {"call", "handler"} THEN <<cur, handler[cur]>>
                                           ELSE <<NoTask, NoFunc>>

\* Where a task has one function, writing it again changes nothing for a task
\* that is linked or running.
LEMMA HandlerStable ==
  ASSUME OneFunctionPerTask, TypeOK, NEW th \in Threads, SetHandler(th),
         NEW t \in Tasks, HandlerKnown(t)
  PROVE  handler'[t] = handler[t]
<1>1. PICK s \in Sites : handler' = [handler EXCEPT ![s[2]] = s[3]]
  BY DEF SetHandler
<1>2. PICK z \in Sites : z[2] = t /\ z[3] = handler[t]
  BY DEF HandlerKnown
<1>3. s[2] = t => s[3] = handler[t]
  BY <1>2 DEF OneFunctionPerTask
<1>4. QED
  BY <1>1, <1>3 DEF TypeOK

\* A step that leaves the queue, the handlers and the running task alone is a
\* step the service does not see.
LEMMA Unseen ==
  ASSUME UNCHANGED <<queue, handler>>, Running' = Running,
         (loop = "done")' = (loop = "done")
  PROVE  UNCHANGED Service!vars
  BY DEF Service!vars, Pending, Running

LEMMA ServiceInit == Init => Service!Init
<1>1. ASSUME Init PROVE Range(queue) = {} /\ loop = "test"
  BY <1>1 DEF Init, Range
<1>2. ASSUME NEW S, S = {} PROVE {<<t, handler[t]>> : t \in S} = {}
  BY <1>2
<1>3. QED
  BY <1>1, <1>2 DEF Service!Init

\* Every step of the loop is a step of the service or changes nothing of it.
LEMMA ServiceStep ==
  ASSUME OneFunctionPerTask
  PROVE  CoreInv /\ HandlersOK /\ [Next]_vars => [Service!Next]_(Service!vars)
<1> SUFFICES ASSUME CoreInv, HandlersOK, [Next]_vars
             PROVE  [Service!Next]_(Service!vars)
  OBVIOUS
<1> USE DEF CoreInv
<1>0. Range(queue) \subseteq Tasks
  BY DEF TypeOK, Range
<1>1. ASSUME NEW th \in Threads, SetHandler(th)
      PROVE  UNCHANGED Service!vars
  <2>1. queue' = queue /\ loop' = loop /\ cur' = cur
    BY <1>1 DEF SetHandler, wvars
  <2>2. \A t \in Range(queue) : handler'[t] = handler[t]
    BY <1>0, <1>1, HandlerStable DEF HandlersOK
  <2>3. loop \in {"call", "handler"} => handler'[cur] = handler[cur]
    BY <1>1, HandlerStable DEF HandlersOK, LocalsOK
  <2>4. Pending' = Pending
    BY <2>1, <2>2 DEF Pending
  <2>5. QED
    BY <2>1, <2>3, <2>4 DEF Service!vars, Pending
<1>2. ASSUME NEW th \in Threads, Link(th)
      PROVE  \E r \in Requests : Service!Post(r)
  <2>1. arg[th] \in Tasks /\ HandlerKnown(arg[th])
    BY <1>2 DEF Link, LocalsOK, HandlersOK
  <2>2. <<arg[th], handler[arg[th]]>> \in Requests
    BY <2>1, CoreAssumption DEF Requests, HandlerKnown
  <2>3. Range(queue') = Range(queue) \cup {arg[th]}
    BY <1>2, <2>1, RangeAppend DEF Link, TypeOK, Active
  <2>4. UNCHANGED <<handler, loop, cur>>
    BY <1>2 DEF Link, wvars
  <2>5. Pending' = Pending \cup {<<arg[th], handler[arg[th]]>>}
    BY <2>3, <2>4 DEF Pending
  <2>6. PICK r \in Requests : r = <<arg[th], handler[arg[th]]>>
    BY <2>2
  <2>7. Service!Post(r)
    BY <2>4, <2>5, <2>6 DEF Service!Post, Pending
  <2>8. QED
    BY <2>7
<1>3. ASSUME NEW th \in Threads, SetQuit(th) \/ Wake(th)
      PROVE  UNCHANGED Service!vars
  BY <1>3, Unseen DEF SetQuit, Wake, Running, qvars, wvars
<1>4. CASE TestQuit \/ WaitFails
  <2>1. UNCHANGED <<queue, handler>> /\ loop \in {"test", "wait"} /\ loop' \in {"wait", "done"}
    BY <1>4 DEF TestQuit, WaitFails, qvars
  <2>2. Running' = Running /\ Pending' = Pending
    BY <2>1 DEF Running, Pending
  <2>3. CASE loop' = "done"
    BY <2>1, <2>2, <2>3 DEF Service!Next, Service!Stop, Running, Pending
  <2>4. CASE loop' # "done"
    BY <2>1, <2>2, <2>4, Unseen
  <2>5. QED
    BY <2>3, <2>4
<1>5. CASE WaitReturns \/ WaitInterrupted \/ BatchDone \/ TimerEvent \/ TimerReturns
  BY <1>5, Unseen
  DEF WaitReturns, WaitInterrupted, BatchDone, TimerEvent, TimerReturns, Running, qvars
<1>6. CASE Consume \/ ReadLen \/ ReadFirst \/ CallHandler
  BY <1>6, Unseen DEF Consume, ReadLen, ReadFirst, CallHandler, Running, qvars
<1>7. CASE Remove
  <2>1. queue # <<>> /\ cur = Head(queue)
    BY <1>7 DEF Remove, LinksSound
  <2>2. Range(queue') = Range(queue) \ {cur} /\ cur \in Range(queue)
    BY <1>7, <2>1, RangeTail DEF Remove, LinksSound, TypeOK
  <2>3. handler' = handler /\ loop = "remove" /\ loop' = "call" /\ cur' = cur
    BY <1>7 DEF Remove
  <2>4. <<cur, handler[cur]>> \in Requests
    BY <1>0, <2>2, CoreAssumption DEF HandlersOK, HandlerKnown, Requests
  <2>5. PICK r \in Requests : r = <<cur, handler[cur]>>
    BY <2>4
  <2>6. Pending' = Pending \ {r} /\ r \in Pending
    BY <2>2, <2>3, <2>5 DEF Pending
  <2>7. Service!Start(r)
    BY <2>3, <2>5, <2>6 DEF Service!Start, Pending
  <2>8. QED
    BY <2>7 DEF Service!Next
<1>8. CASE HandlerReturns
  BY <1>8 DEF HandlerReturns, Service!Next, Service!Return, qvars
<1>9. CASE UNCHANGED vars
  BY <1>9, Unseen DEF vars, qvars, wvars, Running
<1>10. QED
  BY <1>1, <1>2, <1>3, <1>4, <1>5, <1>6, <1>7, <1>8, <1>9
  DEF Next, WorkerStep, CallCore, FinishCall, Service!Next

\* The queue and the loop implement the abstract task service: what is called was
\* asked for, once per request, one function at a time, none after the loop's end.
THEOREM ServiceImplemented ==
  ASSUME OneFunctionPerTask
  PROVE  Spec => ImplementsService
<1>1. Init => Service!Init
  BY ServiceInit
<1>2. CoreInv /\ HandlersOK /\ [Next]_vars => [Service!Next]_(Service!vars)
  BY ServiceStep
<1>3. QED
  BY <1>1, <1>2, HandlersAreKnown, PTL DEF Spec, ImplementsService, Service!Spec
=============================================================================
