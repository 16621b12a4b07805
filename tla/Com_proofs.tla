------------------------------ MODULE Com_proofs ------------------------------
(***************************************************************************)
(* Proofs about Com, for every number of commands and every tree of        *)
(* operations, with the failures under which a closed operation is not     *)
(* used.                                                                   *)
(*                                                                         *)
(* What makes the properties inductive is the worker's call stack: an      *)
(* operation is run in one place only, from the queue or inside the        *)
(* completion of the one child that it waits for; while a child has not    *)
(* answered, its parent is open; and a frame below the innermost one never *)
(* looks at its operation again, except that of a com->run() whose child   *)
(* cannot run it.                                                          *)
(***************************************************************************)
EXTENDS Com, FiniteSetTheorems, TLAPS

\* The failures that are told from the shapes in which one would lead to the use of a
\* closed operation: see MCCom.
SafeShapes ==
  \A s \in Shapes :
    /\ (\E c \in Cmds : s.kind[c] = "unpack") => "start" \notin s.may
    /\ (\E c \in Cmds : s.kind[c] = "pair") => s.may \subseteq {"writer"}

Parents == {"copy", "unpack", "pair"}
Created(c) == c = Root \/ parent[c] # NoCmd
Queued(c) == \E n \in 1 .. Len(posted) : posted[n] = c
Runnable(c) == InFrame("run", c) \/ Queued(c)
OnStack(a, c) == \E k \in 1 .. Len(stack) : stack[k].at = a /\ stack[k].cmd = c

\* The commands are a tree: following parent never comes back.
Tree ==
  /\ parent[Root] = NoCmd
  /\ \A c \in Cmds : parent[c] # NoCmd =>
       /\ Kind(parent[c]) \in Parents
       /\ Kind(parent[c]) = "pair" => Kind(c) = "leaf"
  /\ \A S \in SUBSET Cmds :
       S # {} /\ (\A c \in S : parent[c] # NoCmd) => \E c \in S : parent[c] \notin S

\* The life of a command, from com->create() to cmd_destroy().
Lives ==
  /\ \A c \in Cmds :
       /\ op[c] = "open" => c \in listed /\ answered[c] = 0
       /\ op[c] = "none" => \A d \in Cmds : parent[d] # c
       /\ c \in listed => Created(c) /\ (answered[c] = 1 => OnStack("free", c))
       /\ parent[c] = NoCmd => answered[c] = 0 /\ (c # Root => op[c] = "none")
       /\ parent[c] # NoCmd /\ c \notin listed => answered[c] = 1
       /\ parent[c] # NoCmd /\ answered[c] = 0 => op[parent[c]] = "open"
  /\ quit => Root \notin listed

\* Who runs next: each operation in one place, and only when the children that it waits
\* for have answered; a pipeline's parent may poll for its writer.
Turns ==
  /\ \A m, n \in 1 .. Len(posted) : posted[m] = posted[n] => m = n
  /\ \A n \in 1 .. Len(posted) : op[posted[n]] = "open" /\ ~InFrame("run", posted[n])
  /\ \A c \in Cmds : Runnable(c) => \A d \in Unanswered(c) : d \in pw /\ c \in waits
  /\ \A c \in Cmds : \A d, e \in Unanswered(c) \ pw : d = e
  /\ \A c \in Cmds : parent[c] # NoCmd /\ answered[c] = 0 =>
       parent[c] \in waits \/ (Kind(parent[c]) # "copy" /\ OnStack("called", parent[c]))
  /\ \A w \in pw : parent[w] # NoCmd /\ answered[w] = 0 /\ Kind(parent[w]) = "pair"

\* unpack and a pipeline look at their operation when com->run() returns to them: it is
\* still there, since no child that has failed to start has run it.
Called(k, c) ==
  /\ op[c] = "open" /\ ~Queued(c)
  /\ k = 1 => IF ret THEN Kind(c) = "pair" => Unanswered(c) \cap pw # {}
              ELSE Kind(c) = "pair" /\ Unanswered(c) = {}
  /\ k # 1 =>
       /\ k = 2 /\ parent[stack[1].cmd] = c
       /\ \/ /\ stack[1].at = "start"
             /\ Kind(c) = "pair" => Unanswered(c) \cap pw # {}
             /\ stack[1].cmd \in pw => Unanswered(c) = {stack[1].cmd}
          \/ /\ stack[1].at = "destroy" /\ stack[1].failed /\ stack[1].cmd \in pw
             /\ Unanswered(c) = {stack[1].cmd}
          \/ /\ stack[1].at = "free" /\ stack[1].failed
             /\ Kind(c) = "pair" /\ Unanswered(c) = {}

FrameOK(k, f) ==
  /\ Created(f.cmd)
  /\ k # 1 => f.at \in {"free", "called"}
  /\ f.at = "start" =>
       /\ op[f.cmd] = "none" /\ f.cmd \in listed /\ answered[f.cmd] = 0 /\ ~f.failed
       /\ f.cmd = Root => Len(stack) = 1
  /\ f.at = "run" => op[f.cmd] = "open" /\ ~f.failed
  /\ f.at = "destroy" =>
       /\ op[f.cmd] # "open" /\ answered[f.cmd] = 0
       /\ parent[f.cmd] # NoCmd /\ f.cmd \notin pw /\ Kind(parent[f.cmd]) = "pair" => result[f.cmd] = 0
  /\ f.at = "free" => op[f.cmd] # "open" /\ (f.cmd # Root => answered[f.cmd] = 1)
  /\ f.at = "called" => /\ Kind(f.cmd) \in Parents /\ ~f.failed
                        /\ Kind(f.cmd) # "copy" => Called(k, f.cmd)
Frames == \A k \in 1 .. Len(stack) : FrameOK(k, stack[k])

\* What a pipeline's reader returns, and nobody is told to stop without a signal.
Results ==
  /\ \A c \in Cmds : Kind(c) \in {"leaf", "pair"} => got[c] = 0
  /\ "signal" \notin shape.may => stop = {}

\* A closed operation is in com.cmds only while its com->complete() is on the stack.
Closing ==
  \A c \in Cmds : op[c] = "closed" /\ c \in listed => OnStack("destroy", c) \/ OnStack("free", c)

CInv == TypeOK /\ Tree /\ Lives /\ Closing /\ Turns /\ Frames /\ Results

FrameSet == [at : FrameKinds, cmd : Cmds, failed : BOOLEAN]

-----------------------------------------------------------------------------
\* What the stack looks like after a push, a pop and a change of its top.
LEMMA StackFacts ==
  ASSUME stack \in Seq(FrameSet), stack # << >>
  PROVE  /\ Len(stack) \in Nat \ {0} /\ Head(stack) = stack[1] /\ stack[1] \in FrameSet
         /\ Below \in Seq(FrameSet) /\ Len(Below) = Len(stack) - 1
         /\ \A k \in 1 .. Len(Below) : Below[k] = stack[k + 1]
<1>1. Len(stack) \in Nat \ {0}
  OBVIOUS
<1>2. QED
  BY <1>1 DEF Below

LEMMA TopChanged ==
  ASSUME stack \in Seq(FrameSet), stack # << >>, NEW f \in FrameSet, NEW s, s = <<f>> \o Below
  PROVE  s \in Seq(FrameSet) /\ Len(s) = Len(stack) /\ s[1] = f /\ \A k \in 2 .. Len(stack) : s[k] = stack[k]
<1>1. Len(stack) \in Nat \ {0} /\ Below \in Seq(FrameSet) /\ Len(Below) = Len(stack) - 1
      /\ \A k \in 1 .. Len(Below) : Below[k] = stack[k + 1]
  BY StackFacts
<1>2. <<f>> \in Seq(FrameSet) /\ Len(<<f>>) = 1
  OBVIOUS
<1>3. s \in Seq(FrameSet) /\ Len(s) = 1 + Len(Below)
  BY <1>1, <1>2
<1>4. s[1] = f /\ \A k \in 2 .. Len(stack) : s[k] = Below[k - 1]
  BY <1>1, <1>2
<1>5. \A k \in 2 .. Len(stack) : Below[k - 1] = stack[k]
  BY <1>1
<1>6. QED
  BY <1>1, <1>3, <1>4, <1>5

\* s is the stack with f and g in place of its innermost frame.
Pushed(s, f, g) ==
  /\ s \in Seq(FrameSet) /\ Len(s) = Len(stack) + 1 /\ s[1] = f /\ s[2] = g
  /\ \A k \in 3 .. Len(s) : s[k] = stack[k - 1]

LEMMA TopPushed ==
  ASSUME stack \in Seq(FrameSet), stack # << >>, NEW f \in FrameSet, NEW g \in FrameSet
  PROVE  Pushed(<<f, g>> \o Below, f, g)
<1> DEFINE s == <<f, g>> \o Below
<1>1. Len(stack) \in Nat \ {0} /\ Below \in Seq(FrameSet) /\ Len(Below) = Len(stack) - 1
      /\ \A k \in 1 .. Len(Below) : Below[k] = stack[k + 1]
  BY StackFacts
<1>2. <<f, g>> \in Seq(FrameSet) /\ Len(<<f, g>>) = 2
  OBVIOUS
<1>3. s \in Seq(FrameSet) /\ Len(s) = 2 + Len(Below)
  BY <1>1, <1>2
<1>4. s[1] = f /\ s[2] = g /\ \A k \in 3 .. Len(stack) + 1 : s[k] = Below[k - 2]
  BY <1>1, <1>2
<1>5. \A k \in 3 .. Len(stack) + 1 : Below[k - 2] = stack[k - 1]
  BY <1>1
<1>6. QED
  BY <1>1, <1>3, <1>4, <1>5 DEF Pushed

LEMMA FrameFacts ==
  /\ \A a \in FrameKinds, c \in Cmds :
       Frame(a, c) \in FrameSet /\ Frame(a, c).at = a /\ Frame(a, c).cmd = c /\ ~Frame(a, c).failed
  /\ stack \in Seq(FrameSet) /\ stack # << >> =>
       \A a \in FrameKinds :
         /\ Become(a) \in FrameSet /\ Become(a).at = a /\ Become(a).cmd = stack[1].cmd /\ Become(a).failed = stack[1].failed
         /\ [Become(a) EXCEPT !.failed = TRUE] \in FrameSet /\ [Become(a) EXCEPT !.failed = TRUE].at = a
         /\ [Become(a) EXCEPT !.failed = TRUE].cmd = stack[1].cmd /\ [Become(a) EXCEPT !.failed = TRUE].failed
<1>1. \A a \in FrameKinds, c \in Cmds :
       Frame(a, c) \in FrameSet /\ Frame(a, c).at = a /\ Frame(a, c).cmd = c /\ ~Frame(a, c).failed
  BY DEF Frame, FrameSet
<1>2. ASSUME stack \in Seq(FrameSet), stack # << >>, NEW a \in FrameKinds
      PROVE  /\ Become(a) \in FrameSet /\ Become(a).at = a /\ Become(a).cmd = stack[1].cmd /\ Become(a).failed = stack[1].failed
             /\ [Become(a) EXCEPT !.failed = TRUE] \in FrameSet /\ [Become(a) EXCEPT !.failed = TRUE].at = a
             /\ [Become(a) EXCEPT !.failed = TRUE].cmd = stack[1].cmd /\ [Become(a) EXCEPT !.failed = TRUE].failed
  <2>1. Head(stack) = stack[1] /\ stack[1] \in FrameSet
    BY <1>2, StackFacts
  <2>2. QED
    BY <1>2, <2>1 DEF Become, FrameSet
<1>3. QED
  BY <1>1, <1>2

\* The innermost frame.
LEMMA InFrameFacts ==
  ASSUME CInv, NEW a, NEW c, InFrame(a, c)
  PROVE  /\ stack # << >> /\ stack \in Seq(FrameSet) /\ Len(stack) \in Nat \ {0}
         /\ Head(stack) = stack[1] /\ stack[1] \in FrameSet /\ stack[1].at = a /\ stack[1].cmd = c
         /\ c \in Cmds /\ FrameOK(1, stack[1])
<1>1. stack # << >> /\ stack \in Seq(FrameSet) /\ Frames
  BY DEF CInv, InFrame, TypeOK, FrameSet
<1>2. Len(stack) \in Nat \ {0} /\ Head(stack) = stack[1] /\ stack[1] \in FrameSet
  BY <1>1, StackFacts
<1>3. FrameOK(1, stack[1])
  BY <1>1, <1>2 DEF Frames
<1>4. QED
  BY <1>1, <1>2, <1>3 DEF InFrame, FrameSet

-----------------------------------------------------------------------------
LEMMA CInit == Init => CInv
<1> SUFFICES ASSUME Init PROVE CInv
  OBVIOUS
<1> USE ComAssumption DEF Init
<1>1. stack = <<Frame("start", Root)>> /\ Len(stack) = 1 /\ stack[1] = Frame("start", Root)
  OBVIOUS
<1>2. Frame("start", Root) \in FrameSet /\ Frame("start", Root).at = "start" /\ Frame("start", Root).cmd = Root
      /\ ~Frame("start", Root).failed
  BY FrameFacts DEF FrameKinds
<1>3. TypeOK
  <2>1. stack \in Seq(FrameSet)
    BY <1>1, <1>2
  <2>2. posted \in Seq(Cmds)
    OBVIOUS
  <2>3. op \in [Cmds -> {"none", "open", "closed"}] /\ parent \in [Cmds -> Cmds \cup {NoCmd}]
        /\ result \in [Cmds -> {0, 1}] /\ got \in [Cmds -> {0, 1}] /\ answered \in [Cmds -> 0 .. 1]
    OBVIOUS
  <2>4. shape \in Shapes /\ listed \subseteq Cmds /\ stop = {} /\ waits = {} /\ pw = {} /\ ret = TRUE /\ quit = FALSE
    OBVIOUS
  <2>5. QED
    BY <2>1, <2>2, <2>3, <2>4 DEF TypeOK, FrameSet
<1>4. Tree
  <2>1. \A c \in Cmds : parent[c] = NoCmd
    OBVIOUS
  <2>2. QED
    BY <2>1 DEF Tree
<1>5. Lives
  BY DEF Lives, Created
<1>6. Turns
  <2>1. \A c \in Cmds : Unanswered(c) = {}
    BY DEF Unanswered
  <2>2. QED
    BY <2>1 DEF Turns
<1>7. Frames
  BY <1>1, <1>2 DEF Frames, FrameOK, Created
<1>8. Results
  BY DEF Results
<1>9. Closing
  BY DEF Closing
<1>10. QED
  BY <1>3, <1>4, <1>5, <1>6, <1>7, <1>8, <1>9 DEF CInv

\* on_complete(): of the primary, of a pipeline's writer, and of all others.
LEMMA OnCompleteFacts ==
  ASSUME CInv, NEW c \in Cmds, OnComplete(c)
  PROVE  /\ stack # << >> /\ answered[c] = 0 /\ op[c] # "open"
         /\ UNCHANGED <<listed, parent, op, result, posted, stop, waits, ret, quit, shape>>
         /\ \/ /\ parent[c] = NoCmd /\ c = Root
               /\ stack' = <<Become("free")>> \o Below /\ UNCHANGED <<got, pw, answered>>
            \/ /\ parent[c] \in Cmds /\ c \in pw
               /\ answered' = [answered EXCEPT ![c] = 1] /\ pw' = pw \ {c} /\ got' = got
               /\ stack' = <<Become("free")>> \o Below
            \/ /\ parent[c] \in Cmds /\ c \notin pw
               /\ answered' = [answered EXCEPT ![c] = 1] /\ pw' = pw
               /\ got' = [got EXCEPT ![parent[c]] = result[c]]
               /\ stack' = <<Frame("run", parent[c]), Become("free")>> \o Below
<1>1. InFrame("destroy", c) /\ UNCHANGED <<listed, parent, op, result, posted, stop, waits, ret, quit, shape>>
  BY DEF OnComplete
<1>2. stack # << >> /\ answered[c] = 0 /\ op[c] # "open" /\ Created(c)
  BY <1>1, InFrameFacts DEF FrameOK
<1>3. parent[c] \in Cmds \cup {NoCmd}
  BY DEF CInv, TypeOK
<1>4. CASE parent[c] = NoCmd
  BY <1>1, <1>2, <1>4 DEF OnComplete, Created
<1>5. CASE parent[c] # NoCmd /\ IsWriter(c)
  <2>1. answered' = [answered EXCEPT ![c] = @ + 1] /\ pw' = pw \ {c} /\ got' = got /\ stack' = <<Become("free")>> \o Below
    BY <1>5 DEF OnComplete
  <2>2. QED
    BY <1>1, <1>2, <1>3, <1>5, <2>1 DEF IsWriter
<1>6. CASE parent[c] # NoCmd /\ ~IsWriter(c)
  <2>1. /\ answered' = [answered EXCEPT ![c] = @ + 1] /\ pw' = pw /\ got' = [got EXCEPT ![parent[c]] = result[c]]
        /\ stack' = <<Frame("run", parent[c]), Become("free")>> \o Below
    BY <1>6 DEF OnComplete
  <2>2. QED
    BY <1>1, <1>2, <1>3, <1>6, <2>1 DEF IsWriter
<1>7. QED
  BY <1>4, <1>5, <1>6

\* Every step keeps the types.
LEMMA CTypesStep ==
  ASSUME CInv, [Next]_vars PROVE TypeOK'
<1>1. TypeOK /\ stack \in Seq(FrameSet)
  BY DEF CInv, TypeOK, FrameSet
<1>2. FrameKinds = {"start", "run", "called", "destroy", "free"}
  BY DEF FrameKinds
<1>3. stack # << >> => Below \in Seq(FrameSet)
  BY <1>1, StackFacts
<1>4. \A f \in FrameSet : stack # << >> => <<f>> \o Below \in Seq(FrameSet)
  BY <1>1, TopChanged
<1>5. \A f, g \in FrameSet : stack # << >> => <<f, g>> \o Below \in Seq(FrameSet)
  BY <1>1, TopPushed DEF Pushed
<1>6. stack # << >> => \A a \in FrameKinds : Become(a) \in FrameSet /\ [Become(a) EXCEPT !.failed = TRUE] \in FrameSet
  BY <1>1, FrameFacts
<1>7. \A a \in FrameKinds, c \in Cmds : Frame(a, c) \in FrameSet
  BY FrameFacts
<1>8. \A c \in Cmds : Append(posted, c) \in Seq(Cmds)
  BY <1>1 DEF TypeOK
<1>9. CASE Signal
  BY <1>1, <1>9 DEF Signal, Reached, TypeOK
<1>10. CASE UNCHANGED vars
  BY <1>1, <1>10 DEF vars, TypeOK
<1>11. ASSUME NEW c \in Cmds, Act(c) PROVE TypeOK'
  <2>1. CASE Started(c)
    <3>1. stack' \in Seq(FrameSet) /\ posted' \in Seq(Cmds)
      BY <1>1, <1>2, <1>3, <1>4, <1>6, <1>8, <2>1 DEF Started, InFrame, TypeOK
    <3>2. op' \in [Cmds -> {"none", "open", "closed"}] /\ ret' \in BOOLEAN
      BY <1>1, <2>1 DEF Started, TypeOK
    <3>3. QED
      BY <1>1, <2>1, <3>1, <3>2 DEF Started, TypeOK, FrameSet
  <2>2. CASE StartFails(c)
    <3>1. stack' \in Seq(FrameSet)
      BY <1>1, <1>2, <1>4, <1>6, <2>2 DEF StartFails, InFrame
    <3>2. QED
      BY <1>1, <2>2, <3>1 DEF StartFails, TypeOK, FrameSet
  <2>3. CASE CallRun(c)
    <3>1. stack' \in Seq(FrameSet)
      BY <1>2, <1>7, <2>3 DEF CallRun
    <3>2. posted' \in Seq(Cmds)
      BY <1>1, <2>3 DEF CallRun, TypeOK
    <3>3. QED
      BY <1>1, <2>3, <3>1, <3>2 DEF CallRun, TypeOK, FrameSet
  <2>4. CASE Async(c)
    <3>1. stack' \in Seq(FrameSet) /\ posted' \in Seq(Cmds)
      BY <1>1, <1>3, <1>8, <2>4 DEF Async, Running, InFrame
    <3>2. QED
      BY <1>1, <2>4, <3>1 DEF Async, TypeOK, FrameSet
  <2>5. CASE Begin(c)
    <3>1. PICK d \in Cmds : StartOne(c, d) \/ StartWriter(c, d) \/ StartReader(c, d)
      BY <2>5 DEF Begin
    <3>2. StartChild(c, d) /\ stack # << >>
      BY <3>1 DEF StartOne, StartWriter, StartReader, Running, InFrame
    <3>3. stack' \in Seq(FrameSet)
      BY <1>2, <1>5, <1>6, <1>7, <3>2 DEF StartChild
    <3>4. waits' \subseteq Cmds /\ pw' \subseteq Cmds
      BY <1>1, <3>1 DEF StartOne, StartWriter, StartReader, TypeOK
    <3>5. listed' \subseteq Cmds /\ parent' \in [Cmds -> Cmds \cup {NoCmd}]
      BY <1>1, <3>2 DEF StartChild, TypeOK
    <3>6. QED
      BY <1>1, <3>2, <3>3, <3>4, <3>5 DEF StartChild, TypeOK, FrameSet
  <2>6. CASE Wait(c)
    <3>1. stack' \in Seq(FrameSet)
      BY <1>3, <2>6 DEF Wait, InFrame
    <3>2. QED
      BY <1>1, <2>6, <3>1 DEF Wait, TypeOK, FrameSet
  <2>7. ASSUME stack # << >>, NEW rc \in {0, 1}, End(c, rc) PROVE TypeOK'
    <3>1. stack' \in Seq(FrameSet)
      BY <1>2, <1>4, <1>6, <2>7 DEF End
    <3>2. op' \in [Cmds -> {"none", "open", "closed"}] /\ result' \in [Cmds -> {0, 1}]
      BY <1>1, <2>7 DEF End, TypeOK
    <3>3. QED
      BY <1>1, <2>7, <3>1, <3>2 DEF End, TypeOK, FrameSet
  <2>8. CASE StartFailed(c) \/ Ends(c) \/ Stops(c)
    BY <2>7, <2>8 DEF StartFailed, Ends, Stops, Running, InFrame
  <2>9. CASE NextInput(c)
    BY <1>1, <2>9 DEF NextInput, TypeOK
  <2>10. CASE OnComplete(c)
    <3>0. /\ stack # << >>
          /\ answered' \in {answered, [answered EXCEPT ![c] = 1]} /\ pw' \in {pw, pw \ {c}}
          /\ got' = got \/ (parent[c] \in Cmds /\ got' = [got EXCEPT ![parent[c]] = result[c]])
          /\ \/ stack' = <<Become("free")>> \o Below
             \/ parent[c] \in Cmds /\ stack' = <<Frame("run", parent[c]), Become("free")>> \o Below
      BY <2>10, OnCompleteFacts
    <3>1. stack' \in Seq(FrameSet)
      <4>1. Become("free") \in FrameSet /\ (parent[c] \in Cmds => Frame("run", parent[c]) \in FrameSet)
        BY <1>2, <1>6, <1>7, <3>0
      <4>2. <<Become("free")>> \o Below \in Seq(FrameSet)
        BY <1>4, <3>0, <4>1
      <4>3. parent[c] \in Cmds => <<Frame("run", parent[c]), Become("free")>> \o Below \in Seq(FrameSet)
        BY <1>5, <3>0, <4>1
      <4>4. QED
        BY <3>0, <4>2, <4>3
    <3>2. answered' \in [Cmds -> 0 .. 1] /\ pw' \subseteq Cmds
      <4>1. answered \in [Cmds -> 0 .. 1] /\ pw \subseteq Cmds
        BY <1>1 DEF TypeOK
      <4>2. QED
        BY <3>0, <4>1
    <3>3. got' \in [Cmds -> {0, 1}]
      <4>1. got \in [Cmds -> {0, 1}] /\ result \in [Cmds -> {0, 1}]
        BY <1>1 DEF TypeOK
      <4>2. result[c] \in {0, 1}
        BY <4>1
      <4>3. QED
        BY <3>0, <4>1, <4>2
    <3>4. QED
      BY <1>1, <2>10, <3>1, <3>2, <3>3 DEF OnComplete, TypeOK, FrameSet
  <2>11. CASE Free(c)
    <3>1. stack' \in Seq(FrameSet)
      BY <1>3, <2>11 DEF Free, InFrame
    <3>2. ret' \in BOOLEAN /\ quit' \in BOOLEAN
      BY <2>11 DEF Free
    <3>3. QED
      BY <1>1, <2>11, <3>1, <3>2 DEF Free, TypeOK, FrameSet
  <2>12. QED
    BY <1>11, <2>1, <2>2, <2>3, <2>4, <2>5, <2>6, <2>8, <2>9, <2>10, <2>11 DEF Act
<1>12. QED
  BY <1>9, <1>10, <1>11 DEF Next, Step

-----------------------------------------------------------------------------
(* What the longer actions come to under the invariant. *)

LEMMA SafeFacts ==
  ASSUME CInv, SafeShapes
  PROVE  /\ (\E c \in Cmds : Kind(c) = "unpack") => "start" \notin shape.may
         /\ (\E c \in Cmds : Kind(c) = "pair") => shape.may \subseteq {"writer"}
BY DEF CInv, TypeOK, SafeShapes, Kind

\* When an operation is run, none but a pipeline's writer is still to answer.
LEMMA RunningFacts ==
  ASSUME CInv, NEW c \in Cmds, InFrame("run", c)
  PROVE  /\ op[c] = "open" /\ ~Queued(c)
         /\ \A d \in Unanswered(c) : d \in pw /\ c \in waits /\ Kind(c) = "pair"
<1>1. Turns
  BY DEF CInv
<1>2. op[c] = "open"
  BY InFrameFacts DEF FrameOK
<1>3. ~Queued(c)
  BY <1>1 DEF Turns, Queued
<1>4. \A d \in Unanswered(c) : d \in pw /\ c \in waits
  BY <1>1 DEF Turns, Runnable
<1>5. \A d \in pw : Kind(parent[d]) = "pair"
  BY <1>1 DEF Turns
<1>6. QED
  BY <1>2, <1>3, <1>4, <1>5 DEF Unanswered

\* com->run() returns to unpack or a pipeline.
LEMMA CalledFacts ==
  ASSUME CInv, NEW c \in Cmds, InFrame("called", c), Kind(c) # "copy"
  PROVE  Kind(c) \in {"unpack", "pair"} /\ Called(1, c)
BY InFrameFacts DEF FrameOK, Parents

\* A child is created and started.
LEMMA BeginFacts ==
  ASSUME CInv, NEW c \in Cmds, NEW d \in Cmds, StartOne(c, d) \/ StartWriter(c, d) \/ StartReader(c, d)
  PROVE  /\ stack # << >> /\ stack[1].at \in {"run", "called"} /\ stack[1].cmd = c /\ ~stack[1].failed
         /\ op[c] = "open" /\ ~Queued(c) /\ Kind(c) \in Parents /\ (Kind(c) = "pair" => Kind(d) = "leaf")
         /\ d # Root /\ d # c /\ parent[d] = NoCmd /\ op[d] = "none" /\ answered[d] = 0 /\ d \notin pw
         /\ d \notin listed /\ \A e \in Cmds : parent[e] # d
         /\ parent' = [parent EXCEPT ![d] = c] /\ listed' = listed \cup {d}
         /\ stack' = <<Frame("start", d), Become("called")>> \o Below
         /\ UNCHANGED <<op, result, got, posted, stop, ret, answered, quit, shape>>
         /\ \/ /\ Kind(c) # "pair" /\ Unanswered(c) = {} /\ pw' = pw
               /\ waits' = IF Kind(c) = "copy" THEN waits \cup {c} ELSE waits
            \/ Kind(c) = "pair" /\ Unanswered(c) = {} /\ pw' = pw \cup {d} /\ waits' = waits
            \/ Kind(c) = "pair" /\ pw' = pw /\ waits' = waits /\ \E w \in pw : Unanswered(c) = {w}
<1>1. StartChild(c, d) /\ d \in Fresh
  BY DEF StartOne, StartWriter, StartReader, StartChild
<1>2. d # Root /\ parent[d] = NoCmd /\ Lives /\ Turns
  BY <1>1 DEF Fresh, CInv
<1>3. op[d] = "none" /\ answered[d] = 0 /\ d \notin listed /\ d \notin pw
  BY <1>2 DEF Lives, Turns, Created
<1>4. \A e \in Cmds : parent[e] # d
  BY <1>2, <1>3 DEF Lives
<1>5. /\ parent' = [parent EXCEPT ![d] = c] /\ listed' = listed \cup {d}
      /\ stack' = <<Frame("start", d), Become("called")>> \o Below
      /\ UNCHANGED <<op, result, got, posted, stop, ret, answered, quit, shape>>
  BY <1>1 DEF StartChild
<1>6. CASE StartOne(c, d) \/ StartWriter(c, d)
  <2>1. InFrame("run", c) /\ c \notin waits /\ Kind(c) \in Parents /\ (Kind(c) = "pair" => Kind(d) = "leaf")
    BY <1>6 DEF StartOne, StartWriter, Running, Parents
  <2>2. op[c] = "open" /\ ~Queued(c) /\ Unanswered(c) = {}
    BY <2>1, RunningFacts
  <2>3. stack # << >> /\ stack[1].at = "run" /\ stack[1].cmd = c /\ ~stack[1].failed
    BY <2>1, InFrameFacts DEF FrameOK
  <2>4. \/ Kind(c) # "pair" /\ pw' = pw /\ waits' = IF Kind(c) = "copy" THEN waits \cup {c} ELSE waits
        \/ Kind(c) = "pair" /\ pw' = pw \cup {d} /\ waits' = waits
    BY <1>6 DEF StartOne, StartWriter
  <2>5. QED
    BY <1>2, <1>3, <1>4, <1>5, <2>1, <2>2, <2>3, <2>4
<1>7. CASE StartReader(c, d)
  <2>1. InFrame("called", c) /\ ret /\ Kind(c) = "pair" /\ Kind(d) = "leaf" /\ Cardinality(Unanswered(c)) = 1
        /\ pw' = pw /\ waits' = waits
    BY <1>7 DEF StartReader
  <2>2. Called(1, c)
    BY <2>1, CalledFacts
  <2>3. op[c] = "open" /\ ~Queued(c) /\ Unanswered(c) \cap pw # {}
    BY <2>1, <2>2 DEF Called
  <2>4. \E w \in pw : Unanswered(c) = {w}
    <3>1. IsFiniteSet(Unanswered(c))
      <4>1. Unanswered(c) \subseteq Cmds /\ IsFiniteSet(Cmds)
        BY ComAssumption DEF Unanswered
      <4>2. QED
        BY <4>1, FS_Subset
    <3>2. \E w : Unanswered(c) = {w}
      BY <2>1, <3>1, FS_Singleton
    <3>3. QED
      BY <2>3, <3>2
  <2>5. stack # << >> /\ stack[1].at = "called" /\ stack[1].cmd = c /\ ~stack[1].failed
    BY <2>1, InFrameFacts DEF FrameOK
  <2>6. d # c
    BY <1>3, <2>3
  <2>7. QED
    BY <1>2, <1>3, <1>4, <1>5, <2>1, <2>3, <2>4, <2>5, <2>6 DEF Parents
<1>8. QED
  BY <1>6, <1>7

\* An operation ends: all its children have answered.
LEMMA EndFacts ==
  ASSUME CInv, SafeShapes, NEW c \in Cmds, StartFailed(c) \/ Ends(c) \/ Stops(c)
  PROVE  /\ stack # << >> /\ stack[1].cmd = c /\ ~stack[1].failed /\ stack[1].at \in {"run", "called"}
         /\ op[c] = "open" /\ ~Queued(c) /\ Unanswered(c) = {}
         /\ \E rc \in {0, 1} :
              /\ result' = [result EXCEPT ![c] = rc]
              /\ Kind(c) = "leaf" /\ (\E x \in Cmds : Kind(x) = "pair") => rc = 0
         /\ op' = [op EXCEPT ![c] = "closed"] /\ stack' = <<Become("destroy")>> \o Below
         /\ UNCHANGED <<listed, parent, got, posted, stop, waits, pw, ret, answered, quit, shape>>
<1>1. Results /\ Turns
  BY DEF CInv
<1>2. CASE StartFailed(c)
  <2>1. InFrame("called", c) /\ Kind(c) # "copy" /\ ~ret /\ End(c, 1)
    BY <1>2 DEF StartFailed
  <2>2. Called(1, c)
    BY <2>1, CalledFacts
  <2>3. op[c] = "open" /\ ~Queued(c) /\ Unanswered(c) = {} /\ Kind(c) = "pair"
    BY <2>1, <2>2 DEF Called
  <2>4. stack # << >> /\ stack[1].at = "called" /\ stack[1].cmd = c /\ ~stack[1].failed
    BY <2>1, InFrameFacts DEF FrameOK
  <2>5. QED
    BY <2>1, <2>3, <2>4 DEF End
<1>3. CASE Ends(c) \/ Stops(c)
  <2>1. InFrame("run", c)
    BY <1>3 DEF Ends, Stops, Running
  <2>2. op[c] = "open" /\ ~Queued(c) /\ \A d \in Unanswered(c) : d \in pw /\ c \in waits /\ Kind(c) = "pair"
    BY <2>1, RunningFacts
  <2>3. stack # << >> /\ stack[1].at = "run" /\ stack[1].cmd = c /\ ~stack[1].failed
    BY <2>1, InFrameFacts DEF FrameOK
  <2>4. CASE Stops(c)
    <3>1. "signal" \in shape.may
      BY <1>1, <2>4 DEF Stops, Results
    <3>2. \A x \in Cmds : Kind(x) # "pair"
      BY <3>1, SafeFacts
    <3>3. End(c, 1)
      BY <2>4 DEF Stops
    <3>4. QED
      BY <2>2, <2>3, <3>2, <3>3 DEF End
  <2>5. CASE Ends(c)
    <3>1. PICK rc \in {0, 1} :
            /\ rc = 1 => MayFail("run") \/ got[c] = 1
            /\ \/ Kind(c) \in {"leaf", "copy"} \/ c \notin waits
               \/ got[c] = 1 /\ rc = 1
               \/ Kind(c) = "pair" /\ got[c] = 0 /\ rc = 0 /\ ~WriterRuns(c)
            /\ End(c, rc)
      BY <2>5 DEF Ends
    <3>2. Kind(c) \in {"leaf", "pair"} => got[c] = 0
      BY <1>1 DEF Results
    <3>3. Unanswered(c) = {}
      <4>1. SUFFICES ASSUME NEW d \in Unanswered(c) PROVE FALSE
        OBVIOUS
      <4>2. d \in pw /\ c \in waits /\ Kind(c) = "pair" /\ parent[d] = c
        BY <2>2 DEF Unanswered
      <4>3. ~WriterRuns(c)
        BY <3>1, <3>2, <4>2
      <4>4. QED
        BY <4>2, <4>3 DEF WriterRuns
    <3>4. Kind(c) = "leaf" /\ (\E x \in Cmds : Kind(x) = "pair") => rc = 0
      BY <3>1, <3>2, SafeFacts DEF MayFail
    <3>5. QED
      BY <2>2, <2>3, <3>1, <3>3, <3>4 DEF End
  <2>6. QED
    BY <1>3, <2>4, <2>5
<1>4. QED
  BY <1>2, <1>3

\* An operation that returns to wait for the kernel or a pipe, or for a child.
LEMMA AsyncFacts ==
  ASSUME CInv, NEW c \in Cmds, Async(c)
  PROVE  /\ stack # << >> /\ stack[1].at = "run" /\ stack[1].cmd = c /\ ~stack[1].failed
         /\ op[c] = "open" /\ ~Queued(c) /\ stack' = Below /\ posted' = Append(posted, c)
         /\ \A d \in Unanswered(c) : d \in pw /\ c \in waits
         /\ UNCHANGED <<listed, parent, op, result, got, stop, waits, pw, ret, answered, quit, shape>>
<1>1. InFrame("run", c)
  BY DEF Async, Running
<1>2. stack # << >> /\ stack[1].at = "run" /\ stack[1].cmd = c /\ ~stack[1].failed
  BY <1>1, InFrameFacts DEF FrameOK
<1>3. QED
  BY <1>1, <1>2, RunningFacts DEF Async

\* What never goes back.
LEMMA Monotone ==
  ASSUME CInv, SafeShapes, [Next]_vars
  PROVE  /\ shape' = shape
         /\ \A c \in Cmds : parent[c] # NoCmd => parent'[c] = parent[c]
         /\ \A c \in Cmds : op[c] # "open" => op'[c] = op[c] \/ InFrame("start", c)
         /\ \A c \in Cmds : answered[c] = 1 => answered'[c] = 1
<1>1. op \in [Cmds -> {"none", "open", "closed"}] /\ answered \in [Cmds -> 0 .. 1] /\ parent \in [Cmds -> Cmds \cup {NoCmd}]
  BY DEF CInv, TypeOK
<1>2. CASE Signal \/ UNCHANGED vars
  BY <1>2 DEF Signal, vars
<1>3. ASSUME NEW c \in Cmds, Act(c)
      PROVE  /\ shape' = shape
             /\ \A x \in Cmds : parent[x] # NoCmd => parent'[x] = parent[x]
             /\ \A x \in Cmds : op[x] # "open" => op'[x] = op[x] \/ InFrame("start", x)
             /\ \A x \in Cmds : answered[x] = 1 => answered'[x] = 1
  <2>1. CASE Started(c)
    BY <1>1, <2>1 DEF Started
  <2>2. CASE StartFails(c) \/ CallRun(c) \/ Async(c) \/ Wait(c) \/ NextInput(c) \/ Free(c)
    BY <2>2 DEF StartFails, CallRun, Async, Wait, NextInput, Free
  <2>3. CASE Begin(c)
    <3>1. PICK d \in Cmds : StartOne(c, d) \/ StartWriter(c, d) \/ StartReader(c, d)
      BY <2>3 DEF Begin
    <3>2. parent[d] = NoCmd /\ parent' = [parent EXCEPT ![d] = c] /\ UNCHANGED <<op, answered, shape>>
      BY <3>1, BeginFacts
    <3>3. QED
      BY <1>1, <3>2
  <2>4. CASE StartFailed(c) \/ Ends(c) \/ Stops(c)
    <3>1. op[c] = "open" /\ op' = [op EXCEPT ![c] = "closed"] /\ UNCHANGED <<parent, answered, shape>>
      BY <2>4, EndFacts
    <3>2. QED
      BY <1>1, <3>1
  <2>5. CASE OnComplete(c)
    <3>1. UNCHANGED <<parent, op, shape>> /\ answered' \in {answered, [answered EXCEPT ![c] = 1]}
      BY <2>5, OnCompleteFacts
    <3>2. QED
      BY <1>1, <3>1
  <2>6. QED
    BY <1>3, <2>1, <2>2, <2>3, <2>4, <2>5 DEF Act
<1>4. QED
  BY <1>2, <1>3 DEF Next, Step

-----------------------------------------------------------------------------
\* A frame below the innermost one that does not look at its operation again stays good.
Still(f) == f.at = "free" \/ (f.at = "called" /\ Kind(f.cmd) = "copy")

LEMMA StillKept ==
  ASSUME CInv, SafeShapes, [Next]_vars, NEW k \in 2 .. Len(stack), NEW f, f = stack[k], Still(f), NEW j
  PROVE  FrameOK(j, f)'
<1>1. Frames /\ Lives /\ stack \in Seq(FrameSet) /\ Len(stack) \in Nat
  BY DEF CInv, TypeOK, FrameSet
<1>2. FrameOK(k, f) /\ f \in FrameSet /\ f.cmd \in Cmds
  <2>1. FrameOK(k, stack[k]) /\ stack[k] \in FrameSet
    BY <1>1 DEF Frames
  <2>2. QED
    BY <2>1 DEF FrameSet
<1>3. Created(f.cmd)'
  BY <1>2, Monotone DEF FrameOK, Created
<1>4. shape' = shape
  BY Monotone
<1>5. CASE f.at = "called" /\ Kind(f.cmd) = "copy"
  BY <1>2, <1>3, <1>4, <1>5 DEF FrameOK, Kind
<1>6. CASE f.at = "free"
  <2>1. op[f.cmd] # "open" /\ (f.cmd # Root => answered[f.cmd] = 1)
    BY <1>2, <1>6 DEF FrameOK
  <2>2. ~InFrame("start", f.cmd)
    <3>1. SUFFICES ASSUME InFrame("start", f.cmd) PROVE FALSE
      OBVIOUS
    <3>2. answered[f.cmd] = 0 /\ (f.cmd = Root => Len(stack) = 1)
      BY <3>1, InFrameFacts DEF FrameOK
    <3>3. QED
      BY <2>1, <3>2
  <2>3. op'[f.cmd] # "open" /\ (f.cmd # Root => answered'[f.cmd] = 1)
    BY <1>2, <2>1, <2>2, Monotone
  <2>4. QED
    BY <1>3, <1>6, <2>3 DEF FrameOK
<1>7. QED
  BY <1>5, <1>6 DEF Still

\* Below all but the error exits of com->run() there are no other frames.
LEMMA StillBelow ==
  ASSUME CInv, stack # << >>, stack[1].at # "start", ~stack[1].failed, NEW k \in 2 .. Len(stack)
  PROVE  Still(stack[k])
<1>1. FrameOK(k, stack[k]) /\ k \in 1 .. Len(stack)
  BY DEF CInv, Frames
<1>2. CASE stack[k].at = "called" /\ Kind(stack[k].cmd) # "copy"
  <2>1. Called(k, stack[k].cmd)
    BY <1>1, <1>2 DEF FrameOK
  <2>2. QED
    BY <2>1 DEF Called
<1>3. QED
  BY <1>1, <1>2 DEF FrameOK, Still

\* Every frame is good.
LEMMA EachFrame ==
  ASSUME CInv
  PROVE  /\ stack \in Seq(FrameSet) /\ Len(stack) \in Nat
         /\ \A k \in 1 .. Len(stack) : FrameOK(k, stack[k]) /\ stack[k] \in FrameSet /\ stack[k].cmd \in Cmds
<1>1. stack \in Seq(FrameSet) /\ Frames
  BY DEF CInv, TypeOK, FrameSet
<1>2. \A k \in 1 .. Len(stack) : FrameOK(k, stack[k])
  BY <1>1 DEF Frames
<1>3. Len(stack) \in Nat /\ \A k \in 1 .. Len(stack) : stack[k] \in FrameSet
  BY <1>1
<1>4. QED
  BY <1>1, <1>2, <1>3 DEF FrameSet

\* The one frame that may look at its operation again: com->run() of unpack or a pipeline.
LEMMA PatientFacts ==
  ASSUME CInv, NEW k \in 2 .. Len(stack), ~Still(stack[k])
  PROVE  /\ k = 2 /\ stack[2] \in FrameSet /\ stack[2].at = "called" /\ ~stack[2].failed
         /\ Created(stack[2].cmd) /\ Kind(stack[2].cmd) \in {"unpack", "pair"}
         /\ Called(2, stack[2].cmd) /\ parent[stack[1].cmd] = stack[2].cmd
<1>1. FrameOK(k, stack[k]) /\ stack[k] \in FrameSet
  BY EachFrame
<1>2. stack[k].at = "called" /\ Kind(stack[k].cmd) # "copy" /\ Kind(stack[k].cmd) \in Parents /\ ~stack[k].failed
  BY <1>1 DEF FrameOK, Still
<1>3. Called(k, stack[k].cmd) /\ Created(stack[k].cmd)
  BY <1>1, <1>2 DEF FrameOK
<1>4. k = 2 /\ parent[stack[1].cmd] = stack[k].cmd
  BY <1>3 DEF Called
<1>5. QED
  BY <1>1, <1>2, <1>3, <1>4 DEF Parents

\* A pop: what was below stays good.
LEMMA FramesPopped ==
  ASSUME CInv, SafeShapes, [Next]_vars, stack # << >>, stack' = Below,
         \A k \in 2 .. Len(stack) : Still(stack[k]) \/ FrameOK(1, stack[1])'
  PROVE  Frames'
<1>1. stack \in Seq(FrameSet)
  BY DEF CInv, TypeOK, FrameSet
<1>2. /\ Len(stack) \in Nat \ {0} /\ Len(stack') = Len(stack) - 1 /\ \A k \in 1 .. Len(stack') : stack'[k] = stack[k + 1]
  BY <1>1, StackFacts
<1>3. SUFFICES ASSUME NEW k \in 1 .. Len(stack') PROVE FrameOK(k, stack[k])'
  BY DEF Frames
<1>4. k + 1 \in 2 .. Len(stack)
  BY <1>2
<1>5. PICK f : f = stack[k + 1]
  OBVIOUS
<1>6. CASE Still(f)
  <2>1. FrameOK(k, f)' /\ f = stack'[k]
    BY <1>2, <1>4, <1>5, <1>6, StillKept
  <2>2. QED
    BY <2>1
<1>7. CASE ~Still(f)
  <2>1. k = 1
    BY <1>2, <1>4, <1>5, <1>7, PatientFacts
  <2>2. QED
    BY <1>4, <1>5, <1>7, <2>1
<1>8. QED
  BY <1>6, <1>7

\* Another innermost frame.
LEMMA FramesChanged ==
  ASSUME CInv, SafeShapes, [Next]_vars, stack # << >>,
         NEW f \in FrameSet, stack' = <<f>> \o Below, FrameOK(1, f)',
         \A k \in 2 .. Len(stack) : Still(stack[k]) \/ FrameOK(2, stack[2])'
  PROVE  Frames'
<1>1. stack \in Seq(FrameSet)
  BY DEF CInv, TypeOK, FrameSet
<1>2. /\ Len(stack) \in Nat \ {0} /\ Len(stack') = Len(stack) /\ stack'[1] = f
      /\ \A k \in 2 .. Len(stack) : stack'[k] = stack[k]
  <2>1. Len(stack) \in Nat \ {0}
    BY <1>1
  <2>2. PICK s : s = stack' /\ s = <<f>> \o Below
    OBVIOUS
  <2>3. Len(s) = Len(stack) /\ s[1] = f /\ \A k \in 2 .. Len(stack) : s[k] = stack[k]
    BY <1>1, <2>2, TopChanged
  <2>4. QED
    BY <2>1, <2>2, <2>3
<1>3. SUFFICES ASSUME NEW k \in 1 .. Len(stack') PROVE FrameOK(k, stack[k])'
  BY DEF Frames
<1>4. CASE k = 1
  BY <1>2, <1>4
<1>5. CASE k \in 2 .. Len(stack) /\ Still(stack[k])
  <2>1. PICK g : g = stack[k]
    OBVIOUS
  <2>2. FrameOK(k, g)' /\ g = stack'[k]
    BY <1>2, <1>5, <2>1, StillKept
  <2>3. QED
    BY <2>2
<1>6. CASE k \in 2 .. Len(stack) /\ ~Still(stack[k])
  <2>1. k = 2
    BY <1>6, PatientFacts
  <2>2. QED
    BY <1>6, <2>1
<1>7. QED
  BY <1>2, <1>4, <1>5, <1>6

\* Two frames in the place of the innermost one.
LEMMA FramesPushed ==
  ASSUME CInv, SafeShapes, [Next]_vars, stack # << >>, \A k \in 2 .. Len(stack) : Still(stack[k]),
         NEW f \in FrameSet, NEW g \in FrameSet, stack' = <<f, g>> \o Below, FrameOK(1, f)', FrameOK(2, g)'
  PROVE  Frames'
<1>1. stack \in Seq(FrameSet)
  BY DEF CInv, TypeOK, FrameSet
<1>2. /\ Len(stack) \in Nat \ {0} /\ Len(stack') = Len(stack) + 1 /\ stack'[1] = f /\ stack'[2] = g
      /\ \A k \in 3 .. Len(stack') : stack'[k] = stack[k - 1]
  <2>1. Len(stack) \in Nat \ {0}
    BY <1>1
  <2>2. PICK s : s = stack' /\ s = <<f, g>> \o Below
    OBVIOUS
  <2>3. Len(s) = Len(stack) + 1 /\ s[1] = f /\ s[2] = g /\ \A k \in 3 .. Len(s) : s[k] = stack[k - 1]
    <3>1. s = <<f, g>> \o Below
      BY <2>2
    <3>2. QED
      <4>1. Pushed(s, f, g)
        BY <1>1, <3>1, TopPushed
      <4>2. QED
        BY <4>1 DEF Pushed
  <2>4. QED
    BY <2>1, <2>2, <2>3
<1>3. SUFFICES ASSUME NEW k \in 1 .. Len(stack') PROVE FrameOK(k, stack[k])'
  BY DEF Frames
<1>4. CASE k = 1
  BY <1>2, <1>4
<1>5. CASE k = 2
  BY <1>2, <1>5
<1>6. CASE k \in 3 .. Len(stack')
  <2>1. k - 1 \in 2 .. Len(stack)
    BY <1>2, <1>6
  <2>2. PICK h : h = stack[k - 1]
    OBVIOUS
  <2>3. FrameOK(k, h)' /\ h = stack'[k]
    BY <1>2, <1>6, <2>1, <2>2, StillKept
  <2>4. QED
    BY <2>3
<1>7. QED
  BY <1>2, <1>4, <1>5, <1>6

\* The same stack, when only a flag of the operation that runs changes.
LEMMA FramesSame ==
  ASSUME CInv, SafeShapes, [Next]_vars, stack # << >>, stack' = stack, stack[1].at = "run", ~stack[1].failed, op' = op
  PROVE  Frames'
<1>1. Len(stack) \in Nat \ {0} /\ FrameOK(1, stack[1]) /\ stack[1] \in FrameSet
  <2>1. Len(stack) \in Nat \ {0}
    BY EachFrame
  <2>2. QED
    BY <2>1, EachFrame
<1>2. SUFFICES ASSUME NEW k \in 1 .. Len(stack') PROVE FrameOK(k, stack[k])'
  BY DEF Frames
<1>3. CASE k = 1
  <2>1. Created(stack[1].cmd)'
    <3>1. Created(stack[1].cmd) /\ stack[1].cmd \in Cmds
      BY <1>1 DEF FrameOK, FrameSet
    <3>2. QED
      BY <3>1, Monotone DEF Created
  <2>2. op[stack[1].cmd] = "open"
    BY <1>1 DEF FrameOK
  <2>3. QED
    BY <1>3, <2>1, <2>2 DEF FrameOK
<1>4. CASE k \in 2 .. Len(stack)
  <2>1. PICK g : g = stack[k]
    OBVIOUS
  <2>2. FrameOK(k, g)' /\ g = stack'[k]
    BY <1>4, <2>1, StillBelow, StillKept
  <2>3. QED
    BY <2>2
<1>5. QED
  BY <1>1, <1>3, <1>4
-----------------------------------------------------------------------------
(* One lemma per action: the stack after it. *)

LEMMA FramesStarted ==
  ASSUME CInv, SafeShapes, [Next]_vars, NEW c \in Cmds, Started(c) PROVE Frames'
<1>1. /\ stack # << >> /\ stack[1].at = "start" /\ stack[1].cmd = c /\ stack[1] \in FrameSet
      /\ FrameOK(1, stack[1]) /\ stack \in Seq(FrameSet) /\ Len(stack) \in Nat \ {0}
  BY InFrameFacts DEF Started
<1>2. Created(c) /\ op[c] = "none" /\ c \in listed /\ answered[c] = 0 /\ ~stack[1].failed
      /\ (c = Root => Len(stack) = 1)
  BY <1>1 DEF FrameOK
<1>3. /\ op' = [op EXCEPT ![c] = "open"] /\ ret' = TRUE
      /\ IF parent[c] = NoCmd THEN stack' = <<Become("run")>> \o Below /\ posted' = posted
         ELSE stack' = Below /\ posted' = Append(posted, c)
      /\ UNCHANGED <<parent, waits, pw, answered, shape>>
  BY DEF Started
<1>4. op \in [Cmds -> {"none", "open", "closed"}] /\ posted \in Seq(Cmds)
  BY DEF CInv, TypeOK
<1>5. CASE parent[c] = NoCmd
  <2>1. c = Root /\ Len(stack) = 1
    BY <1>2, <1>5 DEF Created
  <2>2. PICK f \in FrameSet : f = Become("run") /\ f.at = "run" /\ f.cmd = c /\ ~f.failed
    BY <1>1, <1>2, FrameFacts DEF FrameKinds
  <2>3. FrameOK(1, f)'
    BY <1>3, <1>4, <2>1, <2>2 DEF FrameOK, Created
  <2>4. stack' = <<f>> \o Below
    BY <1>3, <1>5, <2>2
  <2>5. QED
    BY <1>1, <2>1, <2>3, <2>4, FramesChanged
<1>6. CASE parent[c] # NoCmd
  <2>1. ASSUME NEW k \in 2 .. Len(stack), ~Still(stack[k]) PROVE FrameOK(1, stack[1])'
    <3>1. PICK g : g = stack[2] /\ g = stack'[1]
      <4>1. k = 2 /\ 2 \in 2 .. Len(stack)
        BY <2>1, PatientFacts
      <4>2. Below[1] = stack[2]
        BY <1>1, <4>1, StackFacts
      <4>3. QED
        BY <1>3, <1>6, <4>2
    <3>2. /\ g.at = "called" /\ ~g.failed /\ Created(g.cmd) /\ Kind(g.cmd) \in {"unpack", "pair"}
          /\ Called(2, g.cmd) /\ parent[c] = g.cmd
      <4>1. /\ stack[2].at = "called" /\ ~stack[2].failed /\ Created(stack[2].cmd) /\ Kind(stack[2].cmd) \in {"unpack", "pair"}
            /\ Called(2, stack[2].cmd) /\ parent[stack[1].cmd] = stack[2].cmd
        BY <2>1, PatientFacts
      <4>2. QED
        BY <1>1, <3>1, <4>1
    <3>3. op[g.cmd] = "open" /\ ~Queued(g.cmd) /\ (Kind(g.cmd) = "pair" => Unanswered(g.cmd) \cap pw # {})
      BY <1>1, <3>2 DEF Called
    <3>4. g.cmd # c
      BY <1>2, <3>3
    <3>5. ~Queued(g.cmd)'
      BY <1>3, <1>4, <1>6, <3>3, <3>4 DEF Queued
    <3>6. op'[g.cmd] = "open"
      BY <1>3, <1>4, <3>3, <3>4
    <3>7. (Kind(g.cmd) = "pair" => Unanswered(g.cmd) \cap pw # {})' /\ Created(g.cmd)' /\ (Kind(g.cmd) \in Parents)'
      BY <1>3, <3>2, <3>3 DEF Unanswered, Kind, Created, Parents
    <3>8. Called(1, g.cmd)'
      BY <1>3, <3>5, <3>6, <3>7 DEF Called
    <3>9. FrameOK(1, g)'
      BY <3>2, <3>7, <3>8 DEF FrameOK
    <3>10. QED
      BY <3>1, <3>9
  <2>2. stack' = Below
    BY <1>3, <1>6
  <2>3. QED
    BY <1>1, <2>1, <2>2, FramesPopped
<1>7. QED
  BY <1>5, <1>6

LEMMA FramesStartFails ==
  ASSUME CInv, SafeShapes, [Next]_vars, NEW c \in Cmds, StartFails(c) PROVE Frames'
<1>1. /\ stack # << >> /\ stack[1].at = "start" /\ stack[1].cmd = c /\ stack[1] \in FrameSet
      /\ FrameOK(1, stack[1]) /\ stack \in Seq(FrameSet) /\ Len(stack) \in Nat \ {0}
  BY InFrameFacts DEF StartFails
<1>2. Created(c) /\ op[c] = "none" /\ c \in listed /\ answered[c] = 0
  BY <1>1 DEF FrameOK
<1>3. /\ stack' = <<[Become("destroy") EXCEPT !.failed = TRUE]>> \o Below
      /\ UNCHANGED <<listed, parent, op, result, got, posted, stop, waits, pw, ret, answered, quit, shape>>
      /\ MayFail("start") \/ (MayFail("writer") /\ c \in pw)
  BY DEF StartFails, IsWriter
<1>4. PICK f \in FrameSet : f = [Become("destroy") EXCEPT !.failed = TRUE] /\ f.at = "destroy" /\ f.cmd = c /\ f.failed
  BY <1>1, FrameFacts DEF FrameKinds
<1>5. ASSUME parent[c] \in Cmds, Kind(parent[c]) \in {"unpack", "pair"} PROVE c \in pw /\ Kind(parent[c]) = "pair"
  <2>1. c \in pw
    BY <1>3, <1>5, SafeFacts DEF MayFail
  <2>2. QED
    BY <2>1 DEF CInv, Turns
<1>6. FrameOK(1, f)'
  <2>1. parent[c] \in Cmds \cup {NoCmd}
    BY DEF CInv, TypeOK
  <2>2. parent[c] # NoCmd /\ c \notin pw => Kind(parent[c]) # "pair"
    BY <1>5, <2>1
  <2>3. QED
    BY <1>2, <1>3, <1>4, <2>2 DEF FrameOK, Created, Kind
<1>7. ASSUME NEW k \in 2 .. Len(stack), ~Still(stack[k]) PROVE FrameOK(2, stack[2])'
  <2>1. 2 \in 2 .. Len(stack)
    BY <1>7, PatientFacts
  <2>2. PICK s : s = stack' /\ s = <<f>> \o Below
    BY <1>3, <1>4
  <2>3. s[1] = f /\ s[2] = stack[2]
    BY <1>1, <2>1, <2>2, TopChanged
  <2>4. PICK g : g = stack[2] /\ g = stack'[2]
    BY <2>2, <2>3
  <2>5. /\ g.at = "called" /\ ~g.failed /\ Created(g.cmd) /\ Kind(g.cmd) \in {"unpack", "pair"}
        /\ Called(2, g.cmd) /\ parent[c] = g.cmd /\ g.cmd \in Cmds
    <3>1. /\ stack[2].at = "called" /\ ~stack[2].failed /\ Created(stack[2].cmd) /\ Kind(stack[2].cmd) \in {"unpack", "pair"}
          /\ Called(2, stack[2].cmd) /\ parent[stack[1].cmd] = stack[2].cmd /\ stack[2] \in FrameSet
      BY <1>7, PatientFacts
    <3>2. stack[2].cmd \in Cmds
      BY <3>1 DEF FrameSet
    <3>3. QED
      BY <1>1, <2>4, <3>1, <3>2
  <2>6. c \in pw /\ Kind(g.cmd) = "pair"
    BY <1>5, <2>5
  <2>7. op[g.cmd] = "open" /\ ~Queued(g.cmd) /\ Unanswered(g.cmd) = {c}
    BY <1>1, <2>5, <2>6 DEF Called
  <2>8. stack'[1].at = "destroy" /\ stack'[1].failed /\ stack'[1].cmd = c
    BY <1>4, <2>2, <2>3
  <2>9. (op[g.cmd] = "open" /\ ~Queued(g.cmd) /\ Unanswered(g.cmd) = {c})' /\ Created(g.cmd)' /\ (Kind(g.cmd) \in Parents)'
    BY <1>3, <2>5, <2>7 DEF Queued, Unanswered, Created, Kind, Parents
  <2>10. Called(2, g.cmd)'
    <3>1. parent'[c] = g.cmd /\ c \in pw'
      BY <1>3, <2>5, <2>6
    <3>2. QED
      BY <2>8, <2>9, <3>1 DEF Called
  <2>11. FrameOK(2, g)'
    BY <2>5, <2>9, <2>10 DEF FrameOK
  <2>12. QED
    BY <2>4, <2>11
<1>8. QED
  BY <1>1, <1>3, <1>4, <1>6, <1>7, FramesChanged

LEMMA FramesCallRun ==
  ASSUME CInv, NEW c \in Cmds, CallRun(c) PROVE Frames'
<1>1. posted \in Seq(Cmds) /\ posted # << >> /\ c = posted[1] /\ 1 \in 1 .. Len(posted)
      /\ stack' = <<Frame("run", c)>> /\ UNCHANGED <<listed, parent, op, shape>>
  BY DEF CallRun, CInv, TypeOK
<1>2. op[c] = "open"
  BY <1>1 DEF CInv, Turns
<1>3. Created(c)
  BY <1>2 DEF CInv, Lives
<1>4. PICK f : f = Frame("run", c) /\ f.at = "run" /\ f.cmd = c /\ ~f.failed
  BY FrameFacts DEF FrameKinds
<1>5. FrameOK(1, f)'
  BY <1>1, <1>2, <1>3, <1>4 DEF FrameOK, Created
<1>6. Len(stack') = 1 /\ stack'[1] = f
  BY <1>1, <1>4
<1>7. SUFFICES ASSUME NEW k \in 1 .. Len(stack') PROVE FrameOK(k, stack[k])'
  BY DEF Frames
<1>8. k = 1
  BY <1>6
<1>9. QED
  BY <1>5, <1>6, <1>8

LEMMA FramesBegin ==
  ASSUME CInv, SafeShapes, [Next]_vars, NEW c \in Cmds, NEW d \in Cmds,
         StartOne(c, d) \/ StartWriter(c, d) \/ StartReader(c, d)
  PROVE  Frames'
<1>1. /\ stack # << >> /\ stack[1].at \in {"run", "called"} /\ stack[1].cmd = c /\ ~stack[1].failed
      /\ op[c] = "open" /\ ~Queued(c) /\ Kind(c) \in Parents
      /\ d # Root /\ d # c /\ parent[d] = NoCmd /\ op[d] = "none" /\ answered[d] = 0 /\ d \notin pw
      /\ parent' = [parent EXCEPT ![d] = c] /\ listed' = listed \cup {d}
      /\ stack' = <<Frame("start", d), Become("called")>> \o Below
      /\ UNCHANGED <<op, posted, answered, shape>>
      /\ \/ Kind(c) # "pair" /\ pw' = pw
         \/ Unanswered(c) = {} /\ pw' = pw \cup {d}
         \/ pw' = pw /\ \E w \in pw : Unanswered(c) = {w}
  BY BeginFacts
<1>2. parent \in [Cmds -> Cmds \cup {NoCmd}]
  BY DEF CInv, TypeOK
<1>3. stack \in Seq(FrameSet)
  BY EachFrame
<1>4. PICK f \in FrameSet : f = Frame("start", d) /\ f.at = "start" /\ f.cmd = d /\ ~f.failed
  BY FrameFacts DEF FrameKinds
<1>5. PICK g \in FrameSet : g = Become("called") /\ g.at = "called" /\ g.cmd = c /\ ~g.failed
  BY <1>1, <1>3, FrameFacts DEF FrameKinds
<1>6. parent'[d] = c /\ d \in listed' /\ \A e \in Cmds : parent'[e] = c <=> e = d \/ parent[e] = c
  BY <1>1, <1>2
<1>7. Unanswered(c)' = Unanswered(c) \cup {d}
  BY <1>1, <1>6 DEF Unanswered
<1>8. FrameOK(1, f)'
  <2>1. Created(d)'
    BY <1>6, ComAssumption DEF Created
  <2>2. QED
    BY <1>1, <1>4, <1>6, <2>1 DEF FrameOK
<1>9. stack'[1] = f /\ stack'[2] = g
  <2>1. PICK s : s = stack' /\ s = <<f, g>> \o Below
    BY <1>1, <1>4, <1>5
  <2>2. s = <<f, g>> \o Below
    BY <2>1
  <2>3. s[1] = f /\ s[2] = g
    <3>1. Pushed(s, f, g)
      BY <1>1, <1>3, <2>2, TopPushed
    <3>2. QED
      BY <3>1 DEF Pushed
  <2>4. QED
    BY <2>1, <2>3
<1>10. FrameOK(2, g)'
  <2>1. Created(c)
    <3>1. c \in listed
      BY <1>1 DEF CInv, Lives
    <3>2. QED
      BY <3>1 DEF CInv, Lives
  <2>2. Created(c)'
    BY <1>1, <1>2, <2>1 DEF Created
  <2>3. (op[c] = "open" /\ ~Queued(c))' /\ (Kind(c) \in Parents)'
    BY <1>1 DEF Queued, Kind
  <2>4. (Kind(c) = "pair" => Unanswered(c) \cap pw # {})' /\ (d \in pw => Unanswered(c) = {d})'
    BY <1>1, <1>7 DEF Kind
  <2>5. Called(2, c)'
    BY <1>4, <1>6, <1>9, <2>3, <2>4 DEF Called
  <2>6. QED
    BY <1>5, <2>2, <2>3, <2>5 DEF FrameOK
<1>11. \A k \in 2 .. Len(stack) : Still(stack[k])
  BY <1>1, StillBelow
<1>12. stack' = <<f, g>> \o Below
  BY <1>1, <1>4, <1>5
<1>13. QED
  BY <1>1, <1>8, <1>10, <1>11, <1>12, FramesPushed

LEMMA FramesEnd ==
  ASSUME CInv, SafeShapes, [Next]_vars, NEW c \in Cmds, StartFailed(c) \/ Ends(c) \/ Stops(c) PROVE Frames'
<1>1. /\ stack # << >> /\ stack[1].cmd = c /\ ~stack[1].failed /\ stack[1].at \in {"run", "called"}
      /\ op[c] = "open" /\ op' = [op EXCEPT ![c] = "closed"] /\ stack' = <<Become("destroy")>> \o Below
      /\ UNCHANGED <<listed, parent, pw, answered, shape>>
      /\ \E rc \in {0, 1} :
              /\ result' = [result EXCEPT ![c] = rc]
              /\ Kind(c) = "leaf" /\ (\E x \in Cmds : Kind(x) = "pair") => rc = 0
  BY EndFacts
<1>2. stack \in Seq(FrameSet)
  BY EachFrame
<1>3. PICK f \in FrameSet : f = Become("destroy") /\ f.at = "destroy" /\ f.cmd = c /\ ~f.failed
  BY <1>1, <1>2, FrameFacts DEF FrameKinds
<1>4. /\ op \in [Cmds -> {"none", "open", "closed"}] /\ result \in [Cmds -> {0, 1}]
      /\ parent \in [Cmds -> Cmds \cup {NoCmd}]
  BY DEF CInv, TypeOK
<1>5. c \in listed /\ answered[c] = 0 /\ Created(c)
  <2>1. c \in listed /\ answered[c] = 0
    BY <1>1 DEF CInv, Lives
  <2>2. QED
    BY <2>1 DEF CInv, Lives
<1>6. parent[c] # NoCmd /\ Kind(parent[c]) = "pair" => result'[c] = 0
  <2>1. SUFFICES ASSUME parent[c] # NoCmd, Kind(parent[c]) = "pair" PROVE result'[c] = 0
    OBVIOUS
  <2>2. Kind(c) = "leaf" /\ parent[c] \in Cmds
    BY <1>4, <2>1 DEF CInv, Tree
  <2>3. QED
    BY <1>1, <1>4, <2>1, <2>2
<1>7. FrameOK(1, f)'
  BY <1>1, <1>3, <1>4, <1>5, <1>6 DEF FrameOK, Created, Kind
<1>8. \A k \in 2 .. Len(stack) : Still(stack[k])
  BY <1>1, StillBelow
<1>9. QED
  BY <1>1, <1>3, <1>7, <1>8, FramesChanged

LEMMA FramesOnComplete ==
  ASSUME CInv, SafeShapes, [Next]_vars, NEW c \in Cmds, OnComplete(c) PROVE Frames'
<1>1. /\ stack # << >> /\ stack \in Seq(FrameSet) /\ Len(stack) \in Nat \ {0} /\ stack[1] \in FrameSet
      /\ stack[1].at = "destroy" /\ stack[1].cmd = c
  BY InFrameFacts DEF OnComplete
<1>2. FrameOK(1, stack[1])
  BY <1>1, EachFrame
<1>3. op[c] # "open" /\ answered[c] = 0 /\ Created(c)
  BY <1>1, <1>2 DEF FrameOK
<1>4. PICK f \in FrameSet : f = Become("free") /\ f.at = "free" /\ f.cmd = c /\ f.failed = stack[1].failed
  BY <1>1, FrameFacts DEF FrameKinds
<1>5. UNCHANGED <<listed, parent, op, result, posted, stop, waits, ret, quit, shape>>
  BY OnCompleteFacts
<1>6. answered \in [Cmds -> 0 .. 1]
  BY DEF CInv, TypeOK
<1>7. c = Root \/ answered'[c] = 1 => \A j \in 1 .. 2 : FrameOK(j, f)'
  BY <1>3, <1>4, <1>5 DEF FrameOK, Created
<1>8. ASSUME NEW k \in 2 .. Len(stack), ~Still(stack[k])
      PROVE  /\ 2 \in 2 .. Len(stack) /\ stack[2] \in FrameSet /\ stack[2].at = "called" /\ ~stack[2].failed
             /\ Created(stack[2].cmd) /\ Kind(stack[2].cmd) \in {"unpack", "pair"} /\ stack[2].cmd = parent[c]
             /\ op[parent[c]] = "open" /\ ~Queued(parent[c]) /\ parent[c] \in Cmds
             /\ c \in pw /\ stack[1].failed /\ Unanswered(parent[c]) = {c}
  <2>1. /\ k = 2 /\ stack[2] \in FrameSet /\ stack[2].at = "called" /\ ~stack[2].failed
        /\ Created(stack[2].cmd) /\ Kind(stack[2].cmd) \in {"unpack", "pair"}
        /\ Called(2, stack[2].cmd) /\ parent[stack[1].cmd] = stack[2].cmd
    BY <1>8, PatientFacts
  <2>2. stack[2].cmd = parent[c] /\ parent[c] \in Cmds
    BY <1>1, <2>1 DEF FrameSet
  <2>3. op[parent[c]] = "open" /\ ~Queued(parent[c]) /\ c \in pw /\ stack[1].failed /\ Unanswered(parent[c]) = {c}
    BY <1>1, <2>1, <2>2 DEF Called
  <2>4. QED
    BY <2>1, <2>2, <2>3
<1>9. CASE /\ parent[c] = NoCmd /\ c = Root
           /\ stack' = <<Become("free")>> \o Below /\ UNCHANGED <<got, pw, answered>>
  <2>1. \A k \in 2 .. Len(stack) : Still(stack[k])
    BY <1>8, <1>9, ComAssumption
  <2>2. FrameOK(1, f)' /\ stack' = <<f>> \o Below
    BY <1>4, <1>7, <1>9
  <2>3. QED
    BY <1>1, <2>1, <2>2, FramesChanged
<1>10. CASE /\ parent[c] \in Cmds /\ c \in pw
            /\ answered' = [answered EXCEPT ![c] = 1] /\ pw' = pw \ {c} /\ got' = got
            /\ stack' = <<Become("free")>> \o Below
  <2>1. FrameOK(1, f)' /\ stack' = <<f>> \o Below
    BY <1>4, <1>6, <1>7, <1>10
  <2>2. ASSUME NEW k \in 2 .. Len(stack), ~Still(stack[k]) PROVE FrameOK(2, stack[2])'
    <3>1. PICK s : s = stack' /\ s = <<f>> \o Below
      BY <2>1
    <3>2. s = <<f>> \o Below
      BY <3>1
    <3>3. s[1] = f /\ s[2] = stack[2]
      BY <1>1, <1>8, <2>2, <3>2, TopChanged
    <3>4. PICK g : g = stack[2] /\ g = stack'[2]
      BY <3>1, <3>3
    <3>5. PICK p : p = parent[c]
      OBVIOUS
    <3>6. /\ g.at = "called" /\ ~g.failed /\ Created(p) /\ g.cmd = p /\ p \in Cmds
          /\ op[p] = "open" /\ ~Queued(p) /\ f.failed /\ Unanswered(p) = {c}
      BY <1>4, <1>8, <2>2, <3>4, <3>5
    <3>7. Kind(p) = "pair"
      BY <1>10, <3>5 DEF CInv, Turns
    <3>8. Unanswered(p)' = {}
      <4>1. \A e \in Cmds : e # c => answered'[e] = answered[e]
        BY <1>6, <1>10
      <4>2. answered'[c] = 1 /\ parent' = parent
        BY <1>5, <1>6, <1>10
      <4>3. QED
        BY <3>6, <4>1, <4>2 DEF Unanswered
    <3>9. (op[p] = "open" /\ ~Queued(p) /\ Kind(p) = "pair")' /\ Created(p)'
      BY <1>5, <3>6, <3>7 DEF Queued, Kind, Created
    <3>10. stack'[1].at = "free" /\ stack'[1].failed /\ stack'[1].cmd = c /\ parent'[c] = p
      BY <1>4, <1>5, <3>1, <3>3, <3>5, <3>6
    <3>11. Called(2, p)'
      BY <3>8, <3>9, <3>10 DEF Called
    <3>12. FrameOK(2, g)'
      BY <3>6, <3>9, <3>11 DEF FrameOK, Parents
    <3>13. QED
      BY <3>4, <3>12
  <2>3. QED
    BY <1>1, <2>1, <2>2, FramesChanged
<1>11. CASE /\ parent[c] \in Cmds /\ c \notin pw
            /\ answered' = [answered EXCEPT ![c] = 1] /\ pw' = pw
            /\ got' = [got EXCEPT ![parent[c]] = result[c]]
            /\ stack' = <<Frame("run", parent[c]), Become("free")>> \o Below
  <2>1. \A k \in 2 .. Len(stack) : Still(stack[k])
    BY <1>8, <1>11
  <2>2. PICK p \in Cmds : p = parent[c]
    BY <1>11
  <2>3. PICK g \in FrameSet : g = Frame("run", p) /\ g.at = "run" /\ g.cmd = p /\ ~g.failed
    BY FrameFacts DEF FrameKinds
  <2>4. op[p] = "open" /\ Created(p)
    <3>1. parent[c] # NoCmd
      BY <1>11, ComAssumption
    <3>2. op[p] = "open"
      BY <1>3, <2>2, <3>1 DEF CInv, Lives
    <3>3. p \in listed
      BY <3>2 DEF CInv, Lives
    <3>4. QED
      BY <3>2, <3>3 DEF CInv, Lives
  <2>5. FrameOK(1, g)'
    BY <1>5, <2>3, <2>4 DEF FrameOK, Created
  <2>6. FrameOK(2, f)' /\ stack' = <<g, f>> \o Below
    BY <1>4, <1>6, <1>7, <1>11, <2>2, <2>3
  <2>7. QED
    BY <1>1, <2>1, <2>5, <2>6, FramesPushed
<1>12. QED
  BY <1>9, <1>10, <1>11, OnCompleteFacts

LEMMA FramesFree ==
  ASSUME CInv, SafeShapes, [Next]_vars, NEW c \in Cmds, Free(c) PROVE Frames'
<1>1. /\ stack # << >> /\ stack \in Seq(FrameSet) /\ Len(stack) \in Nat \ {0} /\ Head(stack) = stack[1]
      /\ stack[1].at = "free" /\ stack[1].cmd = c
  BY InFrameFacts DEF Free
<1>2. /\ stack' = Below /\ ret' = (ret /\ ~Head(stack).failed)
      /\ UNCHANGED <<parent, op, result, got, posted, stop, waits, pw, answered, shape>>
  BY DEF Free
<1>3. ASSUME NEW k \in 2 .. Len(stack), ~Still(stack[k]) PROVE FrameOK(1, stack[1])'
  <2>1. /\ k = 2 /\ stack[2].at = "called" /\ ~stack[2].failed /\ Created(stack[2].cmd)
        /\ Called(2, stack[2].cmd)
    BY <1>3, PatientFacts
  <2>2. PICK g : g = stack[2] /\ g = stack'[1]
    <3>1. Below[1] = stack[2]
      BY <1>1, <2>1, StackFacts
    <3>2. QED
      BY <1>2, <3>1
  <2>3. /\ op[g.cmd] = "open" /\ ~Queued(g.cmd) /\ stack[1].failed /\ Kind(g.cmd) = "pair"
        /\ Unanswered(g.cmd) = {}
    BY <1>1, <2>1, <2>2 DEF Called
  <2>4. ~ret'
    BY <1>1, <1>2, <2>3
  <2>5. (op[g.cmd] = "open" /\ ~Queued(g.cmd) /\ Kind(g.cmd) = "pair" /\ Unanswered(g.cmd) = {})' /\ Created(g.cmd)'
    BY <1>2, <2>1, <2>2, <2>3 DEF Queued, Kind, Unanswered, Created
  <2>6. Called(1, g.cmd)'
    BY <2>4, <2>5 DEF Called
  <2>7. FrameOK(1, g)'
    BY <2>1, <2>2, <2>5, <2>6 DEF FrameOK, Parents
  <2>8. QED
    BY <2>2, <2>7
<1>4. QED
  BY <1>1, <1>2, <1>3, FramesPopped

\* The call stack stays good.
LEMMA FramesStep ==
  ASSUME CInv, SafeShapes, [Next]_vars PROVE Frames'
<1>1. CASE Signal \/ UNCHANGED vars
  <2>1. UNCHANGED <<listed, parent, op, result, posted, waits, pw, stack, ret, answered, shape>>
    BY <1>1 DEF Signal, vars
  <2>2. SUFFICES ASSUME NEW k \in 1 .. Len(stack') PROVE FrameOK(k, stack[k])'
    BY DEF Frames
  <2>3. FrameOK(k, stack[k])
    BY <2>1, EachFrame
  <2>4. (\A x \in Cmds : Called(k, x) => Called(k, x)')
    BY <2>1 DEF Called, Queued, Unanswered, Kind
  <2>5. PICK f : f = stack[k] /\ f = stack'[k] /\ f.cmd \in Cmds
    BY <2>1, EachFrame
  <2>6. FrameOK(k, f)'
    BY <2>1, <2>3, <2>4, <2>5 DEF FrameOK, Created, Kind
  <2>7. QED
    BY <2>5, <2>6
<1>2. ASSUME NEW c \in Cmds, Act(c) PROVE Frames'
  <2>1. CASE Begin(c)
    <3>1. PICK d \in Cmds : StartOne(c, d) \/ StartWriter(c, d) \/ StartReader(c, d)
      BY <2>1 DEF Begin
    <3>2. QED
      BY <3>1, FramesBegin
  <2>2. CASE Async(c) \/ Wait(c)
    <3>1. InFrame("run", c) \/ InFrame("called", c)
      BY <2>2 DEF Async, Wait, Running
    <3>2. stack # << >> /\ stack[1].at # "start" /\ ~stack[1].failed /\ stack' = Below
      BY <2>2, <3>1, InFrameFacts DEF FrameOK, Async, Wait
    <3>3. \A k \in 2 .. Len(stack) : Still(stack[k])
      BY <3>2, StillBelow
    <3>4. QED
      BY <3>2, <3>3, FramesPopped
  <2>3. CASE NextInput(c)
    <3>1. InFrame("run", c) /\ stack' = stack /\ op' = op
      BY <2>3 DEF NextInput, Running
    <3>2. stack # << >> /\ stack[1].at = "run" /\ ~stack[1].failed
      BY <3>1, InFrameFacts DEF FrameOK
    <3>3. QED
      BY <3>1, <3>2, FramesSame
  <2>4. QED
    BY <1>2, <2>1, <2>2, <2>3, FramesStarted, FramesStartFails, FramesCallRun, FramesEnd, FramesOnComplete, FramesFree DEF Act
<1>3. QED
  BY <1>1, <1>2 DEF Next, Step

-----------------------------------------------------------------------------
(* What a step leaves of the stack, and what is on its top afterwards. *)

LEMMA NewTop ==
  ASSUME CInv, stack # << >>
  PROVE  /\ stack' = Below => \A x \in Cmds : ~InFrame("run", x)'
         /\ \A f \in FrameSet : stack' = <<f>> \o Below => \A a \in FrameKinds, x \in Cmds : InFrame(a, x)' <=> f.at = a /\ f.cmd = x
         /\ \A f, g \in FrameSet : stack' = <<f, g>> \o Below =>
              \A a \in FrameKinds, x \in Cmds : InFrame(a, x)' <=> f.at = a /\ f.cmd = x
<1>1. stack \in Seq(FrameSet) /\ Len(stack) \in Nat \ {0} /\ Below \in Seq(FrameSet) /\ Len(Below) = Len(stack) - 1
      /\ \A k \in 1 .. Len(Below) : Below[k] = stack[k + 1]
  BY EachFrame, StackFacts
<1>2. ASSUME stack' = Below, NEW x \in Cmds, InFrame("run", x)' PROVE FALSE
  <2>1. PICK s : s = Below /\ s = stack'
    BY <1>2
  <2>2. s # << >> /\ Head(s).at = "run" /\ s \in Seq(FrameSet)
    BY <1>1, <1>2, <2>1 DEF InFrame
  <2>3. 1 \in 1 .. Len(Below) /\ s[1].at = "run"
    BY <2>1, <2>2
  <2>4. 2 \in 1 .. Len(stack) /\ stack[2].at = "run"
    BY <1>1, <2>1, <2>3
  <2>5. FrameOK(2, stack[2])
    BY <2>4, EachFrame
  <2>6. QED
    BY <2>4, <2>5 DEF FrameOK
<1>3. ASSUME NEW f \in FrameSet, stack' = <<f>> \o Below, NEW a \in FrameKinds, NEW x \in Cmds
      PROVE  InFrame(a, x)' <=> f.at = a /\ f.cmd = x
  <2>1. PICK s : s = <<f>> \o Below /\ s = stack'
    BY <1>3
  <2>2. s = <<f>> \o Below
    BY <2>1
  <2>3. s \in Seq(FrameSet) /\ Len(s) = Len(stack) /\ s[1] = f
    BY <1>1, <2>2, TopChanged
  <2>4. s # << >> /\ Head(s) = f
    BY <1>1, <2>3
  <2>5. QED
    BY <2>1, <2>4 DEF InFrame
<1>4. ASSUME NEW f \in FrameSet, NEW g \in FrameSet, stack' = <<f, g>> \o Below, NEW a \in FrameKinds, NEW x \in Cmds
      PROVE  InFrame(a, x)' <=> f.at = a /\ f.cmd = x
  <2>1. PICK s : s = <<f, g>> \o Below /\ s = stack'
    BY <1>4
  <2>2. s = <<f, g>> \o Below
    BY <2>1
  <2>3. s \in Seq(FrameSet) /\ Len(s) = Len(stack) + 1 /\ s[1] = f
    <3>1. Pushed(s, f, g)
      BY <1>1, <2>2, TopPushed
    <3>2. QED
      BY <3>1 DEF Pushed
  <2>4. s # << >> /\ Head(s) = f
    BY <1>1, <2>3
  <2>5. QED
    BY <2>1, <2>4 DEF InFrame
<1>5. QED
  BY <1>2, <1>3, <1>4

LEMMA OnTop ==
  ASSUME CInv, stack # << >>, NEW f \in FrameSet
  PROVE  /\ stack' = <<f>> \o Below => OnStack(f.at, f.cmd)'
         /\ \A g \in FrameSet : stack' = <<g, f>> \o Below => OnStack(f.at, f.cmd)'
<1>1. stack \in Seq(FrameSet) /\ Len(stack) \in Nat \ {0}
  BY EachFrame
<1>2. ASSUME stack' = <<f>> \o Below PROVE OnStack(f.at, f.cmd)'
  <2>1. PICK s : s = <<f>> \o Below /\ s = stack'
    BY <1>2
  <2>2. s = <<f>> \o Below
    BY <2>1
  <2>3. Len(s) = Len(stack) /\ s[1] = f
    BY <1>1, <2>2, TopChanged
  <2>4. 1 \in 1 .. Len(s)
    BY <1>1, <2>3
  <2>5. QED
    BY <2>1, <2>3, <2>4 DEF OnStack
<1>3. ASSUME NEW g \in FrameSet, stack' = <<g, f>> \o Below PROVE OnStack(f.at, f.cmd)'
  <2>1. PICK s : s = <<g, f>> \o Below /\ s = stack'
    BY <1>3
  <2>2. s = <<g, f>> \o Below
    BY <2>1
  <2>3. Len(s) = Len(stack) + 1 /\ s[2] = f
    <3>1. Pushed(s, g, f)
      BY <1>1, <2>2, TopPushed
    <3>2. QED
      BY <3>1 DEF Pushed
  <2>4. 2 \in 1 .. Len(s)
    BY <1>1, <2>3
  <2>5. QED
    BY <2>1, <2>3, <2>4 DEF OnStack
<1>4. QED
  BY <1>2, <1>3

\* What was below the top stays on the stack.
LEMMA BelowStays ==
  ASSUME CInv, [Next]_vars, NEW k \in 2 .. Len(stack), NEW g, g = stack[k]
  PROVE  OnStack(g.at, g.cmd)'
<1>1. stack \in Seq(FrameSet) /\ Len(stack) \in Nat /\ stack # << >>
  BY EachFrame
<1>2. \/ stack' = stack \/ stack' = Below
      \/ \E f \in FrameSet : stack' = <<f>> \o Below
      \/ \E f, h \in FrameSet : stack' = <<f, h>> \o Below
  <2>1. \A a \in FrameKinds : Become(a) \in FrameSet /\ [Become(a) EXCEPT !.failed = TRUE] \in FrameSet
    BY <1>1, FrameFacts
  <2>2. \A a \in FrameKinds, c \in Cmds : Frame(a, c) \in FrameSet
    BY FrameFacts
  <2>3. "run" \in FrameKinds /\ "destroy" \in FrameKinds /\ "free" \in FrameKinds /\ "called" \in FrameKinds /\ "start" \in FrameKinds
    BY DEF FrameKinds
  <2>4. CASE Signal \/ UNCHANGED vars
    BY <2>4 DEF Signal, vars
  <2>5. ASSUME NEW c \in Cmds, Act(c)
        PROVE  \/ stack' = stack \/ stack' = Below
               \/ \E f \in FrameSet : stack' = <<f>> \o Below
               \/ \E f, h \in FrameSet : stack' = <<f, h>> \o Below
    <3>1. CASE Begin(c)
      <4>1. PICK d \in Cmds : StartOne(c, d) \/ StartWriter(c, d) \/ StartReader(c, d)
        BY <3>1 DEF Begin
      <4>2. stack' = <<Frame("start", d), Become("called")>> \o Below
        BY <4>1, BeginFacts
      <4>3. QED
        BY <2>1, <2>2, <2>3, <4>2
    <3>2. CASE OnComplete(c)
      <4>1. \/ stack' = <<Become("free")>> \o Below
            \/ parent[c] \in Cmds /\ stack' = <<Frame("run", parent[c]), Become("free")>> \o Below
        BY <3>2, OnCompleteFacts
      <4>2. QED
        BY <2>1, <2>2, <2>3, <4>1
    <3>3. CASE Started(c)
      BY <2>1, <2>3, <3>3 DEF Started
    <3>4. CASE StartFails(c)
      BY <2>1, <2>3, <3>4 DEF StartFails
    <3>5. CASE StartFailed(c) \/ Ends(c) \/ Stops(c)
      BY <2>1, <2>3, <3>5 DEF StartFailed, Ends, Stops, End
    <3>6. CASE CallRun(c)
      BY <1>1, <3>6 DEF CallRun
    <3>7. CASE Async(c) \/ Wait(c) \/ Free(c) \/ NextInput(c)
      BY <3>7 DEF Async, Wait, Free, NextInput
    <3>8. QED
      BY <2>5, <3>1, <3>2, <3>3, <3>4, <3>5, <3>6, <3>7 DEF Act
  <2>6. QED
    BY <2>4, <2>5 DEF Next, Step
<1>3. CASE stack' = stack
  BY <1>3 DEF OnStack
<1>4. CASE stack' = Below
  <2>1. k - 1 \in 1 .. Len(Below) /\ Below[k - 1] = g
    <3>1. Len(Below) = Len(stack) - 1 /\ \A j \in 1 .. Len(Below) : Below[j] = stack[j + 1]
      BY <1>1, StackFacts
    <3>2. QED
      BY <1>1, <3>1
  <2>2. \E j \in 1 .. Len(stack') : stack'[j] = g
    BY <1>4, <2>1
  <2>3. OnStack(g.at, g.cmd)'
    BY <2>2 DEF OnStack
  <2>4. QED
    BY <2>3
<1>5. CASE \E f \in FrameSet : stack' = <<f>> \o Below
  <2>1. PICK f \in FrameSet : stack' = <<f>> \o Below
    BY <1>5
  <2>2. PICK s : s = stack' /\ s = <<f>> \o Below
    BY <2>1
  <2>3. s = <<f>> \o Below
    BY <2>2
  <2>4. Len(s) = Len(stack) /\ \A j \in 2 .. Len(stack) : s[j] = stack[j]
    <3>1. PICK b : b = Below
      OBVIOUS
    <3>2. b \in Seq(FrameSet) /\ Len(b) = Len(stack) - 1 /\ \A j \in 1 .. Len(b) : b[j] = stack[j + 1]
      BY <1>1, <3>1, StackFacts
    <3>3. s = <<f>> \o b
      BY <2>3, <3>1
    <3>4. Len(s) = Len(stack)
      BY <1>1, <3>2, <3>3
    <3>5. ASSUME NEW j \in 2 .. Len(stack) PROVE s[j] = stack[j]
      <4>1. j - 1 \in 1 .. Len(b) /\ (j - 1) + 1 = j
        BY <1>1, <3>2
      <4>2. b[j - 1] = stack[j]
        BY <3>2, <4>1
      <4>3. s[j] = b[j - 1]
        BY <3>2, <3>3, <4>1
      <4>4. QED
        BY <4>2, <4>3
    <3>6. QED
      BY <3>4, <3>5
  <2>5. k \in 1 .. Len(s)
    BY <1>1, <2>4
  <2>6. s[k] = g
    BY <2>4
  <2>7. QED
    BY <2>2, <2>5, <2>6 DEF OnStack
<1>6. CASE \E f, h \in FrameSet : stack' = <<f, h>> \o Below
  <2>1. PICK f \in FrameSet, h \in FrameSet : stack' = <<f, h>> \o Below
    BY <1>6
  <2>2. PICK s : s = stack' /\ s = <<f, h>> \o Below
    BY <2>1
  <2>3. s = <<f, h>> \o Below
    BY <2>2
  <2>4. Len(s) = Len(stack) + 1 /\ s[1] = f /\ s[2] = h /\ \A j \in 3 .. Len(s) : s[j] = stack[j - 1]
    <3>1. stack \in Seq(FrameSet) /\ stack # << >> /\ f \in FrameSet /\ h \in FrameSet
      BY <1>1, <2>1
    <3>2. Pushed(s, f, h)
      BY <2>3, <3>1, TopPushed
    <3>3. QED
      BY <3>2 DEF Pushed
  <2>5. k + 1 \in 3 .. Len(s) /\ (k + 1) - 1 = k
    BY <1>1, <2>4
  <2>6. k + 1 \in 1 .. Len(s) /\ s[k + 1] = g
    BY <1>1, <2>4, <2>5
  <2>7. QED
    BY <2>2, <2>6 DEF OnStack
<1>7. QED
  BY <1>2, <1>3, <1>4, <1>5, <1>6

-----------------------------------------------------------------------------
\* The commands stay a tree: a new command has no children.
LEMMA TreeStep ==
  ASSUME CInv, SafeShapes, [Next]_vars PROVE Tree'
<1>1. Tree /\ parent \in [Cmds -> Cmds \cup {NoCmd}]
  BY DEF CInv, TypeOK
<1>2. CASE parent' = parent
  BY <1>1, <1>2, Monotone DEF Tree, Kind
<1>3. ASSUME NEW c \in Cmds, NEW d \in Cmds, StartOne(c, d) \/ StartWriter(c, d) \/ StartReader(c, d) PROVE Tree'
  <2>1. /\ d # Root /\ d # c /\ Kind(c) \in Parents /\ (Kind(c) = "pair" => Kind(d) = "leaf")
        /\ parent[d] = NoCmd /\ (\A e \in Cmds : parent[e] # d)
        /\ parent' = [parent EXCEPT ![d] = c] /\ shape' = shape
    BY <1>3, BeginFacts
  <2>2. parent'[d] = c /\ \A e \in Cmds : e # d => parent'[e] = parent[e]
    BY <1>1, <2>1
  <2>3. parent'[Root] = NoCmd
    BY <1>1, <2>1, <2>2, ComAssumption DEF Tree
  <2>4. \A x \in Cmds : parent'[x] # NoCmd =>
          Kind(parent'[x]) \in Parents /\ (Kind(parent'[x]) = "pair" => Kind(x) = "leaf")
    BY <1>1, <2>1, <2>2 DEF Tree
  <2>5. ASSUME NEW S \in SUBSET Cmds, S # {}, \A x \in S : parent'[x] # NoCmd PROVE \E x \in S : parent'[x] \notin S
    <3>1. CASE d \notin S
      <4>1. \A x \in S : parent'[x] = parent[x]
        BY <2>2, <3>1
      <4>2. \E x \in S : parent[x] \notin S
        BY <1>1, <2>5, <4>1 DEF Tree
      <4>3. QED
        BY <4>1, <4>2
    <3>2. CASE S = {d}
      BY <2>1, <2>2, <3>2
    <3>3. CASE d \in S /\ S # {d}
      <4>1. S \ {d} # {} /\ S \ {d} \in SUBSET Cmds /\ \A x \in S \ {d} : parent'[x] = parent[x]
        BY <2>2, <3>3
      <4>2. \E x \in S \ {d} : parent[x] \notin S \ {d}
        BY <1>1, <2>5, <4>1 DEF Tree
      <4>3. QED
        BY <2>1, <4>1, <4>2
    <3>4. QED
      BY <3>1, <3>2, <3>3
  <2>6. QED
    BY <2>1, <2>3, <2>4, <2>5 DEF Tree, Kind
<1>4. CASE Signal
  BY <1>2, <1>4 DEF Signal
<1>5. CASE UNCHANGED vars
  BY <1>2, <1>5 DEF vars
<1>6. ASSUME NEW c \in Cmds, Act(c) PROVE Tree'
  <2>1. CASE Begin(c)
    BY <1>3, <2>1 DEF Begin
  <2>2. CASE ~Begin(c)
    <3>1. parent' = parent
      BY <1>6, <2>2 DEF Act, Started, StartFails, CallRun, Async, Wait, StartFailed, NextInput, Ends, Stops, End, OnComplete, Free
    <3>2. QED
      BY <1>2, <3>1
  <2>3. QED
    BY <2>1, <2>2
<1>7. QED
  BY <1>4, <1>5, <1>6 DEF Next, Step

-----------------------------------------------------------------------------
\* A command that has answered is on its way out of the stack, or freed by this step.
LEMMA FreeStays ==
  ASSUME CInv, [Next]_vars, NEW x \in Cmds, OnStack("free", x), ~Free(x) PROVE OnStack("free", x)'
<1>1. PICK k \in 1 .. Len(stack) : stack[k].at = "free" /\ stack[k].cmd = x
  BY DEF OnStack
<1>2. PICK g : g = stack[k]
  OBVIOUS
<1>3. CASE k \in 2 .. Len(stack)
  BY <1>1, <1>2, <1>3, BelowStays
<1>4. CASE k = 1
  <2>1. stack # << >> /\ Head(stack).at = "free" /\ Head(stack).cmd = x
    <3>1. stack \in Seq(FrameSet) /\ Len(stack) \in Nat
      BY EachFrame
    <3>2. stack # << >>
      BY <1>1, <3>1
    <3>3. QED
      BY <1>1, <1>4, <3>1, <3>2, StackFacts
  <2>2. \A a, y : InFrame(a, y) => a = "free" /\ y = x
    BY <2>1 DEF InFrame
  <2>3. ASSUME NEW c \in Cmds, Act(c) PROVE FALSE
    <3>1. ~Started(c) /\ ~StartFails(c)
      BY <2>2 DEF Started, StartFails
    <3>2. ~CallRun(c)
      BY <2>1 DEF CallRun
    <3>3. ~Async(c) /\ ~Begin(c) /\ ~NextInput(c)
      BY <2>2 DEF Async, Begin, StartOne, StartWriter, StartReader, NextInput, Running
    <3>4. ~Wait(c) /\ ~StartFailed(c) /\ ~Ends(c) /\ ~Stops(c)
      BY <2>2 DEF Wait, StartFailed, Ends, Stops, Running
    <3>5. ~OnComplete(c) /\ ~Free(c)
      BY <2>2 DEF OnComplete, Free
    <3>6. QED
      BY <2>3, <3>1, <3>2, <3>3, <3>4, <3>5 DEF Act
  <2>4. stack' = stack
    BY <2>3 DEF Next, Step, Signal, vars
  <2>5. QED
    BY <2>4 DEF OnStack
<1>5. QED
  BY <1>3, <1>4, EachFrame

\* A command whose complete() has not called on_complete() yet stays on the stack.
LEMMA DestroyStays ==
  ASSUME CInv, [Next]_vars, NEW x \in Cmds, OnStack("destroy", x), ~OnComplete(x) PROVE OnStack("destroy", x)'
<1>1. PICK k \in 1 .. Len(stack) : stack[k].at = "destroy" /\ stack[k].cmd = x
  BY DEF OnStack
<1>2. stack \in Seq(FrameSet) /\ Len(stack) \in Nat /\ FrameOK(k, stack[k])
  BY EachFrame
<1>3. k = 1
  BY <1>1, <1>2 DEF FrameOK
<1>4. stack # << >> /\ Head(stack).at = "destroy" /\ Head(stack).cmd = x
  BY <1>1, <1>2, <1>3, StackFacts
<1>5. \A a, y : InFrame(a, y) => a = "destroy" /\ y = x
  BY <1>4 DEF InFrame
<1>6. ASSUME NEW c \in Cmds, Act(c) PROVE FALSE
  <2>1. ~Started(c) /\ ~StartFails(c)
    BY <1>5 DEF Started, StartFails
  <2>2. ~CallRun(c)
    BY <1>4 DEF CallRun
  <2>3. ~Async(c) /\ ~Begin(c) /\ ~NextInput(c)
    BY <1>5 DEF Async, Begin, StartOne, StartWriter, StartReader, NextInput, Running
  <2>4. ~Wait(c) /\ ~StartFailed(c) /\ ~Ends(c) /\ ~Stops(c)
    BY <1>5 DEF Wait, StartFailed, Ends, Stops, Running
  <2>5. ~OnComplete(c) /\ ~Free(c)
    BY <1>5 DEF OnComplete, Free
  <2>6. QED
    BY <1>6, <2>1, <2>2, <2>3, <2>4, <2>5 DEF Act
<1>7. stack' = stack
  BY <1>6 DEF Next, Step, Signal, vars
<1>8. QED
  BY <1>7 DEF OnStack

\* After on_complete() the command is on the stack to be freed.
LEMMA ToldIsFreed ==
  ASSUME CInv, NEW c \in Cmds, OnComplete(c) PROVE OnStack("free", c)'
<1>1. /\ stack # << >>
      /\ \/ stack' = <<Become("free")>> \o Below
         \/ parent[c] \in Cmds /\ stack' = <<Frame("run", parent[c]), Become("free")>> \o Below
  BY OnCompleteFacts
<1>2. stack \in Seq(FrameSet) /\ stack[1].cmd = c
  BY InFrameFacts DEF OnComplete
<1>3. PICK f \in FrameSet : f = Become("free") /\ f.at = "free" /\ f.cmd = c
  BY <1>1, <1>2, FrameFacts DEF FrameKinds
<1>4. CASE stack' = <<f>> \o Below
  BY <1>1, <1>3, <1>4, OnTop
<1>5. CASE parent[c] \in Cmds /\ stack' = <<Frame("run", parent[c]), f>> \o Below
  <2>1. Frame("run", parent[c]) \in FrameSet
    BY <1>5, FrameFacts DEF FrameKinds
  <2>2. QED
    BY <1>1, <1>3, <1>5, <2>1, OnTop
<1>6. QED
  BY <1>1, <1>3, <1>4, <1>5

\* An operation that closes itself goes on with com->complete(), which ends when the
\* command is unlinked.
LEMMA ClosingStep ==
  ASSUME CInv, SafeShapes, [Next]_vars PROVE Closing'
<1>1. SUFFICES ASSUME NEW x \in Cmds, op'[x] = "closed", x \in listed'
               PROVE  OnStack("destroy", x)' \/ OnStack("free", x)'
  BY DEF Closing
<1>2. Closing /\ op \in [Cmds -> {"none", "open", "closed"}]
  BY DEF CInv, TypeOK
<1>3. CASE op[x] = "closed" /\ x \in listed
  <2>1. CASE OnComplete(x)
    BY <2>1, ToldIsFreed
  <2>2. CASE Free(x)
    BY <1>1, <2>2 DEF Free
  <2>3. CASE ~OnComplete(x) /\ ~Free(x)
    <3>1. OnStack("destroy", x) \/ OnStack("free", x)
      BY <1>2, <1>3 DEF Closing
    <3>2. QED
      BY <2>3, <3>1, DestroyStays, FreeStays
  <2>4. QED
    BY <2>1, <2>2, <2>3
<1>4. ASSUME NEW c \in Cmds, StartFailed(c) \/ Ends(c) \/ Stops(c)
      PROVE  OnStack("destroy", x)' \/ (op[x] = "closed" /\ x \in listed)
  <2>1. /\ stack # << >> /\ stack[1].cmd = c /\ stack' = <<Become("destroy")>> \o Below
        /\ op' = [op EXCEPT ![c] = "closed"] /\ listed' = listed
    BY <1>4, EndFacts
  <2>2. CASE x # c
    BY <1>1, <1>2, <2>1, <2>2
  <2>3. CASE x = c
    <3>1. stack \in Seq(FrameSet)
      BY EachFrame
    <3>2. PICK f \in FrameSet : f = Become("destroy") /\ f.at = "destroy" /\ f.cmd = c
      BY <2>1, <3>1, FrameFacts DEF FrameKinds
    <3>3. QED
      BY <2>1, <2>3, <3>2, OnTop
  <2>4. QED
    BY <2>2, <2>3
<1>5. ASSUME NEW c \in Cmds, NEW d \in Cmds, StartOne(c, d) \/ StartWriter(c, d) \/ StartReader(c, d)
      PROVE  op[x] = "closed" /\ x \in listed
  <2>1. op' = op /\ listed' = listed \cup {d} /\ op[d] = "none"
    BY <1>5, BeginFacts
  <2>2. op[x] = "closed" /\ x # d
    BY <1>1, <2>1
  <2>3. QED
    BY <1>1, <2>1, <2>2
<1>6. ASSUME NEW c \in Cmds, Started(c) PROVE op[x] = "closed" /\ x \in listed
  BY <1>1, <1>2, <1>6 DEF Started
<1>7. ASSUME NEW c \in Cmds, \/ StartFails(c) \/ CallRun(c) \/ Async(c) \/ Wait(c) \/ NextInput(c)
                             \/ OnComplete(c) \/ Free(c) \/ Signal \/ UNCHANGED vars
      PROVE  op[x] = "closed" /\ x \in listed
  BY <1>1, <1>7 DEF StartFails, CallRun, Async, Wait, NextInput, OnComplete, Free, Signal, vars
<1>8. QED
  BY <1>3, <1>4, <1>5, <1>6, <1>7 DEF Next, Step, Act, Begin

\* The lives of the commands.
LEMMA LivesStep ==
  ASSUME CInv, SafeShapes, [Next]_vars PROVE Lives'
<1>1. Lives /\ op \in [Cmds -> {"none", "open", "closed"}] /\ parent \in [Cmds -> Cmds \cup {NoCmd}] /\ answered \in [Cmds -> 0 .. 1]
      /\ listed \subseteq Cmds
  BY DEF CInv, TypeOK
<1>2. ASSUME UNCHANGED <<op, parent, listed, answered, quit>>, \A x \in Cmds : ~Free(x) PROVE Lives'
  <2>1. \A x \in Cmds : OnStack("free", x) => OnStack("free", x)'
    BY <1>2, FreeStays
  <2>2. QED
    BY <1>1, <1>2, <2>1 DEF Lives, Created
<1>4. CASE Signal
  <2>1. UNCHANGED <<op, parent, listed, answered, quit>> /\ stack' = stack
    BY <1>4 DEF Signal
  <2>2. \A x \in Cmds : OnStack("free", x) => OnStack("free", x)'
    BY <2>1 DEF OnStack
  <2>3. QED
    BY <1>1, <2>1, <2>2 DEF Lives, Created
<1>5. CASE UNCHANGED vars
  <2>1. UNCHANGED <<op, parent, listed, answered, quit>> /\ stack' = stack
    BY <1>5 DEF vars
  <2>2. \A x \in Cmds : OnStack("free", x) => OnStack("free", x)'
    BY <2>1 DEF OnStack
  <2>3. QED
    BY <1>1, <2>1, <2>2 DEF Lives, Created
<1>6. ASSUME NEW c \in Cmds, Started(c) PROVE Lives'
  <2>1. stack[1].at = "start" /\ stack[1].cmd = c /\ FrameOK(1, stack[1])
    BY <1>6, InFrameFacts DEF Started
  <2>2. Created(c) /\ op[c] = "none" /\ c \in listed /\ answered[c] = 0
    BY <2>1 DEF FrameOK
  <2>3. op' = [op EXCEPT ![c] = "open"] /\ UNCHANGED <<parent, listed, answered, quit>>
    BY <1>6 DEF Started
  <2>4. \A x \in Cmds : OnStack("free", x) => OnStack("free", x)'
    BY <1>6, FreeStays DEF Started, Free, InFrame
  <2>5. \A x \in Cmds : op'[x] = IF x = c THEN "open" ELSE op[x]
    BY <1>1, <2>3
  <2>6. QED
    BY <1>1, <2>2, <2>3, <2>4, <2>5 DEF Lives, Created
<1>7. ASSUME NEW c \in Cmds, StartFails(c) \/ CallRun(c) \/ Async(c) \/ Wait(c) \/ NextInput(c) PROVE Lives'
  <2>1. UNCHANGED <<op, parent, listed, answered, quit>>
    BY <1>7 DEF StartFails, CallRun, Async, Wait, NextInput
  <2>2. \A x \in Cmds : ~Free(x)
    <3>1. stack = << >> \/ InFrame("start", c) \/ InFrame("run", c) \/ InFrame("called", c)
      BY <1>7 DEF StartFails, CallRun, Async, Wait, NextInput, Running
    <3>2. QED
      BY <3>1 DEF Free, InFrame
  <2>3. QED
    BY <1>2, <2>1, <2>2
<1>8. ASSUME NEW c \in Cmds, NEW d \in Cmds, StartOne(c, d) \/ StartWriter(c, d) \/ StartReader(c, d) PROVE Lives'
  <2>1. /\ op[c] = "open" /\ d # Root /\ d # c /\ parent[d] = NoCmd /\ op[d] = "none" /\ answered[d] = 0
        /\ d \notin listed /\ parent' = [parent EXCEPT ![d] = c] /\ listed' = listed \cup {d}
        /\ UNCHANGED <<op, answered, quit>>
    BY <1>8, BeginFacts
  <2>2. \A x \in Cmds : ~Free(x)
    BY <1>8 DEF StartOne, StartWriter, StartReader, Running, Free, InFrame
  <2>3. \A x \in Cmds : OnStack("free", x) => OnStack("free", x)'
    BY <2>2, FreeStays
  <2>4. \A x \in Cmds : parent'[x] = IF x = d THEN c ELSE parent[x]
    BY <1>1, <2>1
  <2>5. c # NoCmd
    BY ComAssumption
  <2>6. QED
    BY <1>1, <2>1, <2>3, <2>4, <2>5 DEF Lives, Created
<1>9. ASSUME NEW c \in Cmds, StartFailed(c) \/ Ends(c) \/ Stops(c) PROVE Lives'
  <2>1. /\ op[c] = "open" /\ Unanswered(c) = {} /\ op' = [op EXCEPT ![c] = "closed"]
        /\ UNCHANGED <<listed, parent, answered, quit>>
    BY <1>9, EndFacts
  <2>2. \A x \in Cmds : ~Free(x)
    BY <1>9 DEF StartFailed, Ends, Stops, Running, Free, InFrame
  <2>3. \A x \in Cmds : OnStack("free", x) => OnStack("free", x)'
    BY <2>2, FreeStays
  <2>4. \A x \in Cmds : op'[x] = IF x = c THEN "closed" ELSE op[x]
    BY <1>1, <2>1
  <2>5. \A x \in Cmds : parent[x] = c => answered[x] # 0
    BY <2>1 DEF Unanswered
  <2>6. QED
    BY <1>1, <2>1, <2>3, <2>4, <2>5 DEF Lives, Created
<1>10. ASSUME NEW c \in Cmds, OnComplete(c) PROVE Lives'
  <2>1. /\ stack # << >> /\ answered[c] = 0 /\ op[c] # "open" /\ UNCHANGED <<listed, parent, op, quit>>
        /\ \/ answered' = answered /\ parent[c] = NoCmd
           \/ parent[c] \in Cmds /\ answered' = [answered EXCEPT ![c] = 1]
        /\ \/ stack' = <<Become("free")>> \o Below
           \/ parent[c] \in Cmds /\ stack' = <<Frame("run", parent[c]), Become("free")>> \o Below
    BY <1>10, OnCompleteFacts
  <2>2. \A x \in Cmds : OnStack("free", x) => OnStack("free", x)'
    BY <1>10, FreeStays DEF OnComplete, Free, InFrame
  <2>3. OnStack("free", c)'
    BY <1>10, ToldIsFreed
  <2>4. \A x \in Cmds : answered'[x] = answered[x] \/ (x = c /\ answered'[x] = 1 /\ parent[c] # NoCmd)
    BY <1>1, <2>1, ComAssumption
  <2>5. QED
    BY <1>1, <2>1, <2>2, <2>3, <2>4 DEF Lives, Created
<1>11. ASSUME NEW c \in Cmds, Free(c) PROVE Lives'
  <2>1. /\ listed' = listed \ {c} /\ quit' = (quit \/ parent[c] = NoCmd) /\ UNCHANGED <<parent, op, answered>>
    BY <1>11 DEF Free
  <2>2. stack[1].at = "free" /\ stack[1].cmd = c /\ FrameOK(1, stack[1])
    BY <1>11, InFrameFacts DEF Free
  <2>3. op[c] # "open" /\ (c # Root => answered[c] = 1) /\ Created(c)
    BY <2>2 DEF FrameOK
  <2>4. \A x \in Cmds : x # c /\ OnStack("free", x) => OnStack("free", x)'
    BY <1>11, FreeStays DEF Free, InFrame
  <2>5. parent[Root] = NoCmd
    BY DEF CInv, Tree
  <2>6. (quit => Root \notin listed)'
    BY <1>1, <2>1, <2>3 DEF Lives, Created
  <2>7. QED
    BY <1>1, <2>1, <2>3, <2>4, <2>5, <2>6 DEF Lives, Created
<1>12. QED
  BY <1>4, <1>5, <1>6, <1>7, <1>8, <1>9, <1>10, <1>11 DEF Next, Step, Act, Begin

-----------------------------------------------------------------------------
(* Who runs next, action by action. *)

\* Steps that post nothing, call nothing and answer nobody.
LEMMA TurnsQuiet ==
  ASSUME CInv, UNCHANGED <<posted, parent, answered, pw, shape>>,
         \A x \in Cmds : Queued(x) => op'[x] = "open" /\ ~InFrame("run", x)',
         \A x \in Cmds : Runnable(x)' => \A d \in Unanswered(x) : d \in pw /\ x \in waits',
         \A x \in Cmds : parent[x] # NoCmd /\ answered[x] = 0 =>
           parent[x] \in waits' \/ (Kind(parent[x]) # "copy" /\ OnStack("called", parent[x])')
  PROVE  Turns'
<1>1. Turns /\ posted \in Seq(Cmds)
  BY DEF CInv, TypeOK
<1>2. \A x : Unanswered(x)' = Unanswered(x)
  BY DEF Unanswered
<1>3. (\A m, n \in 1 .. Len(posted) : posted[m] = posted[n] => m = n)'
  BY <1>1 DEF Turns
<1>4. (\A n \in 1 .. Len(posted) : op[posted[n]] = "open" /\ ~InFrame("run", posted[n]))'
  <2>1. SUFFICES ASSUME NEW n \in 1 .. Len(posted), NEW x, x = posted[n] PROVE op'[x] = "open" /\ ~InFrame("run", x)'
    OBVIOUS
  <2>2. x \in Cmds /\ Queued(x)
    BY <1>1, <2>1 DEF Queued
  <2>3. QED
    BY <2>2
<1>5. (\A c \in Cmds : Runnable(c) => \A d \in Unanswered(c) : d \in pw /\ c \in waits)'
  BY <1>2
<1>6. (\A c \in Cmds : \A d, e \in Unanswered(c) \ pw : d = e)'
  BY <1>1, <1>2 DEF Turns
<1>7. (\A c \in Cmds : parent[c] # NoCmd /\ answered[c] = 0 =>
         parent[c] \in waits \/ (Kind(parent[c]) # "copy" /\ OnStack("called", parent[c])))'
  BY DEF Kind
<1>8. (\A w \in pw : parent[w] # NoCmd /\ answered[w] = 0 /\ Kind(parent[w]) = "pair")'
  BY <1>1 DEF Turns, Kind
<1>9. QED
  BY <1>3, <1>4, <1>5, <1>6, <1>7, <1>8 DEF Turns

\* The operations that wait go on doing so when the innermost frame is not theirs.
LEMMA CalledStays ==
  ASSUME CInv, [Next]_vars, NEW x \in Cmds, OnStack("called", x), ~InFrame("called", x) PROVE OnStack("called", x)'
<1>1. PICK k \in 1 .. Len(stack) : stack[k].at = "called" /\ stack[k].cmd = x
  BY DEF OnStack
<1>2. stack \in Seq(FrameSet) /\ Len(stack) \in Nat
  BY EachFrame
<1>3. k # 1
  <2>1. stack # << >>
    BY <1>1, <1>2
  <2>2. QED
    BY <1>1, <1>2, <2>1 DEF InFrame
<1>4. k \in 2 .. Len(stack)
  BY <1>2, <1>3
<1>5. PICK g : g = stack[k]
  OBVIOUS
<1>6. QED
  BY <1>1, <1>4, <1>5, BelowStays

LEMMA TurnsStarted ==
  ASSUME CInv, SafeShapes, [Next]_vars, NEW c \in Cmds, Started(c) PROVE Turns'
<1>1. /\ stack # << >> /\ stack \in Seq(FrameSet) /\ stack[1].at = "start" /\ stack[1].cmd = c
      /\ FrameOK(1, stack[1]) /\ InFrame("start", c)
  BY InFrameFacts DEF Started
<1>2. Created(c) /\ op[c] = "none"
  BY <1>1 DEF FrameOK
<1>3. /\ op' = [op EXCEPT ![c] = "open"] /\ UNCHANGED <<parent, answered, pw, shape, waits>>
      /\ IF parent[c] = NoCmd THEN stack' = <<Become("run")>> \o Below /\ posted' = posted
         ELSE stack' = Below /\ posted' = Append(posted, c)
  BY DEF Started
<1>4. /\ op \in [Cmds -> {"none", "open", "closed"}] /\ posted \in Seq(Cmds) /\ Len(posted) \in Nat /\ Turns
      /\ parent \in [Cmds -> Cmds \cup {NoCmd}]
  BY DEF CInv, TypeOK
<1>5. Unanswered(c) = {} /\ ~Queued(c)
  <2>1. \A d \in Cmds : parent[d] # c
    BY <1>2 DEF CInv, Lives
  <2>2. QED
    BY <1>2, <1>4, <2>1 DEF Unanswered, Turns, Queued
<1>6. \A x \in Cmds : op'[x] = IF x = c THEN "open" ELSE op[x]
  BY <1>3, <1>4
<1>7. \A x \in Cmds : parent[x] # NoCmd /\ answered[x] = 0 =>
        parent[x] \in waits' \/ (Kind(parent[x]) # "copy" /\ OnStack("called", parent[x])')
  BY <1>1, <1>3, <1>4, CalledStays DEF Turns, InFrame
<1>8. CASE parent[c] = NoCmd
  <2>1. PICK f \in FrameSet : f = Become("run") /\ f.at = "run" /\ f.cmd = c
    BY <1>1, FrameFacts DEF FrameKinds
  <2>2. stack' = <<f>> \o Below /\ posted' = posted
    BY <1>3, <1>8, <2>1
  <2>3. \A x \in Cmds : InFrame("run", x)' <=> x = c
    BY <1>1, <2>1, <2>2, NewTop DEF FrameKinds
  <2>4. \A x \in Cmds : Queued(x) => op'[x] = "open" /\ ~InFrame("run", x)'
    BY <1>4, <1>5, <1>6, <2>3 DEF Queued, Turns
  <2>5. \A x \in Cmds : Runnable(x)' => \A d \in Unanswered(x) : d \in pw /\ x \in waits'
    <3>1. \A x \in Cmds : Runnable(x)' => x = c \/ Queued(x)
      BY <2>2, <2>3 DEF Runnable, Queued
    <3>2. QED
      BY <1>3, <1>4, <1>5, <3>1 DEF Runnable, Turns
  <2>6. QED
    BY <1>3, <1>7, <2>2, <2>4, <2>5, TurnsQuiet
<1>9. CASE parent[c] # NoCmd
  <2>1. stack' = Below /\ posted' = Append(posted, c)
    BY <1>3, <1>9
  <2>2. \A x \in Cmds : ~InFrame("run", x)'
    BY <1>1, <2>1, NewTop
  <2>3. /\ posted' \in Seq(Cmds) /\ Len(posted') = Len(posted) + 1 /\ posted'[Len(posted')] = c
        /\ \A n \in 1 .. Len(posted) : posted'[n] = posted[n]
    BY <1>4, <2>1
  <2>4. \A n \in 1 .. Len(posted) : posted[n] # c /\ posted[n] \in Cmds
    BY <1>4, <1>5 DEF Queued
  <2>5. (\A m, n \in 1 .. Len(posted) : posted[m] = posted[n] => m = n)'
    BY <1>4, <2>3, <2>4 DEF Turns
  <2>6. (\A n \in 1 .. Len(posted) : op[posted[n]] = "open" /\ ~InFrame("run", posted[n]))'
    <3>1. SUFFICES ASSUME NEW n \in 1 .. Len(posted'), NEW x, x = posted'[n] PROVE op'[x] = "open" /\ ~InFrame("run", x)'
      OBVIOUS
    <3>2. x \in Cmds /\ (x = c \/ \E m \in 1 .. Len(posted) : x = posted[m])
      BY <1>4, <2>3, <3>1
    <3>3. QED
      BY <1>4, <1>6, <2>2, <3>2 DEF Turns
  <2>7. \A x \in Cmds : Unanswered(x)' = Unanswered(x)
    BY <1>3 DEF Unanswered
  <2>8. (\A x \in Cmds : Runnable(x) => \A d \in Unanswered(x) : d \in pw /\ x \in waits)'
    <3>1. \A x \in Cmds : Runnable(x)' => x = c \/ Queued(x)
      <4>1. \A x \in Cmds : Queued(x)' => x = c \/ Queued(x)
        BY <1>4, <2>3 DEF Queued
      <4>2. QED
        BY <2>2, <4>1 DEF Runnable
    <3>2. QED
      BY <1>3, <1>4, <1>5, <2>7, <3>1 DEF Runnable, Turns
  <2>9. (\A x \in Cmds : \A d, e \in Unanswered(x) \ pw : d = e)' /\ (\A w \in pw : parent[w] # NoCmd /\ answered[w] = 0 /\ Kind(parent[w]) = "pair")'
    BY <1>3, <1>4, <2>7 DEF Turns, Kind
  <2>10. (\A x \in Cmds : parent[x] # NoCmd /\ answered[x] = 0 =>
           parent[x] \in waits \/ (Kind(parent[x]) # "copy" /\ OnStack("called", parent[x])))'
    BY <1>3, <1>7 DEF Kind
  <2>11. QED
    BY <2>5, <2>6, <2>8, <2>9, <2>10 DEF Turns
<1>10. QED
  BY <1>8, <1>9

LEMMA TurnsCallRun ==
  ASSUME CInv, SafeShapes, [Next]_vars, NEW c \in Cmds, CallRun(c) PROVE Turns'
<1>1. /\ posted \in Seq(Cmds) /\ Len(posted) \in Nat \ {0} /\ Turns /\ posted[1] = c
      /\ UNCHANGED <<parent, answered, pw, shape, waits, op>> /\ stack = << >> /\ stack' = <<Frame("run", c)>>
      /\ posted' = Tail(posted)
  BY DEF CInv, TypeOK, CallRun
<1>2. Len(posted') = Len(posted) - 1 /\ \A n \in 1 .. Len(posted') : posted'[n] = posted[n + 1] /\ n + 1 \in 1 .. Len(posted)
  BY <1>1
<1>3. 1 \in 1 .. Len(posted) /\ Queued(c)
  BY <1>1 DEF Queued
<1>4. \A n \in 1 .. Len(posted') : posted'[n] # c
  BY <1>1, <1>2, <1>3 DEF Turns
<1>5. \A x \in Cmds : InFrame("run", x)' <=> x = c
  <2>1. Frame("run", c).at = "run" /\ Frame("run", c).cmd = c
    BY FrameFacts DEF FrameKinds
  <2>2. QED
    BY <1>1, <2>1 DEF InFrame
<1>6. \A x \in Cmds : Unanswered(x)' = Unanswered(x)
  BY <1>1 DEF Unanswered
<1>7. (\A m, n \in 1 .. Len(posted) : posted[m] = posted[n] => m = n)'
  BY <1>1, <1>2 DEF Turns
<1>8. (\A n \in 1 .. Len(posted) : op[posted[n]] = "open" /\ ~InFrame("run", posted[n]))'
  <2>1. SUFFICES ASSUME NEW n \in 1 .. Len(posted'), NEW x, x = posted'[n] PROVE op'[x] = "open" /\ ~InFrame("run", x)'
    OBVIOUS
  <2>2. x = posted[n + 1] /\ n + 1 \in 1 .. Len(posted) /\ x # c /\ x \in Cmds
    BY <1>1, <1>2, <1>4, <2>1
  <2>3. op[x] = "open"
    BY <1>1, <2>2 DEF Turns
  <2>4. QED
    BY <1>1, <1>5, <2>2, <2>3
<1>9. (\A x \in Cmds : Runnable(x) => \A d \in Unanswered(x) : d \in pw /\ x \in waits)'
  <2>1. \A x \in Cmds : Runnable(x)' => Queued(x)
    <3>1. \A x \in Cmds : Queued(x)' => Queued(x)
      BY <1>1, <1>2 DEF Queued
    <3>2. QED
      BY <1>3, <1>5, <3>1 DEF Runnable
  <2>2. QED
    BY <1>1, <1>6, <2>1 DEF Turns, Runnable
<1>10. (\A x \in Cmds : \A d, e \in Unanswered(x) \ pw : d = e)' /\ (\A w \in pw : parent[w] # NoCmd /\ answered[w] = 0 /\ Kind(parent[w]) = "pair")'
  BY <1>1, <1>6 DEF Turns, Kind
<1>11. (\A x \in Cmds : parent[x] # NoCmd /\ answered[x] = 0 =>
         parent[x] \in waits \/ (Kind(parent[x]) # "copy" /\ OnStack("called", parent[x])))'
  <2>1. \A x : ~OnStack("called", x)
    BY <1>1 DEF OnStack
  <2>2. QED
    BY <1>1, <2>1 DEF Turns, Kind
<1>12. QED
  BY <1>7, <1>8, <1>9, <1>10, <1>11 DEF Turns

LEMMA TurnsAsync ==
  ASSUME CInv, SafeShapes, [Next]_vars, NEW c \in Cmds, Async(c) PROVE Turns'
<1>1. /\ stack # << >> /\ InFrame("run", c) /\ op[c] = "open" /\ ~Queued(c) /\ stack' = Below /\ posted' = Append(posted, c)
      /\ \A d \in Unanswered(c) : d \in pw /\ c \in waits
      /\ UNCHANGED <<parent, answered, pw, shape, waits, op>>
  BY AsyncFacts DEF Async, Running
<1>2. posted \in Seq(Cmds) /\ Len(posted) \in Nat /\ Turns /\ parent \in [Cmds -> Cmds \cup {NoCmd}]
  BY DEF CInv, TypeOK
<1>3. \A x \in Cmds : ~InFrame("run", x)'
  BY <1>1, NewTop
<1>4. /\ Len(posted') = Len(posted) + 1 /\ posted'[Len(posted')] = c
      /\ \A n \in 1 .. Len(posted) : posted'[n] = posted[n]
  BY <1>1, <1>2
<1>5. \A n \in 1 .. Len(posted) : posted[n] # c /\ posted[n] \in Cmds
  BY <1>1, <1>2 DEF Queued
<1>6. (\A m, n \in 1 .. Len(posted) : posted[m] = posted[n] => m = n)'
  BY <1>2, <1>4, <1>5 DEF Turns
<1>7. (\A n \in 1 .. Len(posted) : op[posted[n]] = "open" /\ ~InFrame("run", posted[n]))'
  <2>1. SUFFICES ASSUME NEW n \in 1 .. Len(posted'), NEW x, x = posted'[n] PROVE op'[x] = "open" /\ ~InFrame("run", x)'
    OBVIOUS
  <2>2. x \in Cmds /\ (x = c \/ \E m \in 1 .. Len(posted) : x = posted[m])
    BY <1>2, <1>4, <1>5, <2>1
  <2>3. QED
    BY <1>1, <1>2, <1>3, <2>2 DEF Turns
<1>8. \A x \in Cmds : Unanswered(x)' = Unanswered(x)
  BY <1>1 DEF Unanswered
<1>9. (\A x \in Cmds : Runnable(x) => \A d \in Unanswered(x) : d \in pw /\ x \in waits)'
  <2>1. \A x \in Cmds : Queued(x)' => x = c \/ Queued(x)
    BY <1>2, <1>4 DEF Queued
  <2>2. \A x \in Cmds : Runnable(x)' => x = c \/ Queued(x)
    BY <1>3, <2>1 DEF Runnable
  <2>3. QED
    BY <1>1, <1>2, <1>8, <2>2 DEF Turns, Runnable
<1>10. (\A x \in Cmds : \A d, e \in Unanswered(x) \ pw : d = e)' /\ (\A w \in pw : parent[w] # NoCmd /\ answered[w] = 0 /\ Kind(parent[w]) = "pair")'
  BY <1>1, <1>2, <1>8 DEF Turns, Kind
<1>11. (\A x \in Cmds : parent[x] # NoCmd /\ answered[x] = 0 =>
         parent[x] \in waits \/ (Kind(parent[x]) # "copy" /\ OnStack("called", parent[x])))'
  <2>1. \A x \in Cmds : OnStack("called", x) => OnStack("called", x)'
    BY <1>1, CalledStays DEF InFrame
  <2>2. QED
    BY <1>1, <1>2, <2>1 DEF Turns, Kind
<1>12. QED
  BY <1>6, <1>7, <1>9, <1>10, <1>11 DEF Turns

LEMMA TurnsBegin ==
  ASSUME CInv, SafeShapes, [Next]_vars, NEW c \in Cmds, NEW d \in Cmds,
         StartOne(c, d) \/ StartWriter(c, d) \/ StartReader(c, d)
  PROVE  Turns'
<1>1. /\ stack # << >> /\ stack[1].cmd = c /\ op[c] = "open" /\ ~Queued(c) /\ Kind(c) \in Parents
      /\ d # Root /\ d # c /\ parent[d] = NoCmd /\ op[d] = "none" /\ answered[d] = 0 /\ d \notin pw
      /\ parent' = [parent EXCEPT ![d] = c]
      /\ stack' = <<Frame("start", d), Become("called")>> \o Below
      /\ UNCHANGED <<op, posted, answered, shape>>
      /\ \/ /\ Kind(c) # "pair" /\ Unanswered(c) = {} /\ pw' = pw
            /\ waits' = IF Kind(c) = "copy" THEN waits \cup {c} ELSE waits
         \/ Kind(c) = "pair" /\ Unanswered(c) = {} /\ pw' = pw \cup {d} /\ waits' = waits
         \/ Kind(c) = "pair" /\ pw' = pw /\ waits' = waits /\ \E w \in pw : Unanswered(c) = {w}
  BY BeginFacts
<1>2. parent \in [Cmds -> Cmds \cup {NoCmd}] /\ posted \in Seq(Cmds) /\ Turns /\ stack \in Seq(FrameSet)
  BY EachFrame DEF CInv, TypeOK
<1>3. \A x \in Cmds : parent'[x] = IF x = d THEN c ELSE parent[x]
  BY <1>1, <1>2
<1>4. Unanswered(c)' = Unanswered(c) \cup {d} /\ \A x \in Cmds \ {c} : Unanswered(x)' = Unanswered(x)
  BY <1>1, <1>3, ComAssumption DEF Unanswered
<1>5. PICK f \in FrameSet : f = Frame("start", d) /\ f.at = "start"
  BY FrameFacts DEF FrameKinds
<1>6. PICK g \in FrameSet : g = Become("called") /\ g.at = "called" /\ g.cmd = c
  BY <1>1, <1>2, FrameFacts DEF FrameKinds
<1>7. stack' = <<f, g>> \o Below
  BY <1>1, <1>5, <1>6
<1>8. (\A x \in Cmds : ~InFrame("run", x)') /\ OnStack("called", c)'
  <2>1. \A x \in Cmds : InFrame("run", x)' <=> f.at = "run" /\ f.cmd = x
    BY <1>1, <1>7, NewTop DEF FrameKinds
  <2>2. OnStack(g.at, g.cmd)'
    BY <1>1, <1>7, OnTop
  <2>3. QED
    BY <1>5, <1>6, <2>1, <2>2
<1>9. (\A m, n \in 1 .. Len(posted) : posted[m] = posted[n] => m = n)'
  BY <1>1, <1>2 DEF Turns
<1>10. (\A n \in 1 .. Len(posted) : op[posted[n]] = "open" /\ ~InFrame("run", posted[n]))'
  <2>1. SUFFICES ASSUME NEW n \in 1 .. Len(posted), NEW x, x = posted[n] PROVE op[x] = "open" /\ ~InFrame("run", x)'
    BY <1>1
  <2>2. x \in Cmds /\ op[x] = "open"
    BY <1>2, <2>1 DEF Turns
  <2>3. QED
    BY <1>8, <2>2
<1>11. (\A x \in Cmds : Runnable(x) => \A e \in Unanswered(x) : e \in pw /\ x \in waits)'
  <2>1. \A x \in Cmds : Runnable(x)' => Queued(x) /\ x # c
    BY <1>1, <1>8 DEF Runnable, Queued
  <2>2. pw \subseteq pw' /\ waits \subseteq waits'
    BY <1>1
  <2>3. QED
    BY <1>2, <1>4, <2>1, <2>2 DEF Turns, Runnable
<1>12. (\A x \in Cmds : \A u, v \in Unanswered(x) \ pw : u = v)'
  <2>1. \A x \in Cmds \ {c} : \A u, v \in Unanswered(x)' \ pw' : u = v
    BY <1>1, <1>2, <1>4 DEF Turns
  <2>2. \A u, v \in Unanswered(c)' \ pw' : u = v
    BY <1>1, <1>4
  <2>3. QED
    BY <2>1, <2>2
<1>13. (\A x \in Cmds : parent[x] # NoCmd /\ answered[x] = 0 =>
         parent[x] \in waits \/ (Kind(parent[x]) # "copy" /\ OnStack("called", parent[x])))'
  <2>1. ASSUME NEW x \in Cmds, NEW p, p = parent'[x], p # NoCmd, answered[x] = 0
        PROVE  p \in waits' \/ (Kind(p) # "copy" /\ OnStack("called", p)')
    <3>1. CASE x = d
      BY <1>1, <1>3, <1>8, <2>1, <3>1
    <3>2. CASE x # d /\ parent[x] = c
      <4>1. p = c
        BY <1>3, <2>1, <3>2
      <4>2. Unanswered(c) # {}
        BY <2>1, <3>2 DEF Unanswered
      <4>3. QED
        BY <1>1, <1>8, <4>1, <4>2
    <3>3. CASE x # d /\ parent[x] # c
      <4>1. p = parent[x] /\ p \in Cmds /\ p # c
        BY <1>2, <1>3, <2>1, <3>3
      <4>2. p \in waits \/ (Kind(p) # "copy" /\ OnStack("called", p))
        BY <1>2, <2>1, <4>1 DEF Turns
      <4>3. ~InFrame("called", p)
        BY <1>1, <1>2, <4>1, StackFacts DEF InFrame
      <4>4. OnStack("called", p) => OnStack("called", p)'
        BY <4>1, <4>3, CalledStays
      <4>5. waits \subseteq waits'
        BY <1>1
      <4>6. QED
        BY <4>2, <4>4, <4>5
    <3>4. QED
      BY <3>1, <3>2, <3>3
  <2>2. \A p : Kind(p)' = Kind(p)
    BY <1>1 DEF Kind
  <2>3. QED
    BY <1>1, <2>1, <2>2
<1>14. (\A w \in pw : parent[w] # NoCmd /\ answered[w] = 0 /\ Kind(parent[w]) = "pair")'
  <2>1. pw \subseteq Cmds
    BY DEF CInv, TypeOK
  <2>2. \A w \in pw' : w \in pw \/ (w = d /\ Kind(c) = "pair")
    BY <1>1
  <2>3. ASSUME NEW w \in pw' PROVE parent'[w] # NoCmd /\ answered[w] = 0 /\ Kind(parent'[w]) = "pair"
    BY <1>1, <1>2, <1>3, <2>1, <2>2, ComAssumption DEF Turns
  <2>4. QED
    BY <1>1, <2>3 DEF Kind
<1>15. QED
  BY <1>9, <1>10, <1>11, <1>12, <1>13, <1>14 DEF Turns

LEMMA TurnsEnd ==
  ASSUME CInv, SafeShapes, [Next]_vars, NEW c \in Cmds, StartFailed(c) \/ Ends(c) \/ Stops(c) PROVE Turns'
<1>1. /\ stack # << >> /\ stack[1].cmd = c /\ ~Queued(c) /\ Unanswered(c) = {}
      /\ op' = [op EXCEPT ![c] = "closed"] /\ stack' = <<Become("destroy")>> \o Below
      /\ UNCHANGED <<posted, parent, answered, pw, shape, waits>>
  BY EndFacts
<1>2. /\ op \in [Cmds -> {"none", "open", "closed"}] /\ stack \in Seq(FrameSet) /\ Turns /\ posted \in Seq(Cmds)
      /\ parent \in [Cmds -> Cmds \cup {NoCmd}]
  BY EachFrame DEF CInv, TypeOK
<1>3. PICK f \in FrameSet : f = Become("destroy") /\ f.at = "destroy"
  BY <1>1, <1>2, FrameFacts DEF FrameKinds
<1>4. \A x \in Cmds : ~InFrame("run", x)'
  BY <1>1, <1>3, NewTop DEF FrameKinds
<1>5. \A x \in Cmds : Queued(x) => op'[x] = "open" /\ ~InFrame("run", x)'
  BY <1>1, <1>2, <1>4 DEF Queued, Turns
<1>6. \A x \in Cmds : Runnable(x)' => \A d \in Unanswered(x) : d \in pw /\ x \in waits'
  <2>1. \A x \in Cmds : Runnable(x)' => Queued(x)
    BY <1>1, <1>4 DEF Runnable, Queued
  <2>2. QED
    BY <1>1, <1>2, <2>1 DEF Runnable, Turns
<1>7. \A x \in Cmds : parent[x] # NoCmd /\ answered[x] = 0 =>
        parent[x] \in waits' \/ (Kind(parent[x]) # "copy" /\ OnStack("called", parent[x])')
  <2>1. ASSUME NEW x \in Cmds, parent[x] # NoCmd, answered[x] = 0
        PROVE  parent[x] \in Cmds /\ ~InFrame("called", parent[x])
    <3>1. parent[x] # c
      BY <1>1, <2>1 DEF Unanswered
    <3>2. QED
      BY <1>1, <1>2, <2>1, <3>1, StackFacts DEF InFrame
  <2>2. \A p \in Cmds : OnStack("called", p) /\ ~InFrame("called", p) => OnStack("called", p)'
    BY CalledStays
  <2>3. QED
    BY <1>1, <1>2, <2>1, <2>2 DEF Turns
<1>8. QED
  BY <1>1, <1>5, <1>6, <1>7, TurnsQuiet

LEMMA TurnsWait ==
  ASSUME CInv, SafeShapes, [Next]_vars, NEW c \in Cmds, Wait(c) PROVE Turns'
<1>1. /\ stack # << >> /\ InFrame("called", c) /\ stack[1].cmd = c
      /\ waits' = (IF Kind(c) = "copy" THEN waits ELSE waits \cup {c}) /\ stack' = Below
      /\ UNCHANGED <<posted, parent, answered, pw, shape, op>>
  BY InFrameFacts DEF Wait
<1>2. Turns /\ posted \in Seq(Cmds) /\ parent \in [Cmds -> Cmds \cup {NoCmd}] /\ stack \in Seq(FrameSet)
  BY EachFrame DEF CInv, TypeOK
<1>3. \A x \in Cmds : ~InFrame("run", x)'
  BY <1>1, NewTop
<1>4. \A x \in Cmds : Queued(x) => op'[x] = "open" /\ ~InFrame("run", x)'
  BY <1>1, <1>2, <1>3 DEF Queued, Turns
<1>5. \A x \in Cmds : Runnable(x)' => \A d \in Unanswered(x) : d \in pw /\ x \in waits'
  <2>1. \A x \in Cmds : Runnable(x)' => Queued(x)
    BY <1>1, <1>3 DEF Runnable, Queued
  <2>2. QED
    BY <1>1, <1>2, <2>1 DEF Runnable, Turns
<1>6. \A x \in Cmds : parent[x] # NoCmd /\ answered[x] = 0 =>
        parent[x] \in waits' \/ (Kind(parent[x]) # "copy" /\ OnStack("called", parent[x])')
  <2>1. \A p \in Cmds \ {c} : OnStack("called", p) => OnStack("called", p)'
    BY <1>1, <1>2, CalledStays, StackFacts DEF InFrame
  <2>2. Kind(c) # "copy" => c \in waits'
    BY <1>1
  <2>3. QED
    BY <1>1, <1>2, <2>1, <2>2 DEF Turns
<1>7. QED
  BY <1>1, <1>4, <1>5, <1>6, TurnsQuiet

LEMMA TurnsNextInput ==
  ASSUME CInv, SafeShapes, [Next]_vars, NEW c \in Cmds, NextInput(c) PROVE Turns'
<1>1. /\ InFrame("run", c) /\ waits' = waits \ {c}
      /\ UNCHANGED <<posted, parent, answered, pw, shape, op, stack>>
      /\ Kind(c) = "pair" => ~WriterRuns(c)
  BY DEF NextInput, Running
<1>2. Turns /\ posted \in Seq(Cmds) /\ parent \in [Cmds -> Cmds \cup {NoCmd}]
  BY DEF CInv, TypeOK
<1>3. Unanswered(c) = {}
  <2>1. \A d \in Unanswered(c) : d \in pw /\ parent[d] = c /\ Kind(c) = "pair"
    BY <1>1, RunningFacts DEF Unanswered
  <2>2. QED
    BY <1>1, <2>1 DEF WriterRuns
<1>4. \A x \in Cmds : Queued(x) => op'[x] = "open" /\ ~InFrame("run", x)'
  BY <1>1, <1>2 DEF Queued, Turns, InFrame
<1>5. \A x \in Cmds : Runnable(x)' => \A d \in Unanswered(x) : d \in pw /\ x \in waits'
  <2>1. \A x \in Cmds : Runnable(x)' => Runnable(x)
    BY <1>1 DEF Runnable, Queued, InFrame
  <2>2. QED
    BY <1>1, <1>2, <1>3, <2>1 DEF Turns
<1>6. \A x \in Cmds : parent[x] # NoCmd /\ answered[x] = 0 =>
        parent[x] \in waits' \/ (Kind(parent[x]) # "copy" /\ OnStack("called", parent[x])')
  <2>1. \A x : OnStack("called", x) => OnStack("called", x)'
    BY <1>1 DEF OnStack
  <2>2. \A x \in Cmds : parent[x] # NoCmd /\ answered[x] = 0 => parent[x] # c
    BY <1>3 DEF Unanswered
  <2>3. QED
    BY <1>1, <1>2, <2>1, <2>2 DEF Turns
<1>7. QED
  BY <1>1, <1>4, <1>5, <1>6, TurnsQuiet

\* Steps on a frame that is neither an operation's run() nor its com->run().
LEMMA TurnsElsewhere ==
  ASSUME CInv, [Next]_vars, stack # << >>, stack[1].at \notin {"run", "called"},
         UNCHANGED <<posted, parent, answered, pw, shape, waits, op>>,
         \A x \in Cmds : ~InFrame("run", x)'
  PROVE  Turns'
<1>1. Turns /\ posted \in Seq(Cmds) /\ parent \in [Cmds -> Cmds \cup {NoCmd}] /\ stack \in Seq(FrameSet)
  BY EachFrame DEF CInv, TypeOK
<1>2. \A x \in Cmds : Queued(x) => op'[x] = "open" /\ ~InFrame("run", x)'
  BY <1>1 DEF Queued, Turns
<1>3. \A x \in Cmds : Runnable(x)' => \A d \in Unanswered(x) : d \in pw /\ x \in waits'
  <2>1. \A x \in Cmds : Runnable(x)' => Queued(x)
    BY DEF Runnable, Queued
  <2>2. QED
    BY <1>1, <2>1 DEF Runnable, Turns
<1>4. \A x \in Cmds : parent[x] # NoCmd /\ answered[x] = 0 =>
        parent[x] \in waits' \/ (Kind(parent[x]) # "copy" /\ OnStack("called", parent[x])')
  <2>1. \A p \in Cmds : OnStack("called", p) => OnStack("called", p)'
    BY <1>1, CalledStays, StackFacts DEF InFrame
  <2>2. QED
    BY <1>1, <2>1 DEF Turns
<1>5. QED
  BY <1>2, <1>3, <1>4, TurnsQuiet

LEMMA TurnsStartFails ==
  ASSUME CInv, SafeShapes, [Next]_vars, NEW c \in Cmds, StartFails(c) PROVE Turns'
<1>1. stack # << >> /\ stack[1].at = "start" /\ stack \in Seq(FrameSet)
  BY InFrameFacts DEF StartFails
<1>2. /\ stack' = <<[Become("destroy") EXCEPT !.failed = TRUE]>> \o Below
      /\ UNCHANGED <<posted, parent, answered, pw, shape, waits, op>>
  BY DEF StartFails
<1>3. PICK f \in FrameSet : f = [Become("destroy") EXCEPT !.failed = TRUE] /\ f.at = "destroy"
  BY <1>1, FrameFacts DEF FrameKinds
<1>4. \A x \in Cmds : ~InFrame("run", x)'
  BY <1>1, <1>2, <1>3, NewTop DEF FrameKinds
<1>5. QED
  BY <1>1, <1>2, <1>4, TurnsElsewhere

LEMMA TurnsFree ==
  ASSUME CInv, SafeShapes, [Next]_vars, NEW c \in Cmds, Free(c) PROVE Turns'
<1>1. stack # << >> /\ stack[1].at = "free" /\ stack' = Below /\ UNCHANGED <<posted, parent, answered, pw, shape, waits, op>>
  BY InFrameFacts DEF Free
<1>2. \A x \in Cmds : ~InFrame("run", x)'
  BY <1>1, NewTop
<1>3. QED
  BY <1>1, <1>2, TurnsElsewhere

LEMMA TurnsOnComplete ==
  ASSUME CInv, SafeShapes, [Next]_vars, NEW c \in Cmds, OnComplete(c) PROVE Turns'
<1>1. /\ stack # << >> /\ stack \in Seq(FrameSet) /\ stack[1].at = "destroy" /\ stack[1].cmd = c /\ InFrame("destroy", c)
  BY InFrameFacts DEF OnComplete
<1>2. PICK f \in FrameSet : f = Become("free") /\ f.at = "free"
  BY <1>1, FrameFacts DEF FrameKinds
<1>3. answered[c] = 0 /\ UNCHANGED <<parent, op, posted, waits, shape>>
  BY OnCompleteFacts
<1>4. /\ Turns /\ posted \in Seq(Cmds) /\ parent \in [Cmds -> Cmds \cup {NoCmd}] /\ answered \in [Cmds -> 0 .. 1]
      /\ pw \subseteq Cmds
  BY DEF CInv, TypeOK
<1>5. \A p \in Cmds : OnStack("called", p) => OnStack("called", p)'
  BY <1>1, CalledStays, StackFacts DEF InFrame
<1>6. (\A m, n \in 1 .. Len(posted) : posted[m] = posted[n] => m = n)'
  BY <1>3, <1>4 DEF Turns
<1>7. CASE parent[c] = NoCmd /\ stack' = <<Become("free")>> \o Below /\ UNCHANGED <<got, pw, answered>>
  <2>1. \A x \in Cmds : ~InFrame("run", x)'
    BY <1>1, <1>2, <1>7, NewTop DEF FrameKinds
  <2>2. QED
    BY <1>1, <1>3, <1>7, <2>1, TurnsElsewhere
<1>8. ASSUME parent[c] \in Cmds, answered' = [answered EXCEPT ![c] = 1], pw' = pw \ {c}
      PROVE  /\ \A x \in Cmds : Unanswered(x)' = Unanswered(x) \ {c}
             /\ (\A x \in Cmds : parent[x] # NoCmd /\ answered[x] = 0 =>
                   parent[x] \in waits \/ (Kind(parent[x]) # "copy" /\ OnStack("called", parent[x])))'
             /\ (\A w \in pw : parent[w] # NoCmd /\ answered[w] = 0 /\ Kind(parent[w]) = "pair")'
             /\ (\A x \in Cmds : \A u, v \in Unanswered(x) \ pw : u = v)'
  <2>1. \A x \in Cmds : answered'[x] = IF x = c THEN 1 ELSE answered[x]
    BY <1>4, <1>8
  <2>2. \A x \in Cmds : Unanswered(x)' = Unanswered(x) \ {c}
    BY <1>3, <2>1 DEF Unanswered
  <2>3. \A x \in Cmds : parent[x] # NoCmd /\ answered'[x] = 0 =>
          parent[x] \in waits \/ (Kind(parent[x]) # "copy" /\ OnStack("called", parent[x]) /\ parent[x] \in Cmds)
    BY <1>4, <2>1 DEF Turns
  <2>4. ASSUME NEW x \in Cmds, NEW p, p = parent'[x], p # NoCmd, answered'[x] = 0
        PROVE  p \in waits' \/ (Kind(p) # "copy" /\ OnStack("called", p)')
    BY <1>3, <1>5, <2>3, <2>4
  <2>5. (\A x \in Cmds : parent[x] # NoCmd /\ answered[x] = 0 =>
           parent[x] \in waits \/ (Kind(parent[x]) # "copy" /\ OnStack("called", parent[x])))'
    <3>1. \A p : Kind(p)' = Kind(p)
      BY <1>3 DEF Kind
    <3>2. QED
      BY <2>4, <3>1
  <2>6. (\A w \in pw : parent[w] # NoCmd /\ answered[w] = 0 /\ Kind(parent[w]) = "pair")'
    BY <1>3, <1>4, <1>8, <2>1 DEF Turns, Kind
  <2>7. (\A x \in Cmds : \A u, v \in Unanswered(x) \ pw : u = v)'
    <3>1. \A x \in Cmds : \A u, v \in Unanswered(x) \ pw : u = v
      BY <1>4 DEF Turns
    <3>2. \A x \in Cmds : Unanswered(x)' \ pw' \subseteq Unanswered(x) \ pw
      BY <1>8, <2>2
    <3>3. QED
      BY <3>1, <3>2
  <2>8. QED
    BY <2>2, <2>5, <2>6, <2>7
<1>9. CASE /\ parent[c] \in Cmds /\ c \in pw
           /\ answered' = [answered EXCEPT ![c] = 1] /\ pw' = pw \ {c} /\ stack' = <<Become("free")>> \o Below
  <2>1. \A x \in Cmds : ~InFrame("run", x)'
    BY <1>1, <1>2, <1>9, NewTop DEF FrameKinds
  <2>2. (\A n \in 1 .. Len(posted) : op[posted[n]] = "open" /\ ~InFrame("run", posted[n]))'
    <3>1. SUFFICES ASSUME NEW n \in 1 .. Len(posted'), NEW x, x = posted'[n] PROVE op'[x] = "open" /\ ~InFrame("run", x)'
      OBVIOUS
    <3>2. x \in Cmds /\ op[x] = "open"
      BY <1>3, <1>4, <3>1 DEF Turns
    <3>3. QED
      BY <1>3, <2>1, <3>2
  <2>3. \A x \in Cmds : Unanswered(x)' = Unanswered(x) \ {c}
    BY <1>8, <1>9
  <2>4. (\A x \in Cmds : Runnable(x) => \A d \in Unanswered(x) : d \in pw /\ x \in waits)'
    <3>1. \A x \in Cmds : Runnable(x)' => Queued(x)
      BY <1>3, <2>1 DEF Runnable, Queued
    <3>2. QED
      BY <1>3, <1>4, <1>9, <2>3, <3>1 DEF Turns, Runnable
  <2>5. QED
    BY <1>6, <1>8, <1>9, <2>2, <2>4 DEF Turns
<1>10. CASE /\ parent[c] \in Cmds /\ c \notin pw
            /\ answered' = [answered EXCEPT ![c] = 1] /\ pw' = pw
            /\ stack' = <<Frame("run", parent[c]), Become("free")>> \o Below
  <2>1. PICK p \in Cmds : p = parent[c]
    BY <1>10
  <2>2. PICK g \in FrameSet : g = Frame("run", p) /\ g.at = "run" /\ g.cmd = p
    BY FrameFacts DEF FrameKinds
  <2>3. \A x \in Cmds : InFrame("run", x)' <=> x = p
    <3>1. stack' = <<g, f>> \o Below
      BY <1>2, <1>10, <2>1, <2>2
    <3>2. \A x \in Cmds : InFrame("run", x)' <=> g.at = "run" /\ g.cmd = x
      BY <1>1, <3>1, NewTop DEF FrameKinds
    <3>3. QED
      BY <2>2, <3>2
  <2>4. c \in Unanswered(p) /\ c \notin pw
    BY <1>3, <1>10, <2>1 DEF Unanswered
  <2>5. ~Queued(p)
    BY <1>4, <2>4 DEF Turns, Runnable
  <2>6. p \in waits
    <3>1. p \in waits \/ (Kind(p) # "copy" /\ OnStack("called", p))
      BY <1>3, <1>4, <2>1, ComAssumption DEF Turns
    <3>2. ASSUME Kind(p) # "copy", NEW k \in 1 .. Len(stack), stack[k].at = "called", stack[k].cmd = p PROVE FALSE
      <4>1. k # 1
        BY <1>1, <3>2
      <4>2. k \in 2 .. Len(stack) /\ ~Still(stack[k])
        BY <1>1, <3>2, <4>1 DEF Still
      <4>3. k = 2 /\ Called(2, stack[2].cmd)
        BY <4>2, PatientFacts
      <4>4. Called(2, p)
        BY <3>2, <4>3
      <4>5. QED
        BY <1>1, <1>10, <4>4 DEF Called
    <3>3. QED
      BY <3>1, <3>2 DEF OnStack
  <2>7. (\A n \in 1 .. Len(posted) : op[posted[n]] = "open" /\ ~InFrame("run", posted[n]))'
    <3>1. SUFFICES ASSUME NEW n \in 1 .. Len(posted'), NEW x, x = posted'[n] PROVE op'[x] = "open" /\ ~InFrame("run", x)'
      OBVIOUS
    <3>2. x \in Cmds /\ op[x] = "open" /\ x # p
      BY <1>3, <1>4, <2>5, <3>1 DEF Turns, Queued
    <3>3. QED
      BY <1>3, <2>3, <3>2
  <2>8. pw' = pw \ {c}
    BY <1>10
  <2>9. \A x \in Cmds : Unanswered(x)' = Unanswered(x) \ {c}
    BY <1>8, <1>10, <2>8
  <2>10. (\A x \in Cmds : Runnable(x) => \A d \in Unanswered(x) : d \in pw /\ x \in waits)'
    <3>1. \A x \in Cmds : Runnable(x)' => x = p \/ Queued(x)
      BY <1>3, <2>3 DEF Runnable, Queued
    <3>2. \A d \in Unanswered(p) \ {c} : d \in pw
      BY <1>4, <2>4 DEF Turns
    <3>3. QED
      BY <1>3, <1>4, <1>10, <2>6, <2>9, <3>1, <3>2 DEF Turns, Runnable
  <2>11. QED
    BY <1>6, <1>8, <1>10, <2>7, <2>8, <2>10 DEF Turns
<1>11. QED
  BY <1>7, <1>9, <1>10, OnCompleteFacts

LEMMA TurnsStep ==
  ASSUME CInv, SafeShapes, [Next]_vars PROVE Turns'
<1>1. CASE Signal \/ UNCHANGED vars
  <2>1. UNCHANGED <<parent, op, posted, waits, pw, stack, answered, shape>>
    BY <1>1 DEF Signal, vars
  <2>2. Turns /\ posted \in Seq(Cmds)
    BY DEF CInv, TypeOK
  <2>3. \A x \in Cmds : Queued(x) => op'[x] = "open" /\ ~InFrame("run", x)'
    BY <2>1, <2>2 DEF Queued, Turns, InFrame
  <2>4. \A x \in Cmds : Runnable(x)' => \A d \in Unanswered(x) : d \in pw /\ x \in waits'
    <3>1. \A x : Runnable(x)' => Runnable(x)
      BY <2>1 DEF Runnable, Queued, InFrame
    <3>2. QED
      BY <2>1, <2>2, <3>1 DEF Turns
  <2>5. \A x \in Cmds : parent[x] # NoCmd /\ answered[x] = 0 =>
          parent[x] \in waits' \/ (Kind(parent[x]) # "copy" /\ OnStack("called", parent[x])')
    <3>1. \A x : OnStack("called", x) => OnStack("called", x)'
      BY <2>1 DEF OnStack
    <3>2. QED
      BY <2>1, <2>2, <3>1 DEF Turns
  <2>6. QED
    BY <2>1, <2>3, <2>4, <2>5, TurnsQuiet
<1>2. ASSUME NEW c \in Cmds, Act(c) PROVE Turns'
  <2>1. CASE Begin(c)
    BY <2>1, TurnsBegin DEF Begin
  <2>2. QED
    BY <1>2, <2>1, TurnsStarted, TurnsStartFails, TurnsCallRun, TurnsAsync, TurnsWait, TurnsEnd, TurnsNextInput,
       TurnsOnComplete, TurnsFree DEF Act
<1>3. QED
  BY <1>1, <1>2 DEF Next, Step

-----------------------------------------------------------------------------
\* What a pipeline's reader returns: its error is never one of starting it.
LEMMA ResultsStep ==
  ASSUME CInv, SafeShapes, [Next]_vars PROVE Results'
<1>1. Results /\ got \in [Cmds -> {0, 1}] /\ shape' = shape
  BY Monotone DEF CInv, TypeOK
<1>2. CASE Signal
  BY <1>1, <1>2 DEF Signal, Results, MayFail, Kind
<1>3. CASE UNCHANGED vars
  BY <1>1, <1>3 DEF vars, Results, Kind
<1>4. ASSUME NEW c \in Cmds, OnComplete(c) PROVE Results'
  <2>1. stop' = stop /\ (got' = got \/ (/\ parent[c] \in Cmds /\ c \notin pw
                                        /\ got' = [got EXCEPT ![parent[c]] = result[c]]))
    BY <1>4, OnCompleteFacts
  <2>2. CASE got' = got
    BY <1>1, <2>1, <2>2 DEF Results, Kind
  <2>3. CASE parent[c] \in Cmds /\ c \notin pw /\ got' = [got EXCEPT ![parent[c]] = result[c]]
    <3>1. parent[c] # NoCmd
      BY <2>3, ComAssumption
    <3>2. Kind(parent[c]) \in Parents
      BY <3>1 DEF CInv, Tree
    <3>3. stack[1].at = "destroy" /\ stack[1].cmd = c /\ FrameOK(1, stack[1])
      BY <1>4, InFrameFacts DEF OnComplete
    <3>4. Kind(parent[c]) = "pair" => result[c] = 0
      BY <2>3, <3>1, <3>3 DEF FrameOK
    <3>5. \A x \in Cmds : Kind(x) \in {"leaf", "pair"} => got'[x] = 0
      BY <1>1, <2>3, <3>2, <3>4 DEF Results, Parents
    <3>6. QED
      BY <1>1, <2>1, <3>5 DEF Results, Kind
  <2>4. QED
    BY <2>1, <2>2, <2>3
<1>5. ASSUME NEW c \in Cmds, Act(c), ~OnComplete(c) PROVE Results'
  <2>1. got' = got /\ stop' = stop
    BY <1>5 DEF Act, Started, StartFails, CallRun, Async, Begin, StartOne, StartWriter, StartReader, StartChild, Wait,
       StartFailed, NextInput, Ends, Stops, End, Free
  <2>2. QED
    BY <1>1, <2>1 DEF Results, Kind
<1>6. QED
  BY <1>2, <1>3, <1>4, <1>5 DEF Next, Step

\* Every step keeps the invariant.
LEMMA CStep ==
  ASSUME CInv, SafeShapes, [Next]_vars PROVE CInv'
BY CTypesStep, TreeStep, LivesStep, ClosingStep, TurnsStep, FramesStep, ResultsStep DEF CInv

LEMMA CInvariant ==
  ASSUME SafeShapes PROVE Spec => []CInv
<1>1. CInv /\ [Next]_vars => CInv'
  BY CStep
<1>2. QED
  BY <1>1, CInit, PTL DEF Spec

-----------------------------------------------------------------------------
\* When a child completes, its parent has not closed itself.
LEMMA ParentIsOpen ==
  ASSUME CInv PROVE CallerIsThere
<1>1. SUFFICES ASSUME stack # << >>, Head(stack).at = "destroy", parent[Head(stack).cmd] # NoCmd
               PROVE  op[parent[Head(stack).cmd]] = "open"
  BY DEF CallerIsThere
<1>2. PICK c : c = Head(stack).cmd /\ InFrame("destroy", c)
  BY <1>1 DEF InFrame
<1>3. c \in Cmds /\ answered[c] = 0
  <2>1. c \in Cmds /\ stack[1].at = "destroy" /\ stack[1].cmd = c /\ FrameOK(1, stack[1])
    BY <1>2, InFrameFacts
  <2>2. QED
    BY <2>1 DEF FrameOK
<1>4. QED
  BY <1>1, <1>2, <1>3 DEF CInv, Lives

\* The next step touches only open operations.
LEMMA NothingClosedIsUsed ==
  ASSUME CInv PROVE NoUseAfterClose
<1>1. posted \in Seq(Cmds) /\ Turns /\ Lives
  BY DEF CInv, TypeOK
<1>2. ASSUME NEW c \in ToSet(posted) PROVE op[c] = "open" /\ c \in listed
  <2>1. PICK n \in 1 .. Len(posted) : posted[n] = c
    BY <1>1, <1>2 DEF ToSet
  <2>2. c \in Cmds /\ op[c] = "open"
    BY <1>1, <2>1 DEF Turns
  <2>3. QED
    BY <1>1, <2>2 DEF Lives
<1>3. IsInjective(posted)
  <2>1. DOMAIN posted = 1 .. Len(posted)
    BY <1>1
  <2>2. QED
    BY <1>1, <2>1 DEF Turns, IsInjective
<1>4. ASSUME NEW c \in Touched PROVE op[c] = "open"
  <2>1. CASE stack = << >>
    BY <1>2, <1>4, <2>1 DEF Touched
  <2>2. CASE stack # << >>
    <3>1. PICK f : f = Head(stack) /\ FrameOK(1, f)
      <4>1. stack \in Seq(FrameSet) /\ Len(stack) \in Nat \ {0} /\ Head(stack) = stack[1]
        BY <2>2, EachFrame, StackFacts
      <4>2. QED
        BY <4>1, EachFrame
    <3>2. \/ f.at = "run" /\ c = f.cmd
          \/ f.at = "called" /\ Kind(f.cmd) # "copy" /\ c = f.cmd
          \/ f.at = "destroy" /\ parent[f.cmd] # NoCmd /\ c = parent[f.cmd]
      BY <1>4, <2>2, <3>1 DEF Touched
    <3>3. CASE f.at = "run" /\ c = f.cmd
      BY <3>1, <3>3 DEF FrameOK
    <3>4. CASE f.at = "called" /\ Kind(f.cmd) # "copy" /\ c = f.cmd
      <4>1. Called(1, c)
        BY <3>1, <3>4 DEF FrameOK
      <4>2. QED
        BY <4>1 DEF Called
    <3>5. CASE f.at = "destroy" /\ parent[f.cmd] # NoCmd /\ c = parent[f.cmd]
      BY <2>2, <3>1, <3>5, ParentIsOpen DEF CallerIsThere
    <3>6. QED
      BY <3>2, <3>3, <3>4, <3>5
  <2>3. QED
    BY <2>1, <2>2
<1>5. ASSUME NEW c \in listed, op[c] = "closed"
      PROVE  \E n \in 1 .. Len(stack) : stack[n].cmd = c /\ stack[n].at \in {"destroy", "free"}
  <2>1. OnStack("destroy", c) \/ OnStack("free", c)
    BY <1>5 DEF CInv, TypeOK, Closing
  <2>2. QED
    BY <2>1 DEF OnStack
<1>6. QED
  BY <1>2, <1>3, <1>4, <1>5 DEF NoUseAfterClose

\* For any tree of operations: no step of the worker uses an operation that has closed
\* itself, a signal handler finds one only while its com->complete() is on the stack, no
\* task of a freed command is posted, and every end of a child is told exactly once (com.c's
\* com_complete() and cmd_destroy(), and run() of the operations), with the failures of
\* SafeShapes: a pipeline's reader that cannot be started, and unpack's child, are the cases
\* in which the code does use a closed operation.
THEOREM ComSafe ==
  ASSUME SafeShapes PROVE Spec => []ComInv
<1>1. CInv => ComInv
  <2>1. SUFFICES ASSUME CInv PROVE ComInv
    OBVIOUS
  <2>2. TypeOK /\ Lives
    BY <2>1 DEF CInv
  <2>3. AnsweredOnce
    BY <2>2 DEF AnsweredOnce, TypeOK, Lives
  <2>4. QED
    BY <2>1, <2>2, <2>3, NothingClosedIsUsed DEF ComInv
<1>2. QED
  BY <1>1, CInvariant, PTL

\* The program exits with nothing left behind, for any tree of operations: a command that
\* is still listed has not answered, so its parent is open, and listed as well; but the
\* primary command is not, and a tree has no circle.
THEOREM ComExitsClean ==
  ASSUME SafeShapes PROVE Spec => []ExitLeavesNothing
<1>1. CInv => ExitLeavesNothing
  <2>1. SUFFICES ASSUME CInv, quit, stack = << >> PROVE listed = {} /\ posted = << >>
    BY DEF ExitLeavesNothing
  <2>2. /\ Lives /\ Tree /\ Turns /\ listed \subseteq Cmds /\ posted \in Seq(Cmds)
        /\ answered \in [Cmds -> 0 .. 1] /\ parent \in [Cmds -> Cmds \cup {NoCmd}]
    BY <2>1 DEF CInv, TypeOK
  <2>3. \A a, c : ~OnStack(a, c)
    BY <2>1 DEF OnStack
  <2>4. ASSUME NEW c \in listed PROVE parent[c] # NoCmd /\ parent[c] \in listed
    <3>1. c \in Cmds /\ c # Root
      BY <2>1, <2>2 DEF Lives
    <3>2. parent[c] # NoCmd /\ answered[c] # 1
      BY <2>2, <2>3, <3>1 DEF Lives, Created
    <3>3. answered[c] = 0
      BY <2>2, <3>1, <3>2
    <3>4. parent[c] \in Cmds /\ op[parent[c]] = "open"
      BY <2>2, <3>1, <3>2, <3>3 DEF Lives
    <3>5. QED
      BY <2>2, <3>2, <3>4 DEF Lives
  <2>5. listed = {}
    BY <2>2, <2>4 DEF Tree
  <2>6. Len(posted) = 0
    <3>1. SUFFICES ASSUME Len(posted) # 0 PROVE FALSE
      OBVIOUS
    <3>2. 1 \in 1 .. Len(posted) /\ posted[1] \in Cmds
      BY <2>2, <3>1
    <3>3. posted[1] \in listed
      BY <2>2, <3>2 DEF Turns, Lives
    <3>4. QED
      BY <2>5, <3>3
  <2>7. QED
    BY <2>2, <2>5, <2>6
<1>2. QED
  BY <1>1, CInvariant, PTL

\* "It just signals to its caller" (doc/arch.md) is true with the failures of SafeShapes: the
\* operation that started a child is there when the child completes.
THEOREM ComCallerIsThere ==
  ASSUME SafeShapes PROVE Spec => []CallerIsThere
<1>1. QED
  BY ParentIsOpen, CInvariant, PTL
===============================================================================
