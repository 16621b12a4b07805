----------------------------- MODULE Copy_proofs -----------------------------
(***************************************************************************)
(* Proofs about Copy, for every number of inputs and blocks, every command *)
(* line and every set of failures: types, and that neither a source that   *)
(* is put aside nor an exit code of 0 can be wrong about the copies, unless *)
(* an overlooked error is left without --verify.                           *)
(*                                                                         *)
(* The three properties speak of finished copies.  What makes them         *)
(* inductive is an account of the blocks of the file in progress: each one *)
(* read so far is in the file or in the cache, and none of another file    *)
(* is.  After an overlooked error the account is lost, except that no      *)
(* block is in the file and in a buffer at once: a file that passes the    *)
(* verification has left nothing behind for the next one.                  *)
(***************************************************************************)
EXTENDS Copy, TLAPS

\* The first n blocks of file i.
Part(i, n) == {i} \X (1 .. n)

DataStates == {"read", "write", "rddone", "verify", "done"}
IdleStates == {"src", "open", "close", "opentmp", "rename", "complete"}

\* Where the loop is, and what the output object is at that point.
Control ==
  /\ st \in DataStates \cup (IdleStates \ {"src"}) => cur \in Files
  /\ st \in {"src", "open", "opentmp", "rename", "complete", "remtmp", "remout", "over"} => path = "none"
  /\ mode.into => path # "tmp" /\ st # "remtmp"
  /\ st = "end" /\ del => path = (IF mode.into THEN "out" ELSE "tmp") /\ cur \in Files
  /\ st \in {"remtmp", "remout"} => del /\ cur \in Files
  /\ st \notin {"remout", "over", "crashed"} => left = {}
  /\ st = "close" => path = "out"
  /\ st \in {"close", "opentmp", "rename"} => ~mode.into
  /\ st \in DataStates => path = (IF mode.into THEN "out" ELSE "tmp") /\ del
  /\ st \in IdleStates => ~del
  /\ st \in DataStates \cup IdleStates => rc = 0
  /\ st \in {"open", "close", "opentmp"} => next = 1
  /\ st = "write" => next <= Blocks
  /\ st \in {"rddone", "verify", "done"} => next = Blocks + 1

\* Outside the data states nothing is buffered.
Quiet ==
  st \in IdleStates \/ (st = "end" /\ ~del) => cache = {} /\ rest = {}

\* The account of the blocks that were read of the file in progress.
HeldSound ==
  /\ cache \cup rest \cup Held \subseteq Part(cur, next - 1)
  /\ cache \cap Held = {} /\ rest \cap Held = {}
  /\ cache = {} \/ rest = {}
  /\ ~damaged => rest = {} /\ Held \cup cache = Part(cur, next - 1)

\* It is kept in the data states, and it comes out even.
Account ==
  /\ st \in DataStates => HeldSound
  /\ st = "done" => Held \cup cache = Part(cur, Blocks) /\ rest = {}
  /\ st = "done" /\ mode.verify => cache = {}
  /\ st = "close" \/ (st = "end" /\ ~del /\ path = "out") => out[cur] = New({})
  /\ st = "rename" => tmp[cur] = Whole(cur)
  /\ st = "complete" => out[cur] = Whole(cur)

\* No more is to be done with the output of the current file.
Settled ==
  /\ st \in {"src", "end", "over", "crashed"}
  /\ st = "end" => ~del /\ path = "none"

\* The copies that are finished.
Finished ==
  /\ \A i \in Files : i < cur => out[i] = Whole(i)
  /\ st = "src" /\ cur \in Files => out[cur] = Whole(cur)
  /\ st \in {"end", "remtmp", "remout", "over"} /\ rc = 0 =>
       cur = Inputs /\ Settled /\ \A i \in Files : out[i] = Whole(i)
  /\ \A i \in renamed : out[i] = Whole(i) /\ i <= cur /\ (i = cur => Settled)

CopyInv ==
  /\ TypeOK
  /\ Control
  /\ Trusted => Quiet /\ Account /\ Finished
  /\ TargetIsWhole

-----------------------------------------------------------------------------
\* One more block of a file.
LEMMA PartGrows ==
  ASSUME NEW i, NEW n \in Nat
  PROVE  /\ Part(i, n + 1) = Part(i, n) \cup {<<i, n + 1>>}
         /\ <<i, n + 1>> \notin Part(i, n)
<1>1. \A x : x \in 1 .. (n + 1) <=> x \in 1 .. n \/ x = n + 1
  OBVIOUS
<1>2. n + 1 \notin 1 .. n
  OBVIOUS
<1>3. QED
  BY <1>1, <1>2 DEF Part

LEMMA PartEmpty == \A i : Part(i, 0) = {}
BY DEF Part

\* A file of the program's making, with more blocks or not, is a file.
LEMMA NewIsFile == \A b \in SUBSET AllBlocks : New(b) \in FileStates
BY DEF New, FileStates

\* Writing to the open file adds to it and changes no other.
LEMMA PutFacts ==
  ASSUME TypeOK
  PROVE  \A b \in SUBSET AllBlocks : Put(b) =>
           /\ out' \in [Files -> FileStates] /\ tmp' \in [Files -> FileStates]
           /\ \A i \in Files : i # cur => out'[i] = out[i] /\ tmp'[i] = tmp[i]
           /\ path = "out" => /\ tmp' = tmp
                              /\ cur \in Files => out'[cur] = New(out[cur].has \cup b)
           /\ path # "out" => /\ out' = out
                              /\ cur \in Files => tmp'[cur] = New(tmp[cur].has \cup b)
<1> SUFFICES ASSUME NEW b \in SUBSET AllBlocks, Put(b)
             PROVE  /\ out' \in [Files -> FileStates] /\ tmp' \in [Files -> FileStates]
                    /\ \A i \in Files : i # cur => out'[i] = out[i] /\ tmp'[i] = tmp[i]
                    /\ path = "out" => /\ tmp' = tmp
                                       /\ cur \in Files => out'[cur] = New(out[cur].has \cup b)
                    /\ path # "out" => /\ out' = out
                                       /\ cur \in Files => tmp'[cur] = New(tmp[cur].has \cup b)
  OBVIOUS
<1>1. out \in [Files -> FileStates] /\ tmp \in [Files -> FileStates]
  BY DEF TypeOK
<1>2. \A f \in [Files -> FileStates], i \in Files : New(f[i].has \cup b) \in FileStates
  BY NewIsFile DEF FileStates
<1>3. CASE path = "out"
  <2>1. out' = [out EXCEPT ![cur] = New(out[cur].has \cup b)] /\ tmp' = tmp
    BY <1>3 DEF Put
  <2>2. QED
    BY <1>1, <1>2, <1>3, <2>1
<1>4. CASE path # "out"
  <2>1. tmp' = [tmp EXCEPT ![cur] = New(tmp[cur].has \cup b)] /\ out' = out
    BY <1>4 DEF Put
  <2>2. QED
    BY <1>1, <1>2, <1>4, <2>1
<1>5. QED
  BY <1>3, <1>4
-----------------------------------------------------------------------------
LEMMA InitInv == Init => CopyInv
<1> SUFFICES ASSUME Init PROVE CopyInv
  OBVIOUS
<1> USE CopyAssumption
<1>1. TypeOK
  <2>1. \A f \in [Files -> {Absent, Old}] : f \in [Files -> FileStates]
    BY DEF Absent, Old, FileStates
  <2>2. out \in [Files -> FileStates] /\ tmp \in [Files -> FileStates]
    BY <2>1 DEF Init
  <2>3. {del, stop, damaged} \subseteq BOOLEAN
    BY DEF Init
  <2>4. QED
    BY <2>2, <2>3 DEF Init, TypeOK, States, LoopStates
<1>2. Control
  BY DEF Init, Control, DataStates, IdleStates
<1>3. Quiet /\ Account
  BY DEF Init, Quiet, Account, DataStates, IdleStates
<1>4. Finished
  BY DEF Init, Finished, Files
<1>5. TargetIsWhole
  BY DEF Init, TargetIsWhole
<1>6. QED
  BY <1>1, <1>2, <1>3, <1>4, <1>5 DEF CopyInv

\* Every step keeps the types.
LEMMA TypeStep == CopyInv /\ [Next]_vars => TypeOK'
<1> SUFFICES ASSUME TypeOK, Control, [Next]_vars PROVE TypeOK'
  BY DEF CopyInv
<1> USE CopyAssumption
<1> DEFINE Rest == /\ mode' \in Modes /\ renamed' \subseteq Files /\ {del', stop', damaged'} \subseteq BOOLEAN
                   /\ left' \subseteq {"out", "tmp"}
           Words == /\ st' \in States /\ cur' \in 0 .. Inputs /\ next' \in 1 .. Blocks + 1
                    /\ path' \in {"none", "out", "tmp"} /\ rc' \in {0, 1}
           Disk == out' \in [Files -> FileStates] /\ tmp' \in [Files -> FileStates]
           Buffers == cache' \subseteq AllBlocks /\ rest' \subseteq AllBlocks
<1> SUFFICES Rest /\ Words /\ Disk /\ Buffers
  BY DEF TypeOK
<1>1. New({}) \in FileStates /\ Absent \in FileStates
  BY NewIsFile DEF Absent, FileStates
<1>2. UNCHANGED fsvars => Disk
  BY DEF fsvars, TypeOK
<1>3. UNCHANGED ovars => Buffers /\ path' \in {"none", "out", "tmp"}
  BY DEF ovars, TypeOK
<1>4. CASE NextSource
  <2>1. Rest
    BY <1>4, Zenon DEF NextSource, TypeOK, fsvars
  <2>2. Words
    BY <1>3, <1>4 DEF NextSource, GoEnd, TypeOK, States, LoopStates, At
  <2>3. QED
    BY <2>1, <2>2, <1>2, <1>3, <1>4 DEF NextSource
<1>5. CASE OpenOut
  <2>1. Rest
    BY <1>5 DEF OpenOut, TypeOK
  <2>2. Words
    BY <1>5 DEF OpenOut, GoEnd, TypeOK, States, LoopStates
  <2>3. Disk
    BY <1>1, <1>5 DEF OpenOut, TypeOK
  <2>4. QED
    BY <2>1, <2>2, <2>3, <1>5 DEF OpenOut, TypeOK
<1>6. CASE CloseReserved
  <2>1. Rest
    BY <1>6 DEF CloseReserved, FlushCache, TypeOK
  <2>2. Words
    BY <1>6 DEF CloseReserved, TypeOK, States
  <2>3. Disk
    BY PutFacts, <1>6 DEF CloseReserved, FlushCache, TypeOK
  <2>4. QED
    BY <2>1, <2>2, <2>3, <1>6 DEF CloseReserved, FlushCache, TypeOK
<1>7. CASE OpenTmp
  <2>1. Rest
    BY <1>7 DEF OpenTmp, TypeOK
  <2>2. Words
    BY <1>7 DEF OpenTmp, GoEnd, TypeOK, States, LoopStates
  <2>3. Disk
    BY <1>1, <1>7 DEF OpenTmp, TypeOK
  <2>4. QED
    BY <2>1, <2>2, <2>3, <1>7 DEF OpenTmp, TypeOK
<1>8. CASE Read
  <2>1. Rest
    BY <1>8 DEF Read, TypeOK, fsvars
  <2>2. Words
    BY <1>3, <1>8 DEF Read, GoEnd, TypeOK, States, LoopStates
  <2>3. QED
    BY <2>1, <2>2, <1>2, <1>3, <1>8 DEF Read
<1>9. CASE Write
  <2> DEFINE b == <<cur, next>>
  <2>1. b \in AllBlocks
    BY <1>9 DEF Write, At, Control, DataStates, TypeOK, AllBlocks
  <2>2. Rest
    BY <1>9 DEF Write, StoreBlock, StorePart, StoreRest, TypeOK
  <2>3. Words
    BY <1>9 DEF Write, At, GoEnd, Control, TypeOK, States, LoopStates
  <2>4. StoreBlock(b) => Disk /\ Buffers
    BY PutFacts, <2>1 DEF StoreBlock, TypeOK
  <2>5. ASSUME StorePart(b) PROVE Disk /\ Buffers
    <3>1. PICK taken \in SUBSET cache : rest' = (cache \ taken) \cup {b} /\ Put(taken)
      BY <2>5 DEF StorePart
    <3>2. taken \in SUBSET AllBlocks
      BY DEF TypeOK
    <3>3. Disk
      BY PutFacts, <3>1, <3>2
    <3>4. QED
      BY <2>1, <2>5, <3>1, <3>3 DEF StorePart, TypeOK
  <2>6. StoreRest => Disk /\ Buffers
    BY PutFacts DEF StoreRest, TypeOK
  <2>7. UNCHANGED <<out, tmp>> /\ cache' = {} /\ rest' = {} => Disk /\ Buffers
    BY DEF TypeOK
  <2>8. Disk /\ Buffers
    BY <1>9, <2>4, <2>5, <2>6, <2>7 DEF Write
  <2>9. QED
    BY <2>2, <2>3, <2>8
<1>10. CASE ReadDone
  <2>1. Rest
    BY <1>10 DEF ReadDone, FlushCache, TypeOK
  <2>2. Words
    BY <1>10 DEF ReadDone, TypeOK, States, LoopStates
  <2>3. Disk
    BY PutFacts, <1>10 DEF ReadDone, FlushCache, TypeOK
  <2>4. QED
    BY <2>1, <2>2, <2>3, <1>10 DEF ReadDone, FlushCache, TypeOK
<1>11. CASE VerifyOut
  <2>1. Rest
    BY <1>11 DEF VerifyOut, TypeOK, fsvars
  <2>2. Words
    BY <1>3, <1>11 DEF VerifyOut, GoEnd, TypeOK, States, LoopStates
  <2>3. QED
    BY <2>1, <2>2, <1>2, <1>3, <1>11 DEF VerifyOut
<1>12. CASE CloseOut
  <2>1. Rest
    BY <1>12 DEF CloseOut, FlushCache, TypeOK
  <2>2. Words
    BY <1>12 DEF CloseOut, TypeOK, States
  <2>3. Disk
    BY PutFacts, <1>12 DEF CloseOut, FlushCache, TypeOK
  <2>4. QED
    BY <2>1, <2>2, <2>3, <1>12 DEF CloseOut, FlushCache, TypeOK
<1>13. CASE RenameTmp
  <2>1. Rest
    BY <1>13 DEF RenameTmp, TypeOK
  <2>2. Words
    BY <1>3, <1>13 DEF RenameTmp, GoEnd, TypeOK, States
  <2>3. cur \in Files => tmp[cur] \in FileStates
    BY DEF TypeOK
  <2>4. Disk
    BY <1>1, <1>13, <2>3 DEF RenameTmp, TypeOK
  <2>5. QED
    BY <2>1, <2>2, <2>4, <1>3, <1>13 DEF RenameTmp
<1>14. CASE Complete
  <2>1. cur \in Files
    BY <1>14 DEF Complete, Control, IdleStates
  <2>2. Rest
    BY <1>14, <2>1 DEF Complete, TypeOK
  <2>3. Words
    BY <1>3, <1>14 DEF Complete, TypeOK, States, LoopStates
  <2>4. QED
    BY <2>2, <2>3, <1>3, <1>14 DEF Complete, TypeOK
<1>15. CASE Stop
  <2>1. Rest
    BY <1>15 DEF Stop, TypeOK, fsvars
  <2>2. Words
    BY <1>3, <1>15 DEF Stop, GoEnd, TypeOK, States
  <2>3. QED
    BY <2>1, <2>2, <1>2, <1>3, <1>15 DEF Stop
<1>16. CASE CloseCopy
  <2>1. Rest
    BY <1>16 DEF CloseCopy, TypeOK
  <2>2. Words
    BY <1>16 DEF CloseCopy, TypeOK, States
  <2>3. Disk
    BY PutFacts, <1>1, <1>16 DEF CloseCopy, TypeOK
  <2>4. QED
    BY <2>1, <2>2, <2>3, <1>16 DEF CloseCopy, TypeOK
<1>21. CASE RemoveTmp \/ RemoveOut
  <2>1. Rest
    BY <1>21 DEF RemoveTmp, RemoveOut, TypeOK
  <2>2. Words
    BY <1>21 DEF RemoveTmp, RemoveOut, TypeOK, States, ovars
  <2>3. Disk
    BY <1>1, <1>21 DEF RemoveTmp, RemoveOut, TypeOK
  <2>4. Buffers
    BY <1>21 DEF RemoveTmp, RemoveOut, TypeOK, ovars
  <2>5. QED
    BY <2>1, <2>2, <2>3, <2>4
<1>17. CASE Signal
  <2>1. Rest
    BY <1>17 DEF Signal, TypeOK, fsvars
  <2>2. QED
    BY <2>1, <1>2, <1>3, <1>17 DEF Signal, TypeOK
<1>18. CASE Crash
  <2>1. Rest
    BY <1>18 DEF Crash, TypeOK, fsvars
  <2>2. QED
    BY <2>1, <1>2, <1>3, <1>18 DEF Crash, TypeOK, States
<1>19. CASE UNCHANGED vars
  BY <1>2, <1>3, <1>19 DEF vars, fsvars, TypeOK
<1>20. QED
  BY <1>4, <1>5, <1>6, <1>7, <1>8, <1>9, <1>10, <1>11, <1>12, <1>13, <1>14, <1>15, <1>16,
     <1>17, <1>18, <1>19, <1>21 DEF Next, Step

\* Every step keeps the account of where the loop is.
LEMMA ControlStep == CopyInv /\ [Next]_vars => Control'
<1> SUFFICES ASSUME TypeOK, Control, [Next]_vars PROVE Control'
  BY DEF CopyInv
<1> USE CopyAssumption DEF Control, DataStates, IdleStates, At, GoEnd
<1>1. CASE NextSource
  BY <1>1 DEF NextSource, TypeOK, Files, ovars
<1>2. CASE OpenOut
  BY <1>2 DEF OpenOut
<1>3. CASE CloseReserved
  BY <1>3 DEF CloseReserved
<1>4. CASE OpenTmp
  BY <1>4 DEF OpenTmp
<1>5. CASE Read
  BY <1>5 DEF Read, TypeOK, ovars
<1>6. CASE Write
  BY <1>6 DEF Write
<1>7. CASE ReadDone
  BY <1>7 DEF ReadDone
<1>8. CASE VerifyOut
  BY <1>8 DEF VerifyOut, TypeOK, ovars
<1>9. CASE CloseOut
  BY <1>9 DEF CloseOut
<1>10. CASE RenameTmp
  BY <1>10 DEF RenameTmp, ovars
<1>11. CASE Complete
  BY <1>11 DEF Complete, ovars
<1>12. CASE Stop
  BY <1>12 DEF Stop, ovars, LoopStates
<1>13. CASE CloseCopy
  BY <1>13 DEF CloseCopy
<1>14. CASE Signal
  BY <1>14 DEF Signal, ovars
<1>15. CASE Crash
  BY <1>15 DEF Crash, ovars
<1>16. CASE UNCHANGED vars
  BY <1>16 DEF vars, ovars
<1>18. CASE RemoveTmp \/ RemoveOut
  BY <1>18 DEF RemoveTmp, RemoveOut, ovars
<1>17. QED
  BY <1>1, <1>2, <1>3, <1>4, <1>5, <1>6, <1>7, <1>8,
     <1>9, <1>10, <1>11, <1>12, <1>13, <1>14, <1>15, <1>16, <1>18 DEF Next, Step

\* Neither an overlooked error nor the absence of --verify is taken back.
LEMMA TrustedStep == TypeOK /\ [Next]_vars => (Trusted' => Trusted)
<1> SUFFICES ASSUME TypeOK, [Next]_vars PROVE mode' = mode /\ (damaged => damaged')
  BY DEF Trusted
<1> USE DEF StoreBlock, StorePart, StoreRest, FlushCache
<1>1. CASE NextSource
  BY <1>1 DEF NextSource
<1>2. CASE OpenOut
  BY <1>2 DEF OpenOut
<1>3. CASE CloseReserved
  BY <1>3 DEF CloseReserved
<1>4. CASE OpenTmp
  BY <1>4 DEF OpenTmp
<1>5. CASE Read
  BY <1>5 DEF Read
<1>6. CASE Write
  BY <1>6 DEF Write
<1>7. CASE ReadDone
  BY <1>7 DEF ReadDone
<1>8. CASE VerifyOut
  BY <1>8 DEF VerifyOut
<1>9. CASE CloseOut
  BY <1>9 DEF CloseOut
<1>10. CASE RenameTmp
  BY <1>10 DEF RenameTmp
<1>11. CASE Complete
  BY <1>11 DEF Complete
<1>12. CASE Stop
  BY <1>12 DEF Stop
<1>13. CASE CloseCopy
  BY <1>13 DEF CloseCopy
<1>14. CASE Signal
  BY <1>14 DEF Signal
<1>15. CASE Crash
  BY <1>15 DEF Crash
<1>16. CASE UNCHANGED vars
  BY <1>16 DEF vars
<1>18. CASE RemoveTmp \/ RemoveOut
  BY <1>18 DEF RemoveTmp, RemoveOut
<1>17. QED
  BY <1>1, <1>2, <1>3, <1>4, <1>5, <1>6, <1>7, <1>8,
     <1>9, <1>10, <1>11, <1>12, <1>13, <1>14, <1>15, <1>16, <1>18 DEF Next, Step
\* The open file after a write to it.
LEMMA HeldFacts ==
  ASSUME TypeOK, cur \in Files, path \in {"out", "tmp"}, UNCHANGED <<cur, path>>
  PROVE  /\ \A b \in SUBSET AllBlocks : Put(b) => Held' = Held \cup b
         /\ UNCHANGED <<out, tmp>> => Held' = Held
<1>1. UNCHANGED <<out, tmp>> => Held' = Held
  BY DEF Held
<1>2. ASSUME NEW b \in SUBSET AllBlocks, Put(b) PROVE Held' = Held \cup b
  <2>1. CASE path = "out"
    <3>1. out'[cur] = New(out[cur].has \cup b)
      BY PutFacts, <1>2, <2>1
    <3>2. out'[cur].has = out[cur].has \cup b
      BY <3>1 DEF New
    <3>3. QED
      BY <2>1, <3>2 DEF Held
  <2>2. CASE path = "tmp"
    <3>1. tmp'[cur] = New(tmp[cur].has \cup b)
      BY PutFacts, <1>2, <2>2
    <3>2. tmp'[cur].has = tmp[cur].has \cup b
      BY <3>1 DEF New
    <3>3. QED
      BY <2>2, <3>2 DEF Held
  <2>3. QED
    BY <2>1, <2>2
<1>3. QED
  BY <1>1, <1>2

\* What a trusted copy has in its buffers when it is not at work.
LEMMA QuietStep == CopyInv /\ [Next]_vars /\ Trusted' => Quiet'
<1> SUFFICES ASSUME TypeOK, Control, Quiet, Account, [Next]_vars, Trusted' PROVE Quiet'
  BY TrustedStep DEF CopyInv
<1> USE DEF Quiet, Control, DataStates, IdleStates, At, GoEnd
<1>1. CASE NextSource
  BY <1>1 DEF NextSource, ovars
<1>2. CASE OpenOut
  BY <1>2 DEF OpenOut
<1>3. CASE CloseReserved
  BY <1>3 DEF CloseReserved, FlushCache
<1>4. CASE OpenTmp
  BY <1>4 DEF OpenTmp
<1>5. CASE Read
  BY <1>5 DEF Read, ovars
<1>6. CASE Write
  BY <1>6 DEF Write
<1>7. CASE ReadDone
  BY <1>7 DEF ReadDone
<1>8. CASE VerifyOut
  BY <1>8 DEF VerifyOut, ovars
<1>9. CASE CloseOut
  <2>1. rest' = {} /\ mode' = mode
    BY <1>9 DEF CloseOut, Account
  <2>2. cache' = {} \/ (damaged' /\ cache # {})
    BY <1>9 DEF CloseOut, FlushCache
  <2>3. mode.verify => cache = {}
    BY <1>9 DEF CloseOut, Account
  <2>4. QED
    BY <2>1, <2>2, <2>3 DEF Trusted
<1>10. CASE RenameTmp
  BY <1>10 DEF RenameTmp, ovars
<1>11. CASE Complete
  BY <1>11 DEF Complete, ovars
<1>12. CASE Stop
  BY <1>12 DEF Stop, ovars, LoopStates
<1>13. CASE CloseCopy
  BY <1>13 DEF CloseCopy
<1>14. CASE Signal
  BY <1>14 DEF Signal, ovars
<1>15. CASE Crash
  BY <1>15 DEF Crash, ovars
<1>16. CASE UNCHANGED vars
  BY <1>16 DEF vars, ovars
<1>18. CASE RemoveTmp \/ RemoveOut
  BY <1>18 DEF RemoveTmp, RemoveOut, ovars
<1>17. QED
  BY <1>1, <1>2, <1>3, <1>4, <1>5, <1>6, <1>7, <1>8,
     <1>9, <1>10, <1>11, <1>12, <1>13, <1>14, <1>15, <1>16, <1>18 DEF Next, Step

\* A target under its final name is whole: it is not written to.
LEMMA WholeStep == CopyInv /\ [Next]_vars /\ Trusted' => TargetIsWhole'
<1> SUFFICES ASSUME TypeOK, Control, Quiet, Account, TargetIsWhole, Trusted, [Next]_vars, ~mode'.into,
                    NEW i \in Files
             PROVE  out'[i] \in {Absent, Old, New({}), Whole(i)}
  BY TrustedStep DEF CopyInv, TargetIsWhole, Whole, New, Absent, Old
<1>1. mode' = mode
  BY DEF Next, Step, NextSource, OpenOut, CloseReserved, OpenTmp, Read, Write, ReadDone,
         VerifyOut, CloseOut, RenameTmp, Complete, Stop, CloseCopy, RemoveTmp, RemoveOut,
     Signal, Crash, vars
<1>2. out[i] \in {Absent, Old, New({}), Whole(i)} /\ ~mode.into
  BY <1>1 DEF TargetIsWhole
<1>3. out' = out => out'[i] \in {Absent, Old, New({}), Whole(i)}
  BY <1>2
<1>4. ASSUME path = "tmp", NEW b \in SUBSET AllBlocks, Put(b) PROVE out' = out
  BY PutFacts, <1>4
<1>5. cache \in SUBSET AllBlocks /\ rest \in SUBSET AllBlocks /\ out \in [Files -> FileStates]
  BY DEF TypeOK
<1>6. st \in DataStates => path = "tmp"
  BY <1>2 DEF Control
<1>7. CASE OpenOut
  BY <1>2, <1>5, <1>7 DEF OpenOut
<1>8. CASE CloseReserved
  <2>1. cache = {} /\ path = "out" /\ cur \in Files /\ out[cur] = New({})
    BY <1>8 DEF CloseReserved, Quiet, Control, Account, IdleStates
  <2>2. out'[cur] = New(out[cur].has \cup cache) /\ (i # cur => out'[i] = out[i])
    BY PutFacts, <1>5, <1>8, <2>1 DEF CloseReserved, FlushCache
  <2>3. QED
    BY <1>2, <2>1, <2>2 DEF New
<1>9. CASE Write
  <2>1. path = "tmp" /\ <<cur, next>> \in AllBlocks
    BY <1>6, <1>9 DEF Write, At, DataStates, AllBlocks, Control, TypeOK
  <2>2. ASSUME StorePart(<<cur, next>>) PROVE out' = out
    <3>1. PICK taken \in SUBSET cache : Put(taken)
      BY <2>2 DEF StorePart
    <3>2. taken \in SUBSET AllBlocks
      BY <1>5
    <3>3. QED
      BY PutFacts, <2>1, <3>1, <3>2
  <2>3. StoreBlock(<<cur, next>>) => out' = out
    BY PutFacts, <1>5, <2>1 DEF StoreBlock
  <2>4. StoreRest => out' = out
    BY PutFacts, <1>5, <2>1 DEF StoreRest
  <2>5. QED
    BY <1>3, <1>9, <2>2, <2>3, <2>4 DEF Write
<1>10. CASE ReadDone \/ CloseOut
  <2>1. FlushCache /\ path = "tmp"
    BY <1>6, <1>10 DEF ReadDone, CloseOut, At, DataStates
  <2>2. out' = out
    BY PutFacts, <1>5, <2>1 DEF FlushCache
  <2>3. QED
    BY <1>3, <2>2
<1>11. CASE RenameTmp
  <2>1. tmp[cur] = Whole(cur)
    BY <1>11 DEF RenameTmp, Account
  <2>2. QED
    BY <1>2, <1>5, <1>11, <2>1 DEF RenameTmp
<1>12. CASE CloseCopy
  <2>1. CASE del
    <3>1. path # "out"
      BY <1>2, <1>12, <2>1 DEF CloseCopy, Control
    <3>2. QED
      BY PutFacts, <1>5, <1>12, <3>1, <1>3 DEF CloseCopy
  <2>2. ~del /\ path # "out" => out' = out
    BY PutFacts, <1>5, <1>12 DEF CloseCopy
  <2>3. ASSUME ~del, path = "out" PROVE out'[i] \in {out[i], New({})}
    <3>1. cache = {} /\ out[cur] = New({}) /\ (Put(cache) \/ UNCHANGED <<out, tmp>>)
      BY <1>12, <2>3 DEF CloseCopy, Quiet, Account
    <3>2. QED
      BY PutFacts, <1>5, <2>3, <3>1 DEF New
  <2>4. QED
    BY <1>2, <2>1, <2>2, <2>3
<1>15. CASE RemoveTmp \/ RemoveOut
  BY <1>2, <1>5, <1>15 DEF RemoveTmp, RemoveOut
<1>13. CASE NextSource \/ OpenTmp \/ Read \/ VerifyOut \/ Complete \/ Stop \/ Signal \/ Crash \/ UNCHANGED vars
  BY <1>3, <1>13 DEF NextSource, OpenTmp, Read, VerifyOut, Complete, Stop, Signal, Crash, vars, fsvars
<1>14. QED
  BY <1>7, <1>8, <1>9, <1>10, <1>11, <1>12, <1>13, <1>15 DEF Next, Step

\* A block more, or what an overlooked short write makes of it.
LEMMA WriteStep ==
  CopyInv /\ Trusted /\ Write => HeldSound' \/ st' = "end"
<1> SUFFICES ASSUME TypeOK, Control, Account, Write, st' # "end" PROVE HeldSound'
  BY DEF CopyInv
<1> DEFINE b == <<cur, next>>
           P == Part(cur, next - 1)
           Q == Part(cur, next)
<1>1. /\ next' = next + 1 /\ UNCHANGED <<cur, path>>
      /\ StoreBlock(b) \/ StorePart(b) \/ StoreRest
  BY DEF Write, GoEnd
<1>2. cur \in Files /\ next \in 1 .. Blocks /\ path \in {"out", "tmp"} /\ Blocks \in Nat
  BY CopyAssumption DEF Write, At, Control, DataStates, TypeOK
<1>3. Q = P \cup {b} /\ b \notin P
  <2>1. next - 1 \in Nat /\ (next - 1) + 1 = next
    BY <1>2
  <2>2. QED
    BY PartGrows, <2>1
<1>4. Part(cur', next' - 1) = Q
  <2>1. (next + 1) - 1 = next
    BY <1>2
  <2>2. QED
    BY <1>1, <2>1
<1>5. HeldSound
  BY DEF Account, HeldSound, Write, At, DataStates
<1>6. cache \subseteq P /\ rest \subseteq P /\ Held \subseteq P
  BY <1>5 DEF HeldSound
<1>7. cache \cap Held = {} /\ rest \cap Held = {}
  BY <1>5 DEF HeldSound
<1>8. rest # {} => damaged /\ cache = {}
  BY <1>5 DEF HeldSound
<1>9. ~damaged => Held \cup cache = P
  BY <1>5 DEF HeldSound
<1>10. cache \in SUBSET AllBlocks /\ rest \in SUBSET AllBlocks /\ b \in AllBlocks
  BY <1>2 DEF TypeOK, AllBlocks
<1> HIDE DEF b, P, Q
<1> DEFINE In == cache' \cup rest' \cup Held' \subseteq Q
           Once == cache' \cap Held' = {} /\ rest' \cap Held' = {} /\ (cache' = {} \/ rest' = {})
           All == ~damaged' => rest' = {} /\ Held' \cup cache' = Q
<1> SUFFICES In /\ Once /\ All
  BY <1>4 DEF HeldSound
<1>11. ASSUME StoreBlock(b) PROVE In /\ Once /\ All
  <2>1. rest = {} /\ rest' = {} /\ damaged' = damaged
    BY <1>11 DEF StoreBlock
  <2>2. CASE cache' = cache \cup {b} /\ UNCHANGED <<out, tmp>>
    <3>1. Held' = Held
      BY HeldFacts, <1>1, <1>2, <2>2
    <3>2. In
      BY <1>3, <1>6, <2>1, <2>2, <3>1
    <3>3. b \notin Held
      BY <1>3, <1>6
    <3>4. Once
      BY <1>7, <2>1, <2>2, <3>1, <3>3
    <3>5. All
      BY <1>3, <1>9, <2>1, <2>2, <3>1
    <3>6. QED
      BY <3>2, <3>4, <3>5
  <2>3. CASE cache' = {} /\ Put(cache \cup {b})
    <3>1. cache \cup {b} \in SUBSET AllBlocks
      BY <1>10
    <3>2. Held' = Held \cup (cache \cup {b})
      BY HeldFacts, <1>1, <1>2, <2>3, <3>1
    <3>3. In
      BY <1>3, <1>6, <2>1, <2>3, <3>2
    <3>4. Once
      BY <2>1, <2>3
    <3>5. All
      BY <1>3, <1>9, <2>1, <2>3, <3>2
    <3>6. QED
      BY <3>3, <3>4, <3>5
  <2>4. QED
    BY <1>11, <2>2, <2>3 DEF StoreBlock
<1>12. ASSUME StorePart(b) PROVE In /\ Once /\ All
  <2>1. PICK taken \in SUBSET cache : rest' = (cache \ taken) \cup {b} /\ Put(taken)
    BY <1>12 DEF StorePart
  <2>2. cache' = {} /\ damaged'
    BY <1>12 DEF StorePart
  <2>3. Held' = Held \cup taken
    <3>1. taken \in SUBSET AllBlocks
      BY <1>10
    <3>2. QED
      BY HeldFacts, <1>1, <1>2, <2>1, <3>1
  <2>4. In
    <3>1. taken \subseteq P /\ (cache \ taken) \cup {b} \subseteq Q
      BY <1>3, <1>6
    <3>2. QED
      BY <1>3, <1>6, <2>1, <2>2, <2>3, <3>1
  <2>5. rest' \cap Held' = {}
    <3>1. b \notin Held \cup taken
      BY <1>3, <1>6
    <3>2. (cache \ taken) \cap (Held \cup taken) = {}
      BY <1>7
    <3>3. QED
      BY <2>1, <2>3, <3>1, <3>2
  <2>6. QED
    BY <2>2, <2>4, <2>5
<1>13. ASSUME StoreRest PROVE In /\ Once /\ All
  <2>1. rest # {} /\ cache' = cache /\ damaged' = damaged
    BY <1>13 DEF StoreRest
  <2>2. damaged' /\ cache' = {}
    BY <1>8, <2>1
  <2>3. CASE rest' = {} /\ Put(rest)
    <3>1. Held' = Held \cup rest
      BY HeldFacts, <1>1, <1>2, <1>10, <2>3
    <3>2. In
      BY <1>3, <1>6, <2>2, <2>3, <3>1
    <3>3. QED
      BY <2>2, <2>3, <3>2
  <2>4. CASE UNCHANGED <<rest, out, tmp>>
    <3>1. Held' = Held /\ rest' = rest
      BY HeldFacts, <1>1, <1>2, <2>4
    <3>2. In
      BY <1>3, <1>6, <2>2, <3>1
    <3>3. Once
      BY <1>7, <2>2, <3>1
    <3>4. QED
      BY <2>2, <3>2, <3>3
  <2>5. QED
    BY <1>13, <2>3, <2>4 DEF StoreRest
<1>14. QED
  BY <1>1, <1>11, <1>12, <1>13
\* A flush of the open file: all of the cache gets there, or the copy is damaged.
LEMMA FlushFacts ==
  ASSUME TypeOK, cur \in Files, path \in {"out", "tmp"}, FlushCache
  PROVE  \/ /\ cache' = {} /\ damaged' = damaged
            /\ UNCHANGED <<cur, path>> => Held' = Held \cup cache
            /\ path = "out" => out'[cur] = New(out[cur].has \cup cache)
            /\ path = "tmp" => tmp'[cur] = New(tmp[cur].has \cup cache)
         \/ /\ cache # {} /\ cache' = cache /\ damaged'
            /\ UNCHANGED <<cur, path>> => Held' = Held
<1>1. cache \in SUBSET AllBlocks
  BY DEF TypeOK
<1>2. CASE cache' = {} /\ Put(cache) /\ UNCHANGED damaged
  <2>1. UNCHANGED <<cur, path>> => Held' = Held \cup cache
    BY HeldFacts, <1>1, <1>2
  <2>2. path = "out" => out'[cur] = New(out[cur].has \cup cache)
    BY PutFacts, <1>1, <1>2
  <2>3. path = "tmp" => tmp'[cur] = New(tmp[cur].has \cup cache)
    BY PutFacts, <1>1, <1>2
  <2>4. QED
    BY <1>2, <2>1, <2>2, <2>3
<1>3. CASE damaged' = TRUE /\ cache # {} /\ UNCHANGED <<out, tmp, cache>>
  BY HeldFacts, <1>3
<1>4. QED
  BY <1>2, <1>3 DEF FlushCache

\* The account of the blocks goes on while a file is copied.
LEMMA AccountStep == CopyInv /\ [Next]_vars /\ Trusted' => Account'
<1> SUFFICES ASSUME TypeOK, Control, Quiet, Account, CopyInv, Trusted, [Next]_vars, Trusted'
             PROVE  Account'
  BY TrustedStep DEF CopyInv
<1> DEFINE Data == HeldSound /\ (st = "done" => rest = {} /\ (mode.verify => cache = {})
                                   /\ Held \cup cache = Part(cur, Blocks))
           Rest == /\ st = "close" \/ (st = "end" /\ ~del /\ path = "out") => out[cur] = New({})
                   /\ st = "rename" => tmp[cur] = Whole(cur)
                   /\ st = "complete" => out[cur] = Whole(cur)
<1> SUFFICES (st' \in DataStates => Data') /\ Rest'
  BY DEF Account, DataStates
<1>1. st \in DataStates => Data
  BY DEF Account
<1>2. Rest
  BY DEF Account
<1>3. st \in DataStates => cur \in Files /\ path \in {"out", "tmp"} /\ del
  BY DEF Control
<1>4. st \in IdleStates => cache = {} /\ rest = {} /\ ~del
  BY DEF Quiet, Control
<1>5. UNCHANGED <<mode, fsvars, cur, next, ovars, damaged>> /\ st' # "done" => (HeldSound => Data')
  BY DEF fsvars, ovars, HeldSound, Held
<1> USE DEF At, GoEnd
<1>6. CASE NextSource
  <2>1. st' \notin DataStates /\ st' \in {"open", "end"} /\ path' = "none"
    BY <1>6 DEF NextSource, Control, DataStates, ovars
  <2>2. QED
    BY <2>1
<1>7. CASE OpenOut
  <2>1. cache' = {} /\ rest' = {} /\ cur' = cur /\ next' = 1 /\ cur \in Files
    BY <1>4, <1>7 DEF OpenOut, Control, IdleStates
  <2>2. st' \in {"read", "close", "end"} /\ path' \in {"none", "out"}
    BY <1>7 DEF OpenOut, Control
  <2>3. path' = "out" => out'[cur] = New({})
    BY <1>7, <2>1 DEF OpenOut, Control, TypeOK
  <2>4. st' \in {"read", "close"} => path' = "out"
    BY <1>7 DEF OpenOut
  <2>5. path' = "out" => Held' = {}
    BY <2>1, <2>3 DEF Held, New
  <2>6. Part(cur', next' - 1) = {}
    BY <2>1, PartEmpty
  <2>7. st' = "read" => HeldSound'
    BY <2>1, <2>4, <2>5, <2>6 DEF HeldSound
  <2>8. QED
    BY <2>1, <2>2, <2>3, <2>4, <2>7 DEF DataStates
<1>8. CASE CloseReserved
  BY <1>8 DEF CloseReserved, DataStates
<1>9. CASE OpenTmp
  <2>1. cache' = {} /\ rest' = {} /\ cur' = cur /\ next' = 1 /\ cur \in Files
    BY <1>4, <1>9 DEF OpenTmp, Control, IdleStates
  <2>2. st' \in {"read", "end"} /\ path' \in {"none", "tmp"} /\ (st' = "read" => path' = "tmp")
    BY <1>9 DEF OpenTmp, Control
  <2>3. path' = "tmp" => tmp'[cur] = New({})
    BY <1>9, <2>1 DEF OpenTmp, Control, TypeOK
  <2>4. path' = "tmp" => Held' = {}
    BY <2>1, <2>3 DEF Held, New
  <2>5. Part(cur', next' - 1) = {}
    BY <2>1, PartEmpty
  <2>6. st' = "read" => HeldSound'
    BY <2>1, <2>2, <2>4, <2>5 DEF HeldSound
  <2>7. QED
    BY <2>2, <2>6 DEF DataStates
<1>10. CASE Read
  <2>1. HeldSound /\ del' /\ st' \in {"write", "rddone", "end"}
    BY <1>1, <1>3, <1>10 DEF Read, DataStates
  <2>2. QED
    BY <1>5, <1>10, <2>1 DEF Read, DataStates
<1>11. CASE Write
  <2>1. st' \in {"read", "end"} /\ del'
    BY <1>3, <1>11 DEF Write, DataStates
  <2>2. QED
    BY WriteStep, <1>11, <2>1 DEF DataStates
<1>12. CASE ReadDone
  <2>1. HeldSound /\ cur \in Files /\ path \in {"out", "tmp"} /\ next = Blocks + 1 /\ FlushCache
    BY <1>1, <1>3, <1>12 DEF ReadDone, DataStates, Control
  <2>2. UNCHANGED <<mode, cur, next, path, rest>> /\ st' = (IF mode.verify THEN "verify" ELSE "done")
    BY <1>12 DEF ReadDone
  <2>3. \/ cache' = {} /\ damaged' = damaged /\ Held' = Held \cup cache
        \/ cache # {} /\ cache' = cache /\ damaged' /\ Held' = Held
    BY FlushFacts, <2>1, <2>2
  <2>4. HeldSound'
    <3>1. CASE cache' = {} /\ damaged' = damaged /\ Held' = Held \cup cache
      <4>1. /\ cache' \cup rest' \cup Held' \subseteq Part(cur, next - 1)
            /\ cache' \cap Held' = {} /\ cache' = {}
        BY <2>1, <2>2, <3>1 DEF HeldSound
      <4>2. rest' \cap Held' = {}
        BY <2>1, <2>2, <3>1 DEF HeldSound
      <4>3. ~damaged' => rest' = {} /\ Held' \cup cache' = Part(cur, next - 1)
        BY <2>1, <2>2, <3>1 DEF HeldSound
      <4>4. QED
        BY <2>2, <4>1, <4>2, <4>3 DEF HeldSound
    <3>2. CASE cache' = cache /\ damaged' /\ Held' = Held
      BY <2>1, <2>2, <3>2 DEF HeldSound
    <3>3. QED
      BY <2>3, <3>1, <3>2
  <2>5. st' = "done" => ~mode'.verify /\ ~damaged'
    BY <2>2 DEF Trusted
  <2>6. next' - 1 = Blocks
    BY CopyAssumption, <2>1, <2>2
  <2>7. st' = "done" => rest' = {} /\ Held' \cup cache' = Part(cur', Blocks)
    BY <2>4, <2>5, <2>6 DEF HeldSound
  <2>8. QED
    BY <2>2, <2>4, <2>5, <2>7
<1>13. CASE VerifyOut
  <2>1. HeldSound /\ del /\ next = Blocks + 1
    BY <1>1, <1>3, <1>13 DEF VerifyOut, DataStates, Control
  <2>2. UNCHANGED <<mode, fsvars, cur, next, ovars, damaged, del>> /\ st' \in {"done", "end"}
    BY <1>13 DEF VerifyOut
  <2>3. HeldSound' /\ Held' = Held
    BY <2>1, <2>2 DEF HeldSound, Held, fsvars, ovars
  <2>4. ASSUME st' = "done" PROVE rest = {} /\ cache = {} /\ Held = Part(cur, Blocks)
    <3>1. Held = Part(cur, Blocks)
      BY <1>13, <2>4 DEF VerifyOut, Same, Part
    <3>2. next - 1 = Blocks
      BY CopyAssumption, <2>1
    <3>3. cache \subseteq Held /\ rest \subseteq Held
      BY <2>1, <3>1, <3>2 DEF HeldSound
    <3>4. cache \cap Held = {} /\ rest \cap Held = {}
      BY <2>1 DEF HeldSound
    <3>5. QED
      BY <3>1, <3>3, <3>4
  <2>5. QED
    BY <2>1, <2>2, <2>3, <2>4 DEF ovars, fsvars
<1>14. CASE CloseOut
  <2>1. Data /\ st = "done" /\ FlushCache /\ cur \in Files /\ path \in {"out", "tmp"}
    BY <1>1, <1>3, <1>14 DEF CloseOut, DataStates
  <2>2. mode' = mode /\ cur' = cur /\ st' = (IF mode.into THEN "complete" ELSE "rename")
    BY <1>14 DEF CloseOut
  <2>3. ~(cache # {} /\ damaged')
    BY <2>1, <2>2 DEF Trusted
  <2>4. Held \cup cache = Part(cur, Blocks) /\ Whole(cur) = New(Part(cur, Blocks))
    BY <2>1 DEF Whole, Part
  <2>5. path = "out" => out'[cur] = Whole(cur)
    BY FlushFacts, <2>1, <2>3, <2>4 DEF Held
  <2>6. path = "tmp" => tmp'[cur] = Whole(cur)
    BY FlushFacts, <2>1, <2>3, <2>4 DEF Held
  <2>7. path = (IF mode.into THEN "out" ELSE "tmp")
    BY <2>1 DEF Control, DataStates
  <2>8. QED
    BY <2>2, <2>5, <2>6, <2>7 DEF DataStates
<1>15. CASE RenameTmp
  <2>1. cur' = cur /\ cur \in Files /\ path' = "none" /\ st' \in {"complete", "end"}
    BY <1>15 DEF RenameTmp, Control, IdleStates, ovars
  <2>2. st' = "complete" => out'[cur] = Whole(cur)
    BY <1>2, <1>15, <2>1 DEF RenameTmp, TypeOK
  <2>3. QED
    BY <2>1, <2>2 DEF DataStates
<1>16. CASE Complete
  BY <1>16 DEF Complete, DataStates
<1>17. CASE Stop
  <2>1. st' = "end" /\ del' = del /\ path' = path
    BY <1>17 DEF Stop, ovars
  <2>2. del \/ path = "none"
    BY <1>3, <1>17 DEF Stop, LoopStates, DataStates, Control
  <2>3. QED
    BY <2>1, <2>2 DEF DataStates
<1>18. CASE CloseCopy
  BY <1>18 DEF CloseCopy, DataStates
<1>19. CASE Signal \/ UNCHANGED vars
  <2>1. UNCHANGED <<mode, fsvars, st, cur, next, ovars, damaged, del>>
    BY <1>19 DEF Signal, vars
  <2>2. QED
    BY <1>1, <1>2, <2>1 DEF fsvars, ovars, HeldSound, Held
<1>20. CASE Crash
  BY <1>20 DEF Crash, DataStates
<1>21. CASE RemoveTmp \/ RemoveOut
  BY <1>21 DEF RemoveTmp, RemoveOut, DataStates
<1>22. QED
  BY <1>6, <1>7, <1>8, <1>9, <1>10, <1>11, <1>12, <1>13, <1>14, <1>15, <1>16, <1>17, <1>18,
     <1>19, <1>20, <1>21 DEF Next, Step

\* A finished copy is not touched again.
LEMMA FinishedStep == CopyInv /\ [Next]_vars /\ Trusted' => Finished'
<1> SUFFICES ASSUME TypeOK, Control, Quiet, Account, Finished, [Next]_vars, Trusted'
             PROVE  Finished'
  BY TrustedStep DEF CopyInv
<1> USE CopyAssumption DEF At, GoEnd
<1>1. cur \in 0 .. Inputs /\ cur \in Int /\ out \in [Files -> FileStates] /\ renamed \subseteq Files
      /\ cache \in SUBSET AllBlocks
  BY DEF TypeOK
<1>2. \A i \in Files : i \in 1 .. Inputs /\ i \in Int
  BY DEF Files
<1> DEFINE Frame == \A i \in Files : i # cur => out'[i] = out[i]
\* A step inside the copying of one file: the finished ones are those before it.
<1>3. ASSUME cur' = cur, renamed' = renamed, Frame, ~Settled,
             st' # "src", st' \in {"end", "remtmp", "remout", "over"} => rc' = 1
      PROVE  Finished'
  <2>1. \A i \in Files : i < cur => i # cur
    BY <1>1, <1>2
  <2>2. \A i \in Files : i < cur => out'[i] = Whole(i)
    BY <1>3, <2>1 DEF Finished
  <2>3. \A i \in renamed : i \in Files /\ i # cur /\ i <= cur /\ out[i] = Whole(i)
    BY <1>1, <1>3 DEF Finished
  <2>4. \A i \in renamed : i # cur /\ i <= cur /\ out'[i] = Whole(i)
    BY <1>3, <2>3
  <2>5. st' \in {"end", "remtmp", "remout", "over"} => rc' # 0
    BY <1>3
  <2>6. QED
    BY <1>3, <2>2, <2>4, <2>5 DEF Finished
\* A step after it, or one that ends it.
<1>4. ASSUME cur' = cur, renamed' = renamed, out' = out, Settled => Settled',
             st' # "src" \/ st = "src",
             st' \in {"end", "remtmp", "remout", "over"} /\ rc' = 0 =>
               st \in {"end", "remtmp", "remout", "over"} /\ rc = 0
      PROVE  Finished'
  BY <1>4 DEF Finished
<1>5. CASE NextSource
  <2>1. out' = out /\ renamed' = renamed /\ st = "src" /\ path' = "none" /\ ~del'
    BY <1>5 DEF NextSource, fsvars, ovars, Control, IdleStates
  <2>2. \A i \in Files : i <= cur => out[i] = Whole(i)
    <3>1. ASSUME NEW i \in Files, i <= cur PROVE i < cur \/ (i = cur /\ cur \in Files)
      BY <1>1, <1>2, <3>1
    <3>2. QED
      BY <2>1, <3>1 DEF Finished
  <2>3. \A i \in renamed : out[i] = Whole(i) /\ i <= cur
    BY DEF Finished
  <2>4. CASE cur = Inputs
    <3>1. st' = "end" /\ rc' = 0 /\ cur' = cur
      BY <1>5, <2>4 DEF NextSource
    <3>2. Settled'
      BY <2>1, <3>1 DEF Settled
    <3>3. \A i \in Files : out[i] = Whole(i)
      BY <1>2, <2>2, <2>4
    <3>4. QED
      BY <2>1, <2>3, <2>4, <3>1, <3>2, <3>3 DEF Finished
  <2>5. CASE cur # Inputs
    <3>1. cur' = cur + 1 /\ st' \in {"open", "end"} /\ (st' = "end" => rc' = 1)
      BY <1>5, <2>5 DEF NextSource
    <3>2. \A i \in Files : i < cur' => out'[i] = Whole(i)
      BY <1>1, <1>2, <2>1, <2>2, <3>1
    <3>3. \A i \in renamed : i <= cur' /\ i # cur'
      BY <1>1, <1>2, <2>3, <3>1
    <3>4. QED
      BY <2>1, <2>3, <3>1, <3>2, <3>3 DEF Finished
  <2>6. QED
    BY <2>4, <2>5
<1>6. CASE OpenOut
  <2>1. Frame
    BY <1>1, <1>6 DEF OpenOut
  <2>2. QED
    BY <1>3, <1>6, <2>1 DEF OpenOut, Settled
<1>7. CASE CloseReserved
  <2>1. Frame
    BY PutFacts, <1>1, <1>7 DEF CloseReserved, FlushCache
  <2>2. QED
    BY <1>3, <1>7, <2>1 DEF CloseReserved, Settled
<1>8. CASE OpenTmp
  BY <1>3, <1>8 DEF OpenTmp, Settled
<1>9. CASE Read
  BY <1>3, <1>9 DEF Read, Settled, fsvars
<1>10. CASE Write
  <2>1. <<cur, next>> \in AllBlocks
    BY <1>10 DEF Write, Control, DataStates, TypeOK, AllBlocks
  <2>2. ASSUME StorePart(<<cur, next>>) PROVE Frame
    <3>1. PICK taken \in SUBSET cache : Put(taken)
      BY <2>2 DEF StorePart
    <3>2. taken \in SUBSET AllBlocks
      BY <1>1
    <3>3. QED
      BY PutFacts, <3>1, <3>2
  <2>3. StoreBlock(<<cur, next>>) => Frame
    BY PutFacts, <1>1, <2>1 DEF StoreBlock
  <2>4. StoreRest => Frame
    BY PutFacts DEF StoreRest, TypeOK
  <2>5. Frame
    BY <1>10, <2>2, <2>3, <2>4 DEF Write
  <2>6. QED
    BY <1>3, <1>10, <2>5 DEF Write, Settled
<1>11. CASE ReadDone
  <2>1. Frame
    BY PutFacts, <1>1, <1>11 DEF ReadDone, FlushCache
  <2>2. QED
    BY <1>3, <1>11, <2>1 DEF ReadDone, Settled
<1>12. CASE VerifyOut
  BY <1>3, <1>12 DEF VerifyOut, Settled, fsvars
<1>13. CASE CloseOut
  <2>1. Frame
    BY PutFacts, <1>1, <1>13 DEF CloseOut, FlushCache
  <2>2. QED
    BY <1>3, <1>13, <2>1 DEF CloseOut, Settled
<1>14. CASE RenameTmp
  <2>1. Frame
    BY <1>1, <1>14 DEF RenameTmp
  <2>2. QED
    BY <1>3, <1>14, <2>1 DEF RenameTmp, Settled
<1>15. CASE Complete
  <2>1. cur' = cur /\ cur \in Files /\ out' = out /\ st' = "src" /\ out[cur] = Whole(cur)
    BY <1>15 DEF Complete, Control, Account, IdleStates
  <2>2. renamed' \subseteq renamed \cup {cur} /\ Settled'
    BY <1>15 DEF Complete, Settled
  <2>3. cur <= cur
    BY <1>1
  <2>4. \A i \in renamed' : out[i] = Whole(i) /\ i <= cur
    BY <2>1, <2>2, <2>3 DEF Finished
  <2>5. QED
    BY <2>1, <2>2, <2>4 DEF Finished
<1>16. CASE Stop
  <2>1. UNCHANGED <<cur, renamed, out, del, path>> /\ st' = "end" /\ rc' = 1
    BY <1>16 DEF Stop, fsvars, ovars
  <2>2. Settled => Settled'
    BY <1>16, <2>1 DEF Stop, Settled, LoopStates, Control, IdleStates
  <2>3. QED
    BY <1>4, <2>1, <2>2
<1>17. CASE CloseCopy
  <2>1. UNCHANGED <<cur, renamed, rc>> /\ st = "end" /\ st' \in {"remtmp", "remout", "over"}
    BY <1>17 DEF CloseCopy
  <2>2. CASE Settled
    <3>1. out' = out /\ st' = "over"
      BY <1>17, <2>1, <2>2 DEF CloseCopy, Settled
    <3>2. QED
      BY <1>4, <2>1, <3>1 DEF Settled
  <2>3. CASE ~Settled
    <3>1. rc = 1
      BY <2>1, <2>3 DEF Finished, TypeOK
    <3>2. Frame
      BY PutFacts, <1>1, <1>17 DEF CloseCopy
    <3>3. QED
      BY <1>3, <2>1, <2>3, <3>1, <3>2
  <2>4. QED
    BY <2>2, <2>3
<1>21. CASE RemoveTmp \/ RemoveOut
  <2>1. UNCHANGED <<cur, renamed, rc>> /\ st \in {"remtmp", "remout"} /\ st' \in {"remout", "over"}
    BY <1>21 DEF RemoveTmp, RemoveOut, fsvars
  <2>2. ~Settled
    BY <2>1 DEF Settled
  <2>3. rc = 1
    BY <2>1, <2>2 DEF Finished, TypeOK
  <2>4. Frame
    BY <1>1, <1>21 DEF RemoveTmp, RemoveOut
  <2>5. QED
    BY <1>3, <2>1, <2>2, <2>3, <2>4
<1>18. CASE Signal \/ UNCHANGED vars
  BY <1>4, <1>18 DEF Signal, vars, fsvars, ovars, Settled
<1>19. CASE Crash
  BY <1>4, <1>19 DEF Crash, fsvars, Settled
<1>20. QED
  BY <1>5, <1>6, <1>7, <1>8, <1>9, <1>10, <1>11, <1>12, <1>13, <1>14, <1>15, <1>16, <1>17,
     <1>18, <1>19, <1>21 DEF Next, Step

-----------------------------------------------------------------------------
LEMMA InvStep == CopyInv /\ [Next]_vars => CopyInv'
BY TypeStep, ControlStep, QuietStep, AccountStep, FinishedStep, TrustedStep, WholeStep
   DEF CopyInv, TargetIsWhole

\* The whole invariant, for every number of inputs and blocks, every command line
\* and every set of failures.
THEOREM CopyInvariant == Spec => []CopyInv
<1>1. Init => CopyInv
  BY InitInv
<1>2. CopyInv /\ [Next]_vars => CopyInv'
  BY InvStep
<1>3. QED
  BY <1>1, <1>2, PTL DEF Spec

THEOREM CopyTypes == Spec => []TypeOK
<1>1. CopyInv => TypeOK
  BY DEF CopyInv
<1>2. QED
  BY <1>1, CopyInvariant, PTL

\* "Rename source file to *.deleted after successful operation": the source is put
\* aside only when its target is whole, and the target stays so, whatever fails.
THEOREM CopyKeepsData == Spec => []TrustedIsCopied
<1>1. CopyInv => TrustedIsCopied
  BY DEF CopyInv, Finished, TrustedIsCopied, RenamedIsCopied
<1>2. QED
  BY <1>1, CopyInvariant, PTL

\* The exit code 0 of copy_run() says that every input was copied.
THEOREM CopySucceeds == Spec => []TrustedIsComplete
<1>1. CopyInv => TrustedIsComplete
  BY DEF CopyInv, Finished, TrustedIsComplete, SuccessIsComplete
<1>2. QED
  BY <1>1, CopyInvariant, PTL

\* The rename of TARGET.fcomtmp is the one step that makes a target: a crash at any
\* point leaves no part of a file under the final name.
THEOREM CopyIsAtomic == Spec => []TargetIsWhole
<1>1. CopyInv => TargetIsWhole
  BY DEF CopyInv
<1>2. QED
  BY <1>1, CopyInvariant, PTL

-----------------------------------------------------------------------------
\* The output may hold a part of a file: it is being written, the process was
\* killed, or output_close() is going to delete it.
Unfinished == st \in DataStates \cup {"remtmp", "remout", "crashed"} \/ (st = "end" /\ del)

\* What a copy leaves under a name when it is not in the middle of it.
Left(i) == {Absent, Old, Whole(i), New({})}

\* Nothing but the current output is unfinished, and of that only the file that
\* the object has open.
Tidy ==
  /\ \A i \in Files : i # cur \/ ~Unfinished => Tidied(i)
  /\ Unfinished /\ mode.into /\ cur \in Files => tmp[cur] \in Left(cur)
  /\ st = "end" /\ ~del /\ path = "tmp" => tmp[cur] = New({})

\* The temporary file is removed before the target.
Removing == st = "remout" => tmp[cur] \in Left(cur) \/ "tmp" \in left

\* Without --overwrite: what is written to, renamed over or deleted is not an older
\* file.
OwnOutput ==
  ~mode.overwrite =>
    /\ st \in DataStates \cup {"close", "opentmp", "rename"} \/ del \/ path # "none"
         => cur \in Files /\ out[cur] # Old
    /\ st = "rename" \/ path = "tmp" \/ (del /\ ~mode.into) => tmp[cur] # Old

\* Only the open file is written to; it is New then.
LEMMA PutSpares ==
  ASSUME TypeOK, cur \in Files, NEW b \in SUBSET AllBlocks, Put(b)
  PROVE  /\ \A i \in Files : i # cur => out'[i] = out[i] /\ tmp'[i] = tmp[i]
         /\ path = "out" => out'[cur] # Old /\ tmp' = tmp
         /\ path # "out" => tmp'[cur] # Old /\ out' = out
<1>1. New(out[cur].has \cup b) # Old /\ New(tmp[cur].has \cup b) # Old
  BY DEF New, Old
<1>2. QED
  BY <1>1, PutFacts

\* The same of a flush, ...
LEMMA FlushSpares ==
  ASSUME TypeOK, cur \in Files, FlushCache
  PROVE  /\ \A i \in Files : i # cur => out'[i] = out[i] /\ tmp'[i] = tmp[i]
         /\ path = "out" => (out[cur] # Old => out'[cur] # Old) /\ tmp' = tmp
         /\ path # "out" => (tmp[cur] # Old => tmp'[cur] # Old) /\ out' = out
<1>1. cache \in SUBSET AllBlocks
  BY DEF TypeOK
<1>2. QED
  BY <1>1, PutSpares DEF FlushCache

\* ... and of a write.
LEMMA WriteSpares ==
  ASSUME TypeOK, cur \in Files, NEW b, StoreBlock(b) \/ StorePart(b) \/ StoreRest,
         b \in AllBlocks
  PROVE  /\ \A i \in Files : i # cur => out'[i] = out[i] /\ tmp'[i] = tmp[i]
         /\ path = "out" => (out[cur] # Old => out'[cur] # Old) /\ tmp' = tmp
         /\ path # "out" => (tmp[cur] # Old => tmp'[cur] # Old) /\ out' = out
<1>1. cache \in SUBSET AllBlocks /\ rest \in SUBSET AllBlocks
  BY DEF TypeOK
<1>2. CASE UNCHANGED <<out, tmp>>
  BY <1>2
<1>3. CASE \E w \in SUBSET AllBlocks : Put(w)
  BY <1>3, PutSpares
<1>4. CASE StorePart(b)
  <2>1. PICK taken \in SUBSET cache : Put(taken)
    BY <1>4 DEF StorePart
  <2>2. QED
    BY <1>1, <1>3, <2>1
<1>5. CASE StoreBlock(b) \/ StoreRest
  <2>1. cache \cup {b} \in SUBSET AllBlocks
    BY <1>1
  <2>2. Put(cache \cup {b}) \/ Put(rest) \/ UNCHANGED <<out, tmp>>
    BY <1>5 DEF StoreBlock, StoreRest
  <2>3. QED
    BY <1>1, <1>2, <1>3, <2>1, <2>2
<1>6. QED
  BY <1>4, <1>5

\* What a step has to show for OldFilesStay.
OldStay == \A i \in Files : (out[i] = Old => out'[i] = Old) /\ (tmp[i] = Old => tmp'[i] = Old)

LEMMA OwnStep ==
  ASSUME CopyInv, OwnOutput, [Next]_vars
  PROVE  OwnOutput' /\ (~mode.overwrite => OldStay)
<1> USE DEF At, GoEnd, fsvars, ovars
<1>1. mode' = mode
  BY DEF Next, Step, NextSource, OpenOut, CloseReserved, OpenTmp, Read, Write, ReadDone,
         VerifyOut, CloseOut, RenameTmp, Complete, Stop, CloseCopy, RemoveTmp, RemoveOut,
     Signal, Crash, vars
<1> SUFFICES ASSUME ~mode.overwrite PROVE OwnOutput' /\ OldStay
  BY <1>1 DEF OwnOutput
<1> DEFINE Busy == st \in DataStates \cup {"close", "opentmp", "rename"} \/ del \/ path # "none"
<1>2. TypeOK /\ Control
  BY DEF CopyInv
<1>3. out \in [Files -> FileStates] /\ tmp \in [Files -> FileStates]
  BY <1>2 DEF TypeOK
<1>4. Busy => cur \in Files /\ out[cur] # Old
  BY DEF OwnOutput
<1>5. st = "rename" \/ path = "tmp" \/ (del /\ ~mode.into) => tmp[cur] # Old
  BY DEF OwnOutput
<1>6. CASE NextSource
  <2>1. ~del /\ path = "none" /\ UNCHANGED <<out, tmp, del, path, mode>> /\ st' \in {"open", "end"}
    BY <1>2, <1>6 DEF NextSource, Control, IdleStates
  <2>2. QED
    BY <2>1 DEF OwnOutput, OldStay, DataStates
<1>7. CASE OpenOut
  <2>1. cur \in Files /\ ~del /\ path = "none" /\ cur' = cur /\ tmp' = tmp /\ mode' = mode
    BY <1>2, <1>7 DEF OpenOut, Control, IdleStates
  <2>2. CASE out[cur] = Absent /\ out' = [out EXCEPT ![cur] = New({})] /\ path' = "out"
             /\ (del' => mode.into) /\ st' # "rename"
    <3>1. out'[cur] # Old /\ \A i \in Files : i # cur => out'[i] = out[i]
      BY <1>3, <2>1, <2>2 DEF New, Old
    <3>2. QED
      BY <2>1, <2>2, <3>1 DEF OwnOutput, OldStay, Absent, Old
  <2>3. CASE UNCHANGED <<out, path, del>> /\ st' = "end"
    BY <2>1, <2>3 DEF OwnOutput, OldStay, DataStates
  <2>4. QED
    BY <1>7, <2>1, <2>2, <2>3 DEF OpenOut, CanCreate
<1>8. CASE CloseReserved
  <2>1. cur \in Files /\ path = "out" /\ path' = "none" /\ ~del /\ ~del' /\ cur' = cur /\ mode' = mode
        /\ st' = "opentmp" /\ out[cur] # Old
    BY <1>2, <1>4, <1>8 DEF CloseReserved, Control, IdleStates
  <2>2. QED
    BY <1>2, <1>8, <2>1, FlushSpares DEF CloseReserved, OwnOutput, OldStay
<1>9. CASE OpenTmp
  <2>1. cur \in Files /\ ~del /\ path = "none" /\ cur' = cur /\ out' = out /\ mode' = mode /\ out[cur] # Old
        /\ st' # "rename"
    BY <1>2, <1>4, <1>9 DEF OpenTmp, Control, IdleStates
  <2>2. CASE tmp[cur] = Absent /\ tmp' = [tmp EXCEPT ![cur] = New({})]
    <3>1. tmp'[cur] # Old /\ \A i \in Files : i # cur => tmp'[i] = tmp[i]
      BY <1>3, <2>1, <2>2 DEF New, Old
    <3>2. QED
      BY <2>1, <2>2, <3>1 DEF OwnOutput, OldStay, Absent, Old
  <2>3. CASE UNCHANGED <<tmp, path, del>> /\ st' = "end"
    BY <2>1, <2>3 DEF OwnOutput, OldStay, DataStates
  <2>4. QED
    BY <1>9, <2>2, <2>3 DEF OpenTmp, CanCreate
<1>10. CASE Read \/ VerifyOut
  <2>1. UNCHANGED <<out, tmp, del, path, mode, cur>> /\ st \in DataStates /\ st' # "rename"
    BY <1>10 DEF Read, VerifyOut, DataStates
  <2>2. QED
    BY <1>4, <1>5, <2>1 DEF OwnOutput, OldStay
<1>11. CASE Write
  <2>1. st \in DataStates /\ cur' = cur /\ mode' = mode /\ path' = path /\ del' = del /\ st' # "rename"
    BY <1>11 DEF Write, DataStates
  <2>2. cur \in Files /\ <<cur, next>> \in AllBlocks
    BY <1>2, <1>11, <2>1 DEF Write, Control, AllBlocks, TypeOK
  <2>3. path \in {"out", "tmp"} /\ (del /\ ~mode.into => path = "tmp")
    BY <1>2, <2>1 DEF Control
  <2>4. CASE UNCHANGED <<out, tmp>>
    BY <1>4, <1>5, <2>1, <2>4 DEF OwnOutput, OldStay
  <2>5. CASE StoreBlock(<<cur, next>>) \/ StorePart(<<cur, next>>) \/ StoreRest
    BY <1>2, <1>4, <1>5, <2>1, <2>2, <2>3, <2>5, WriteSpares DEF OwnOutput, OldStay
  <2>6. QED
    BY <1>11, <2>4, <2>5 DEF Write
<1>12. CASE ReadDone \/ CloseOut
  <2>1. st \in DataStates /\ cur' = cur /\ mode' = mode /\ FlushCache
        /\ path' \in {path, "none"} /\ (del' => del) /\ (st' = "rename" => ~mode.into)
    BY <1>12 DEF ReadDone, CloseOut, DataStates
  <2>2. cur \in Files /\ path = IF mode.into THEN "out" ELSE "tmp"
    BY <1>2, <2>1 DEF Control
  <2>3. QED
    BY <1>2, <1>4, <1>5, <2>1, <2>2, FlushSpares DEF OwnOutput, OldStay
<1>13. CASE RenameTmp
  <2>1. cur \in Files /\ ~del /\ path = "none" /\ UNCHANGED <<cur, mode, path, del>> /\ st' \in {"complete", "end"}
        /\ out[cur] # Old /\ tmp[cur] # Old
    BY <1>2, <1>4, <1>5, <1>13 DEF RenameTmp, Control, IdleStates
  <2>2. \A i \in Files : i # cur => out'[i] = out[i] /\ tmp'[i] = tmp[i]
    BY <1>3, <1>13 DEF RenameTmp
  <2>3. QED
    BY <2>1, <2>2 DEF OwnOutput, OldStay, DataStates
<1>14. CASE Complete
  <2>1. UNCHANGED <<out, tmp, del, path, mode, cur>> /\ st' = "src" /\ st = "complete"
    BY <1>14 DEF Complete
  <2>2. QED
    BY <1>4, <1>5, <2>1 DEF OwnOutput, OldStay, DataStates
<1>15. CASE Stop \/ Crash \/ Signal \/ UNCHANGED vars
  <2>1. UNCHANGED <<out, tmp, del, path, mode, cur>> /\ st' \in {st, "end", "crashed"}
    BY <1>15 DEF Stop, Crash, Signal, vars
  <2>2. QED
    BY <1>4, <1>5, <2>1 DEF OwnOutput, OldStay, DataStates
<1>16. CASE CloseCopy
  <2>1. UNCHANGED <<del, mode, cur>> /\ st' \in {"over", "remtmp", "remout"} /\ path' = "none"
    BY <1>16 DEF CloseCopy
  <2>3. CASE path = "none"
    BY <1>16, <2>1, <2>3 DEF CloseCopy, OwnOutput, OldStay, DataStates
  <2>4. CASE path # "none"
    <3>1. Put(cache) \/ UNCHANGED <<out, tmp>>
      BY <1>16, <2>4 DEF CloseCopy
    <3>2. cache \in SUBSET AllBlocks /\ path \in {"none", "out", "tmp"}
      BY <1>2 DEF TypeOK
    <3>3. OldStay
      BY <1>2, <1>4, <1>5, <2>4, <3>1, <3>2, PutSpares DEF OldStay
    <3>5. out'[cur] # Old /\ (del /\ ~mode.into => tmp'[cur] # Old)
      BY <1>2, <1>4, <1>5, <2>4, <3>1, <3>2, PutSpares
    <3>4. QED
      BY <1>4, <2>1, <2>4, <3>3, <3>5 DEF OwnOutput, DataStates
  <2>5. QED
    BY <2>3, <2>4
<1>18. CASE RemoveTmp \/ RemoveOut
  <2>1. UNCHANGED <<del, path, mode, cur>> /\ path = "none" /\ del /\ st' \in {"remout", "over"}
        /\ (st = "remtmp" => ~mode.into)
    BY <1>2, <1>18 DEF RemoveTmp, RemoveOut, Control
  <2>2. \/ out' = [out EXCEPT ![cur] = Absent] /\ tmp' = tmp
        \/ ~mode.into /\ tmp' = [tmp EXCEPT ![cur] = Absent] /\ out' = out
        \/ UNCHANGED <<out, tmp>>
    BY <1>18, <2>1 DEF RemoveTmp, RemoveOut
  <2>3. Absent # Old
    BY DEF Absent, Old
  <2>4. OldStay /\ out'[cur] # Old /\ (~mode.into => tmp'[cur] # Old)
    BY <1>3, <1>4, <1>5, <2>1, <2>2, <2>3 DEF OldStay
  <2>5. QED
    BY <1>4, <2>1, <2>4 DEF OwnOutput, DataStates
<1>17. QED
  BY <1>6, <1>7, <1>8, <1>9, <1>10, <1>11, <1>12, <1>13, <1>14, <1>15, <1>16, <1>18 DEF Next, Step

\* A file that was there before is changed only by --overwrite, whatever fails and
\* whenever the copy is stopped or killed.
THEOREM CopySparesOldFiles == Spec => OldFilesStay
<1>1. Init => OwnOutput
  BY DEF Init, OwnOutput, DataStates
<1>2. CopyInv /\ OwnOutput /\ [Next]_vars => OwnOutput'
  BY OwnStep
<1>3. CopyInv /\ OwnOutput /\ [Next]_vars =>
        [~mode.overwrite => \A i \in Files : /\ out[i] = Old => out'[i] = Old
                                             /\ tmp[i] = Old => tmp'[i] = Old]_vars
  BY OwnStep DEF OldStay
<1>4. QED
  BY <1>1, <1>2, <1>3, CopyInvariant, PTL DEF Spec, OldFilesStay

-----------------------------------------------------------------------------
\* No step touches another file than the two of the current input.
Spared == \A i \in Files : i # cur => out'[i] = out[i] /\ tmp'[i] = tmp[i]

LEMMA PutSparesOthers ==
  ASSUME TypeOK, NEW b \in SUBSET AllBlocks, Put(b) PROVE Spared
BY PutFacts DEF Spared

LEMMA SparedStep == CopyInv /\ [Next]_vars => Spared
<1> SUFFICES ASSUME TypeOK, Control, [Next]_vars PROVE Spared
  BY DEF CopyInv
<1> USE DEF At, GoEnd, fsvars, ovars
<1>1. out \in [Files -> FileStates] /\ tmp \in [Files -> FileStates]
      /\ cache \in SUBSET AllBlocks /\ rest \in SUBSET AllBlocks
  BY DEF TypeOK
<1>2. CASE UNCHANGED <<out, tmp>>
  BY <1>2 DEF Spared
<1>3. CASE \E w \in SUBSET AllBlocks : Put(w)
  BY <1>3, PutSparesOthers
<1>4. CASE OpenOut \/ OpenTmp \/ RenameTmp
  BY <1>1, <1>4 DEF OpenOut, OpenTmp, RenameTmp, Spared
<1>5. CASE CloseReserved \/ ReadDone \/ CloseOut
  <2>1. FlushCache
    BY <1>5 DEF CloseReserved, ReadDone, CloseOut
  <2>2. QED
    BY <1>1, <1>2, <1>3, <2>1 DEF FlushCache
<1>6. CASE Write
  <2>1. <<cur, next>> \in AllBlocks
    BY <1>6 DEF Write, Control, DataStates, TypeOK, AllBlocks
  <2>2. CASE StorePart(<<cur, next>>)
    <3>1. PICK taken \in SUBSET cache : Put(taken)
      BY <2>2 DEF StorePart
    <3>2. QED
      BY <1>1, <1>3, <3>1
  <2>3. cache \cup {<<cur, next>>} \in SUBSET AllBlocks
    BY <1>1, <2>1
  <2>4. CASE Put(cache \cup {<<cur, next>>}) \/ Put(rest) \/ UNCHANGED <<out, tmp>>
    BY <1>1, <1>2, <1>3, <2>3, <2>4
  <2>5. QED
    BY <1>6, <2>2, <2>4 DEF Write, StoreBlock, StoreRest
<1>7. CASE CloseCopy
  BY <1>1, <1>2, <1>3, <1>7 DEF CloseCopy
<1>10. CASE RemoveTmp \/ RemoveOut
  BY <1>1, <1>10 DEF RemoveTmp, RemoveOut, Spared
<1>8. CASE NextSource \/ Read \/ VerifyOut \/ Complete \/ Stop \/ Signal \/ Crash \/ UNCHANGED vars
  BY <1>8 DEF NextSource, Read, VerifyOut, Complete, Stop, Signal, Crash, vars, Spared
<1>9. QED
  BY <1>4, <1>5, <1>6, <1>7, <1>8, <1>10 DEF Next, Step

\* A write cannot reach the name that the output object does not have open.
LEMMA OtherNameStays ==
  ASSUME TypeOK, path = "out", FlushCache \/ (\E b \in AllBlocks : StoreBlock(b) \/ StorePart(b)) \/ StoreRest
  PROVE  tmp' = tmp
BY DEF Put, FlushCache, StoreBlock, StorePart, StoreRest

LEMMA TidyStep ==
  ASSUME CopyInv, CopyInv', Trusted', Trusted, Tidy, Removing, [Next]_vars
  PROVE  Tidy'
<1> USE DEF At, GoEnd, fsvars, ovars
<1>1. TypeOK /\ Control /\ Quiet /\ Account /\ Control' /\ Quiet' /\ Account' /\ Spared /\ mode' = mode
  BY SparedStep DEF CopyInv, Next, Step, NextSource, OpenOut, CloseReserved, OpenTmp, Read, Write,
     ReadDone, VerifyOut, CloseOut, RenameTmp, Complete, Stop, CloseCopy, RemoveTmp, RemoveOut,
     Signal, Crash, vars
<1>2. out \in [Files -> FileStates] /\ tmp \in [Files -> FileStates]
  BY <1>1 DEF TypeOK
<1>3. \A i : Absent \in Left(i) /\ New({}) \in Left(i) /\ Whole(i) \in Left(i)
  BY DEF Left
<1> DEFINE Kept == UNCHANGED <<out, tmp>>
           Others == \A i \in Files : i # cur => out'[i] \in Left(i) /\ tmp'[i] \in Left(i)
           Both == cur \in Files => out'[cur] \in Left(cur) /\ tmp'[cur] \in Left(cur)
           Single == Unfinished' /\ mode.into /\ cur \in Files => tmp'[cur] \in Left(cur)
           Fresh == st' = "end" /\ ~del' /\ path' = "tmp" => tmp'[cur] = New({})
<1>4. Others
  BY <1>1 DEF Tidy, Spared, Tidied, Left
<1>5. ASSUME cur' = cur, Unfinished' \/ Both, Single, Fresh PROVE Tidy'
  BY <1>1, <1>4, <1>5 DEF Tidy, Tidied, Left
<1>22. CASE RemoveOut
  <2>1. cur' = cur /\ st' = "over" /\ tmp' = tmp /\ ~Unfinished' /\ left \subseteq left'
        /\ (out' = [out EXCEPT ![cur] = Absent] \/ "out" \in left')
    BY <1>22 DEF RemoveOut, Unfinished, DataStates
  <2>2. cur \in Files => out'[cur] = Absent \/ "out" \in left'
    BY <1>2, <2>1
  <2>3. tmp[cur] \in Left(cur) \/ "tmp" \in left
    BY <1>22 DEF RemoveOut, Removing
  <2>4. QED
    BY <1>4, <2>1, <2>2, <2>3 DEF Tidy, Tidied, Left
<1>23. CASE st \in {"remout", "over", "crashed"} /\ ~RemoveOut
  <2>1. \/ UNCHANGED <<out, tmp, cur, left, st, del, path>>
        \/ Crash /\ UNCHANGED <<out, tmp, cur, left>> /\ st = "remout"
    BY <1>23 DEF Next, Step, NextSource, OpenOut, CloseReserved, OpenTmp, Read, Write, ReadDone,
       VerifyOut, CloseOut, RenameTmp, Complete, Stop, CloseCopy, RemoveTmp, Signal, Crash, LoopStates, vars
  <2>2. CASE UNCHANGED <<out, tmp, cur, left, st, del, path>>
    BY <1>1, <2>2 DEF Tidy, Tidied, Left, Unfinished
  <2>3. CASE Crash /\ UNCHANGED <<out, tmp, cur, left>> /\ st = "remout"
    <3>1. Unfinished /\ Unfinished' /\ st' = "crashed"
      BY <2>3 DEF Crash, Unfinished
    <3>2. QED
      BY <1>1, <2>3, <3>1 DEF Tidy, Tidied, Left
  <2>4. QED
    BY <2>1, <2>2, <2>3
<1> SUFFICES ASSUME left = {} PROVE Tidy'
  BY <1>1, <1>22, <1>23 DEF Control
<1>6. ~Unfinished /\ cur \in Files => out[cur] \in Left(cur) /\ tmp[cur] \in Left(cur)
  BY DEF Tidy, Tidied, Left
<1>24. CASE RemoveTmp
  <2>1. cur' = cur /\ st' = "remout" /\ Unfinished' /\ ~mode.into
    BY <1>1, <1>24 DEF RemoveTmp, Control, Unfinished
  <2>2. QED
    BY <1>5, <2>1
<1>7. CASE NextSource
  <2>1. Kept /\ ~Unfinished /\ path' = "none"
    BY <1>1, <1>7 DEF NextSource, Unfinished, DataStates, Control
  <2>2. ~Unfinished'
    BY <1>1, <1>7 DEF NextSource, Unfinished, DataStates, Control, IdleStates
  <2>3. QED
    BY <2>1, <2>2 DEF Tidy, Tidied, Left
<1>8. CASE OpenOut
  <2>1. cur \in Files /\ cur' = cur /\ tmp' = tmp /\ ~Unfinished /\ path' # "tmp"
    BY <1>1, <1>8 DEF OpenOut, Control, IdleStates, DataStates, Unfinished
  <2>2. out'[cur] \in Left(cur)
    BY <1>2, <1>3, <1>6, <1>8, <2>1 DEF OpenOut
  <2>3. QED
    BY <1>5, <1>6, <2>1, <2>2
<1>9. CASE CloseReserved
  <2>1. cur \in Files /\ cur' = cur /\ path = "out" /\ path' = "none" /\ ~Unfinished
        /\ cache = {} /\ out[cur] = New({}) /\ FlushCache
    BY <1>1, <1>9 DEF CloseReserved, Control, IdleStates, DataStates, Unfinished, Quiet, Account
  <2>2. tmp' = tmp
    BY <1>1, <2>1, OtherNameStays
  <2>3. out'[cur] = New({})
    <3>1. CASE out' = out
      BY <2>1, <3>1
    <3>2. CASE Put({})
      <4>1. out'[cur] = New(out[cur].has \cup {})
        BY <1>1, <2>1, <3>2, PutFacts
      <4>2. New({}).has = {}
        BY DEF New
      <4>3. QED
        BY <2>1, <4>1, <4>2
    <3>3. QED
      BY <2>1, <3>1, <3>2 DEF FlushCache
  <2>4. QED
    BY <1>3, <1>5, <1>6, <2>1, <2>2, <2>3
<1>10. CASE OpenTmp
  <2>1. cur \in Files /\ cur' = cur /\ out' = out /\ ~Unfinished /\ path = "none"
    BY <1>1, <1>10 DEF OpenTmp, Control, IdleStates, DataStates, Unfinished
  <2>2. tmp'[cur] \in Left(cur) /\ (path' = "tmp" => tmp'[cur] = New({}))
    BY <1>2, <1>3, <1>6, <1>10, <2>1 DEF OpenTmp
  <2>3. QED
    BY <1>5, <1>6, <2>1, <2>2
<1>11. CASE Write
  <2>1. cur \in Files /\ cur' = cur /\ UNCHANGED <<path, del>> /\ Unfinished /\ del
        /\ <<cur, next>> \in AllBlocks
    BY <1>1, <1>11 DEF Write, Control, DataStates, Unfinished, AllBlocks, TypeOK
  <2>2. Unfinished'
    BY <1>11, <2>1 DEF Write, Unfinished, DataStates
  <2>3. mode.into => path = "out"
    BY <1>1, <1>11 DEF Write, Control, DataStates
  <2>4. mode.into => tmp' = tmp
    BY <1>1, <1>11, <2>1, <2>3, OtherNameStays DEF Write
  <2>5. mode.into => tmp[cur] \in Left(cur)
    BY <2>1 DEF Tidy
  <2>6. QED
    BY <1>5, <2>1, <2>2, <2>4, <2>5
<1>12. CASE ReadDone
  <2>1. cur \in Files /\ cur' = cur /\ UNCHANGED <<path, del>> /\ Unfinished /\ del /\ FlushCache /\ Unfinished'
    BY <1>1, <1>12 DEF ReadDone, Control, DataStates, Unfinished
  <2>2. mode.into => path = "out"
    BY <1>1, <1>12 DEF ReadDone, Control, DataStates
  <2>3. mode.into => tmp' = tmp
    BY <1>1, <2>1, <2>2, OtherNameStays
  <2>4. mode.into => tmp[cur] \in Left(cur)
    BY <2>1 DEF Tidy
  <2>5. QED
    BY <1>5, <2>1, <2>3, <2>4
<1>13. CASE Read \/ VerifyOut
  <2>1. cur' = cur /\ Kept /\ UNCHANGED <<path, del>> /\ Unfinished /\ del /\ Unfinished'
    BY <1>1, <1>13 DEF Read, VerifyOut, Control, DataStates, Unfinished
  <2>2. QED
    BY <1>5, <2>1 DEF Tidy
<1>14. CASE CloseOut
  <2>1. cur \in Files /\ cur' = cur /\ Unfinished /\ FlushCache /\ ~Unfinished' /\ path' = "none"
        /\ st' = IF mode.into THEN "complete" ELSE "rename"
    BY <1>1, <1>14 DEF CloseOut, Control, DataStates, Unfinished
  <2>2. CASE mode.into
    <3>1. path = "out"
      BY <1>1, <1>14, <2>2 DEF CloseOut, Control, DataStates
    <3>2. tmp' = tmp /\ tmp[cur] \in Left(cur)
      BY <1>1, <2>1, <2>2, <3>1, OtherNameStays DEF Tidy
    <3>3. out'[cur] = Whole(cur)
      BY <1>1, <2>1, <2>2 DEF Account, Whole
    <3>4. QED
      BY <1>3, <1>5, <2>1, <3>2, <3>3
  <2>3. CASE ~mode.into
    <3>1. tmp'[cur] = Whole(cur)
      BY <1>1, <2>1, <2>3 DEF Account, Whole
    <3>2. path = "tmp" /\ out' = out
      BY <1>1, <1>14, <2>1, <2>3 DEF CloseOut, Control, DataStates, FlushCache, Put
    <3>3. out[cur] \in Left(cur)
      BY <2>1, <2>3 DEF CopyInv, TargetIsWhole, Left
    <3>4. QED
      BY <1>3, <1>5, <2>1, <3>1, <3>2, <3>3
  <2>4. QED
    BY <2>2, <2>3
<1>15. CASE RenameTmp
  <2>1. cur \in Files /\ cur' = cur /\ ~Unfinished /\ path' = "none"
    BY <1>1, <1>15 DEF RenameTmp, Control, IdleStates, DataStates, Unfinished
  <2>2. out'[cur] \in Left(cur) /\ tmp'[cur] \in Left(cur)
    BY <1>2, <1>3, <1>6, <1>15, <2>1 DEF RenameTmp
  <2>3. QED
    BY <1>5, <2>1, <2>2
<1>16. CASE Complete
  <2>1. cur \in Files /\ cur' = cur /\ ~Unfinished /\ path' = "none" /\ Kept
    BY <1>1, <1>16 DEF Complete, Control, IdleStates, DataStates, Unfinished
  <2>2. QED
    BY <1>5, <1>6, <2>1
<1>17. CASE Stop
  <2>1. cur' = cur /\ Kept /\ UNCHANGED <<path, del>> /\ st' = "end" /\ st \in LoopStates
    BY <1>17 DEF Stop
  <2>2. del => Unfinished' /\ st \in DataStates
    BY <1>1, <2>1 DEF Control, LoopStates, IdleStates, DataStates, Unfinished
  <2>3. ~del => ~Unfinished /\ path = "none"
    BY <1>1, <2>1 DEF Control, LoopStates, IdleStates, DataStates, Unfinished
  <2>4. Single /\ Fresh
    <3>1. Unfinished' => Unfinished
      BY <2>1, <2>2 DEF Unfinished, DataStates
    <3>2. QED
      BY <2>1, <2>3, <3>1 DEF Tidy
  <2>5. Unfinished' \/ Both
    BY <1>6, <2>1, <2>2, <2>3
  <2>6. QED
    BY <1>5, <2>1, <2>4, <2>5
<1>18. CASE CloseCopy
  <2>1. cur' = cur /\ st = "end" /\ path' = "none" /\ st' = IF ~del THEN "over" ELSE IF mode.into THEN "remout" ELSE "remtmp"
    BY <1>18 DEF CloseCopy
  <2>2. CASE del
    <3>1. Unfinished' /\ Unfinished /\ (mode.into => path = "out")
      BY <1>1, <2>1, <2>2 DEF Unfinished, Control
    <3>2. mode.into => tmp' = tmp
      BY <1>18, <3>1 DEF CloseCopy, Put
    <3>3. mode.into /\ cur \in Files => tmp[cur] \in Left(cur)
      BY <3>1 DEF Tidy
    <3>4. QED
      BY <1>5, <2>1, <2>2, <3>1, <3>2, <3>3
  <2>3. CASE ~del
    <3>1. cache = {} /\ ~Unfinished /\ ~Unfinished'
      BY <1>1, <2>1, <2>3 DEF Quiet, Unfinished, DataStates
    <3>2. CASE Kept
      BY <1>5, <1>6, <2>1, <3>1, <3>2
    <3>3. CASE path # "none" /\ Put({})
      <4>1. New(New({}).has \cup {}) = New({})
        BY DEF New
      <4>2. path \in {"out", "tmp"}
        BY <1>1, <3>3 DEF TypeOK
      <4>3. path = "out" => out[cur] = New({}) /\ tmp' = tmp
        BY <1>1, <2>1, <2>3, <3>3, PutFacts DEF Account
      <4>4. path = "tmp" => tmp[cur] = New({}) /\ out' = out
        BY <1>1, <2>1, <2>3, <3>3, PutFacts DEF Tidy
      <4>5. cur \in Files /\ path = "out" => out'[cur] = New({})
        BY <1>1, <3>3, <4>1, <4>3, PutFacts
      <4>6. cur \in Files /\ path = "tmp" => tmp'[cur] = New({})
        BY <1>1, <3>3, <4>1, <4>4, PutFacts
      <4>7. QED
        BY <1>3, <1>5, <1>6, <2>1, <3>1, <4>2, <4>3, <4>4, <4>5, <4>6
    <3>4. QED
      BY <1>18, <2>3, <3>1, <3>2, <3>3 DEF CloseCopy
  <2>4. QED
    BY <2>2, <2>3
<1>19. CASE Crash
  <2>1. cur' = cur /\ Kept /\ st' = "crashed" /\ Unfinished'
    BY <1>19 DEF Crash, Unfinished, DataStates
  <2>2. Single
    BY <1>1, <1>6, <2>1 DEF Tidy
  <2>3. QED
    BY <1>5, <2>1, <2>2
<1>20. CASE Signal \/ UNCHANGED vars
  <2>1. cur' = cur /\ Kept /\ UNCHANGED <<path, del, st, mode>>
    BY <1>20 DEF Signal, vars
  <2>2. Unfinished' = Unfinished
    BY <2>1 DEF Unfinished
  <2>3. QED
    BY <1>1, <2>1, <2>2 DEF Tidy, Tidied, Left
<1>21. QED
  BY <1>7, <1>8, <1>9, <1>10, <1>11, <1>12, <1>13, <1>14, <1>15, <1>16, <1>17, <1>18, <1>19,
     <1>20, <1>22, <1>24 DEF Next, Step

LEMMA RemovingStep ==
  ASSUME CopyInv, CopyInv', Tidy, Removing, [Next]_vars
  PROVE  Removing'
<1>1. SUFFICES ASSUME st' = "remout" PROVE tmp'[cur'] \in Left(cur)' \/ "tmp" \in left'
  BY DEF Removing
<1>2. TypeOK /\ Control
  BY DEF CopyInv
<1>3. CASE CloseCopy
  <2>1. del /\ mode.into /\ cur' = cur /\ st = "end"
    BY <1>1, <1>3 DEF CloseCopy
  <2>2. path = "out" /\ cur \in Files /\ Unfinished
    BY <1>2, <2>1 DEF Control, Unfinished
  <2>3. tmp' = tmp /\ tmp[cur] \in Left(cur)
    BY <1>3, <2>1, <2>2 DEF CloseCopy, Put, Tidy
  <2>4. QED
    BY <2>1, <2>3 DEF Left
<1>4. CASE RemoveTmp
  <2>1. cur' = cur /\ cur \in Files /\ (tmp' = [tmp EXCEPT ![cur] = Absent] \/ "tmp" \in left')
    BY <1>2, <1>4 DEF RemoveTmp, Control
  <2>2. QED
    BY <1>2, <2>1 DEF Left, TypeOK
<1>5. CASE Signal \/ UNCHANGED vars
  BY <1>1, <1>5 DEF Signal, vars, fsvars, Removing, Left
<1>6. QED
  BY <1>1, <1>3, <1>4, <1>5 DEF Next, Step, NextSource, OpenOut, CloseReserved, OpenTmp, Read, Write,
     ReadDone, VerifyOut, CloseOut, RenameTmp, Complete, Stop, RemoveOut, Crash, GoEnd

\* A copy that fails or is stopped cleans up after itself, except for a name that it
\* cannot remove, which does not keep it from removing the other one.
THEOREM CopyTidiesUp == Spec => []NoHalfFile
<1> DEFINE TInv == Trusted => Tidy /\ Removing
<1>1. Init => TInv
  <2>1. Init => \A i \in Files : Tidied(i)
    BY DEF Init, Tidied
  <2>2. Init => ~Unfinished /\ st \notin {"end", "remout"}
    BY DEF Init, Unfinished, DataStates
  <2>3. QED
    BY <2>1, <2>2 DEF Tidy, Removing
<1>2. CopyInv /\ CopyInv' /\ TInv /\ [Next]_vars => TInv'
  <2>1. CopyInv /\ [Next]_vars => (Trusted' => Trusted)
    BY TrustedStep DEF CopyInv
  <2>2. QED
    BY <2>1, TidyStep, RemovingStep
<1>3. TInv => NoHalfFile
  BY DEF Tidy, NoHalfFile, Unfinished, DataStates
<1> HIDE DEF TInv
<1>4. QED
  BY <1>1, <1>2, <1>3, CopyInvariant, PTL DEF Spec
=============================================================================
