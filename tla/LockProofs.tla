----------------------------- MODULE LockProofs -----------------------------
(***************************************************************************)
(* Proofs about Semaphore, ReadersWriters and FileAccess.  No wakeup of a  *)
(* semaphore is lost, writers exclude readers and each other, and no read *)
(* of a shared file is torn.  Each holds for any finite set of threads and *)
(* any values.                                                             *)
(***************************************************************************)
EXTENDS Semaphore, FileAccess, FiniteSetTheorems, TLAPS

\* -------------------------- the lock of a file -------------------------------

\* The inductive invariant.  Exclusion rests on who holds RW, which rests on
\* readerCnt counting the readers, which rests on rCntMutex.
RWInv == LockTypeOK /\ MutexHolder /\ ReaderCountExact /\ RWHolder

LEMMA CountedFinite ==
  /\ IsFiniteSet(CountedReaders)
  /\ Cardinality(CountedReaders) \in Nat
<1>1. CountedReaders \subseteq Users  BY Zenon DEF CountedReaders
<1>2. IsFiniteSet(CountedReaders)  BY <1>1, FS_Subset, UsersFinite, Zenon
<1> QED  BY <1>2, FS_CardinalityType, Zenon

\* A thread that is counted makes the count positive.
LEMMA CountedPositive ==
  ASSUME NEW t \in CountedReaders
  PROVE  Cardinality(CountedReaders) > 0
BY CountedFinite, FS_EmptySet

\* A step that moves t between labels of the same kind changes no count.
LEMMA CountedSame ==
  ASSUME LockTypeOK, NEW t \in Users, NEW l, pc' = [pc EXCEPT ![t] = l],
         pc[t] \in {"reading", "leaving"} <=> l \in {"reading", "leaving"}
  PROVE  CountedReaders' = CountedReaders
BY Zenon DEF LockTypeOK, CountedReaders

LEMMA InMutexEnter ==
  ASSUME LockTypeOK, NEW t \in Users, NEW l, pc' = [pc EXCEPT ![t] = l],
         l \in {"counting", "admit", "leaving", "left"}
  PROVE  InMutex' = InMutex \cup {t}
BY Zenon DEF LockTypeOK, InMutex

LEMMA InMutexLeave ==
  ASSUME LockTypeOK, NEW t \in Users, NEW l, pc' = [pc EXCEPT ![t] = l],
         l \notin {"counting", "admit", "leaving", "left"}
  PROVE  InMutex' = InMutex \ {t}
BY Zenon DEF LockTypeOK, InMutex

\* A thread inside rCntMutex is the only one, and the semaphore is taken.
LEMMA InMutexAlone ==
  ASSUME MutexHolder, NEW t \in InMutex
  PROVE  rCntMutex = 0 /\ InMutex = {t}
BY Zenon DEF MutexHolder

LEMMA RWInit == LockInit => RWInv
<1> SUFFICES ASSUME LockInit PROVE RWInv
  BY Zenon
<1>1. LockTypeOK  BY Zenon DEF LockInit, LockTypeOK, Labels
<1>2. InMutex = {} /\ CountedReaders = {}  BY Zenon DEF LockInit, InMutex, CountedReaders
<1>3. MutexHolder  BY <1>2, Zenon DEF LockInit, MutexHolder
<1>4. ReaderCountExact  BY <1>2, FS_EmptySet, Zenon DEF LockInit, ReaderCountExact
<1>5. RWHolder  BY Zenon DEF LockInit, RWHolder
<1> QED  BY <1>1, <1>3, <1>4, <1>5, Zenon DEF RWInv

LEMMA RWNext == RWInv /\ [LockNext]_lockVars => RWInv'
<1> SUFFICES ASSUME RWInv, [LockNext]_lockVars PROVE RWInv'
  BY Zenon
<1> USE DEF RWInv, Goto
<1>1. CASE UNCHANGED lockVars
  BY <1>1, Zenon DEF lockVars, LockTypeOK, MutexHolder, ReaderCountExact, RWHolder, CountedReaders,
              InMutex
<1>2. ASSUME NEW t \in Users, StartRead(t)  PROVE RWInv'
  <2>1. LockTypeOK'  BY <1>2 DEF StartRead, LockTypeOK, Labels
  <2>2. MutexHolder'
    <3>1. InMutex' = InMutex \cup {t}
      BY <1>2, InMutexEnter, Zenon DEF StartRead
    <3>2. InMutex = {} /\ rCntMutex' = 0
      BY <1>2 DEF StartRead, MutexHolder
    <3>3. InMutex' = {t}
      BY <3>1, <3>2, Zenon
    <3> QED  BY <3>2, <3>3, Zenon DEF MutexHolder
  <2>3. ReaderCountExact'
    BY <1>2, CountedSame, Zenon DEF StartRead, ReaderCountExact
  <2>4. RWHolder'  BY <1>2, Zenon DEF StartRead, RWHolder, LockTypeOK
  <2> QED  BY <2>1, <2>2, <2>3, <2>4, Zenon
<1>3. ASSUME NEW t \in Users, FirstReader(t)  PROVE RWInv'
  <2>0. t \in InMutex  BY <1>3, Zenon DEF FirstReader, InMutex
  <2>1. LockTypeOK'  BY <1>3 DEF FirstReader, LockTypeOK, Labels
  <2>2. MutexHolder'
    BY <1>3, <2>0, InMutexAlone, InMutexEnter, ZenonT(60) DEF FirstReader, MutexHolder
  <2>3. ReaderCountExact'
    BY <1>3, CountedSame, Zenon DEF FirstReader, ReaderCountExact
  <2>4. RWHolder'  BY <1>3 DEF FirstReader, RWHolder, LockTypeOK
  <2> QED  BY <2>1, <2>2, <2>3, <2>4, Zenon
<1>4. ASSUME NEW t \in Users, Admit(t)  PROVE RWInv'
  <2>0. t \in InMutex /\ t \notin CountedReaders
    BY <1>4, Zenon DEF Admit, InMutex, CountedReaders
  <2>1. LockTypeOK'  BY <1>4 DEF Admit, LockTypeOK, Labels
  <2>2. MutexHolder'
    <3>1. InMutex' = InMutex \ {t}
      BY <1>4, InMutexLeave, Zenon DEF Admit
    <3>2. InMutex = {t} /\ rCntMutex' = 1
      BY <1>4, <2>0, InMutexAlone DEF Admit
    <3>3. InMutex' = {}
      BY <3>1, <3>2, Zenon
    <3> QED  BY <3>2, <3>3, Zenon DEF MutexHolder
  <2>3. CountedReaders' = CountedReaders \cup {t}
    BY <1>4, Zenon DEF Admit, LockTypeOK, CountedReaders
  <2>4. ReaderCountExact'
    BY <1>4, <2>0, <2>3, CountedFinite, FS_AddElement, Zenon DEF Admit, ReaderCountExact
  <2>5. RWHolder'  BY <1>4 DEF Admit, RWHolder, LockTypeOK
  <2> QED  BY <2>1, <2>2, <2>4, <2>5, Zenon
<1>5. ASSUME NEW t \in Users, EndRead(t)  PROVE RWInv'
  <2>1. LockTypeOK'  BY <1>5 DEF EndRead, LockTypeOK, Labels
  <2>2. MutexHolder'
    <3>1. InMutex' = InMutex \cup {t}
      BY <1>5, InMutexEnter, Zenon DEF EndRead
    <3>2. InMutex = {} /\ rCntMutex' = 0
      BY <1>5 DEF EndRead, MutexHolder
    <3>3. InMutex' = {t}
      BY <3>1, <3>2, Zenon
    <3> QED  BY <3>2, <3>3, Zenon DEF MutexHolder
  <2>3. ReaderCountExact'
    BY <1>5, CountedSame, Zenon DEF EndRead, ReaderCountExact
  <2>4. RWHolder'  BY <1>5 DEF EndRead, RWHolder, LockTypeOK
  <2> QED  BY <2>1, <2>2, <2>3, <2>4, Zenon
<1>6. ASSUME NEW t \in Users, Leave(t)  PROVE RWInv'
  <2>0. t \in InMutex /\ t \in CountedReaders
    BY <1>6, Zenon DEF Leave, InMutex, CountedReaders
  <2>1. readerCnt > 0
    BY <2>0, CountedPositive, Zenon DEF ReaderCountExact
  <2>2. LockTypeOK'  BY <1>6, <2>1 DEF Leave, LockTypeOK, Labels
  <2>3. MutexHolder'
    BY <1>6, <2>0, InMutexAlone, InMutexEnter, InMutexLeave
       DEF Leave, MutexHolder
  <2>4. CountedReaders' = CountedReaders \ {t}
    BY <1>6, Zenon DEF Leave, LockTypeOK, CountedReaders
  <2>5. ReaderCountExact'
    BY <1>6, <2>0, <2>4, CountedFinite, FS_RemoveElement, Zenon
       DEF Leave, ReaderCountExact
  <2>6. RWHolder'  BY <1>6, <2>1 DEF Leave, RWHolder, LockTypeOK
  <2> QED  BY <2>2, <2>3, <2>5, <2>6, Zenon
<1>7. ASSUME NEW t \in Users, LastLeft(t)  PROVE RWInv'
  <2>0. t \in InMutex  BY <1>7, Zenon DEF LastLeft, InMutex
  <2>1. LockTypeOK'  BY <1>7 DEF LastLeft, LockTypeOK, Labels
  <2>2. MutexHolder'
    <3>1. InMutex' = InMutex \ {t}
      BY <1>7, InMutexLeave, Zenon DEF LastLeft
    <3>2. InMutex = {t} /\ rCntMutex' = 1
      BY <1>7, <2>0, InMutexAlone DEF LastLeft
    <3>3. InMutex' = {}
      BY <3>1, <3>2, Zenon
    <3> QED  BY <3>2, <3>3, Zenon DEF MutexHolder
  <2>3. ReaderCountExact'
    BY <1>7, CountedSame, Zenon DEF LastLeft, ReaderCountExact
  <2>4. RWHolder'  BY <1>7 DEF LastLeft, RWHolder, LockTypeOK
  <2> QED  BY <2>1, <2>2, <2>3, <2>4, Zenon
<1>8. ASSUME NEW t \in Users, StartWrite(t)  PROVE RWInv'
  <2>0. t \notin InMutex  BY <1>8, Zenon DEF StartWrite, InMutex
  <2>1. LockTypeOK'  BY <1>8 DEF StartWrite, LockTypeOK, Labels
  <2>2. MutexHolder'
    BY <1>8, <2>0, InMutexLeave, ZenonT(60) DEF StartWrite, MutexHolder
  <2>3. ReaderCountExact'
    BY <1>8, CountedSame, Zenon DEF StartWrite, ReaderCountExact
  <2>4. RWHolder'  BY <1>8 DEF StartWrite, RWHolder, LockTypeOK
  <2> QED  BY <2>1, <2>2, <2>3, <2>4, Zenon
<1>9. ASSUME NEW t \in Users, EndWrite(t)  PROVE RWInv'
  <2>0. t \notin InMutex  BY <1>9, Zenon DEF EndWrite, InMutex
  <2>1. LockTypeOK'  BY <1>9 DEF EndWrite, LockTypeOK, Labels
  <2>2. MutexHolder'
    BY <1>9, <2>0, InMutexLeave, ZenonT(60) DEF EndWrite, MutexHolder
  <2>3. ReaderCountExact'
    BY <1>9, CountedSame, Zenon DEF EndWrite, ReaderCountExact
  <2>4. RWHolder'  BY <1>9 DEF EndWrite, RWHolder, LockTypeOK
  <2> QED  BY <2>1, <2>2, <2>3, <2>4, Zenon
<1> QED
  BY <1>1, <1>2, <1>3, <1>4, <1>5, <1>6, <1>7, <1>8, <1>9 DEF LockNext, ReaderStep

LEMMA RWExcludes == RWInv => WriterExcludesAll
<1> SUFFICES ASSUME RWInv, NEW t \in Users, NEW u \in Users,
                    pc[t] = "writing", pc[u] \in {"writing", "reading"}
             PROVE  t = u
  BY Zenon DEF WriterExcludesAll
<1> USE DEF RWInv
<1>1. readerCnt = 0 /\ \A v \in Users : pc[v] \in {"admit", "writing"} => v = t
  BY Zenon DEF RWHolder
<1>2. CASE pc[u] = "writing"
  BY <1>1, <1>2, Zenon
<1>3. CASE pc[u] = "reading"
  <2>1. u \in CountedReaders  BY <1>3, Zenon DEF CountedReaders
  <2>2. readerCnt > 0  BY <2>1, CountedPositive, Zenon DEF ReaderCountExact
  <2> QED  BY <1>1, <2>2
<1> QED  BY <1>2, <1>3, Zenon

\* While a thread is between StartWrite and EndWrite of a file no other is
\* between StartRead and EndRead or StartWrite and EndWrite of it, and
\* readerCnt is the number of readers, for any number of threads.
THEOREM WritersExclusive ==
  LockSpec => [](LockTypeOK /\ WriterExcludesAll /\ ReaderCountExact /\ RWHolder)
<1>1. RWInv => LockTypeOK /\ WriterExcludesAll /\ ReaderCountExact /\ RWHolder
  BY RWExcludes, Zenon DEF RWInv
<1> QED  BY RWInit, RWNext, <1>1, PTL DEF LockSpec

\* ------------------------------ shared files ---------------------------------

FileSpec == FileInit /\ [][FileNext]_accessVars

\* A thread is in the lock only between its open and its close.
Outside ==
  \A t \in Users :
    step[t] \notin {"opened", "fetched", "transferred"} => pc[t] = "out"

\* A reader enters the lock with both sectors still to read, and is done with
\* them when it leaves.
ReaderTodo ==
  \A t \in Readers :
    /\ pc[t] \in {"counting", "admit"} => todo[t] = {1, 2}
    /\ pc[t] = "out" /\ step[t] = "opened" => todo[t] = {1, 2}
    /\ step[t] = "fetched" => todo[t] = {}
    /\ pc[t] \in {"leaving", "left"} => step[t] = "transferred"

\* openerCnt is the number of threads that have the file open, so that Close
\* never counts below zero.
Opened == {"opened", "fetched", "transferred", "written"}
OpenersCounted == openerCnt = Cardinality({t \in Users : step[t] \in Opened})

Shapes ==
  /\ buf \in [Users -> [Bytes -> Writers \cup {Unwritten}]]
  /\ DOMAIN pc = Users

FileInv ==
  /\ RWInv /\ FileTypeOK /\ Shapes
  /\ Outside /\ ReaderTodo /\ OpenersCounted
  /\ ReadsNotTorn

\* Every step of the threads uses the lock as ReadersWriters says, or leaves
\* it alone.
LEMMA LockSteps == [FileNext]_accessVars => [LockNext]_lockVars
<1> SUFFICES ASSUME [FileNext]_accessVars  PROVE LockNext \/ UNCHANGED lockVars
  BY Zenon
<1>1. CASE UNCHANGED accessVars
  BY <1>1, Zenon DEF accessVars
<1>2. ASSUME NEW t \in Users, Lookup(t) \/ Open(t) \/ CheckRemove(t) \/ RetryRemove(t) \/ Remove(t)
             \/ Fetch(t) \/ Store(t) \/ Close(t)
      PROVE  UNCHANGED lockVars
  BY <1>2, Zenon DEF Lookup, Open, CheckRemove, RetryRemove, Remove, Fetch, Store, Close, accessVars
<1>3. ASSUME NEW t \in Users, BeginRead(t) \/ ReaderMoves(t) \/ FinishRead(t)
             \/ BeginWrite(t) \/ FinishWrite(t)
      PROVE  LockNext
  BY <1>3, Zenon DEF BeginRead, ReaderMoves, FinishRead, BeginWrite, FinishWrite, LockNext, ReaderStep
<1> QED  BY <1>1, <1>2, <1>3, Zenon DEF FileNext, ThreadStep

LEMMA LeastOf ==
  ASSUME NEW S \in SUBSET {1, 2}, S # {}
  PROVE  Least(S) \in S /\ Least(S) \in {1, 2}
<1>1. CASE 1 \in S
  <2>1. \A u \in S : 1 <= u
    OBVIOUS
  <2> QED  BY <1>1, <2>1, Zenon DEF Least
<1>2. CASE 1 \notin S
  <2>1. S = {2}
    BY <1>2, Zenon
  <2> QED  BY <2>1 DEF Least
<1> QED  BY <1>1, <1>2, Zenon

LEMMA FileStart == FileInit => FileInv
<1> SUFFICES ASSUME FileInit  PROVE FileInv
  BY Zenon
<1>1. LockInit /\ RWInv
  BY RWInit, Zenon DEF FileInit
<1>2. FileTypeOK
  BY Zenon DEF FileInit, FileTypeOK
<1>3. Shapes
  BY <1>1, Zenon DEF FileInit, LockInit, Shapes
<1>4. Outside
  BY <1>1, Zenon DEF FileInit, LockInit, Outside
<1>5. ReaderTodo /\ ReadsNotTorn
  BY <1>1, FileAssumption, Zenon DEF FileInit, LockInit, ReaderTodo, ReadsNotTorn
<1>6. OpenersCounted
  <2>1. {t \in Users : step[t] \in Opened} = {}
    BY Zenon DEF FileInit, Opened
  <2> QED  BY <2>1, FS_EmptySet, Zenon DEF FileInit, OpenersCounted
<1> QED  BY <1>1, <1>2, <1>3, <1>4, <1>5, <1>6, Zenon DEF FileInv

LEMMA OpenerCounted ==
  ASSUME OpenersCounted, NEW t \in Users, step[t] \in Opened
  PROVE  openerCnt \in Nat /\ openerCnt > 0
<1> DEFINE S == {u \in Users : step[u] \in Opened}
<1>1. IsFiniteSet(S) /\ t \in S
  BY UsersFinite, FS_Subset, Zenon
<1>2. Cardinality(S) \in Nat /\ Cardinality(S) # 0
  BY <1>1, FS_CardinalityType, FS_EmptySet, Zenon
<1> QED  BY <1>2 DEF OpenersCounted

\* One step per action, for one part of the invariant at a time.
LEMMA TypesKept == FileInv /\ [FileNext]_accessVars => FileTypeOK' /\ Shapes'
<1> SUFFICES ASSUME FileInv, [FileNext]_accessVars  PROVE FileTypeOK' /\ Shapes'
  BY Zenon
<1>0. FileTypeOK /\ Shapes /\ RWInv /\ OpenersCounted
  BY Zenon DEF FileInv
<1>1. DOMAIN pc' = Users
  BY <1>0, LockSteps, RWNext, Zenon DEF RWInv, LockTypeOK
<1>2. ASSUME NEW t \in Users, Lookup(t)  PROVE FileTypeOK' /\ Shapes'
  BY <1>0, <1>1, <1>2, Zenon DEF Lookup, To, FileTypeOK, Shapes
<1>3. ASSUME NEW t \in Users, Open(t)  PROVE FileTypeOK' /\ Shapes'
  BY <1>0, <1>1, <1>3 DEF Open, To, Partial, FileTypeOK, Shapes
<1>4. ASSUME NEW t \in Users, BeginRead(t)  PROVE FileTypeOK' /\ Shapes'
  BY <1>0, <1>1, <1>4, Zenon DEF BeginRead, fileVars, FileTypeOK, Shapes
<1>5. ASSUME NEW t \in Users, ReaderMoves(t)  PROVE FileTypeOK' /\ Shapes'
  BY <1>0, <1>1, <1>5, Zenon DEF ReaderMoves, fileVars, FileTypeOK, Shapes
<1>6. ASSUME NEW t \in Users, Fetch(t)  PROVE FileTypeOK' /\ Shapes'
  BY <1>0, <1>1, <1>6, LeastOf DEF Fetch, To, Copied, FileTypeOK, Shapes
<1>7. ASSUME NEW t \in Users, FinishRead(t)  PROVE FileTypeOK' /\ Shapes'
  BY <1>0, <1>1, <1>7, Zenon DEF FinishRead, To, FileTypeOK, Shapes
<1>8. ASSUME NEW t \in Users, BeginWrite(t)  PROVE FileTypeOK' /\ Shapes'
  BY <1>0, <1>1, <1>8 DEF BeginWrite, To, Covered, FileTypeOK, Shapes
<1>9. ASSUME NEW t \in Users, Store(t)  PROVE FileTypeOK' /\ Shapes'
  BY <1>0, <1>1, <1>9, LeastOf DEF Store, Copied, FileTypeOK, Shapes
<1>10. ASSUME NEW t \in Users, FinishWrite(t)  PROVE FileTypeOK' /\ Shapes'
  BY <1>0, <1>1, <1>10, Zenon DEF FinishWrite, To, FileTypeOK, Shapes
<1>11. ASSUME NEW t \in Users, Close(t)  PROVE FileTypeOK' /\ Shapes'
  <2>1. openerCnt > 0
    BY <1>0, <1>11, OpenerCounted, Zenon DEF Close, Opened
  <2> QED  BY <1>0, <1>1, <1>11, <2>1 DEF Close, To, FileTypeOK, Shapes
<1>12. ASSUME NEW t \in Users, CheckRemove(t)  PROVE FileTypeOK' /\ Shapes'
  BY <1>0, <1>1, <1>12, Zenon DEF CheckRemove, To, FileTypeOK, Shapes
<1>13. ASSUME NEW t \in Users, Remove(t)  PROVE FileTypeOK' /\ Shapes'
  BY <1>0, <1>1, <1>13, Zenon DEF Remove, To, FileTypeOK, Shapes
<1>14. CASE UNCHANGED accessVars
  BY <1>0, <1>14, Zenon DEF accessVars, lockVars, fileVars, FileTypeOK, Shapes
<1> QED
  BY <1>2, <1>3, <1>4, <1>5, <1>6, <1>7, <1>8, <1>9, <1>10, <1>11, <1>12, <1>13, <1>14 DEF FileNext, ThreadStep, RetryRemove

LEMMA OutsideKept == FileInv /\ [FileNext]_accessVars => Outside'
<1> SUFFICES ASSUME FileInv, [FileNext]_accessVars  PROVE Outside'
  BY Zenon
<1>0. Outside /\ FileTypeOK /\ Shapes /\ RWInv
  BY FileAssumption, Zenon DEF FileInv
<1>1. ASSUME NEW t \in Users, Lookup(t)  PROVE Outside'
  BY <1>0, <1>1, Zenon DEF Lookup, To, lockVars, Outside, FileTypeOK, Shapes, RWInv, LockTypeOK
<1>2. ASSUME NEW t \in Users, Open(t)  PROVE Outside'
  BY <1>0, <1>2, Zenon DEF Open, To, lockVars, Outside, FileTypeOK, Shapes, RWInv, LockTypeOK
<1>3. ASSUME NEW t \in Users, BeginRead(t)  PROVE Outside'
  BY <1>0, <1>3, Zenon DEF BeginRead, fileVars, StartRead, Goto, Outside, FileTypeOK, Shapes, RWInv, LockTypeOK
<1>4. ASSUME NEW t \in Users, ReaderMoves(t)  PROVE Outside'
  BY <1>0, <1>4, Zenon DEF ReaderMoves, fileVars, FirstReader, Admit, Leave, LastLeft, Goto, Outside, FileTypeOK, Shapes, RWInv, LockTypeOK
<1>5. ASSUME NEW t \in Users, Fetch(t)  PROVE Outside'
  BY <1>0, <1>5, Zenon DEF Fetch, To, lockVars, Outside, FileTypeOK, Shapes, RWInv, LockTypeOK
<1>6. ASSUME NEW t \in Users, FinishRead(t)  PROVE Outside'
  BY <1>0, <1>6, Zenon DEF FinishRead, To, EndRead, Goto, Outside, FileTypeOK, Shapes, RWInv, LockTypeOK
<1>7. ASSUME NEW t \in Users, BeginWrite(t)  PROVE Outside'
  BY <1>0, <1>7, Zenon DEF BeginWrite, To, StartWrite, Goto, Outside, FileTypeOK, Shapes, RWInv, LockTypeOK
<1>8. ASSUME NEW t \in Users, Store(t)  PROVE Outside'
  BY <1>0, <1>8, Zenon DEF Store, lockVars, Outside, FileTypeOK, Shapes, RWInv, LockTypeOK
<1>9. ASSUME NEW t \in Users, FinishWrite(t)  PROVE Outside'
  BY <1>0, <1>9, Zenon DEF FinishWrite, To, EndWrite, Goto, Outside, FileTypeOK, Shapes, RWInv, LockTypeOK
<1>10. ASSUME NEW t \in Users, Close(t)  PROVE Outside'
  BY <1>0, <1>10, Zenon DEF Close, To, lockVars, Outside, FileTypeOK, Shapes, RWInv, LockTypeOK
<1>11. ASSUME NEW t \in Users, CheckRemove(t)  PROVE Outside'
  BY <1>0, <1>11, Zenon DEF CheckRemove, To, lockVars, Outside, FileTypeOK, Shapes, RWInv, LockTypeOK
<1>12. ASSUME NEW t \in Users, Remove(t)  PROVE Outside'
  BY <1>0, <1>12, Zenon DEF Remove, To, lockVars, Outside, FileTypeOK, Shapes, RWInv, LockTypeOK
<1>13. CASE UNCHANGED accessVars
  BY <1>0, <1>13 DEF accessVars, lockVars, fileVars, Outside, FileTypeOK, Shapes, RWInv, LockTypeOK
<1> QED
  BY <1>1, <1>2, <1>3, <1>4, <1>5, <1>6, <1>7, <1>8, <1>9, <1>10, <1>11, <1>12, <1>13 DEF FileNext, ThreadStep, RetryRemove

LEMMA ReaderTodoKept == FileInv /\ [FileNext]_accessVars => ReaderTodo'
<1> SUFFICES ASSUME FileInv, [FileNext]_accessVars  PROVE ReaderTodo'
  BY Zenon
<1>0. ReaderTodo /\ Outside /\ FileTypeOK /\ Shapes /\ RWInv
      /\ Readers \subseteq Users /\ Readers \cap Writers = {}
  BY FileAssumption, Zenon DEF FileInv
<1>1. ASSUME NEW t \in Users, Lookup(t)  PROVE ReaderTodo'
  BY <1>0, <1>1, Zenon DEF Lookup, To, lockVars, ReaderTodo, Outside, FileTypeOK, Shapes, RWInv, LockTypeOK
<1>2. ASSUME NEW t \in Users, Open(t)  PROVE ReaderTodo'
  BY <1>0, <1>2 DEF Open, To, lockVars, ReaderTodo, Outside, FileTypeOK, Shapes, RWInv, LockTypeOK
<1>3. ASSUME NEW t \in Users, BeginRead(t)  PROVE ReaderTodo'
  BY <1>0, <1>3 DEF BeginRead, fileVars, StartRead, Goto, ReaderTodo, Outside, FileTypeOK, Shapes, RWInv, LockTypeOK
<1>4. ASSUME NEW t \in Users, ReaderMoves(t)  PROVE ReaderTodo'
  BY <1>0, <1>4 DEF ReaderMoves, fileVars, FirstReader, Admit, Leave, LastLeft, Goto, ReaderTodo, Outside, FileTypeOK, Shapes, RWInv, LockTypeOK
<1>5. ASSUME NEW t \in Users, Fetch(t)  PROVE ReaderTodo'
  BY <1>0, <1>5, LeastOf DEF Fetch, To, lockVars, ReaderTodo, Outside, FileTypeOK, Shapes, RWInv, LockTypeOK
<1>6. ASSUME NEW t \in Users, FinishRead(t)  PROVE ReaderTodo'
  BY <1>0, <1>6, Zenon DEF FinishRead, To, EndRead, Goto, ReaderTodo, Outside, FileTypeOK, Shapes, RWInv, LockTypeOK
<1>7. ASSUME NEW t \in Users, BeginWrite(t)  PROVE ReaderTodo'
  BY <1>0, <1>7, Zenon DEF BeginWrite, To, StartWrite, Goto, ReaderTodo, Outside, FileTypeOK, Shapes, RWInv, LockTypeOK
<1>8. ASSUME NEW t \in Users, Store(t)  PROVE ReaderTodo'
  BY <1>0, <1>8, Zenon DEF Store, lockVars, ReaderTodo, Outside, FileTypeOK, Shapes, RWInv, LockTypeOK
<1>9. ASSUME NEW t \in Users, FinishWrite(t)  PROVE ReaderTodo'
  BY <1>0, <1>9, Zenon DEF FinishWrite, To, EndWrite, Goto, ReaderTodo, Outside, FileTypeOK, Shapes, RWInv, LockTypeOK
<1>10. ASSUME NEW t \in Users, Close(t)  PROVE ReaderTodo'
  BY <1>0, <1>10, Zenon DEF Close, To, lockVars, ReaderTodo, Outside, FileTypeOK, Shapes, RWInv, LockTypeOK
<1>11. ASSUME NEW t \in Users, CheckRemove(t)  PROVE ReaderTodo'
  BY <1>0, <1>11, Zenon DEF CheckRemove, To, lockVars, ReaderTodo, Outside, FileTypeOK, Shapes, RWInv, LockTypeOK
<1>12. ASSUME NEW t \in Users, Remove(t)  PROVE ReaderTodo'
  BY <1>0, <1>12, Zenon DEF Remove, To, lockVars, ReaderTodo, Outside, FileTypeOK, Shapes, RWInv, LockTypeOK
<1>13. CASE UNCHANGED accessVars
  BY <1>0, <1>13, Zenon DEF accessVars, lockVars, fileVars, ReaderTodo, Outside, FileTypeOK, Shapes, RWInv, LockTypeOK
<1> QED
  BY <1>1, <1>2, <1>3, <1>4, <1>5, <1>6, <1>7, <1>8, <1>9, <1>10, <1>11, <1>12, <1>13, Zenon DEF FileNext, ThreadStep, RetryRemove

LEMMA OpenersKept == FileInv /\ [FileNext]_accessVars => OpenersCounted'
<1> SUFFICES ASSUME FileInv, [FileNext]_accessVars  PROVE OpenersCounted'
  BY Zenon
<1> DEFINE S == {u \in Users : step[u] \in Opened}
<1>0. OpenersCounted /\ FileTypeOK /\ Outside
  BY Zenon DEF FileInv
<1>1. IsFiniteSet(S) /\ openerCnt = Cardinality(S) /\ openerCnt \in Nat
  BY <1>0, UsersFinite, FS_Subset, Zenon DEF OpenersCounted, FileTypeOK
<1>2. ASSUME S' = S, openerCnt' = openerCnt  PROVE OpenersCounted'
  BY <1>1, <1>2, Zenon DEF OpenersCounted
<1>3. ASSUME NEW t \in Users, Open(t)  PROVE OpenersCounted'
  <2>1. S' = S \cup {t} /\ t \notin S
    BY <1>0, <1>3 DEF Open, To, Opened, FileTypeOK
  <2>2. Cardinality(S \cup {t}) = Cardinality(S) + 1
    BY <1>1, <2>1, FS_AddElement, Zenon
  <2>3. openerCnt' = openerCnt + 1
    BY <1>3, Zenon DEF Open
  <2> QED  BY <1>1, <2>1, <2>2, <2>3, Zenon DEF OpenersCounted
<1>4. ASSUME NEW t \in Users, Close(t)  PROVE OpenersCounted'
  <2>1. S' = S \ {t} /\ t \in S
    BY <1>0, <1>4, Zenon DEF Close, To, Opened, FileTypeOK
  <2>2. Cardinality(S \ {t}) = Cardinality(S) - 1
    BY <1>1, <2>1, FS_RemoveElement, Zenon
  <2>3. openerCnt' = openerCnt - 1
    BY <1>4, Zenon DEF Close
  <2> QED  BY <1>0, <1>1, <2>1, <2>2, <2>3, Zenon DEF OpenersCounted
<1>5. ASSUME NEW t \in Users, Remove(t)  PROVE OpenersCounted'
  <2>1. S' = S
    BY <1>0, <1>5, Zenon DEF Remove, To, Opened, FileTypeOK
  <2> QED  BY <1>2, <1>5, <2>1, Zenon DEF Remove
<1>6. ASSUME NEW t \in Users, Lookup(t)  PROVE OpenersCounted'
  <2>1. S' = S
    BY <1>0, <1>6, Zenon DEF Lookup, To, Opened, FileTypeOK
  <2> QED  BY <1>2, <1>6, <2>1, Zenon DEF Lookup
<1>7. ASSUME NEW t \in Users, BeginRead(t)  PROVE OpenersCounted'
  <2>1. S' = S
    BY <1>0, <1>7, Zenon DEF BeginRead, fileVars, Opened, FileTypeOK
  <2> QED  BY <1>2, <1>7, <2>1, Zenon DEF BeginRead, fileVars
<1>8. ASSUME NEW t \in Users, ReaderMoves(t)  PROVE OpenersCounted'
  <2>1. S' = S
    BY <1>0, <1>8, Zenon DEF ReaderMoves, fileVars, Opened, FileTypeOK
  <2> QED  BY <1>2, <1>8, <2>1, Zenon DEF ReaderMoves, fileVars
<1>9. ASSUME NEW t \in Users, Fetch(t)  PROVE OpenersCounted'
  <2>1. S' = S
    BY <1>0, <1>9, Zenon DEF Fetch, To, Opened, FileTypeOK
  <2> QED  BY <1>2, <1>9, <2>1, Zenon DEF Fetch
<1>10. ASSUME NEW t \in Users, FinishRead(t)  PROVE OpenersCounted'
  <2>1. S' = S
    BY <1>0, <1>10, Zenon DEF FinishRead, To, Opened, FileTypeOK
  <2> QED  BY <1>2, <1>10, <2>1, Zenon DEF FinishRead
<1>11. ASSUME NEW t \in Users, BeginWrite(t)  PROVE OpenersCounted'
  <2>1. S' = S
    BY <1>0, <1>11, Zenon DEF BeginWrite, To, Opened, FileTypeOK
  <2> QED  BY <1>2, <1>11, <2>1, Zenon DEF BeginWrite
<1>12. ASSUME NEW t \in Users, Store(t)  PROVE OpenersCounted'
  <2>1. S' = S
    BY <1>0, <1>12, Zenon DEF Store, Opened, FileTypeOK
  <2> QED  BY <1>2, <1>12, <2>1, Zenon DEF Store
<1>13. ASSUME NEW t \in Users, FinishWrite(t)  PROVE OpenersCounted'
  <2>1. S' = S
    BY <1>0, <1>13, Zenon DEF FinishWrite, To, EndWrite, Outside, Opened, FileTypeOK
  <2> QED  BY <1>2, <1>13, <2>1, Zenon DEF FinishWrite
<1>14. ASSUME NEW t \in Users, CheckRemove(t)  PROVE OpenersCounted'
  <2>1. S' = S
    BY <1>0, <1>14, Zenon DEF CheckRemove, To, Opened, FileTypeOK
  <2> QED  BY <1>2, <1>14, <2>1, Zenon DEF CheckRemove
<1>15. CASE UNCHANGED accessVars
  BY <1>2, <1>15, Zenon DEF accessVars, fileVars
<1> QED
  BY <1>3, <1>4, <1>5, <1>6, <1>7, <1>8, <1>9, <1>10, <1>11, <1>12, <1>13, <1>14, <1>15, Zenon DEF FileNext, ThreadStep, RetryRemove

LEMMA ReadsKept == FileInv /\ [FileNext]_accessVars => ReadsNotTorn'
<1> SUFFICES ASSUME FileInv, [FileNext]_accessVars, NEW r \in Readers, pc'[r] = "reading",
                    NEW s \in {1, 2} \ todo'[r], NEW b \in BytesOf(s)
             PROVE  buf'[r][b] = data'[b]
  BY Zenon DEF ReadsNotTorn
<1>0. FileTypeOK /\ Shapes /\ RWInv /\ ReaderTodo /\ ReadsNotTorn /\ WriterExcludesAll
  BY RWExcludes, Zenon DEF FileInv
<1>1. r \in Users /\ r \notin Writers
  BY FileAssumption, Zenon
<1>2. s \in {1, 2} /\ b \in Bytes
  BY DEF Bytes, BytesOf
<1>3. ASSUME pc[r] = "reading", s \notin todo[r], buf'[r] = buf[r], data' = data
      PROVE  buf'[r][b] = data'[b]
  BY <1>0, <1>2, <1>3 DEF ReadsNotTorn
<1>4. ASSUME NEW t \in Users, Fetch(t)  PROVE buf'[r][b] = data'[b]
  <2>1. pc' = pc /\ data' = data
    BY <1>4, Zenon DEF Fetch, lockVars
  <2>2. CASE t # r
    <3>1. buf'[r] = buf[r] /\ todo'[r] = todo[r]
      BY <1>0, <1>1, <1>4, <2>2, Zenon DEF Fetch, Shapes, FileTypeOK
    <3> QED  BY <1>3, <2>1, <3>1, Zenon
  <2>3. CASE t = r
    <3> DEFINE f == Least(todo[r])
    <3>1. f \in todo[r] /\ f \in {1, 2}
      BY <1>0, <1>1, <1>4, <2>3, LeastOf, Zenon DEF Fetch, FileTypeOK
    <3>2. todo'[r] = todo[r] \ {f}
      BY <1>0, <1>1, <1>4, <2>3, Zenon DEF Fetch, FileTypeOK
    <3>3. buf'[r] = Copied(f, data, buf[r])
      BY <1>0, <1>1, <1>4, <2>3 DEF Fetch, Shapes
    <3> HIDE DEF f
    <3>4. buf'[r][b] = IF b \in BytesOf(f) THEN data[b] ELSE buf[r][b]
      BY <1>2, <3>3, Zenon DEF Copied
    <3>5. CASE s = f
      BY <2>1, <3>4, <3>5, Zenon
    <3>6. CASE s # f
      <4>1. s \notin todo[r] /\ b \notin BytesOf(f)
        BY <1>2, <3>1, <3>2, <3>6 DEF BytesOf
      <4> QED  BY <1>0, <1>2, <2>1, <3>4, <4>1 DEF ReadsNotTorn
    <3> QED  BY <3>5, <3>6, Zenon
  <2> QED  BY <2>2, <2>3, Zenon
<1>5. ASSUME NEW t \in Users, Store(t)  PROVE buf'[r][b] = data'[b]
  <2>1. pc[t] = "writing" /\ pc[r] = "reading"
    BY <1>5, Zenon DEF Store, lockVars
  <2> QED  BY <1>0, <1>1, <2>1, Zenon DEF WriterExcludesAll
<1>6. ASSUME NEW t \in Users, ReaderMoves(t)  PROVE buf'[r][b] = data'[b]
  <2>1. buf' = buf /\ data' = data /\ todo' = todo
    BY <1>6, Zenon DEF ReaderMoves, fileVars
  <2>2. pc[r] = "reading" \/ pc[r] \in {"counting", "admit"}
    BY <1>0, <1>1, <1>6, Zenon DEF ReaderMoves, FirstReader, Admit, Leave, LastLeft, Goto, RWInv, LockTypeOK
  <2>3. pc[r] \notin {"counting", "admit"}
    BY <1>0, <1>2, <2>1, Zenon DEF ReaderTodo
  <2> QED  BY <1>3, <2>1, <2>2, <2>3, Zenon
<1>7. ASSUME NEW t \in Users, Open(t)  PROVE buf'[r][b] = data'[b]
  <2>1. pc' = pc /\ buf' = buf /\ data' = data
    BY <1>7, Zenon DEF Open, lockVars
  <2>2. todo'[r] = todo[r] \/ todo'[r] = {1, 2}
    BY <1>0, <1>1, <1>7, Zenon DEF Open, FileTypeOK
  <2> QED  BY <1>2, <1>3, <2>1, <2>2, Zenon
<1>8. ASSUME NEW t \in Users, BeginWrite(t)  PROVE buf'[r][b] = data'[b]
  <2>1. t # r
    BY <1>1, <1>8, Zenon DEF BeginWrite
  <2>2. buf'[r] = buf[r] /\ todo'[r] = todo[r] /\ data' = data
    BY <1>0, <1>1, <1>8, <2>1, Zenon DEF BeginWrite, Shapes, FileTypeOK
  <2>3. pc[r] = "reading"
    BY <1>0, <1>1, <1>8, <2>1, Zenon DEF BeginWrite, StartWrite, Goto, Shapes
  <2> QED  BY <1>3, <2>2, <2>3, Zenon
<1>9. ASSUME NEW t \in Users,
             Lookup(t) \/ Close(t) \/ CheckRemove(t) \/ Remove(t)
      PROVE  buf'[r][b] = data'[b]
  BY <1>3, <1>9, Zenon DEF Lookup, Close, CheckRemove, Remove, lockVars
<1>10. ASSUME NEW t \in Users, BeginRead(t) \/ FinishRead(t) \/ FinishWrite(t)
       PROVE  buf'[r][b] = data'[b]
  <2>1. buf' = buf /\ data' = data /\ todo' = todo
    BY <1>10, Zenon DEF BeginRead, FinishRead, FinishWrite, fileVars
  <2>2. pc[r] = "reading"
    BY <1>0, <1>1, <1>10, Zenon DEF BeginRead, FinishRead, FinishWrite, StartRead, EndRead, EndWrite,
                             Goto, Shapes
  <2> QED  BY <1>3, <2>1, <2>2, Zenon
<1>11. CASE UNCHANGED accessVars
  BY <1>3, <1>11, Zenon DEF accessVars, lockVars, fileVars
<1> QED
  BY <1>4, <1>5, <1>6, <1>7, <1>8, <1>9, <1>10, <1>11 DEF FileNext, ThreadStep, RetryRemove

LEMMA FileStep == FileInv /\ [FileNext]_accessVars => FileInv'
<1> SUFFICES ASSUME FileInv, [FileNext]_accessVars  PROVE FileInv'
  BY Zenon
<1>1. RWInv'
  BY LockSteps, RWNext, Zenon DEF FileInv
<1> QED
  BY <1>1, TypesKept, OutsideKept, ReaderTodoKept, OpenersKept, ReadsKept
     DEF FileInv

\* Writers are alone in the file, readerCnt is exact, and a reader that another
\* thread interrupts between two sectors of its ReadAt still returns bytes the
\* file had at one moment, for any finite number of readers and writers,
\* whatever they write.
THEOREM NoTornRead == FileSpec => []TransfersIsolated
<1>1. FileInv => TransfersIsolated
  BY RWExcludes, Zenon DEF FileInv, RWInv, TransfersIsolated
<1> QED  BY FileStart, FileStep, <1>1, PTL DEF FileSpec

\* ------------------------------- the semaphore -------------------------------

\* Calling is a finite set, so that its size is a number.
LEMMA CallingFinite ==
  /\ IsFiniteSet(Calling)
  /\ Cardinality(Calling) \in Nat
<1>1. Calling \subseteq Callers  BY Zenon DEF Calling
<1>2. IsFiniteSet(Calling)
  BY <1>1, FS_Subset, SemaphoreAssumption, Zenon
<1> QED  BY <1>2, FS_CardinalityType, Zenon

\* A thread that starts to test the value adds one to the count.
LEMMA CallingGrows ==
  ASSUME SemaphoreTypeOK, NEW t \in Callers, phase[t] # "calling",
         phase' = [phase EXCEPT ![t] = "calling"]
  PROVE  Cardinality(Calling') = Cardinality(Calling) + 1
<1>1. Calling' = Calling \cup {t}
  BY Zenon DEF SemaphoreTypeOK, Calling
<1>2. t \notin Calling
  BY Zenon DEF Calling
<1> QED  BY <1>1, <1>2, CallingFinite, FS_AddElement, Zenon

\* A thread that stops testing takes one away.
LEMMA CallingShrinks ==
  ASSUME SemaphoreTypeOK, NEW t \in Callers, phase[t] = "calling",
         NEW p, p # "calling", phase' = [phase EXCEPT ![t] = p]
  PROVE  Cardinality(Calling') = Cardinality(Calling) - 1
<1>1. Calling' = Calling \ {t}
  BY Zenon DEF SemaphoreTypeOK, Calling
<1>2. t \in Calling
  BY Zenon DEF Calling
<1> QED  BY <1>1, <1>2, CallingFinite, FS_RemoveElement, Zenon

\* What Append and Tail do to a queue without duplicates.
LEMMA AppendItems ==
  ASSUME NEW S, NEW q \in Seq(S), NEW t \in S, NoDuplicates(q), t \notin Items(q)
  PROVE  /\ Append(q, t) \in Seq(S)
         /\ NoDuplicates(Append(q, t))
         /\ Items(Append(q, t)) = Items(q) \cup {t}
<1> DEFINE r == Append(q, t)
<1>1. /\ r \in Seq(S)
      /\ Len(r) = Len(q) + 1
      /\ DOMAIN r = 1 .. Len(q) + 1
      /\ \A i \in 1 .. Len(q) : r[i] = q[i]
      /\ r[Len(q) + 1] = t
  OBVIOUS
<1>2. DOMAIN q = 1 .. Len(q)  /\ Len(q) \in Nat
  OBVIOUS
<1> HIDE DEF r
<1>3. NoDuplicates(r)
  BY <1>1, <1>2 DEF NoDuplicates, Items
<1>4. Items(r) = Items(q) \cup {t}
  BY <1>1, <1>2 DEF Items
<1> QED  BY <1>1, <1>3, <1>4, Zenon DEF r

LEMMA TailItems ==
  ASSUME NEW S, NEW q \in Seq(S), NoDuplicates(q), q # <<>>
  PROVE  /\ Head(q) \in S
         /\ Head(q) \in Items(q)
         /\ Tail(q) \in Seq(S)
         /\ NoDuplicates(Tail(q))
         /\ Items(Tail(q)) = Items(q) \ {Head(q)}
<1> DEFINE r == Tail(q)
           h == Head(q)
<1>1. /\ r \in Seq(S)
      /\ Len(q) \in Nat \ {0}
      /\ DOMAIN q = 1 .. Len(q)
      /\ DOMAIN r = 1 .. Len(q) - 1
      /\ \A i \in 1 .. Len(q) - 1 : r[i] = q[i + 1]
      /\ h = q[1]
      /\ h \in S
  OBVIOUS
<1> HIDE DEF r, h
<1>2. h \in Items(q)
  BY <1>1 DEF Items
<1>3. NoDuplicates(r)
  <2> SUFFICES ASSUME NEW i \in 1 .. Len(q) - 1, NEW j \in 1 .. Len(q) - 1,
                      r[i] = r[j]
               PROVE  i = j
    BY <1>1, Zenon DEF NoDuplicates
  <2>1. i + 1 \in DOMAIN q /\ j + 1 \in DOMAIN q /\ q[i + 1] = q[j + 1]
    BY <1>1
  <2> QED  BY <2>1 DEF NoDuplicates
<1>4. Items(r) \subseteq Items(q) \ {h}
  BY <1>1, SMTT(30) DEF Items, NoDuplicates
<1>5. ASSUME NEW x \in Items(q) \ {h}  PROVE x \in Items(r)
  <2>1. PICK i \in 1 .. Len(q) : q[i] = x
    BY <1>1, Zenon DEF Items
  <2>2. i # 1 /\ i - 1 \in 1 .. Len(q) - 1
    BY <1>1, <2>1
  <2>3. i - 1 \in DOMAIN r /\ r[i - 1] = x
    BY <1>1, <2>1, <2>2
  <2> QED  BY <2>3, Zenon DEF Items
<1> QED  BY <1>1, <1>2, <1>3, <1>4, <1>5, Zenon DEF r, h

LEMMA SemInit == SemaphoreInit => SemInv
<1> SUFFICES ASSUME SemaphoreInit PROVE SemInv
  BY Zenon
<1>1. SemaphoreTypeOK
  BY SemaphoreAssumption DEF SemaphoreInit, SemaphoreTypeOK
<1>2. QueueExact
  BY DEF SemaphoreInit, QueueExact, NoDuplicates, Items
<1>3. NoLostWakeup
  BY Zenon DEF SemaphoreInit, NoLostWakeup
<1> QED  BY <1>1, <1>2, <1>3, Zenon DEF SemInv

LEMMA SemNext == SemInv /\ [SemaphoreNext]_semaphoreVars => SemInv'
<1> SUFFICES ASSUME SemInv, [SemaphoreNext]_semaphoreVars PROVE SemInv'
  BY Zenon
<1> USE DEF SemInv
<1>1. CASE UNCHANGED semaphoreVars
  BY <1>1, Zenon DEF semaphoreVars, SemaphoreTypeOK, QueueExact, NoLostWakeup, Calling
<1>2. ASSUME NEW t \in Callers, Call(t)  PROVE SemInv'
  <2>1. SemaphoreTypeOK' /\ QueueExact'
    BY <1>2, Zenon DEF Call, SemaphoreTypeOK, QueueExact
  <2>2. Cardinality(Calling') = Cardinality(Calling) + 1
    BY <1>2, CallingGrows, Zenon DEF Call
  <2>3. NoLostWakeup'
    BY <1>2, <2>2, CallingFinite DEF Call, NoLostWakeup, SemaphoreTypeOK
  <2> QED  BY <2>1, <2>3, Zenon
<1>3. ASSUME NEW t \in Callers, Block(t)  PROVE SemInv'
  <2>1. t \notin Items(queue)
    BY <1>3, Zenon DEF Block, QueueExact
  <2>2. /\ queue' \in Seq(Callers)
        /\ NoDuplicates(queue')
        /\ Items(queue') = Items(queue) \cup {t}
    BY <1>3, <2>1, AppendItems DEF Block, QueueExact, SemaphoreTypeOK
  <2>3. SemaphoreTypeOK'
    BY <1>3, <2>2, Zenon DEF Block, SemaphoreTypeOK
  <2>4. QueueExact'
    BY <1>3, <2>2, Zenon DEF Block, QueueExact, SemaphoreTypeOK
  <2>5. Cardinality(Calling') = Cardinality(Calling) - 1
    BY <1>3, CallingShrinks, Zenon DEF Block
  <2>6. t \in Calling
    BY <1>3, Zenon DEF Block, Calling
  <2>7. Cardinality(Calling) > 0
    BY <2>6, CallingFinite, FS_EmptySet
  <2>8. NoLostWakeup'
    BY <1>3, <2>5, <2>7, CallingFinite DEF Block, NoLostWakeup
  <2> QED  BY <2>3, <2>4, <2>8, Zenon
<1>4. ASSUME NEW t \in Callers, Take(t)  PROVE SemInv'
  <2>1. SemaphoreTypeOK' /\ QueueExact'
    BY <1>4 DEF Take, SemaphoreTypeOK, QueueExact
  <2>2. Cardinality(Calling') = Cardinality(Calling) - 1
    BY <1>4, CallingShrinks, Zenon DEF Take
  <2>3. NoLostWakeup'
    BY <1>4, <2>2, CallingFinite DEF Take, NoLostWakeup, SemaphoreTypeOK
  <2> QED  BY <2>1, <2>3, Zenon
<1>5. ASSUME V  PROVE SemInv'
  <2>1. CASE queue = <<>>
    BY <1>5, <2>1 DEF V, SemaphoreTypeOK, QueueExact, NoLostWakeup, Calling
  <2>2. CASE queue # <<>>
    <3> DEFINE h == Head(queue)
    <3>0. /\ queue' = Tail(queue)
          /\ phase' = [phase EXCEPT ![h] = "calling"]
          /\ value' = value + 1
      BY <1>5, <2>2, Zenon DEF V
    <3>1. /\ h \in Callers
          /\ h \in Items(queue)
          /\ queue' \in Seq(Callers)
          /\ NoDuplicates(queue')
          /\ Items(queue') = Items(queue) \ {h}
      BY <2>2, <3>0, TailItems, Zenon DEF SemaphoreTypeOK, QueueExact
    <3>2. phase[h] = "asleep"
      BY <3>1, Zenon DEF QueueExact
    <3> HIDE DEF h
    <3>3. SemaphoreTypeOK'
      BY <3>0, <3>1 DEF SemaphoreTypeOK
    <3>4. QueueExact'
      BY <3>0, <3>1, Zenon DEF QueueExact, SemaphoreTypeOK
    <3>5. Cardinality(Calling') = Cardinality(Calling) + 1
      BY <3>0, <3>1, <3>2, CallingGrows, Zenon
    <3>6. NoLostWakeup'
      BY <3>0, <3>5, <2>2, CallingFinite DEF NoLostWakeup, SemaphoreTypeOK
    <3> QED  BY <3>3, <3>4, <3>6, Zenon
  <2> QED  BY <2>1, <2>2, Zenon
<1> QED  BY <1>1, <1>2, <1>3, <1>4, <1>5, Zenon DEF SemaphoreNext

\* A semaphore loses no wakeup and its value is never negative, for any
\* finite number of threads: the claim synch.h makes for P and V.
THEOREM SemaphoreCorrect == SemaphoreSpec => []SemInv
BY SemInit, SemNext, PTL DEF SemaphoreSpec

LEMMA SemSimulates ==
  SemInv /\ [SemaphoreNext]_semaphoreVars => [Abstract!Next]_(Abstract!vars)
<1> SUFFICES ASSUME SemInv, [SemaphoreNext]_semaphoreVars  PROVE [Abstract!Next]_(Abstract!vars)
  BY Zenon
<1> USE DEF SemInv
<1> DEFINE W == {t \in Callers : phase[t] # "out"}
<1>1. CASE UNCHANGED semaphoreVars
  BY <1>1, Zenon DEF semaphoreVars, Abstract!vars
<1>2. ASSUME NEW t \in Callers, Call(t)  PROVE Abstract!Ask(t)
  BY <1>2, Zenon DEF Call, SemaphoreTypeOK, Abstract!Ask
<1>3. ASSUME NEW t \in Callers, Block(t)  PROVE UNCHANGED Abstract!vars
  BY <1>3, Zenon DEF Block, SemaphoreTypeOK, Abstract!vars
<1>4. ASSUME NEW t \in Callers, Take(t)  PROVE Abstract!Pass(t)
  BY <1>4, Zenon DEF Take, SemaphoreTypeOK, Abstract!Pass
<1>5. ASSUME V  PROVE Abstract!V
  <2>1. W' = W
    <3>1. CASE queue = <<>>
      BY <1>5, <3>1, Zenon DEF V
    <3>2. CASE queue # <<>>
      <4>1. Head(queue) \in Items(queue)
        BY <3>2, TailItems, Zenon DEF SemaphoreTypeOK, QueueExact
      <4>2. phase[Head(queue)] = "asleep" /\ Head(queue) \in Callers
        BY <4>1, Zenon DEF QueueExact
      <4> QED  BY <1>5, <3>2, <4>2, Zenon DEF V, SemaphoreTypeOK
    <3> QED  BY <3>1, <3>2, Zenon
  <2> QED  BY <1>5, <2>1, Zenon DEF V, Abstract!V
<1> QED
  BY <1>1, <1>2, <1>3, <1>4, <1>5, Zenon DEF SemaphoreNext, Abstract!Next

\* Every step of P and V is a step of the abstract semaphore, atomic as
\* synch.h says, or leaves it unchanged.
THEOREM SemaphoreImplements == SemaphoreSpec => Abstract!Spec
<1>1. SemaphoreInit => Abstract!Init
  BY Zenon DEF SemaphoreInit, Abstract!Init
<1> QED
  BY <1>1, SemInit, SemNext, SemSimulates, PTL DEF SemaphoreSpec, Abstract!Spec
=============================================================================
