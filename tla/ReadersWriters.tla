--------------------------- MODULE ReadersWriters ---------------------------
(***************************************************************************)
(* The lock SynchDisk keeps for each file header sector: StartRead,        *)
(* EndRead, StartWrite and EndWrite (filesys/synchdisk.cc), called by      *)
(* OpenFile::ReadAt and WriteAt.  A step ends where a P may block or a V   *)
(* lets other threads run.                                                 *)
(***************************************************************************)
EXTENDS Integers, FiniteSets

CONSTANT Users

ASSUME UsersFinite == IsFiniteSet(Users)

VARIABLES
  rCntMutex,   \* value of the semaphore that protects readerCnt
  RW,          \* value of the semaphore readers as a group share with writers
  readerCnt,
  pc

lockVars == <<rCntMutex, RW, readerCnt, pc>>

Labels == {"out", "counting", "admit", "reading", "leaving", "left", "writing"}

LockInit ==
  /\ rCntMutex = 1
  /\ RW = 1
  /\ readerCnt = 0
  /\ pc = [t \in Users |-> "out"]

Goto(t, label) == pc' = [pc EXCEPT ![t] = label]

\* StartRead, rCntMutex->P().
StartRead(t) ==
  /\ pc[t] = "out"
  /\ rCntMutex > 0
  /\ rCntMutex' = rCntMutex - 1
  /\ Goto(t, "counting")
  /\ UNCHANGED <<RW, readerCnt>>

\* RW->P(), for the first reader.
FirstReader(t) ==
  /\ pc[t] = "counting"
  /\ readerCnt = 0
  /\ RW > 0
  /\ RW' = RW - 1
  /\ Goto(t, "admit")
  /\ UNCHANGED <<rCntMutex, readerCnt>>

\* readerCnt++ and rCntMutex->V().
Admit(t) ==
  /\ pc[t] = "admit" \/ (pc[t] = "counting" /\ readerCnt # 0)
  /\ readerCnt' = readerCnt + 1
  /\ rCntMutex' = rCntMutex + 1
  /\ Goto(t, "reading")
  /\ UNCHANGED RW

\* EndRead, rCntMutex->P().
EndRead(t) ==
  /\ pc[t] = "reading"
  /\ rCntMutex > 0
  /\ rCntMutex' = rCntMutex - 1
  /\ Goto(t, "leaving")
  /\ UNCHANGED <<RW, readerCnt>>

\* readerCnt--, and RW->V() or at once rCntMutex->V().
Leave(t) ==
  /\ pc[t] = "leaving"
  /\ readerCnt' = readerCnt - 1
  /\ IF readerCnt' = 0
     THEN /\ RW' = RW + 1
          /\ Goto(t, "left")
          /\ UNCHANGED rCntMutex
     ELSE /\ rCntMutex' = rCntMutex + 1
          /\ Goto(t, "out")
          /\ UNCHANGED RW

\* The last reader's rCntMutex->V().
LastLeft(t) ==
  /\ pc[t] = "left"
  /\ rCntMutex' = rCntMutex + 1
  /\ Goto(t, "out")
  /\ UNCHANGED <<RW, readerCnt>>

StartWrite(t) ==
  /\ pc[t] = "out"
  /\ RW > 0
  /\ RW' = RW - 1
  /\ Goto(t, "writing")
  /\ UNCHANGED <<rCntMutex, readerCnt>>

EndWrite(t) ==
  /\ pc[t] = "writing"
  /\ RW' = RW + 1
  /\ Goto(t, "out")
  /\ UNCHANGED <<rCntMutex, readerCnt>>

ReaderStep(t) ==
  FirstReader(t) \/ Admit(t) \/ EndRead(t) \/ Leave(t) \/ LastLeft(t)

LockNext ==
  \E t \in Users : StartRead(t) \/ ReaderStep(t) \/ StartWrite(t) \/ EndWrite(t)

LockSpec == LockInit /\ [][LockNext]_lockVars
-----------------------------------------------------------------------------
\* Threads that readerCnt counts, threads inside rCntMutex, writers.
CountedReaders == {t \in Users : pc[t] \in {"reading", "leaving"}}
InMutex == {t \in Users : pc[t] \in {"counting", "admit", "leaving", "left"}}

\* The type of every variable; semaphore values are never negative.
LockTypeOK ==
  /\ rCntMutex \in Nat
  /\ RW \in Nat
  /\ readerCnt \in Nat
  /\ pc \in [Users -> Labels]

\* While a thread writes the file nobody else reads or writes it.
WriterExcludesAll ==
  \A t, u \in Users :
    pc[t] = "writing" /\ pc[u] \in {"writing", "reading"} => t = u

\* readerCnt is the number of threads between StartRead and EndRead: the
\* first and the last reader are told correctly.
ReaderCountExact == readerCnt = Cardinality(CountedReaders)

\* rCntMutex is free, or one thread is between its P and its V.
MutexHolder ==
  \/ rCntMutex = 1 /\ InMutex = {}
  \/ rCntMutex = 0 /\ \E t \in Users : InMutex = {t}

\* Readers as a group, or one writer, hold RW, and nobody else: the last
\* reader gives back the unit the first one took.
RWHolder ==
  \/ RW = 1 /\ readerCnt = 0
            /\ \A t \in Users : pc[t] \notin {"admit", "writing"}
  \/ RW = 0 /\ readerCnt > 0
            /\ \A t \in Users : pc[t] \notin {"admit", "writing"}
  \/ RW = 0 /\ readerCnt = 0
            /\ \E t \in Users :
                 /\ pc[t] \in {"admit", "writing"}
                 /\ \A u \in Users : pc[u] \in {"admit", "writing"} => u = t
=============================================================================
