----------------------------- MODULE FileAccess -----------------------------
(***************************************************************************)
(* One file used by several threads at once, as ex7_test does              *)
(* (filesys/fstest.cc): readers and writers look the path up, open the     *)
(* file, transfer with OpenFile::ReadAt or WriteAt and close it, and a     *)
(* cleaner calls FileSystem::Remove until it succeeds.  Transfers take the *)
(* lock of ReadersWriters; a disk access inside one is a step of its own.  *)
(* The file has two sectors of two bytes; a byte holds the thread that     *)
(* wrote it last.                                                          *)
(***************************************************************************)
EXTENDS ReadersWriters

CONSTANTS Readers, Writers, Cleaners,
          Span,      \* Span[w]: the bytes writer w writes
          Unwritten

Bytes == 1 .. 4

\* A thread runs one of the three programs.
ASSUME FileAssumption ==
  /\ Users = Readers \cup Writers \cup Cleaners
  /\ Readers \cap Writers = {}
  /\ \A w \in Writers : Span[w] \subseteq Bytes

BytesOf(sector) == {2 * sector - 1, 2 * sector}

VARIABLES
  step,        \* where a thread is in its program, outside the lock
  exists,      \* the entry of the file is in its directory
  openerCnt,
  data,        \* the bytes of the file on disk
  buf,         \* of each thread's transfer
  todo,        \* sectors the transfer has still to read or write
  crashed      \* OpenFile(-1) failed an ASSERT of the disk: the simulator is gone

fileVars == <<step, exists, openerCnt, data, buf, todo, crashed>>
accessVars == <<lockVars, fileVars>>

FileInit ==
  /\ LockInit
  /\ step = [t \in Users |-> "start"]
  /\ exists = TRUE
  /\ openerCnt = 0
  /\ data = [b \in Bytes |-> Unwritten]
  /\ buf = [t \in Users |-> [b \in Bytes |-> Unwritten]]
  /\ todo = [t \in Users |-> {}]
  /\ crashed = FALSE

To(t, label) == step' = [step EXCEPT ![t] = label]

\* The sectors a write covers only in part, read before StartWrite.
Partial(w) == {s \in {1, 2} : BytesOf(s) \cap Span[w] # {} /\ ~ (BytesOf(s) \subseteq Span[w])}
Covered(w) == {s \in {1, 2} : BytesOf(s) \cap Span[w] # {}}

\* GetHeaderSector.  A path that is gone gives OpenFile(-1): the header is
\* fetched from sector -1, and Disk::ReadRequest fails its ASSERT.
Lookup(t) ==
  /\ step[t] = "start" /\ t \notin Cleaners
  /\ IF exists THEN To(t, "found") /\ UNCHANGED crashed
               ELSE crashed' = TRUE /\ UNCHANGED step
  /\ UNCHANGED <<lockVars, exists, openerCnt, data, buf, todo>>

\* OpenFile::OpenFile: the sector found before may have been freed since, or
\* a Remove may have found no opener and not yet be done.  The thread then
\* works on a file that is no longer in its directory.
Open(t) ==
  /\ step[t] = "found"
  /\ openerCnt' = openerCnt + 1
  /\ To(t, "opened")
  /\ todo' = [todo EXCEPT ![t] = IF t \in Readers THEN {1, 2} ELSE Partial(t)]
  /\ UNCHANGED <<lockVars, exists, data, buf, crashed>>

\* ReadAt's StartRead, for a reader or for a partial sector of a writer.
BeginRead(t) ==
  /\ step[t] = "opened" /\ todo[t] # {}
  /\ StartRead(t)
  /\ UNCHANGED fileVars

ReaderMoves(t) ==
  /\ FirstReader(t) \/ Admit(t) \/ Leave(t) \/ LastLeft(t)
  /\ UNCHANGED fileVars

\* One ReadSector.  A writer's ReadAt is for one partial sector, a reader's
\* for the whole file.
Least(S) == CHOOSE s \in S : \A u \in S : s <= u

Copied(s, from, to) == [b \in Bytes |-> IF b \in BytesOf(s) THEN from[b] ELSE to[b]]

Fetch(t) ==
  /\ pc[t] = "reading" /\ step[t] = "opened" /\ todo[t] # {}
  /\ buf' = [buf EXCEPT ![t] = Copied(Least(todo[t]), data, @)]
  /\ todo' = [todo EXCEPT ![t] = @ \ {Least(@)}]
  /\ To(t, IF t \in Writers \/ todo'[t] = {} THEN "fetched" ELSE "opened")
  /\ UNCHANGED <<lockVars, exists, openerCnt, data, crashed>>

FinishRead(t) ==
  /\ step[t] = "fetched"
  /\ EndRead(t)
  /\ To(t, IF todo[t] = {} THEN "transferred" ELSE "opened")
  /\ UNCHANGED <<exists, openerCnt, data, buf, todo, crashed>>

BeginWriteUnlocked(t) ==
  /\ pc[t] = "out" /\ t \in Writers
  /\ step[t] = "transferred" \/ (step[t] = "opened" /\ todo[t] = {})
  /\ Goto(t, "writing")
  /\ buf' = [buf EXCEPT ![t] = [b \in Bytes |-> IF b \in Span[t] THEN t ELSE @[b]]]
  /\ todo' = [todo EXCEPT ![t] = Covered(t)]
  /\ To(t, "opened")
  /\ UNCHANGED <<rCntMutex, RW, readerCnt, exists, openerCnt, data, crashed>>

\* The bytes are copied into the buffer; StartWrite.
BeginWrite(t) ==
  /\ t \in Writers
  /\ step[t] = "transferred" \/ (step[t] = "opened" /\ todo[t] = {})
  /\ StartWrite(t)
  /\ buf' = [buf EXCEPT ![t] = [b \in Bytes |-> IF b \in Span[t] THEN t ELSE @[b]]]
  /\ todo' = [todo EXCEPT ![t] = Covered(t)]
  /\ To(t, "opened")
  /\ UNCHANGED <<exists, openerCnt, data, crashed>>

\* One WriteSector of the whole sector.
Store(t) ==
  /\ pc[t] = "writing" /\ todo[t] # {}
  /\ data' = Copied(Least(todo[t]), buf[t], data)
  /\ todo' = [todo EXCEPT ![t] = @ \ {Least(@)}]
  /\ UNCHANGED <<lockVars, step, exists, openerCnt, buf, crashed>>

FinishWrite(t) ==
  /\ todo[t] = {}
  /\ EndWrite(t)
  /\ To(t, "written")
  /\ UNCHANGED <<exists, openerCnt, data, buf, todo, crashed>>

\* delete opf
CloseUncounted(t) ==
  /\ pc[t] = "out"
  /\ step[t] = "written" \/ (step[t] = "transferred" /\ t \in Readers)
  /\ To(t, "closed")
  /\ UNCHANGED <<lockVars, exists, openerCnt, data, buf, todo, crashed>>

Close(t) ==
  /\ pc[t] = "out"
  /\ step[t] = "written" \/ (step[t] = "transferred" /\ t \in Readers)
  /\ openerCnt' = openerCnt - 1
  /\ To(t, "closed")
  /\ UNCHANGED <<lockVars, exists, data, buf, todo, crashed>>

\* CleannerFunc: Remove looks at the openers, and flushes many disk accesses
\* later; it is called again until it succeeds.
CheckRemove(t) ==
  /\ step[t] = "start" /\ t \in Cleaners
  /\ exists /\ openerCnt = 0
  /\ To(t, "removing")
  /\ UNCHANGED <<lockVars, exists, openerCnt, data, buf, todo, crashed>>

RetryRemove(t) ==
  /\ step[t] = "start" /\ t \in Cleaners
  /\ ~ (exists /\ openerCnt = 0)
  /\ UNCHANGED accessVars

Remove(t) ==
  /\ step[t] = "removing"
  /\ exists' = FALSE
  /\ To(t, "closed")
  /\ UNCHANGED <<lockVars, openerCnt, data, buf, todo, crashed>>

ThreadStep(t) ==
  \/ BeginRead(t) \/ ReaderMoves(t) \/ Fetch(t) \/ FinishRead(t)
  \/ BeginWrite(t) \/ Store(t) \/ FinishWrite(t) \/ Close(t)

Finished == \A t \in Users : step[t] = "closed" /\ pc[t] = "out"

FileNext ==
  \/ /\ ~crashed
     /\ \E t \in Users : Lookup(t) \/ Open(t) \/ ThreadStep(t) \/ CheckRemove(t)
                         \/ RetryRemove(t) \/ Remove(t)
  \/ (Finished \/ crashed) /\ UNCHANGED accessVars

\* Threads are dispatched; one that waits in P gets the semaphore in turn.
TransferStep(t) == ~crashed /\ ThreadStep(t)
CallStep(t) == ~crashed /\ (Lookup(t) \/ Open(t) \/ CheckRemove(t) \/ Remove(t))

FileFairness ==
  /\ \A t \in Users \ Cleaners : SF_accessVars(TransferStep(t))
  /\ \A t \in Users : WF_accessVars(CallStep(t))

FileFairSpec == FileInit /\ [][FileNext]_accessVars /\ FileFairness
-----------------------------------------------------------------------------
\* Each variable of the file has its type.
FileTypeOK ==
  /\ step \in [Users -> {"start", "found", "opened", "fetched", "transferred",
                         "written", "removing", "closed"}]
  /\ {exists, crashed} \subseteq BOOLEAN
  /\ openerCnt \in Nat
  /\ data \in [Bytes -> Writers \cup {Unwritten}]
  /\ todo \in [Users -> SUBSET {1, 2}]

\* A reader that has read both sectors holds bytes the file had at one moment:
\* it never sees the sectors of a write half done.
ReadsNotTorn ==
  \A t \in Readers : pc[t] = "reading" =>
    \A s \in {1, 2} \ todo[t] : \A b \in BytesOf(s) : buf[t][b] = data[b]

\* Transfers do not disturb each other: the lock keeps writers alone, its
\* counts are exact, and no read is torn.
TransfersIsolated ==
  /\ FileTypeOK
  /\ WriterExcludesAll /\ ReaderCountExact /\ RWHolder
  /\ ReadsNotTorn

\* openfile.cc:108-111: WriteAt reads "any sectors that will be partially
\* written, so that we don't overwrite the unmodified portion": a write
\* changes only the bytes it was asked to write.
WriteKeepsOtherBytes ==
  [][\A b \in Bytes : data'[b] # data[b] =>
       \E w \in Writers : data'[b] = w /\ b \in Span[w] /\ pc[w] = "writing"]_accessVars

\* Every thread finishes and the cleaner's loop ends with the file removed, or
\* a thread that looks the path up after that brings the simulator down: no
\* transfer is left waiting for the lock, and Remove is refused only for a
\* while, since every opener is counted out again.
EveryoneFinishes == <>[](~exists /\ (Finished \/ crashed))
=============================================================================
