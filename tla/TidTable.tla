------------------------------ MODULE TidTable ------------------------------
(***************************************************************************)
(* Thread identifiers: the globals TidMap, MinAvailableTid and PCBList of  *)
(* threads/system.cc, maintained by Thread::Thread and Thread::~Thread     *)
(* (threads/thread.cc).  Both bodies run with interrupts off, so each is   *)
(* one step.                                                               *)
(***************************************************************************)
EXTENDS NachosList

CONSTANTS
  Threads,          \* the thread objects that may be constructed
  MainThread,       \* the object Initialize constructs first
  ThreadsNumLimit   \* the number of thread identifiers (128 in system.h)

ASSUME LimitAssumption == ThreadsNumLimit \in Nat \ {0}
ASSUME MainAssumption == MainThread \in Threads

VARIABLES
  TidMap,           \* TidMap[i]: identifier i is in use
  MinAvailableTid,  \* the identifier the next constructor takes
  PCBList,          \* the live threads, sorted by identifier
  tid,              \* tid[t]: Thread::tid of object t
  aborted           \* an ASSERT of the constructor failed

tableVars == <<TidMap, MinAvailableTid, PCBList, tid, aborted>>

Tids == 0 .. ThreadsNumLimit - 1

Live == Items(PCBList)

\* Initialize clears the table and constructs the main thread.
TableInit ==
  /\ TidMap = [i \in Tids |-> i = 0]
  /\ MinAvailableTid = 1
  /\ PCBList = <<MainThread>>
  /\ tid = [t \in Threads |-> 0]
  /\ aborted = FALSE

\* What the constructor leaves in MinAvailableTid after taking identifier n
\* in the table used: its search loop has an unconditional break, so that
\* only n + 1 is examined, and the limit is left there if n + 1 is in use,
\* whatever is free above it.
NextMinAvailable(used, n) ==
  IF n + 1 < ThreadsNumLimit /\ ~used[n + 1] THEN n + 1 ELSE ThreadsNumLimit

\* The two ASSERTs that open the constructor.
CanTakeTid ==
  /\ MinAvailableTid >= 0
  /\ MinAvailableTid < ThreadsNumLimit
  /\ ~TidMap[MinAvailableTid]

\* Mutant: identifiers are counted up and not looked up.
ConstructCounting(t) ==
  /\ ~aborted
  /\ t \notin Live
  /\ MinAvailableTid < ThreadsNumLimit
  /\ tid' = [tid EXCEPT ![t] = MinAvailableTid]
  /\ TidMap' = [TidMap EXCEPT ![MinAvailableTid] = TRUE]
  /\ MinAvailableTid' = MinAvailableTid + 1
  /\ PCBList' = SortedInsert(PCBList, t, tid')
  /\ UNCHANGED aborted

Construct(t) ==
  /\ ~aborted
  /\ t \notin Live
  /\ CanTakeTid
  /\ tid' = [tid EXCEPT ![t] = MinAvailableTid]
  /\ TidMap' = [TidMap EXCEPT ![MinAvailableTid] = TRUE]
  /\ MinAvailableTid' = NextMinAvailable(TidMap, MinAvailableTid)
  /\ PCBList' = SortedInsert(PCBList, t, tid')
  /\ UNCHANGED aborted

ConstructAborts(t) ==
  /\ ~aborted
  /\ t \notin Live
  /\ ~CanTakeTid
  /\ aborted' = TRUE
  /\ UNCHANGED <<TidMap, MinAvailableTid, PCBList, tid>>

\* MinAvailableTid after identifier n is given back (the min() of ~Thread).
MinAfterRelease(n) == IF n < MinAvailableTid THEN n ELSE MinAvailableTid

Destruct(t) ==
  /\ ~aborted
  /\ t \in Live
  /\ TidMap[tid[t]]
  /\ PCBList' = RemoveItem(PCBList, t)
  /\ TidMap' = [TidMap EXCEPT ![tid[t]] = FALSE]
  /\ MinAvailableTid' = MinAfterRelease(tid[t])
  /\ UNCHANGED <<tid, aborted>>

-----------------------------------------------------------------------------
\* The table, the list and the identifiers stay inside their types.
TableTypeOK ==
  /\ TidMap \in [Tids -> BOOLEAN]
  /\ MinAvailableTid \in 0 .. ThreadsNumLimit
  /\ PCBList \in Seq(Threads)
  /\ tid \in [Threads -> Tids]
  /\ aborted \in BOOLEAN

\* No two live threads share an identifier, whatever the order in which
\* threads are constructed and destroyed: locks, SC_Join and ThreadShow
\* identify a thread by its tid.
TidsUnique ==
  \A t, u \in Live : tid[t] = tid[u] => t = u

\* An identifier is marked in use exactly while a live thread carries it.
TidMapIsLiveTids ==
  \A i \in Tids : TidMap[i] <=> \E t \in Live : tid[t] = i

\* PCBList holds every live thread once, in the order of the identifiers, so
\* that the destructor's search always finds the thread it unlinks.
PCBListOrdered ==
  NoDuplicates(PCBList) /\ IsSorted(PCBList, tid)

\* Whenever MinAvailableTid is a legal identifier it is a free one, after any
\* order of constructions and destructions: the constructor's second
\* ASSERT(TidMap[MinAvailableTid] != true) never fails.  The first one,
\* ASSERT(MinAvailableTid < ThreadsNumLimit), does: see MinAvailableTidIsLeast.
AvailableTidIsFree ==
  MinAvailableTid < ThreadsNumLimit => ~TidMap[MinAvailableTid]

\* What the constructor and the destructor keep of the three tables and the
\* tids: identifiers are unique, TidMap and PCBList are exact, and the cached
\* identifier is free if it is one.  Uniqueness alone is not inductive, because
\* a fresh identifier is unused only if TidMap records exactly the live ones.
TidInv ==
  /\ TableTypeOK
  /\ PCBListOrdered
  /\ TidsUnique
  /\ TidMapIsLiveTids
  /\ AvailableTidIsFree

\* system.cc:22: MinAvailableTid is "the minimum tid which is available", so
\* that the constructor fails only when every identifier is in use.
MinAvailableTidIsLeast ==
  \A i \in Tids : ~TidMap[i] => MinAvailableTid <= i
=============================================================================
