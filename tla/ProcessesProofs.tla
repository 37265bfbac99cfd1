--------------------------- MODULE ProcessesProofs ---------------------------
(***************************************************************************)
(* Thread identifiers are unique and TidMap is exact, no process is lost   *)
(* by the scheduler, and Join returns only after the process it names has  *)
(* finished, and never if that one is less urgent, for every number of     *)
(* identifiers and every set of threads.                                   *)
(***************************************************************************)
EXTENDS Processes, NachosListProofs

LOCAL INSTANCE WellFoundedInduction

LEMMA NatIsWellOrdered == NatWellOrdered
<1> SUFFICES ASSUME NEW T \in SUBSET Nat, T # {}
             PROVE  \E n \in T : \A k \in T : n <= k
  BY Zenon DEF NatWellOrdered
<1>1. PICK n \in T : \A k \in T : ~(<<k, n>> \in OpToRel(<, Nat))
  BY NatLessThanWellFounded, WFMin, Zenon
<1>2. \A k \in T : n <= k
  <2> SUFFICES ASSUME NEW k \in T, ~(n <= k) PROVE FALSE
    BY Zenon
  <2>1. k \in Nat /\ n \in Nat /\ k < n
    OBVIOUS
  <2>2. <<k, n>> \in OpToRel(<, Nat)
    BY <2>1, Zenon DEF OpToRel
  <2> QED
    BY <1>1, <2>2, Zenon
<1> QED
  BY <1>2, Zenon

LEMMA TidInit == TableInit => TidInv
<1> SUFFICES ASSUME TableInit PROVE TidInv
  BY Zenon
<1>1. TableTypeOK
  <2>1. TidMap \in [Tids -> BOOLEAN]
    BY Zenon DEF TableInit
  <2>2. /\ MinAvailableTid \in 0 .. ThreadsNumLimit
        /\ PCBList \in Seq(Threads)
        /\ tid \in [Threads -> Tids]
    BY LimitAssumption, MainAssumption DEF TableInit, Tids
  <2> QED
    BY <2>1, <2>2, Zenon DEF TableInit, TableTypeOK
<1>2. Live = {MainThread}
  BY DEF TableInit, Live, Items
<1>3. PCBListOrdered
  BY DEF TableInit, PCBListOrdered, NoDuplicates, IsSorted
<1>4. TidMapIsLiveTids
  BY <1>2, MainAssumption, Zenon DEF TableInit, TidMapIsLiveTids, Tids
<1>5. TidsUnique
  BY <1>2, Zenon DEF TidsUnique
<1>6. AvailableTidIsFree
  <2>1. 1 < ThreadsNumLimit => 1 \in Tids
    BY LimitAssumption DEF Tids
  <2>2. 1 \in Tids => (TidMap[1] <=> 1 = 0)
    BY Zenon DEF TableInit
  <2> QED
    BY <2>1, <2>2 DEF TableInit, AvailableTidIsFree
<1> QED
  BY <1>1, <1>3, <1>4, <1>5, <1>6, Zenon DEF TidInv

\* A constructor takes a free identifier for a thread that is not listed.
LEMMA ConstructStep ==
  ASSUME TidInv, NEW t \in Threads, Construct(t)
  PROVE  TidInv'
<1> DEFINE n == MinAvailableTid
<1> USE DEF TidInv
<1>1. n \in Tids /\ ~TidMap[n]
  BY LimitAssumption DEF TableTypeOK, Construct, CanTakeTid, Tids
<1>2. tid' \in [Threads -> Tids] /\ tid' \in [Threads -> Int]
  BY <1>1 DEF TableTypeOK, Construct, Tids
<1>3. \A u \in Live : u \in Threads /\ u # t /\ tid'[u] = tid[u]
  <2>1. \A u \in Live : u \in Threads /\ u # t
    BY DEF Construct, TableTypeOK, Live, Items
  <2> QED
    BY <2>1, Zenon DEF Construct, TableTypeOK
<1>4. tid'[t] = n
  BY Zenon DEF Construct, TableTypeOK
<1>5. PCBList' \in Seq(Threads) /\ Live' = Live \cup {t}
  <2>1. PCBList \in Seq(Threads) /\ PCBList' = SortedInsert(PCBList, t, tid')
    BY Zenon DEF Construct, TableTypeOK
  <2>2. /\ SortedInsert(PCBList, t, tid') \in Seq(Threads)
        /\ Items(SortedInsert(PCBList, t, tid')) = Items(PCBList) \cup {t}
    <3> DEFINE Added(key) ==
                 /\ SortedInsert(PCBList, t, key) \in Seq(Threads)
                 /\ Items(SortedInsert(PCBList, t, key)) = Items(PCBList) \cup {t}
    <3>1. \A key \in [Threads -> Int] : Added(key)
      BY <2>1, NatIsWellOrdered, SortedInsertItems
    <3> QED
      BY <1>2, <3>1, Zenon
  <2> QED
    BY <2>1, <2>2, Zenon DEF Live
<1>6. IsSorted(PCBList, tid')
  <2>1. \A i \in DOMAIN PCBList : tid'[PCBList[i]] = tid[PCBList[i]]
    BY <1>3, Zenon DEF Live, Items
  <2> QED
    BY <2>1, Zenon DEF PCBListOrdered, IsSorted
<1>7. PCBListOrdered'
  <2>1. NoDuplicates(PCBList) /\ t \notin Items(PCBList)
    BY Zenon DEF Construct, PCBListOrdered, Live
  <2> QED
    BY <1>2, <1>6, <2>1, NatIsWellOrdered, SortedInsertOrder, Zenon DEF Construct, TableTypeOK, PCBListOrdered
<1>8. TableTypeOK'
  BY <1>1, <1>2, <1>5, LimitAssumption
  DEF Construct, TableTypeOK, NextMinAvailable, Tids
<1>9. \A u \in Live : tid[u] # n
  BY <1>1, Zenon DEF TidMapIsLiveTids
<1>10. TidsUnique'
  BY <1>3, <1>4, <1>5, <1>9 DEF TidsUnique
<1>11. TidMapIsLiveTids'
  BY <1>1, <1>3, <1>4, <1>5 DEF Construct, TableTypeOK, TidMapIsLiveTids
<1>12. AvailableTidIsFree'
  BY <1>1, LimitAssumption
  DEF Construct, TableTypeOK, NextMinAvailable, AvailableTidIsFree, Tids
<1> QED
  BY <1>7, <1>8, <1>10, <1>11, <1>12, Zenon

\* A destructor frees the identifier of the thread it unlinks, and no other.
LEMMA DestructStep ==
  ASSUME TidInv, NEW t \in Threads, Destruct(t)
  PROVE  TidInv'
<1> USE DEF TidInv
<1>1. t \in Items(PCBList) /\ NoDuplicates(PCBList) /\ tid \in [Threads -> Int]
  BY DEF Destruct, Live, PCBListOrdered, TableTypeOK, Tids
<1>2. /\ PCBList' \in Seq(Threads)
      /\ Live' = Live \ {t}
      /\ NoDuplicates(PCBList')
      /\ IsSorted(PCBList', tid)
  BY <1>1, RemoveItemItems DEF Destruct, TableTypeOK, Live, PCBListOrdered
<1>3. PCBListOrdered'
  BY <1>2, Zenon DEF Destruct, PCBListOrdered
<1>4. TableTypeOK'
  BY <1>2, LimitAssumption DEF Destruct, TableTypeOK, MinAfterRelease, Tids
<1>5. \A u \in Live : u \in Threads
  BY DEF Live, Items, TableTypeOK
<1>6. TidsUnique'
  BY <1>2, Zenon DEF Destruct, TidsUnique
<1>7. TidMapIsLiveTids'
  BY <1>2, <1>5 DEF Destruct, TableTypeOK, TidMapIsLiveTids, TidsUnique
<1>8. AvailableTidIsFree'
  BY LimitAssumption
  DEF Destruct, TableTypeOK, MinAfterRelease, AvailableTidIsFree, Tids
<1> QED
  BY <1>3, <1>4, <1>6, <1>7, <1>8, Zenon

\* What a call does to the tables: it constructs a thread, fails in the
\* constructor or deletes a thread.
TableStep == \E t \in Threads : Construct(t) \/ ConstructAborts(t) \/ Destruct(t)

LEMMA TidNext == TidInv /\ [TableStep]_tableVars => TidInv'
<1> SUFFICES ASSUME TidInv, [TableStep]_tableVars PROVE TidInv'
  BY Zenon
<1>1. ASSUME NEW t \in Threads, Construct(t) PROVE TidInv'
  BY <1>1, ConstructStep, Zenon
<1>2. ASSUME NEW t \in Threads, ConstructAborts(t) PROVE TidInv'
  BY <1>2, Zenon DEF ConstructAborts, TidInv, TableTypeOK, PCBListOrdered, TidsUnique,
              TidMapIsLiveTids, AvailableTidIsFree, Live
<1>3. ASSUME NEW t \in Threads, Destruct(t) PROVE TidInv'
  BY <1>3, DestructStep, Zenon
<1>4. CASE UNCHANGED tableVars
  BY <1>4 DEF tableVars, TidInv, TableTypeOK, PCBListOrdered, TidsUnique,
              TidMapIsLiveTids, AvailableTidIsFree, Live
<1> QED
  BY <1>1, <1>2, <1>3, <1>4, Zenon DEF TableStep

------------------------------------------------------------------------------
\* ------------------------ the system calls' invariant ----------------------

\* The thread objects that have been constructed.
Existing == Live \cup started

ProcTypeOK ==
  /\ running \in Threads /\ mode \in {"user", "dispatch", "halted"}
  /\ ready \in Seq(Threads) /\ priority \in [Threads -> Int]
  /\ started \in SUBSET Threads /\ finished \in SUBSET started
  /\ toBeDestroyed \in Threads \cup {NoThread}
  /\ child \in [Threads -> Threads \cup {NoThread}]
  /\ known \in [Threads -> [thread : Threads, tid : Tids] \cup {Nobody}]
  /\ joining \in [Threads -> Tids \cup {NoTid}]
  /\ deletedRead \in BOOLEAN

\* The running thread is not queued, and a finished one never is.
Scheduled ==
  /\ running \in started
  /\ mode = "user" => running \notin finished \cup Items(ready)
  /\ NoDuplicates(ready) /\ Items(ready) \subseteq Live \ finished

\* Only a finished thread is deleted, and none before it has finished.
DeletedLast ==
  /\ Existing \ finished \subseteq Live
  /\ toBeDestroyed # NoThread => toBeDestroyed \in finished \cap Live

\* What a process in the middle of Exec, Fork or Join was told.
CallsAgree ==
  \A t \in Threads :
    /\ child[t] # NoThread => child[t] \in Existing \ {t} /\ joining[t] = NoTid
    /\ known[t] # Nobody => known[t].thread \in Existing \ {t}
    /\ known[t] # Nobody /\ ~deletedRead => known[t].tid = tid[known[t].thread]
    /\ joining[t] # NoTid => known[t] # Nobody /\ joining[t] = known[t].tid

\* A tid is given out once per thread object, so that it stands for the same
\* process until that one is deleted; a running thread is a live one, so that
\* Join's second test never mistakes the child for the caller.
ProcInv == TidInv /\ ProcTypeOK /\ Scheduled /\ DeletedLast /\ CallsAgree

\* Every system call changes the tables by a constructor or a destructor.
LEMMA ProcTables == ProcInv /\ [ProcNext]_processVars => [TableStep]_tableVars
<1> SUFFICES ASSUME ProcInv, [ProcNext]_processVars PROVE [TableStep]_tableVars
  BY Zenon
<1>1. ASSUME NEW t \in Threads, Exec(t) \/ Fork(t) \/ SpawnAborts(t) PROVE TableStep
  BY <1>1, Zenon DEF Exec, Fork, Spawn, SpawnAborts, TableStep
<1>2. CASE Dispatch
  <2>1. UNCHANGED tableVars \/ (toBeDestroyed # NoThread /\ Destruct(toBeDestroyed))
    BY <1>2, Zenon DEF Dispatch
  <2> QED
    BY <2>1, Zenon DEF TableStep, ProcInv, ProcTypeOK
<1>3. CASE ReturnTid \/ JoinCall \/ JoinStep \/ Yield \/ Exit \/ Over \/ UNCHANGED processVars
  BY <1>3, Zenon DEF ReturnTid, JoinCall, JoinStep, Yield, Exit, Over, processVars, tableVars
<1> QED
  BY <1>1, <1>2, <1>3, Zenon DEF ProcNext

LEMMA ProcInvInit == ProcInit => ProcInv
<1> SUFFICES ASSUME ProcInit PROVE ProcInv
  BY Zenon
<1>1. TidInv
  BY TidInit, Zenon DEF ProcInit
<1>2. Live = {MainThread} /\ Items(ready) = {}
  BY DEF ProcInit, TableInit, Live, Items
<1>3. ProcTypeOK
  <2>1. known \in [Threads -> [thread : Threads, tid : Tids] \cup {Nobody}]
    BY Zenon DEF ProcInit
  <2>2. /\ child \in [Threads -> Threads \cup {NoThread}]
        /\ joining \in [Threads -> Tids \cup {NoTid}]
    BY Zenon DEF ProcInit
  <2>3. ready \in Seq(Threads) /\ priority \in [Threads -> Int]
    BY PriorityAssumption DEF ProcInit
  <2> QED
    BY <2>1, <2>2, <2>3, MainAssumption, Zenon DEF ProcInit, ProcTypeOK
<1>4. Scheduled /\ DeletedLast
  BY <1>2 DEF ProcInit, Scheduled, DeletedLast, Existing, NoDuplicates
<1>5. CallsAgree
  BY Zenon DEF ProcInit, CallsAgree
<1> QED
  BY <1>1, <1>3, <1>4, <1>5, Zenon DEF ProcInv

\* new is list with t queued.
Queued(list, t, new) ==
  new \in Seq(Threads) /\ NoDuplicates(new) /\ Items(new) = Items(list) \cup {t}

LEMMA QueueGrows ==
  ASSUME NEW list \in Seq(Threads), NoDuplicates(list), NEW t \in Threads,
         t \notin Items(list), NEW prio \in [Threads -> Int]
  PROVE  /\ Queued(list, t, SortedInsert(list, t, prio))
         /\ IsSorted(list, prio) => IsSorted(SortedInsert(list, t, prio), prio)
BY NatIsWellOrdered, SortedInsertItems, SortedInsertOrder DEF Queued

\* The head of the ready list and the rest have no thread in common.
LEMMA QueueShrinks ==
  ASSUME NEW list \in Seq(Threads), NoDuplicates(list), list # <<>>
  PROVE  /\ Head(list) \in Threads /\ Tail(list) \in Seq(Threads) /\ NoDuplicates(Tail(list))
         /\ Items(list) = Items(Tail(list)) \cup {Head(list)}
         /\ Head(list) \notin Items(Tail(list))
         /\ \A key \in [Threads -> Int] : IsSorted(list, key) =>
              IsSorted(Tail(list), key) /\ \A t \in Items(Tail(list)) : key[Head(list)] <= key[t]
<1>1. /\ Head(list) = list[1] /\ Head(list) \in Threads /\ Tail(list) \in Seq(Threads)
      /\ 1 \in DOMAIN list /\ DOMAIN Tail(list) = 1 .. Len(list) - 1
      /\ \A i \in DOMAIN Tail(list) : i + 1 \in DOMAIN list /\ Tail(list)[i] = list[i + 1]
  OBVIOUS
<1>2. \A i \in DOMAIN list : i = 1 \/ (i - 1 \in DOMAIN Tail(list) /\ Tail(list)[i - 1] = list[i])
  OBVIOUS
<1>3. NoDuplicates(Tail(list)) /\ Head(list) \notin Items(Tail(list))
  BY <1>1 DEF NoDuplicates, Items
<1>4. Items(list) = Items(Tail(list)) \cup {Head(list)}
  <2>1. ASSUME NEW x \in Items(list) PROVE x \in Items(Tail(list)) \cup {Head(list)}
    BY <1>1, <1>2, <2>1 DEF Items
  <2>2. ASSUME NEW x \in Items(Tail(list)) PROVE x \in Items(list)
    BY <1>1, <2>2 DEF Items
  <2>3. Head(list) \in Items(list)
    BY <1>1, Zenon DEF Items
  <2> QED
    BY <2>1, <2>2, <2>3, Zenon
<1>5. ASSUME NEW key \in [Threads -> Int], IsSorted(list, key)
      PROVE  IsSorted(Tail(list), key) /\ \A t \in Items(Tail(list)) : key[Head(list)] <= key[t]
  <2>1. IsSorted(Tail(list), key)
    <3>1. ASSUME NEW i \in DOMAIN Tail(list), NEW j \in DOMAIN Tail(list), i < j
          PROVE  key[Tail(list)[i]] <= key[Tail(list)[j]]
      <4>1. i + 1 \in DOMAIN list /\ j + 1 \in DOMAIN list /\ i + 1 < j + 1
        BY <1>1, <3>1
      <4>2. key[list[i + 1]] <= key[list[j + 1]]
        BY <1>5, <4>1, Zenon DEF IsSorted
      <4> QED
        BY <1>1, <4>2, Zenon
    <3> QED
      BY <3>1, Zenon DEF IsSorted
  <2>2. ASSUME NEW i \in DOMAIN Tail(list) PROVE key[Head(list)] <= key[Tail(list)[i]]
    <3>1. i + 1 \in DOMAIN list /\ 1 < i + 1
      BY <1>1
    <3>2. key[list[1]] <= key[list[i + 1]]
      BY <1>1, <1>5, <3>1, Zenon DEF IsSorted
    <3> QED
      BY <1>1, <3>2, Zenon
  <2> QED
    BY <2>1, <2>2, Zenon DEF Items
<1> QED
  BY <1>1, <1>3, <1>4, <1>5, Zenon

\* Exec and Fork: the new thread is queued, and the caller too if the new
\* thread is more urgent.
LEMMA SpawnQueues ==
  ASSUME ProcInv, NEW t \in Threads, NEW prio \in Int, Spawn(t, prio)
  PROVE  /\ Live' = Live \cup {t} /\ \A u \in Threads : u # t => tid'[u] = tid[u]
         /\ priority' \in [Threads -> Int]
         /\ ready' \in Seq(Threads) /\ NoDuplicates(ready')
         /\ \/ /\ mode' = "user" /\ priority[running] <= prio
               /\ Items(ready') = Items(ready) \cup {t}
            \/ mode' = "dispatch" /\ Items(ready') = Items(ready) \cup {t, running}
         /\ IsSorted(ready, priority) => IsSorted(ready', priority')
<1>1. TableTypeOK /\ ProcTypeOK /\ Scheduled
  BY Zenon DEF ProcInv, TidInv
<1>2. /\ mode = "user" /\ t \notin Live /\ Construct(t)
      /\ priority' = [priority EXCEPT ![t] = prio]
  BY Zenon DEF Spawn, InUser, Construct
<1>3. Live' = Live \cup {t} /\ \A u \in Threads : u # t => tid'[u] = tid[u]
  <2>1. PCBList \in Seq(Threads) /\ tid' \in [Threads -> Int]
    BY <1>1, <1>2 DEF Construct, TableTypeOK, CanTakeTid, Tids
  <2>2. Items(SortedInsert(PCBList, t, tid')) = Items(PCBList) \cup {t}
    <3> DEFINE Added(key) == Items(SortedInsert(PCBList, t, key)) = Items(PCBList) \cup {t}
    <3>1. \A key \in [Threads -> Int] : Added(key)
      BY <2>1, NatIsWellOrdered, SortedInsertItems
    <3> QED
      BY <2>1, <3>1, Zenon
  <2> QED
    BY <1>1, <1>2, <2>2, Zenon DEF Live, Construct, TableTypeOK
<1>4. /\ ready \in Seq(Threads) /\ NoDuplicates(ready) /\ t \notin Items(ready)
      /\ running \in Threads /\ running \notin Items(ready) \cup {t}
      /\ priority \in [Threads -> Int] /\ priority' \in [Threads -> Int]
  <2>1. t \notin started
    BY Zenon DEF Spawn
  <2> QED
    BY <1>1, <1>2, <2>1, Zenon DEF Scheduled, ProcTypeOK
<1>5. IsSorted(ready, priority) => IsSorted(ready, priority')
  <2>1. \A i \in DOMAIN ready : ready[i] \in Threads /\ ready[i] # t
    BY <1>4 DEF Items
  <2>2. \A i \in DOMAIN ready : priority'[ready[i]] = priority[ready[i]]
    BY <1>2, <1>4, <2>1, Zenon
  <2> QED
    BY <2>2, Zenon DEF IsSorted
<1> DEFINE list == SortedInsert(ready, t, priority')
<1>6. Queued(ready, t, list) /\ (IsSorted(ready, priority') => IsSorted(list, priority'))
  <2>1. \A key \in [Threads -> Int] :
          /\ Queued(ready, t, SortedInsert(ready, t, key))
          /\ IsSorted(ready, key) => IsSorted(SortedInsert(ready, t, key), key)
    BY <1>4, QueueGrows, Zenon
  <2> QED
    BY <1>4, <2>1, Zenon
<1>7. IF prio < priority[running]
      THEN ready' = SortedInsert(list, running, priority') /\ mode' = "dispatch"
      ELSE ready' = list /\ mode' = "user"
  BY <1>2, Zenon DEF Spawn, YieldFrom
<1> HIDE DEF list
<1>8. /\ Queued(list, running, SortedInsert(list, running, priority'))
      /\ IsSorted(list, priority') => IsSorted(SortedInsert(list, running, priority'), priority')
  <2>1. \A key \in [Threads -> Int] :
          /\ Queued(list, running, SortedInsert(list, running, key))
          /\ IsSorted(list, key) => IsSorted(SortedInsert(list, running, key), key)
    BY <1>4, <1>6, QueueGrows, Zenon DEF Queued
  <2> QED
    BY <1>4, <2>1, Zenon
<1>9. CASE prio < priority[running]
  BY <1>3, <1>4, <1>5, <1>6, <1>7, <1>8, <1>9, Zenon DEF Queued
<1>10. CASE ~(prio < priority[running])
  <2>1. priority[running] <= prio
    BY <1>4, <1>10
  <2> QED
    BY <1>3, <1>4, <1>5, <1>6, <1>7, <1>10, <2>1, Zenon DEF Queued
<1> QED
  BY <1>9, <1>10, Zenon

\* The new thread has a tid of its own, and the caller will be told about it.
LEMMA SpawnInv ==
  ASSUME ProcInv, NEW t \in Threads, NEW prio \in Int, Spawn(t, prio)
  PROVE  ProcTypeOK' /\ Scheduled' /\ DeletedLast' /\ CallsAgree'
<1>1. /\ TableTypeOK /\ ProcTypeOK /\ Scheduled /\ DeletedLast /\ CallsAgree
  BY Zenon DEF ProcInv, TidInv
<1>2. /\ mode = "user" /\ child[running] = NoThread /\ joining[running] = NoTid
      /\ t \notin started /\ t \notin Live
      /\ child' = [child EXCEPT ![running] = t]
      /\ UNCHANGED <<running, started, toBeDestroyed, finished, known, joining, deletedRead>>
  BY Zenon DEF Spawn, InUser, Construct
<1>3. /\ Live' = Live \cup {t} /\ \A u \in Threads : u # t => tid'[u] = tid[u]
      /\ ready' \in Seq(Threads) /\ NoDuplicates(ready') /\ priority' \in [Threads -> Int]
      /\ \/ mode' = "user" /\ Items(ready') = Items(ready) \cup {t}
         \/ mode' = "dispatch" /\ Items(ready') = Items(ready) \cup {t, running}
  BY SpawnQueues, Zenon
<1>4. running \in Live /\ running # t
  BY <1>1, <1>2, Zenon DEF Scheduled, DeletedLast, Existing
<1>5. child' \in [Threads -> Threads \cup {NoThread}]
  BY <1>1, <1>2, Zenon DEF ProcTypeOK
<1>6. ProcTypeOK'
  BY <1>1, <1>2, <1>3, <1>5, Zenon DEF ProcTypeOK
<1>7. Scheduled'
  BY <1>1, <1>2, <1>3, <1>4, Zenon DEF Scheduled, ProcTypeOK
<1>8. DeletedLast'
  BY <1>1, <1>2, <1>3, Zenon DEF DeletedLast, Existing
<1>9. CallsAgree'
  <2>1. \A u \in Existing : u # t /\ u \in Existing'
    BY <1>2, <1>3, Zenon DEF Existing
  <2>2. t \in Existing'
    BY <1>3, Zenon DEF Existing
  <2> SUFFICES ASSUME NEW u \in Threads
               PROVE  /\ child'[u] # NoThread => child'[u] \in Existing' \ {u} /\ joining'[u] = NoTid
                      /\ known'[u] # Nobody => known'[u].thread \in Existing' \ {u}
                      /\ known'[u] # Nobody /\ ~deletedRead' => known'[u].tid = tid'[known'[u].thread]
                      /\ joining'[u] # NoTid => known'[u] # Nobody /\ joining'[u] = known'[u].tid
    BY Zenon DEF CallsAgree
  <2>3. known[u] # Nobody => known[u].thread \in Threads
    BY <1>1, Zenon DEF ProcTypeOK
  <2>4. child'[u] = IF u = running THEN t ELSE child[u]
    BY <1>1, <1>2, Zenon DEF ProcTypeOK
  <2> QED
    BY <1>1, <1>2, <1>3, <1>4, <2>1, <2>2, <2>3, <2>4 DEF CallsAgree
<1> QED
  BY <1>6, <1>7, <1>8, <1>9, Zenon

\* The running thread queues itself.
LEMMA YieldQueues ==
  ASSUME ProcInv, mode = "user", YieldFrom(ready, priority)
  PROVE  /\ ready' \in Seq(Threads) /\ NoDuplicates(ready') /\ mode' = "dispatch"
         /\ Items(ready') \subseteq Live \ finished
         /\ Items(ready') = Items(ready) \cup {running}
         /\ IsSorted(ready, priority) => IsSorted(ready', priority)
<1>1. /\ ready \in Seq(Threads) /\ priority \in [Threads -> Int] /\ running \in Threads
      /\ NoDuplicates(ready) /\ running \notin Items(ready) /\ running \in started \ finished
      /\ Items(ready) \subseteq Live \ finished /\ running \in Live
  BY Zenon DEF ProcInv, ProcTypeOK, Scheduled, DeletedLast, Existing
<1>2. /\ Queued(ready, running, ready')
      /\ IsSorted(ready, priority) => IsSorted(ready', priority)
  BY <1>1, QueueGrows, Zenon DEF YieldFrom
<1> QED
  BY <1>1, <1>2, Zenon DEF Queued, YieldFrom

\* The calls that leave the tables alone.
LEMMA CallInv ==
  ASSUME ProcInv, ReturnTid \/ JoinCall \/ JoinStep \/ Yield \/ Exit
  PROVE  ProcTypeOK' /\ Scheduled' /\ DeletedLast' /\ CallsAgree'
<1>1. /\ TableTypeOK /\ ProcTypeOK /\ Scheduled /\ DeletedLast /\ CallsAgree
  BY Zenon DEF ProcInv, TidInv
<1>2. /\ UNCHANGED <<tableVars, running, priority, started>> /\ mode = "user"
      /\ Live' = Live /\ Existing' = Existing
  <2>1. UNCHANGED <<tableVars, running, priority, started>> /\ mode = "user"
    BY Zenon DEF ReturnTid, JoinCall, JoinStep, Yield, Exit, InUser
  <2> QED
    BY <2>1, Zenon DEF tableVars, Live, Existing
<1>3. running \in Threads /\ running \in Live /\ running \notin finished /\ running \in started
  BY <1>1, <1>2, Zenon DEF ProcTypeOK, Scheduled, DeletedLast, Existing
<1>4. CASE ReturnTid
  <2>1. UNCHANGED <<mode, ready, toBeDestroyed, finished, joining>>
    BY <1>4, Zenon DEF ReturnTid
  <2> DEFINE c == child[running]
  <2>2. c \in Threads /\ c \in Existing \ {running} /\ joining[running] = NoTid
    BY <1>1, <1>3, <1>4 DEF ReturnTid, ProcTypeOK, CallsAgree
  <2>3. PICK n \in Tids : /\ known' = [known EXCEPT ![running] = [thread |-> c, tid |-> n]]
                          /\ c \in Live => n = tid[c]
                          /\ deletedRead' = (deletedRead \/ c \notin Live)
    <3>1. PICK n \in IF c \in Live THEN {tid[c]} ELSE Tids :
                 /\ known' = [known EXCEPT ![running] = [thread |-> c, tid |-> n]]
                 /\ deletedRead' = (deletedRead \/ c \notin Live)
      BY <1>4, Zenon DEF ReturnTid
    <3>2. tid[c] \in Tids
      BY <1>1, <2>2, Zenon DEF TableTypeOK
    <3> QED
      BY <3>1, <3>2, Zenon
  <2>4. child' = [child EXCEPT ![running] = NoThread]
    BY <1>4, Zenon DEF ReturnTid
  <2> HIDE DEF c
  <2>5. [thread |-> c, tid |-> n] \in [thread : Threads, tid : Tids] \cup {Nobody}
    BY <2>2, <2>3, Zenon
  <2>6. ProcTypeOK'
    BY <1>1, <1>2, <2>1, <2>3, <2>4, <2>5, Zenon DEF ProcTypeOK
  <2>7. Scheduled' /\ DeletedLast'
    BY <1>1, <1>2, <2>1, <2>3, Zenon DEF Scheduled, DeletedLast
  <2>8. CallsAgree'
    <3> SUFFICES ASSUME NEW u \in Threads
                 PROVE  /\ child'[u] # NoThread => child'[u] \in Existing \ {u} /\ joining[u] = NoTid
                        /\ known'[u] # Nobody => known'[u].thread \in Existing \ {u}
                        /\ known'[u] # Nobody /\ ~deletedRead' => known'[u].tid = tid[known'[u].thread]
                        /\ joining[u] # NoTid => known'[u] # Nobody /\ joining[u] = known'[u].tid
      BY <1>2, <2>1, Zenon DEF CallsAgree, tableVars
    <3>1. CASE u = running
      <4>1. known'[u] = [thread |-> c, tid |-> n] /\ child'[u] = NoThread
        BY <1>1, <2>3, <2>4, <3>1, Zenon DEF ProcTypeOK
      <4>2. known'[u].thread = c /\ known'[u].tid = n
        BY <4>1
      <4>3. ~deletedRead' => n = tid[c]
        BY <2>3, Zenon
      <4> QED
        BY <2>2, <3>1, <4>1, <4>2, <4>3, Zenon
    <3>2. CASE u # running
      <4>1. known'[u] = known[u] /\ child'[u] = child[u]
        BY <1>1, <2>3, <2>4, <3>2, Zenon DEF ProcTypeOK
      <4> QED
        <5>1. ~deletedRead' => ~deletedRead
          BY <2>3, Zenon
        <5> QED
          BY <1>1, <4>1, <5>1, Zenon DEF CallsAgree
    <3> QED
      BY <3>1, <3>2, Zenon
  <2> QED
    BY <2>6, <2>7, <2>8, Zenon
<1>5. CASE JoinCall
  <2>1. /\ UNCHANGED <<mode, ready, toBeDestroyed, finished, child, known, deletedRead>>
        /\ known[running] # Nobody /\ child[running] = NoThread
        /\ joining' = [joining EXCEPT ![running] = known[running].tid]
    BY <1>5, Zenon DEF JoinCall, InUser
  <2>2. known[running].tid \in Tids
    BY <1>1, <1>3, <2>1, Zenon DEF ProcTypeOK
  <2>3. ProcTypeOK'
    BY <1>1, <1>2, <2>1, <2>2, Zenon DEF ProcTypeOK
  <2>4. Scheduled' /\ DeletedLast'
    BY <1>1, <1>2, <2>1, Zenon DEF Scheduled, DeletedLast
  <2>5. CallsAgree'
    BY <1>1, <1>2, <2>1 DEF CallsAgree, ProcTypeOK, tableVars
  <2> QED
    BY <2>3, <2>4, <2>5, Zenon
<1>6. CASE JoinStep
  <2>1. UNCHANGED <<toBeDestroyed, finished, child, deletedRead>>
    BY <1>6, Zenon DEF JoinStep
  <2>2. CASE JoinTest(joining[running])
    <3>1. YieldFrom(ready, priority) /\ UNCHANGED <<joining, known>>
      BY <1>6, <2>2, Zenon DEF JoinStep
    <3>2. /\ ready' \in Seq(Threads) /\ NoDuplicates(ready') /\ mode' = "dispatch"
          /\ Items(ready') \subseteq Live \ finished
      BY <1>2, <3>1, YieldQueues, Zenon
    <3>3. ProcTypeOK' /\ Scheduled' /\ DeletedLast'
      BY <1>1, <1>2, <2>1, <3>1, <3>2, Zenon DEF ProcTypeOK, Scheduled, DeletedLast
    <3>4. CallsAgree'
      BY <1>1, <1>2, <2>1, <3>1, Zenon DEF CallsAgree, tableVars
    <3> QED
      BY <3>3, <3>4, Zenon
  <2>3. CASE ~JoinTest(joining[running])
    <3>1. /\ joining' = [joining EXCEPT ![running] = NoTid]
          /\ known' = [known EXCEPT ![running] = Nobody]
          /\ UNCHANGED <<ready, mode>>
      BY <1>6, <2>3, Zenon DEF JoinStep
    <3>2. known' \in [Threads -> [thread : Threads, tid : Tids] \cup {Nobody}]
      BY <1>1, <3>1, Zenon DEF ProcTypeOK
    <3>3. ProcTypeOK' /\ Scheduled' /\ DeletedLast'
      BY <1>1, <1>2, <2>1, <3>1, <3>2, Zenon DEF ProcTypeOK, Scheduled, DeletedLast
    <3>4. CallsAgree'
      BY <1>1, <1>2, <2>1, <3>1 DEF CallsAgree, ProcTypeOK, tableVars
    <3> QED
      BY <3>3, <3>4, Zenon
  <2> QED
    BY <2>2, <2>3, Zenon
<1>7. CASE Yield
  <2>1. YieldFrom(ready, priority) /\ UNCHANGED <<toBeDestroyed, finished, child, known,
                                                  joining, deletedRead>>
    BY <1>7, Zenon DEF Yield
  <2>2. /\ ready' \in Seq(Threads) /\ NoDuplicates(ready') /\ mode' = "dispatch"
        /\ Items(ready') \subseteq Live \ finished
    BY <1>2, <2>1, YieldQueues, Zenon
  <2>3. ProcTypeOK' /\ Scheduled' /\ DeletedLast'
    BY <1>1, <1>2, <2>1, <2>2, Zenon DEF ProcTypeOK, Scheduled, DeletedLast
  <2>4. CallsAgree'
    BY <1>1, <1>2, <2>1, Zenon DEF CallsAgree, tableVars
  <2> QED
    BY <2>3, <2>4, Zenon
<1>8. CASE Exit
  <2>1. /\ UNCHANGED <<ready, child, known, joining, deletedRead>> /\ mode' = "dispatch"
        /\ finished' = finished \cup {running} /\ toBeDestroyed' = running
    BY <1>8, Zenon DEF Exit
  <2>2. ProcTypeOK' /\ DeletedLast'
    BY <1>1, <1>2, <1>3, <2>1, Zenon DEF ProcTypeOK, DeletedLast
  <2>3. Scheduled'
    BY <1>1, <1>2, <2>1, Zenon DEF Scheduled
  <2>4. CallsAgree'
    BY <1>1, <1>2, <2>1, Zenon DEF CallsAgree, tableVars
  <2> QED
    BY <2>2, <2>3, <2>4, Zenon
<1> QED
  BY <1>4, <1>5, <1>6, <1>7, <1>8, Zenon

\* Scheduler::Run gives the processor to the first thread of the ready list
\* and, coming out of its own SWITCH, that thread deletes the finished one.
LEMMA DispatchInv ==
  ASSUME ProcInv, Dispatch
  PROVE  ProcTypeOK' /\ Scheduled' /\ DeletedLast' /\ CallsAgree'
<1>1. /\ TableTypeOK /\ PCBListOrdered /\ ProcTypeOK /\ Scheduled /\ DeletedLast /\ CallsAgree
  BY Zenon DEF ProcInv, TidInv
<1>2. UNCHANGED <<priority, finished, child, known, joining, deletedRead>>
  BY Zenon DEF Dispatch
<1>3. CASE ready = <<>>
  <2>1. mode' = "halted" /\ UNCHANGED <<tableVars, running, ready, started, toBeDestroyed>>
    BY <1>3, Zenon DEF Dispatch
  <2>2. Live' = Live /\ Existing' = Existing
    BY <2>1, Zenon DEF tableVars, Live, Existing
  <2>3. ProcTypeOK' /\ Scheduled' /\ DeletedLast'
    BY <1>1, <1>2, <2>1, <2>2, Zenon DEF ProcTypeOK, Scheduled, DeletedLast
  <2>4. CallsAgree'
    BY <1>1, <1>2, <2>1, <2>2, Zenon DEF CallsAgree, tableVars
  <2> QED
    BY <2>3, <2>4, Zenon
<1>4. CASE ready # <<>>
  <2>1. /\ running' = Head(ready) /\ ready' = Tail(ready) /\ mode' = "user"
        /\ started' = started \cup {Head(ready)}
    BY <1>4, Zenon DEF Dispatch
  <2>2. /\ Head(ready) \in Threads /\ Tail(ready) \in Seq(Threads) /\ NoDuplicates(Tail(ready))
        /\ Items(ready) = Items(Tail(ready)) \cup {Head(ready)}
        /\ Head(ready) \notin Items(Tail(ready))
    BY <1>1, <1>4, QueueShrinks, Zenon DEF ProcTypeOK, Scheduled
  <2>3. /\ tid' = tid /\ toBeDestroyed' \in {toBeDestroyed, NoThread}
        /\ \/ Live' = Live /\ toBeDestroyed' = toBeDestroyed
           \/ /\ toBeDestroyed \in finished /\ toBeDestroyed' = NoThread
              /\ Live' = Live \ {toBeDestroyed}
    <3>1. CASE Head(ready) \in started /\ toBeDestroyed # NoThread
      <4>1. Destruct(toBeDestroyed) /\ toBeDestroyed' = NoThread
        BY <1>4, <3>1, Zenon DEF Dispatch
      <4>2. /\ toBeDestroyed \in finished /\ toBeDestroyed \in Items(PCBList)
            /\ PCBList \in Seq(Threads) /\ NoDuplicates(PCBList) /\ tid \in [Threads -> Int]
        BY <1>1, <3>1 DEF DeletedLast, Live, TableTypeOK, PCBListOrdered, Tids
      <4>3. Items(RemoveItem(PCBList, toBeDestroyed)) = Items(PCBList) \ {toBeDestroyed}
        BY <4>2, RemoveItemItems
      <4> QED
        BY <4>1, <4>2, <4>3, Zenon DEF Destruct, Live
    <3>2. CASE ~(Head(ready) \in started /\ toBeDestroyed # NoThread)
      BY <1>4, <3>2, Zenon DEF Dispatch, tableVars, Live
    <3> QED
      BY <3>1, <3>2, Zenon
  <2>4. ProcTypeOK'
    BY <1>1, <1>2, <2>1, <2>2, <2>3, Zenon DEF ProcTypeOK
  <2>5. Scheduled' /\ DeletedLast'
    BY <1>1, <1>2, <2>1, <2>2, <2>3, Zenon DEF Scheduled, DeletedLast, Existing, ProcTypeOK
  <2>6. \A u \in Existing : u \in Existing'
    BY <1>1, <2>1, <2>3, Zenon DEF Existing, ProcTypeOK
  <2>7. CallsAgree'
    BY <1>1, <1>2, <2>3, <2>6, Zenon DEF CallsAgree
  <2> QED
    BY <2>4, <2>5, <2>7, Zenon
<1> QED
  BY <1>3, <1>4, Zenon

LEMMA ProcInvNext == ProcInv /\ [ProcNext]_processVars => ProcInv'
<1> SUFFICES ASSUME ProcInv, [ProcNext]_processVars PROVE ProcInv'
  BY Zenon
<1>1. TidInv'
  BY ProcTables, TidNext, Zenon DEF ProcInv
<1> SUFFICES ProcTypeOK' /\ Scheduled' /\ DeletedLast' /\ CallsAgree'
  BY <1>1, Zenon DEF ProcInv
<1>2. ASSUME NEW t \in Threads, Exec(t) \/ Fork(t)
      PROVE  ProcTypeOK' /\ Scheduled' /\ DeletedLast' /\ CallsAgree'
  <2>1. priority[running] - 1 \in Int /\ DefaultPriority \in Int
    BY PriorityAssumption DEF ProcInv, ProcTypeOK
  <2> QED
    BY <1>2, <2>1, SpawnInv, Zenon DEF Exec, Fork
<1>3. CASE ReturnTid \/ JoinCall \/ JoinStep \/ Yield \/ Exit
  BY <1>3, CallInv, Zenon
<1>4. CASE Dispatch
  BY <1>4, DispatchInv, Zenon
<1>5. CASE Over \/ UNCHANGED processVars \/ \E t \in Threads : SpawnAborts(t)
  <2>1. UNCHANGED <<procVars, PCBList, tid>>
    BY <1>5, Zenon DEF Over, processVars, tableVars, SpawnAborts, ConstructAborts
  <2>2. Live' = Live /\ Existing' = Existing
    BY <2>1, Zenon DEF Live, Existing, procVars
  <2> QED
    BY <2>1, <2>2, Zenon DEF ProcInv, ProcTypeOK, Scheduled, DeletedLast, CallsAgree, procVars
<1> QED
  BY <1>2, <1>3, <1>4, <1>5, Zenon DEF ProcNext

LEMMA ProcInvariant == ProcSpec => []ProcInv
BY ProcInvInit, ProcInvNext, PTL DEF ProcSpec

\* Under any sequence of Exec, Fork, Join, Yield and Exit, with any number of
\* identifiers, no two live threads share a tid, TidMap records exactly the
\* live tids, PCBList is sorted without duplicates and the constructor's second
\* ASSERT holds.
THEOREM TidsCorrect == ProcSpec => []TidInv
<1>1. ProcInv => TidInv
  BY Zenon DEF ProcInv
<1> QED
  BY <1>1, ProcInvariant, PTL

\* ---------------------------- who runs next --------------------------------

\* Every process that has not ended runs or is queued, in order, and the one
\* that runs is among the most urgent.
Ordered ==
  /\ IsSorted(ready, priority)
  /\ mode = "user" =>
       /\ Live \ finished \subseteq Items(ready) \cup {running}
       /\ \A t \in Items(ready) : priority[running] <= priority[t]
  /\ mode = "dispatch" => Live \ finished \subseteq Items(ready)

LEMMA OrderedInit == ProcInit => Ordered
BY DEF ProcInit, TableInit, Ordered, Live, Items, IsSorted

LEMMA OrderedSpawn ==
  ASSUME ProcInv, Ordered, NEW t \in Threads, NEW prio \in Int, Spawn(t, prio)
  PROVE  Ordered'
<1>1. /\ ProcTypeOK /\ Scheduled /\ Ordered /\ mode = "user" /\ t \notin Live /\ t \notin started
      /\ priority' = [priority EXCEPT ![t] = prio] /\ UNCHANGED <<running, finished>>
  BY Zenon DEF ProcInv, Spawn, InUser, Construct
<1>2. /\ Live' = Live \cup {t} /\ IsSorted(ready', priority')
      /\ \/ /\ mode' = "user" /\ priority[running] <= prio
            /\ Items(ready') = Items(ready) \cup {t}
         \/ mode' = "dispatch" /\ Items(ready') = Items(ready) \cup {t, running}
  BY <1>1, SpawnQueues, Zenon DEF Ordered
<1>3. /\ priority'[running] = priority[running] /\ priority'[t] = prio
      /\ \A u \in Items(ready) : priority'[u] = priority[u]
  <2>1. \A u \in Items(ready) : u \in Threads /\ u # t
    BY <1>1 DEF ProcTypeOK, Scheduled, Items
  <2>2. running \in Threads /\ running # t
    BY <1>1, Zenon DEF ProcTypeOK, Scheduled
  <2> QED
    BY <1>1, <2>1, <2>2, Zenon DEF ProcTypeOK
<1> QED
  BY <1>1, <1>2, <1>3, Zenon DEF Ordered

LEMMA OrderedCall ==
  ASSUME ProcInv, Ordered, ReturnTid \/ JoinCall \/ JoinStep \/ Yield \/ Exit
  PROVE  Ordered'
<1>1. /\ UNCHANGED <<tableVars, running, priority>> /\ mode = "user" /\ Live' = Live
  <2>1. UNCHANGED <<tableVars, running, priority>> /\ mode = "user"
    BY Zenon DEF ReturnTid, JoinCall, JoinStep, Yield, Exit, InUser
  <2> QED
    BY <2>1, Zenon DEF tableVars, Live
<1>2. CASE YieldFrom(ready, priority) /\ UNCHANGED finished
  <2>1. /\ mode' = "dispatch" /\ Items(ready') = Items(ready) \cup {running}
        /\ IsSorted(ready', priority)
    BY <1>1, <1>2, YieldQueues, Zenon DEF Ordered
  <2> QED
    BY <1>1, <1>2, <2>1, Zenon DEF Ordered
<1>3. CASE UNCHANGED <<ready, mode, finished>>
  BY <1>1, <1>3, Zenon DEF Ordered
<1>4. CASE Exit
  <2>1. ready' = ready /\ mode' = "dispatch" /\ finished' = finished \cup {running}
    BY <1>4, Zenon DEF Exit
  <2> QED
    BY <1>1, <2>1, Zenon DEF Ordered
<1>5. Exit \/ UNCHANGED <<ready, mode, finished>> \/ (YieldFrom(ready, priority) /\ UNCHANGED finished)
  BY Zenon DEF ReturnTid, JoinCall, JoinStep, Yield
<1> QED
  BY <1>2, <1>3, <1>4, <1>5, Zenon

\* A dispatch deletes nobody or a finished thread.
LEMMA DispatchDeletes ==
  ASSUME ProcInv, Dispatch
  PROVE  tid' = tid /\ Live' \subseteq Live /\ Live \ finished \subseteq Live'
<1>1. CASE toBeDestroyed # NoThread /\ Destruct(toBeDestroyed)
  <2>1. /\ toBeDestroyed \in Items(PCBList) /\ PCBList \in Seq(Threads)
        /\ NoDuplicates(PCBList) /\ tid \in [Threads -> Int]
        /\ PCBList' = RemoveItem(PCBList, toBeDestroyed) /\ tid' = tid
    BY <1>1 DEF Destruct, Live, ProcInv, TidInv, TableTypeOK, PCBListOrdered, Tids
  <2>2. Items(RemoveItem(PCBList, toBeDestroyed)) = Items(PCBList) \ {toBeDestroyed}
    BY <2>1, RemoveItemItems
  <2>3. toBeDestroyed \in finished
    BY <1>1, Zenon DEF ProcInv, DeletedLast
  <2> QED
    BY <2>1, <2>2, <2>3, Zenon DEF Live
<1>2. CASE UNCHANGED tableVars
  BY <1>2, Zenon DEF tableVars, Live
<1>3. UNCHANGED tableVars \/ (toBeDestroyed # NoThread /\ Destruct(toBeDestroyed))
  BY Zenon DEF Dispatch
<1> QED
  BY <1>1, <1>2, <1>3, Zenon

LEMMA OrderedDispatch ==
  ASSUME ProcInv, Ordered, Dispatch
  PROVE  Ordered'
<1>1. ProcTypeOK /\ Scheduled /\ mode = "dispatch" /\ UNCHANGED <<priority, finished>>
  BY Zenon DEF ProcInv, Dispatch
<1>2. Live' \subseteq Live
  BY DispatchDeletes, Zenon
<1>3. CASE ready = <<>>
  <2>1. mode' = "halted" /\ ready' = ready
    BY <1>3, Zenon DEF Dispatch
  <2> QED
    BY <1>1, <2>1, Zenon DEF Ordered
<1>4. CASE ready # <<>>
  <2>1. running' = Head(ready) /\ ready' = Tail(ready) /\ mode' = "user"
    BY <1>4, Zenon DEF Dispatch
  <2>2. /\ Items(ready) = Items(Tail(ready)) \cup {Head(ready)}
        /\ IsSorted(Tail(ready), priority)
        /\ \A t \in Items(Tail(ready)) : priority[Head(ready)] <= priority[t]
    BY <1>1, <1>4, QueueShrinks, Zenon DEF ProcTypeOK, Scheduled, Ordered
  <2> QED
    BY <1>1, <1>2, <2>1, <2>2, Zenon DEF Ordered
<1> QED
  BY <1>3, <1>4, Zenon

LEMMA OrderedNext == ProcInv /\ Ordered /\ [ProcNext]_processVars => Ordered'
<1> SUFFICES ASSUME ProcInv, Ordered, [ProcNext]_processVars PROVE Ordered'
  BY Zenon
<1>1. ASSUME NEW t \in Threads, Exec(t) \/ Fork(t) PROVE Ordered'
  <2>1. priority[running] - 1 \in Int /\ DefaultPriority \in Int
    BY PriorityAssumption DEF ProcInv, ProcTypeOK
  <2> QED
    BY <1>1, <2>1, OrderedSpawn, Zenon DEF Exec, Fork
<1>2. CASE Over \/ UNCHANGED processVars \/ \E t \in Threads : SpawnAborts(t)
  <2>1. UNCHANGED <<ready, priority, mode, running, finished, PCBList>>
    BY <1>2, Zenon DEF Over, processVars, procVars, tableVars, SpawnAborts, ConstructAborts
  <2> QED
    BY <2>1, Zenon DEF Ordered, Live
<1> QED
  BY <1>1, <1>2, OrderedCall, OrderedDispatch, Zenon DEF ProcNext

LEMMA OrderInvariant == ProcSpec => [](ProcInv /\ Ordered)
BY ProcInvInit, ProcInvNext, OrderedInit, OrderedNext, PTL DEF ProcSpec

\* However processes are created, preempted and deleted, each one that has not
\* ended runs or is queued once, in the order of the priorities, and none is
\* deleted before it has called Finish.
THEOREM NoProcessLost == ProcSpec => []ProcessesScheduled
<1>1. ASSUME ProcInv, Ordered PROVE ProcessesScheduled
  <2>1. /\ NoDuplicates(ready) /\ Items(ready) \subseteq Live \ finished
        /\ mode = "user" => running \notin finished \cup Items(ready) /\ running \in Live
        /\ toBeDestroyed # NoThread => toBeDestroyed \in finished \cap Live
    BY <1>1, Zenon DEF ProcInv, Scheduled, DeletedLast, Existing
  <2> QED
    BY <1>1, <2>1, Zenon DEF Ordered, ProcessesScheduled
<1> QED
  BY <1>1, OrderInvariant, PTL

\* A Join on a less urgent process never returns: neither of the two ever runs
\* to its end, since the caller, which is ready whenever it does not run, is
\* dispatched before the process it waits for.
THEOREM UrgentJoin == ProcSpec => UrgentJoinSpins
<1>1. ASSUME ProcInv, Ordered, [ProcNext]_processVars,
             NEW t \in Threads, NEW u \in Threads, SpinsOn(t, u)
      PROVE  SpinsOn(t, u)'
  <2>1. /\ t \in Live /\ u \in Live /\ t \notin finished /\ u \notin finished
        /\ joining[t] = tid[u] /\ priority[t] < priority[u]
        /\ tid[u] \in Tids /\ tid[u] # NoTid /\ priority \in [Threads -> Int] /\ running \in Threads
    <3>1. tid[u] \in Tids /\ priority \in [Threads -> Int] /\ running \in Threads
      BY <1>1, Zenon DEF ProcInv, ProcTypeOK, TidInv, TableTypeOK
    <3>2. tid[u] # NoTid
      BY <3>1, LimitAssumption DEF Tids, NoTid
    <3> QED
      BY <1>1, <3>1, <3>2, Zenon DEF SpinsOn
  <2>2. joining \in [Threads -> Tids \cup {NoTid}] /\ t # u /\ tid[t] # tid[u] /\ TidMap[tid[u]]
    <3>1. t # u
      BY <2>1
    <3> QED
      BY <1>1, <2>1, <3>1, Zenon DEF ProcInv, ProcTypeOK, TidInv, TidsUnique, TidMapIsLiveTids
  <2>3. mode = "user" => running # u
    <3> SUFFICES ASSUME mode = "user", running = u PROVE FALSE
      BY Zenon
    <3>1. t \in Items(ready) /\ priority[u] <= priority[t]
      BY <1>1, <2>1, <2>2, Zenon DEF Ordered
    <3> QED
      BY <2>1, <3>1
  <2>4. CASE \E v \in Threads : Exec(v) \/ Fork(v)
    <3>1. PICK v \in Threads : Exec(v) \/ Fork(v)
      BY <2>4, Zenon
    <3>2. PICK prio \in Int : Spawn(v, prio)
      <4>1. priority[running] - 1 \in Int /\ DefaultPriority \in Int
        BY <2>1, PriorityAssumption
      <4> QED
        BY <3>1, <4>1, Zenon DEF Exec, Fork
    <3>3. /\ v \notin Live /\ UNCHANGED <<finished, joining>>
          /\ priority' = [priority EXCEPT ![v] = prio]
      BY <3>2, Zenon DEF Spawn, Construct
    <3>4. Live' = Live \cup {v} /\ \A w \in Threads : w # v => tid'[w] = tid[w]
      BY <1>1, <3>2, SpawnQueues, Zenon
    <3>5. /\ priority'[t] = priority[t] /\ priority'[u] = priority[u] /\ tid'[u] = tid[u]
          /\ t \in Live' /\ u \in Live'
      BY <2>1, <3>3, <3>4, Zenon
    <3> QED
      BY <2>1, <3>3, <3>5, Zenon DEF SpinsOn
  <2>5. CASE ReturnTid \/ JoinCall \/ JoinStep \/ Yield \/ Exit
    <3>1. UNCHANGED <<tableVars, running, priority>> /\ mode = "user" /\ Live' = Live /\ tid' = tid
      <4>1. UNCHANGED <<tableVars, running, priority>> /\ mode = "user"
        BY <2>5, Zenon DEF ReturnTid, JoinCall, JoinStep, Yield, Exit, InUser
      <4> QED
        BY <4>1, Zenon DEF tableVars, Live
    <3>2. finished' = finished \/ (finished' = finished \cup {running} /\ joining[running] = NoTid)
      BY <2>5, Zenon DEF ReturnTid, JoinCall, JoinStep, Yield, Exit, InUser
    <3>3. t \notin finished' /\ u \notin finished'
      BY <2>1, <2>3, <3>1, <3>2, Zenon
    <3>4. joining'[t] = joining[t]
      <4>1. \/ joining' = joining
            \/ joining[running] = NoTid /\ \E n : joining' = [joining EXCEPT ![running] = n]
            \/ /\ ~JoinTest(joining[running])
               /\ joining' = [joining EXCEPT ![running] = NoTid]
        BY <2>5, Zenon DEF ReturnTid, JoinCall, JoinStep, Yield, Exit, InUser
      <4>2. t = running => JoinTest(joining[running]) /\ joining[running] # NoTid
        BY <2>1, <2>2, Zenon DEF JoinTest
      <4> QED
        BY <2>2, <4>1, <4>2, Zenon
    <3> QED
      BY <2>1, <3>1, <3>3, <3>4, Zenon DEF SpinsOn
  <2>6. CASE Dispatch
    <3>1. UNCHANGED <<priority, finished, joining>>
      BY <2>6, Zenon DEF Dispatch
    <3>2. tid' = tid /\ t \in Live' /\ u \in Live'
      BY <1>1, <2>1, <2>6, DispatchDeletes, Zenon
    <3> QED
      BY <2>1, <3>1, <3>2, Zenon DEF SpinsOn
  <2>7. CASE Over \/ UNCHANGED processVars \/ \E v \in Threads : SpawnAborts(v)
    <3>1. UNCHANGED <<priority, finished, joining, PCBList, tid>>
      BY <2>7, Zenon DEF Over, processVars, procVars, tableVars, SpawnAborts, ConstructAborts
    <3> QED
      BY <2>1, <3>1, Zenon DEF SpinsOn, Live
  <2> QED
    BY <1>1, <2>4, <2>5, <2>6, <2>7, Zenon DEF ProcNext
<1>2. ProcInv /\ Ordered /\ [ProcNext]_processVars =>
        [\A t, u \in Threads : SpinsOn(t, u) => SpinsOn(t, u)']_processVars
  BY <1>1, Zenon
<1> QED
  BY <1>2, OrderInvariant, PTL DEF ProcSpec, UrgentJoinSpins

\* However the processes are scheduled and tids are reused, Join returns only
\* after the process it was given the tid of has called Exit, unless a tid
\* was read from a deleted thread before.
THEOREM JoinWaits == ProcSpec => JoinReturnsAfterExit
<1>1. ASSUME ProcInv, [ProcNext]_processVars, ~deletedRead,
             NEW t \in Threads, joining[t] # NoTid, joining'[t] = NoTid
      PROVE  known[t].thread \in finished
  <2>1. JoinStep /\ t = running /\ ~JoinTest(joining[t])
    <3>1. JoinStep
      BY <1>1, Zenon DEF ProcNext, Exec, Fork, Spawn, SpawnAborts, ReturnTid, JoinCall, Yield, Exit,
                  Dispatch, Over, processVars, procVars, InUser, ProcInv, ProcTypeOK
    <3> QED
      <4>1. joining \in [Threads -> Tids \cup {NoTid}] /\ joining'[t] # joining[t]
        BY <1>1, Zenon DEF ProcInv, ProcTypeOK
      <4>2. ~JoinTest(joining[running]) /\ joining' = [joining EXCEPT ![running] = NoTid]
        BY <3>1, <4>1, Zenon DEF JoinStep
      <4>3. t = running
        BY <4>1, <4>2, Zenon
      <4> QED
        BY <3>1, <4>2, <4>3, Zenon
  <2> DEFINE u == known[t].thread
  <2>2. u \in Existing /\ u # t /\ u \in Threads /\ joining[t] = tid[u] /\ tid[u] \in Tids
    BY <1>1 DEF ProcInv, CallsAgree, ProcTypeOK, TidInv, TableTypeOK
  <2>3. t \in Live /\ mode = "user"
    BY <1>1, <2>1, Zenon DEF JoinStep, ProcInv, Scheduled, DeletedLast, Existing
  <2> SUFFICES ASSUME u \notin finished PROVE FALSE
    BY Zenon
  <2>4. u \in Live
    BY <1>1, <2>2, Zenon DEF ProcInv, DeletedLast
  <2>5. TidMap[tid[u]]
    BY <1>1, <2>2, <2>4, Zenon DEF ProcInv, TidInv, TidMapIsLiveTids
  <2>6. tid[u] = tid[t]
    BY <2>1, <2>2, <2>5, Zenon DEF JoinTest
  <2> QED
    BY <1>1, <2>2, <2>3, <2>4, <2>6, Zenon DEF ProcInv, TidInv, TidsUnique
<1>2. ProcInv /\ [ProcNext]_processVars =>
        [~deletedRead => \A t \in Threads :
           joining[t] # NoTid /\ joining'[t] = NoTid => known[t].thread \in finished]_processVars
  BY <1>1, Zenon
<1> QED
  BY <1>2, ProcInvariant, PTL DEF ProcSpec, JoinReturnsAfterExit

==============================================================================
