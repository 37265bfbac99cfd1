------------------------------ MODULE Processes ------------------------------
(***************************************************************************)
(* User processes as the system calls of userprog/exception.cc see them:   *)
(* Exec and Fork create a thread and return its tid, Join waits for a tid  *)
(* by yielding in a loop, Exit finishes the thread.  The threads get and   *)
(* give back their tids in module TidTable, and run by priority.           *)
(*                                                                         *)
(* A call runs up to the point where it may switch threads; `mode` says    *)
(* that Scheduler::Run is about to dispatch.  A finished thread is deleted *)
(* by the next thread that comes out of its own SWITCH; a thread that runs *)
(* for the first time starts in ThreadRoot and deletes nothing.  The timer *)
(* may preempt a process in user mode, between Fork and the return of the  *)
(* tid, and in the loop of Join.                                           *)
(***************************************************************************)
EXTENDS TidTable

CONSTANTS
  NoThread,
  DefaultPriority   \* 127, the priority of a forked thread

ASSUME NoThreadAssumption == NoThread \notin Threads
ASSUME PriorityAssumption == DefaultPriority \in Int

VARIABLES
  running,      \* currentThread
  mode,         \* "user", "dispatch" or "halted"
  ready,        \* Scheduler::readyList
  priority,
  started,      \* the threads that have been dispatched
  toBeDestroyed,
  finished,     \* the threads that have called Finish
  child,        \* the thread whose tid Exec or Fork has still to return
  known,        \* the last child a process was told of, and its tid
  joining,      \* in Join: the tid it waits for
  deletedRead   \* Exec or Fork read the tid of a deleted thread

procVars == <<running, mode, ready, priority, started, toBeDestroyed, finished,
              child, known, joining, deletedRead>>
processVars == <<tableVars, procVars>>

NoTid == -1
Nobody == [thread |-> NoThread, tid |-> NoTid]

\* Initialize and StartProcess: the first program runs in the main thread,
\* which is more urgent than every forked one.
ProcInit ==
  /\ TableInit
  /\ running = MainThread /\ mode = "user" /\ ready = <<>>
  /\ priority = [t \in Threads |-> IF t = MainThread THEN 0 ELSE DefaultPriority]
  /\ started = {MainThread} /\ toBeDestroyed = NoThread /\ finished = {}
  /\ child = [t \in Threads |-> NoThread]
  /\ known = [t \in Threads |-> Nobody]
  /\ joining = [t \in Threads |-> NoTid]
  /\ deletedRead = FALSE

\* The running process is in user mode.
InUser == mode = "user" /\ ~aborted /\ child[running] = NoThread /\ joining[running] = NoTid

YieldFromAppend(list, prio) ==
  /\ ready' = Append(list, running)
  /\ mode' = "dispatch"

\* Thread::Yield, up to the dispatch.
YieldFrom(list, prio) ==
  /\ ready' = SortedInsert(list, running, prio)
  /\ mode' = "dispatch"

\* new Thread and Thread::Fork: ReadyToRun yields to a more urgent thread.
Spawn(t, prio) ==
  /\ InUser /\ t \notin started
  /\ Construct(t)
  /\ priority' = [priority EXCEPT ![t] = prio]
  /\ child' = [child EXCEPT ![running] = t]
  /\ LET list == SortedInsert(ready, t, priority')
     IN  IF prio < priority[running] THEN YieldFrom(list, priority')
         ELSE ready' = list /\ UNCHANGED mode
  /\ UNCHANGED <<running, started, toBeDestroyed, finished, known, joining, deletedRead>>

Exec(t) == Spawn(t, priority[running] - 1)
Fork(t) == Spawn(t, DefaultPriority)

\* An ASSERT of the constructor: MinAvailableTid is past the last tid.  Tids may
\* be free all the same.
SpawnAborts(t) ==
  /\ InUser /\ t \notin started
  /\ ConstructAborts(t)
  /\ UNCHANGED procVars

\* WriteRegister(2, t->getTid()), when the caller has the processor again.  If
\* the child has been deleted, its memory may hold anything.
ReturnTid ==
  /\ mode = "user" /\ ~aborted /\ child[running] # NoThread
  /\ LET t == child[running]
     IN  \E n \in IF t \in Live THEN {tid[t]} ELSE Tids :
           /\ known' = [known EXCEPT ![running] = [thread |-> t, tid |-> n]]
           /\ deletedRead' = (deletedRead \/ t \notin Live)
  /\ child' = [child EXCEPT ![running] = NoThread]
  /\ UNCHANGED <<tableVars, running, mode, ready, priority, started, toBeDestroyed,
                 finished, joining>>

JoinCall ==
  /\ InUser /\ known[running] # Nobody
  /\ joining' = [joining EXCEPT ![running] = known[running].tid]
  /\ UNCHANGED <<tableVars, running, mode, ready, priority, started, toBeDestroyed,
                 finished, child, known, deletedRead>>

JoinTestAny(n) == \E i \in Tids : TidMap[i] /\ i # n
JoinTestOwn(n) == TidMap[n] /\ n = tid[running]

\* The condition of the loop in Join.
JoinTest(n) == TidMap[n] /\ n # tid[running]

\* One turn of the loop, or the return.
JoinStep ==
  /\ mode = "user" /\ ~aborted /\ joining[running] # NoTid
  /\ IF JoinTest(joining[running])
     THEN YieldFrom(ready, priority) /\ UNCHANGED <<joining, known>>
     ELSE /\ joining' = [joining EXCEPT ![running] = NoTid]
          /\ known' = [known EXCEPT ![running] = Nobody]
          /\ UNCHANGED <<ready, mode>>
  /\ UNCHANGED <<tableVars, running, priority, started, toBeDestroyed, finished, child, deletedRead>>

\* SC_Yield, and the timer, which may come inside a call as well.
Yield ==
  /\ mode = "user" /\ ~aborted
  /\ YieldFrom(ready, priority)
  /\ UNCHANGED <<tableVars, running, priority, started, toBeDestroyed, finished, child, known,
                 joining, deletedRead>>

ExitYields ==
  /\ InUser
  /\ finished' = finished \cup {running}
  /\ toBeDestroyed' = running
  /\ YieldFrom(ready, priority)
  /\ UNCHANGED <<tableVars, running, priority, started, child, known, joining, deletedRead>>

\* SC_Exit: Thread::Finish.
Exit ==
  /\ InUser
  /\ finished' = finished \cup {running}
  /\ toBeDestroyed' = running
  /\ mode' = "dispatch"
  /\ UNCHANGED <<tableVars, running, ready, priority, started, child, known, joining, deletedRead>>

\* FindNextToRun and Run; with nobody ready the machine halts.
Dispatch ==
  /\ mode = "dispatch"
  /\ IF ready = <<>>
     THEN /\ mode' = "halted"
          /\ UNCHANGED <<tableVars, running, ready, started, toBeDestroyed>>
     ELSE /\ running' = Head(ready) /\ ready' = Tail(ready) /\ mode' = "user"
          /\ started' = started \cup {Head(ready)}
          /\ IF Head(ready) \in started /\ toBeDestroyed # NoThread
             THEN Destruct(toBeDestroyed) /\ toBeDestroyed' = NoThread
             ELSE UNCHANGED <<tableVars, toBeDestroyed>>
  /\ UNCHANGED <<priority, finished, child, known, joining, deletedRead>>

Over == (mode = "halted" \/ aborted) /\ UNCHANGED processVars

ProcNext ==
  \/ \E t \in Threads : Exec(t) \/ Fork(t) \/ SpawnAborts(t)
  \/ ReturnTid \/ JoinCall \/ JoinStep \/ Yield \/ Exit \/ Dispatch \/ Over

ProcSpec == ProcInit /\ [][ProcNext]_processVars

\* Run dispatches; a process that gets the processor again and again goes on in
\* its call, and one in user mode exits at last.
ProcessStep(t) == (ReturnTid \/ JoinStep \/ Exit) /\ running = t

------------------------------------------------------------------------------
\* No process is lost and none runs after its end: every process that has not
\* called Finish runs or is in the ready list once, in the order of the
\* priorities, the running one is among the most urgent, and only a finished
\* thread is ever about to be deleted (ReadyToRun, FindNextToRun and Finish).
ProcessesScheduled ==
  /\ NoDuplicates(ready) /\ IsSorted(ready, priority)
  /\ mode = "user" =>
       /\ running \notin Items(ready)
       /\ Items(ready) \cup {running} = Live \ finished
       /\ \A t \in Items(ready) : priority[running] <= priority[t]
  /\ mode = "dispatch" => Items(ready) = Live \ finished
  /\ toBeDestroyed # NoThread => toBeDestroyed \in finished \cap Live

\* Join returns only when the process it was given the tid of has finished
\* (syscall.h: "Only return once the the user program "id" has finished"),
\* although tids are reused; unless the tid was read from a deleted thread.
JoinReturnsAfterExit ==
  [][~deletedRead => \A t \in Threads :
       joining[t] # NoTid /\ joining'[t] = NoTid => known[t].thread \in finished]_processVars

\* A finished thread whose deletion is not pending, and which still has a tid.
Leaked == (finished \cap Live) \ {toBeDestroyed}

\* Process t is in Join for process u, which is less urgent and has not ended.
SpinsOn(t, u) ==
  {t, u} \subseteq Live \ finished /\ joining[t] = tid[u] /\ priority[t] < priority[u]

\* Join returns in the end, unless some process waits for a less urgent one or
\* for one that escaped deletion, so that its tid stays in use, or a tid was
\* read from a deleted thread.
JoinReturns ==
  \A t \in Threads :
    joining[t] # NoTid ~>
      \/ joining[t] = NoTid \/ aborted \/ deletedRead
      \/ \E v \in Threads : \/ \E u \in Leaked : joining[v] = tid[u]
                           \/ \E u \in Threads : SpinsOn(v, u)

\* A process that waits for a less urgent one waits for ever: Join yields, and
\* FindNextToRun gives the processor back to the caller.  This is what becomes
\* of the first program when it joins a process it has forked.
UrgentJoinSpins ==
  [][\A t, u \in Threads : SpinsOn(t, u) => SpinsOn(t, u)']_processVars
==============================================================================
