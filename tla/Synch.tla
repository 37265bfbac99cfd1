-------------------------------- MODULE Synch --------------------------------
(***************************************************************************)
(* Semaphores, locks and condition variables (threads/synch.cc) on top of  *)
(* the scheduler, and the devices whose interrupt handlers call            *)
(* Semaphore::V (filesys/synchdisk.cc, network/post.cc, userprog).         *)
(*                                                                         *)
(* Every function of synch.cc is a frame; its step is what the function    *)
(* does, with interrupts off, up to the next call that may switch threads. *)
(* The threads run programs: sequences of calls chosen, together with      *)
(* their priorities, in the initial state.                                 *)
(***************************************************************************)
EXTENDS Scheduler

CONSTANTS
  Sems,       \* the semaphores threads use directly
  Locks,      \* the locks; the semaphore inside a lock has the lock's name
  Conds,      \* the condition variables
  LockOf,     \* LockOf[c]: the lock that protects condition c
  Devices,    \* devices that signal a semaphore when a request completes
  DoneSem,    \* DoneSem[d]: that semaphore
  InitValue,  \* InitValue[s]: the initial value of a semaphore
  Scenarios   \* records of a program and a priority for every thread

ASSUME SynchAssumption ==
  /\ InitValue \in [Sems -> Nat]
  /\ LockOf \in [Conds -> Locks]
  /\ DoneSem \in [Devices -> Sems]
  /\ Sems \cap Locks = {}

VARIABLES
  value,     \* Semaphore::value
  queue,     \* Semaphore::queue
  owner,     \* Lock::OwnerId
  waiting,   \* Condition::WaitingThreads
  active,    \* active[d]: a request is outstanding, its interrupt pending
  program,   \* the calls each thread has still to make
  holds      \* holds[l]: the threads between Acquire and Release (history)

synchVars == <<value, queue, owner, waiting, active, program, holds>>

vars == <<schedVars, synchVars>>

Init ==
  /\ SchedInit
  /\ value = [s \in Sems \cup Locks |-> IF s \in Sems THEN InitValue[s] ELSE 1]
  /\ queue = [s \in Sems \cup Locks |-> <<>>]
  /\ owner = [l \in Locks |-> NoThread]
  /\ waiting = [c \in Conds |-> <<>>]
  /\ active = [d \in Devices |-> FALSE]
  /\ \E sc \in Scenarios : program = sc.program /\ priority = sc.priority
  /\ holds = [l \in Locks |-> {}]

\* The calls of the kernel a thread may make.
KernelCalls ==
  ({"P", "V"} \X Sems) \cup ({"Acquire", "Release"} \X Locks)
  \cup ({"Wait", "Signal", "Broadcast"} \X Conds) \cup ({"Request"} \X Devices)
  \cup ({"Fork"} \X Threads) \cup {<<"Yield", NoThread>>}

\* A thread makes its next call, or returns from its forked function.
CallStep ==
  /\ InterruptsOn
  /\ LET rest == program[currentThread]
     IN  IF rest = <<>>
         THEN /\ Continue(Push(<<<<"Finish", NoThread>>>>))
              /\ UNCHANGED program
         ELSE /\ Continue(Push(<<rest[1]>>))
              /\ program' = [program EXCEPT ![currentThread] = Tail(@)]
  /\ UNCHANGED <<inHandler, value, queue, owner, waiting, active, holds>>

\* Mutant: P tests once instead of in a loop.
PStepNoRetest ==
  /\ AtTop("P")
  /\ LET s == Top[2]
     IN  IF value[s] = 0
         THEN /\ queue' = [queue EXCEPT ![s] = Append(@, currentThread)]
              /\ GoToSleep(<<Return>>)
              /\ UNCHANGED value
         ELSE /\ value' = [value EXCEPT ![s] = @ - 1]
              /\ Continue(Replace(<<Return>>))
              /\ UNCHANGED queue
  /\ UNCHANGED <<inHandler, owner, waiting, active, program, holds>>

PStep ==
  /\ AtTop("P")
  /\ LET s == Top[2]
     IN  IF value[s] = 0
         THEN /\ queue' = [queue EXCEPT ![s] = Append(@, currentThread)]
              /\ GoToSleep(<<<<"P", s>>>>)
              /\ UNCHANGED value
         ELSE /\ value' = [value EXCEPT ![s] = @ - 1]
              /\ Continue(Replace(<<Return>>))
              /\ UNCHANGED queue
  /\ UNCHANGED <<inHandler, owner, waiting, active, program, holds>>

\* Mutant: wakes a thread only when the value is 0.
VStepOnlyAtZero ==
  /\ AtTop("V")
  /\ LET s == Top[2]
     IN  IF queue[s] = <<>> \/ value[s] > 0
         THEN /\ Continue(Replace(<<<<"VIncrement", s>>>>))
              /\ UNCHANGED queue
         ELSE /\ queue' = [queue EXCEPT ![s] = Tail(@)]
              /\ ReadyToRun(Head(queue[s]), Replace(<<<<"VIncrement", s>>>>))
  /\ UNCHANGED <<inHandler, value, owner, waiting, active, program, holds>>

VStep ==
  /\ AtTop("V")
  /\ LET s == Top[2]
     IN  IF queue[s] = <<>>
         THEN /\ Continue(Replace(<<<<"VIncrement", s>>>>))
              /\ UNCHANGED queue
         ELSE /\ queue' = [queue EXCEPT ![s] = Tail(@)]
              /\ ReadyToRun(Head(queue[s]), Replace(<<<<"VIncrement", s>>>>))
  /\ UNCHANGED <<inHandler, value, owner, waiting, active, program, holds>>

VIncrementStep ==
  /\ AtTop("VIncrement")
  /\ value' = [value EXCEPT ![Top[2]] = @ + 1]
  /\ Continue(Replace(<<Return>>))
  /\ UNCHANGED <<inHandler, queue, owner, waiting, active, program, holds>>

\* Mutant: takes ownership without waiting.
AcquireStepNoWait ==
  /\ AtTop("Acquire")
  /\ Continue(Replace(<<<<"SetOwner", Top[2]>>>>))
  /\ UNCHANGED <<inHandler, synchVars>>

AcquireStep ==
  /\ AtTop("Acquire")
  /\ Continue(Replace(<<<<"P", Top[2]>>, <<"SetOwner", Top[2]>>>>))
  /\ UNCHANGED <<inHandler, synchVars>>

SetOwnerStep ==
  /\ AtTop("SetOwner")
  /\ LET l == Top[2]
     IN  /\ owner' = [owner EXCEPT ![l] = currentThread]
         /\ holds' = [holds EXCEPT ![l] = @ \cup {currentThread}]
  /\ Continue(Replace(<<Return>>))
  /\ UNCHANGED <<inHandler, value, queue, waiting, active, program>>

isHeldByCurrentThread(l) == owner[l] = currentThread

\* Release ASSERTs that the caller holds the lock.
ReleaseStep ==
  /\ AtTop("Release")
  /\ LET l == Top[2]
     IN  /\ owner' = [owner EXCEPT ![l] = NoThread]
         /\ holds' = [holds EXCEPT ![l] = @ \ {currentThread}]
         /\ stack' = Replace(<<<<"V", l>>>>)
         /\ outcome' = IF isHeldByCurrentThread(l) THEN outcome ELSE "aborted"
  /\ UNCHANGED <<currentThread, status, readyList, threadToBeDestroyed,
                 inHandler, value, queue, waiting, active, program>>

WaitStep ==
  /\ AtTop("Wait")
  /\ LET c == Top[2]
     IN  Continue(Replace(<<<<"Release", LockOf[c]>>, <<"WaitSleep", c>>>>))
  /\ UNCHANGED <<inHandler, synchVars>>

WaitSleepStep ==
  /\ AtTop("WaitSleep")
  /\ LET c == Top[2]
     IN  /\ waiting' = [waiting EXCEPT ![c] = Append(@, currentThread)]
         /\ GoToSleep(<<<<"Acquire", LockOf[c]>>>>)
  /\ UNCHANGED <<inHandler, value, queue, owner, active, program, holds>>

\* Signal and Broadcast do nothing unless the caller holds the lock.
SignalStep ==
  /\ AtTop("Signal")
  /\ LET c == Top[2]
     IN  IF isHeldByCurrentThread(LockOf[c]) /\ waiting[c] # <<>>
         THEN /\ waiting' = [waiting EXCEPT ![c] = Tail(@)]
              /\ ReadyToRun(Head(waiting[c]), Replace(<<Return>>))
         ELSE /\ Continue(Replace(<<Return>>))
              /\ UNCHANGED waiting
  /\ UNCHANGED <<inHandler, value, queue, owner, active, program, holds>>

\* One turn of the loop in Broadcast.  Nothing else runs between two turns
\* unless ReadyToRun yields, and then the caller still holds the lock.
BroadcastStep ==
  /\ AtTop("Broadcast")
  /\ LET c == Top[2]
     IN  IF isHeldByCurrentThread(LockOf[c]) /\ waiting[c] # <<>>
         THEN /\ waiting' = [waiting EXCEPT ![c] = Tail(@)]
              /\ ReadyToRun(Head(waiting[c]), Replace(<<<<"Broadcast", c>>>>))
         ELSE /\ Continue(Replace(<<Return>>))
              /\ UNCHANGED waiting
  /\ UNCHANGED <<inHandler, value, queue, owner, active, program, holds>>

\* A request to a device schedules its completion interrupt; the device
\* ASSERTs that it is not busy.
RequestStep ==
  /\ AtTop("Request")
  /\ LET d == Top[2]
     IN  /\ active' = [active EXCEPT ![d] = TRUE]
         /\ outcome' = IF active[d] THEN "aborted" ELSE outcome
  /\ stack' = Replace(<<Return>>)
  /\ UNCHANGED <<currentThread, status, readyList, threadToBeDestroyed,
                 inHandler, value, queue, owner, waiting, program, holds>>

\* A completion interrupt, taken where interrupts are on or in Idle.
DeviceInterrupt(d) ==
  /\ active[d]
  /\ active' = [active EXCEPT ![d] = FALSE]
  /\ \/ InterruptsOn /\ EnterHandler(DoneSem[d], <<>>)
     \/ /\ AtTop("Idle") \/ AtTop("Idled")
        /\ EnterHandler(DoneSem[d], <<Idled>> \o Tail(stack[currentThread]))
  /\ UNCHANGED <<value, queue, owner, waiting, program, holds>>

\* Interrupt::Idle with nothing pending halts the machine, and after a
\* handler returns to the loop in Sleep.
IdleStep ==
  /\ \/ /\ AtTop("Idle")
        /\ \A d \in Devices : ~active[d]
        /\ outcome' = "halted"
        /\ UNCHANGED stack
     \/ /\ AtTop("Idled")
        /\ stack' = Replace(<<>>)
        /\ UNCHANGED outcome
  /\ UNCHANGED <<currentThread, status, readyList, threadToBeDestroyed,
                 inHandler, synchVars>>

SchedulerStep ==
  /\ \/ ReturnStep \/ StartStep \/ SleepStep \/ YieldStep \/ FinishStep
     \/ EndHandlerStep \/ \E t \in Threads : ForkStep(t)
  /\ UNCHANGED synchVars

TimerStep == TimerInterrupt /\ UNCHANGED synchVars

SynchStep ==
  \/ PStep \/ VStep \/ VIncrementStep
  \/ AcquireStep \/ SetOwnerStep \/ ReleaseStep
  \/ WaitStep \/ WaitSleepStep \/ SignalStep \/ BroadcastStep
  \/ RequestStep \/ IdleStep

\* The simulation is over.
Ended == outcome # "running" /\ UNCHANGED vars

\* Everything but the threads' own calls.
KernelStep ==
  \/ SchedulerStep \/ SynchStep \/ TimerStep
  \/ \E d \in Devices : DeviceInterrupt(d)
-----------------------------------------------------------------------------
EqualPriorities == \A t, u \in Threads : priority[t] = priority[u]

HasFrame(t, frame) == \E i \in DOMAIN stack[t] : stack[t][i] = frame

\* The type of every variable of the thread and synchronization classes.
TypeOK ==
  /\ currentThread \in Threads
  /\ status \in [Threads -> {"NONE", "READY", "RUNNING", "BLOCKED", "DELETED"}]
  /\ Items(readyList) \subseteq Threads
  /\ threadToBeDestroyed \in Threads \cup {NoThread}
  /\ inHandler \in BOOLEAN
  /\ outcome \in {"running", "halted", "aborted"}
  /\ value \in [Sems \cup Locks -> Nat]
  /\ \A s \in Sems \cup Locks : Items(queue[s]) \subseteq Threads
  /\ owner \in [Locks -> Threads \cup {NoThread}]
  /\ \A c \in Conds : Items(waiting[c]) \subseteq Threads
  /\ active \in [Devices -> BOOLEAN]
  /\ \A t \in Threads :
       \A i \in DOMAIN stack[t] :
         stack[t][i][2] \in Threads \cup Sems \cup Locks \cup Conds
                              \cup Devices \cup {NoThread}

\* The ready list holds every READY thread exactly once, most urgent first,
\* and never the running one: what Scheduler::ReadyToRun and FindNextToRun
\* assume of each other across every switch.
ReadyListExact ==
  /\ NoDuplicates(readyList)
  /\ IsSorted(readyList, priority)
  /\ Items(readyList) = {t \in Threads : status[t] = "READY"}
  /\ {t \in Threads : status[t] = "RUNNING"} \subseteq {currentThread}

\* A thread that is not blocked runs only when no ready thread is more
\* urgent: ReadyToRun makes it yield at once, Yield and Sleep take the head of
\* the sorted list.
MostUrgentRuns ==
  outcome = "running" /\ status[currentThread] = "RUNNING" =>
    \A t \in Items(readyList) : priority[currentThread] <= priority[t]

\* A blocked thread is in exactly one queue, of the semaphore or condition it
\* sleeps on, or has finished: nobody sleeps where no V or Signal looks.
BlockedIsQueued ==
  \A t \in Threads :
    status[t] = "BLOCKED" /\ (outcome = "running" \/ t # currentThread) =>
      Cardinality({s \in Sems \cup Locks : t \in Items(queue[s])}) +
      Cardinality({c \in Conds : t \in Items(waiting[c])}) +
      (IF HasFrame(t, Finished) THEN 1 ELSE 0) = 1

\* Every thread is on the sorted ready list, on one queue, or running because
\* nobody is more urgent.
ThreadsPlaced == ReadyListExact /\ MostUrgentRuns /\ BlockedIsQueued

\* While threads of equal priority sleep on a semaphore, every unit of its
\* value has a woken thread on its way to take it, so that no V is lost
\* (synch.cc, P and V).
InTransit(s) ==
  {t \in Threads : HasFrame(t, <<"P", s>>) /\ t \notin Items(queue[s])}

NoLostWakeup ==
  EqualPriorities => \A s \in Sems \cup Locks :
    queue[s] # <<>> => Cardinality(InTransit(s)) >= value[s]

\* At most one thread is between Acquire and Release of a lock, and the
\* lock's OwnerId names it.
LockExclusion ==
  \A l \in Locks :
    \A t, u \in holds[l] : t = u /\ owner[l] = t

\* Condition::Wait releases the lock and goes to sleep atomically: no other
\* thread runs while one has released the lock and is not yet waiting, if
\* priorities are equal.
WaitAtomic ==
  EqualPriorities => \A t \in Threads : \A c \in Conds :
    HasFrame(t, <<"WaitSleep", c>>) => t = currentThread

\* Among threads of equal priority no V and no Signal is lost, whatever runs
\* between the steps of P, V, Wait and Signal.
NoSignalLost == NoLostWakeup /\ WaitAtomic

\* When the machine halts for lack of work, nobody sleeps in P on a semaphore
\* whose value is positive.
HaltsOnlyWhenStuck ==
  outcome = "halted" =>
    \A s \in Sems \cup Locks : value[s] > 0 => queue[s] = <<>>
=============================================================================
