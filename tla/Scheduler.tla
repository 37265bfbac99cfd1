----------------------------- MODULE Scheduler -----------------------------
(***************************************************************************)
(* Threads and their dispatching: threads/thread.cc, threads/scheduler.cc  *)
(* (built with SCHED_PRIO) and the part of machine/interrupt.cc they meet. *)
(*                                                                         *)
(* Nachos simulates one processor.  Only currentThread executes, and the   *)
(* processor changes hands only in Scheduler::Run.  What a thread still    *)
(* has to execute when it gets the processor back is its call stack: a     *)
(* sequence of frames <<label, operand>>, innermost first.  The empty      *)
(* stack stands for code that runs with interrupts on.                     *)
(*                                                                         *)
(* The operators below are fragments of actions: each assigns the          *)
(* scheduler's variables the way the function it is named after does.      *)
(***************************************************************************)
EXTENDS NachosList, FiniteSets

CONSTANTS
  Threads,      \* the thread objects
  MainThread,   \* the thread Initialize creates
  NoThread      \* the null pointer

ASSUME ThreadAssumption ==
  /\ IsFiniteSet(Threads)
  /\ MainThread \in Threads
  /\ NoThread \notin Threads

VARIABLES
  priority,             \* Thread::priority, set once: smaller is more urgent
  currentThread,
  status,               \* Thread::status, with "NONE" before and "DELETED" after
  readyList,
  threadToBeDestroyed,
  stack,
  inHandler,            \* Interrupt::inHandler
  outcome               \* of the simulation: an ASSERT aborts, Halt halts

schedVars == <<currentThread, status, readyList, threadToBeDestroyed, stack,
               inHandler, outcome>>

Start == <<"Start", NoThread>>
Sleep == <<"Sleep", NoThread>>
Idle == <<"Idle", NoThread>>
Idled == <<"Idled", NoThread>>
Return == <<"Return", NoThread>>
EndHandler == <<"EndHandler", NoThread>>
Finished == <<"Finished", NoThread>>

Top == stack[currentThread][1]

AtTop(label) == stack[currentThread] # <<>> /\ Top[1] = label

InterruptsOn == stack[currentThread] = <<>>

\* The stacks once the current thread's innermost frame is replaced.
Replace(frames) ==
  [stack EXCEPT ![currentThread] = frames \o Tail(@)]

Push(frames) == [stack EXCEPT ![currentThread] = frames \o @]

\* The processor stays with the current thread.
Stay(ready, stat, stk) ==
  /\ readyList' = ready
  /\ status' = stat
  /\ stack' = stk
  /\ UNCHANGED <<currentThread, threadToBeDestroyed, outcome>>

\* Scheduler::Run: SWITCH to next, which deletes threadToBeDestroyed when it
\* comes out of its own SWITCH.  A thread that has never run starts in
\* ThreadRoot instead and deletes nothing.  Deleting the current thread fails
\* an ASSERT of ~Thread; a deleted thread has no stack to switch to, and a
\* finished one nothing to return to from Sleep ("not reached").
Run(next, ready, stat, stk) ==
  LET carcass == IF stk[next] = <<Start>> THEN NoThread
                                          ELSE threadToBeDestroyed
  IN  /\ currentThread' = next
      /\ readyList' = ready
      /\ stack' = stk
      /\ status' = [t \in Threads |-> IF t = carcass THEN "DELETED"
                                      ELSE IF t = next THEN "RUNNING"
                                      ELSE stat[t]]
      /\ threadToBeDestroyed' =
           IF carcass = NoThread THEN threadToBeDestroyed ELSE NoThread
      /\ outcome' = IF \/ carcass = next
                       \/ stat[next] = "DELETED"
                       \/ stk[next] = <<Finished>>
                    THEN "aborted" ELSE outcome

\* Scheduler::FindNextToRun: the thread taken off the list, if any, and what
\* is left of the list.
FindNextToRun(ready, stat) ==
  IF ready = <<>> THEN [next |-> NoThread, ready |-> ready]
  ELSE IF \/ stat[currentThread] = "BLOCKED"
          \/ priority[Head(ready)] <= priority[currentThread]
       THEN [next |-> Head(ready), ready |-> Tail(ready)]
       ELSE [next |-> NoThread,
             ready |-> SortedInsert(Tail(ready), Head(ready), priority)]

\* Thread::Yield: queue the current thread behind its equals and dispatch.
Yield(ready, stat, stk) ==
  LET queued == SortedInsert(ready, currentThread, priority)
      yielded == [stat EXCEPT ![currentThread] = "READY"]
      found == FindNextToRun(queued, yielded)
  IN  IF found.next = NoThread
      THEN Stay(found.ready, yielded, stk)
      ELSE Run(found.next, found.ready, yielded, stk)

\* Mutant: appends at the end of the list.
ReadyToRunAppend(t, stk) ==
  LET queued == Append(readyList, t)
      ready == [status EXCEPT ![t] = "READY"]
  IN  IF t # currentThread /\ priority[t] < priority[currentThread]
      THEN Yield(queued, ready, stk)
      ELSE Stay(queued, ready, stk)

\* Scheduler::ReadyToRun: a more urgent thread makes the current one yield,
\* right here, in the middle of whatever called ReadyToRun.
ReadyToRun(t, stk) ==
  LET queued == SortedInsert(readyList, t, priority)
      ready == [status EXCEPT ![t] = "READY"]
  IN  IF t # currentThread /\ priority[t] < priority[currentThread]
      THEN Yield(queued, ready, stk)
      ELSE Stay(queued, ready, stk)

\* Scheduler variables no step of the current function touches.
Continue(stk) == Stay(readyList, status, stk)

\* Thread::Sleep begins: the current thread is marked blocked and looks for
\* a successor (frame Sleep) before it goes on with the frames below.
GoToSleep(frames) ==
  Stay(readyList, [status EXCEPT ![currentThread] = "BLOCKED"],
       Replace(<<Sleep>> \o frames))
-----------------------------------------------------------------------------
SchedInit ==
  /\ currentThread = MainThread
  /\ status = [t \in Threads |-> IF t = MainThread THEN "RUNNING" ELSE "NONE"]
  /\ readyList = <<>>
  /\ threadToBeDestroyed = NoThread
  /\ stack = [t \in Threads |-> <<>>]
  /\ inHandler = FALSE
  /\ outcome = "running"

\* SetLevel(IntOn), when a kernel function returns to code that runs with
\* interrupts on: forbidden while an interrupt handler is active.
SetLevelOn ==
  outcome' = IF inHandler THEN "aborted" ELSE outcome

ReturnStep ==
  /\ AtTop("Return")
  /\ stack' = Replace(<<>>)
  /\ IF Len(stack[currentThread]) = 1 THEN SetLevelOn ELSE UNCHANGED outcome
  /\ UNCHANGED <<currentThread, status, readyList, threadToBeDestroyed, inHandler>>

\* ThreadRoot turns interrupts on and calls the forked function.
StartStep ==
  /\ AtTop("Start")
  /\ stack' = Replace(<<>>)
  /\ SetLevelOn
  /\ UNCHANGED <<currentThread, status, readyList, threadToBeDestroyed, inHandler>>

\* One turn of the loop in Thread::Sleep.
SleepStep ==
  /\ AtTop("Sleep")
  /\ LET found == FindNextToRun(readyList, status)
     IN  IF found.next = NoThread
         THEN Stay(found.ready, status, Push(<<Idle>>))
         ELSE Run(found.next, found.ready, status, Replace(<<>>))
  /\ UNCHANGED inHandler

\* Thread::StackAllocate arranges for ThreadRoot to be entered when the thread
\* is first dispatched.
StackAllocate(t, stk) == [stk EXCEPT ![t] = <<Start>>]

\* Thread::Fork of a thread just constructed.
ForkStep(t) ==
  /\ AtTop("Fork")
  /\ Top[2] = t
  /\ status[t] = "NONE"
  /\ ReadyToRun(t, StackAllocate(t, Replace(<<Return>>)))
  /\ UNCHANGED inHandler

\* Thread::Yield called by the thread itself.
YieldStep ==
  /\ AtTop("Yield")
  /\ Yield(readyList, status, Replace(<<Return>>))
  /\ UNCHANGED inHandler

\* The timer's interrupt handler asks for a context switch; OneTick performs
\* it when the handler has returned, before the interrupted code goes on.
TimerInterrupt ==
  /\ InterruptsOn
  /\ Yield(readyList, status, Push(<<Return>>))
  /\ UNCHANGED inHandler

\* Thread::Finish.  The frame under Sleep is never to be reached.
FinishStep ==
  /\ AtTop("Finish")
  /\ threadToBeDestroyed' = currentThread
  /\ status' = [status EXCEPT ![currentThread] = "BLOCKED"]
  /\ stack' = Replace(<<Sleep, Finished>>)
  /\ UNCHANGED <<currentThread, readyList, inHandler, outcome>>

\* An interrupt handler that calls Semaphore::V on operand s.
EnterHandler(s, frames) ==
  /\ Continue([stack EXCEPT ![currentThread] =
                 <<<<"V", s>>, EndHandler>> \o frames])
  /\ inHandler' = TRUE

EndHandlerStep ==
  /\ AtTop("EndHandler")
  /\ Continue(Replace(<<>>))
  /\ inHandler' = FALSE
=============================================================================
