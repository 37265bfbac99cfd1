------------------------------ MODULE Monitors ------------------------------
(***************************************************************************)
(* Code written on top of semaphores, locks and conditions: the classes    *)
(* Barrier (threads/synch.cc) and SynchList (threads/synchlist.cc), and    *)
(* the test routines of threads/threadtest.cc, with their threads reduced  *)
(* to three and their endless loops to a few turns.                        *)
(*                                                                         *)
(* A function is a sequence of calls.  Where it looks at or changes shared *)
(* data between two calls, the sequence has a label; Code says what the    *)
(* data become and which calls follow.  No tick passes between that code   *)
(* and the next call, so that both are one step.                           *)
(***************************************************************************)
EXTENDS Synch

CONSTANTS
  CntLock, ReadCV, WriteCV,  \* of the readers and writers with conditions
  listLock, listEmpty,       \* of the synchronized list
  barLock, barCV, nTotal,    \* of the barrier
  mutex, db,                 \* of the readers and writers with semaphores
  PlainConds                 \* conditions a thread may wait on for ever

ASSUME MonitorAssumption ==
  /\ PlainConds \subseteq Conds /\ nTotal \in Nat
  /\ {CntLock, listLock, barLock} \subseteq Locks
  /\ {ReadCV, WriteCV, listEmpty, barCV} \subseteq Conds /\ {mutex, db} \subseteq Sems

VARIABLES
  shared,     \* the variables the functions share
  wrote2,         \* two CWriters have been active together (history)
  handlerYielded  \* an interrupt handler has been switched out (history)

monitorVars == <<shared, wrote2>>
allVars == <<vars, priority, monitorVars, handlerYielded>>

Label(l) == <<l, NoThread>>
Call(op, x) == <<op, x>>

InitShared ==
  [nArrived |-> 0, passed |-> {}, list |-> <<>>, appended |-> <<>>, removed |-> <<>>,
   ActiveReader |-> 0, ActiveWriter |-> 0, WaitingReader |-> 0, WaitingWriter |-> 0,
   ReaderCnt |-> 0]

Does(sh, code) == [shared |-> sh, code |-> code]

\* ---------------------------------- Barrier -------------------------------

BarrierWait == <<Call("Acquire", barLock), Label("Arrive")>>

BarrierTestEarly(sh) ==
  IF sh.nArrived + 1 < nTotal
  THEN Does(sh, <<Call("Wait", barCV), Label("BarrierTest")>>)
  ELSE Does([sh EXCEPT !.passed = @ \cup {currentThread}],
            <<Call("Broadcast", barCV), Call("Release", barLock)>>)

\* The loop of Barrier::Wait, then the Broadcast of every thread that leaves it.
BarrierTest(sh) ==
  IF sh.nArrived < nTotal
  THEN Does(sh, <<Call("Wait", barCV), Label("BarrierTest")>>)
  ELSE Does([sh EXCEPT !.passed = @ \cup {currentThread}],
            IF sh.nArrived = nTotal
            THEN <<Call("Broadcast", barCV), Call("Release", barLock)>>
            ELSE <<Call("Release", barLock)>>)

ArriveUncounted(sh) ==
  BarrierTest([sh EXCEPT !.nArrived = IF @ = nTotal - 1 THEN @ ELSE @ + 1])

Arrive(sh) == BarrierTest([sh EXCEPT !.nArrived = @ + 1])

\* --------------------------------- SynchList ------------------------------

ListAppend == <<Call("Acquire", listLock), Label("Put")>>
ListRemove == <<Call("Acquire", listLock), Label("TakeItem")>>

Put(sh) ==
  Does([sh EXCEPT !.list = Append(@, currentThread), !.appended = Append(@, currentThread)],
       <<Call("Signal", listEmpty), Call("Release", listLock)>>)

TakeItem(sh) ==
  IF sh.list = <<>>
  THEN Does(sh, <<Call("Wait", listEmpty), Label("TakeItem")>>)
  ELSE Does([sh EXCEPT !.list = Tail(@), !.removed = Append(@, Head(sh.list))],
            <<Call("Release", listLock)>>)

\* --------------------------- CWriter and CReader --------------------------

CWriter == <<Call("Acquire", CntLock), Label("CWriterTest")>>
CReader == <<Call("Acquire", CntLock), Label("CReaderTest")>>

CWriterTest(sh) ==
  IF sh.ActiveReader > 0 \/ sh.WaitingReader > 0
  THEN Does([sh EXCEPT !.WaitingWriter = @ + 1],
            <<Call("Wait", WriteCV), Label("CWriterWoken")>>)
  ELSE Does([sh EXCEPT !.ActiveWriter = @ + 1],
            <<Call("Release", CntLock), Call("Acquire", CntLock), Label("CWriterDone")>>)

CWriterWoken(sh) == CWriterTest([sh EXCEPT !.WaitingWriter = @ - 1])

\* Whoever leaves wakes all waiting readers, else one waiting writer.
WakeNext(sh) ==
  IF sh.WaitingReader > 0 THEN Does(sh, <<Call("Broadcast", ReadCV), Call("Release", CntLock)>>)
  ELSE IF sh.ActiveReader = 0 /\ sh.WaitingWriter > 0
  THEN Does(sh, <<Call("Signal", WriteCV), Call("Release", CntLock)>>)
  ELSE Does(sh, <<Call("Release", CntLock)>>)

CWriterDone(sh) == WakeNext([sh EXCEPT !.ActiveWriter = @ - 1])

CReaderEnters(sh) ==
  Does([sh EXCEPT !.ActiveReader = @ + 1],
       <<Call("Release", CntLock), Call("Acquire", CntLock), Label("CReaderDone")>>)

\* A reader tests once, before it waits, and not when it has been woken.
CReaderTest(sh) ==
  IF sh.ActiveWriter > 0
  THEN Does([sh EXCEPT !.WaitingReader = @ + 1],
            <<Call("Wait", ReadCV), Label("CReaderWoken")>>)
  ELSE CReaderEnters(sh)

CReaderWoken(sh) == CReaderEnters([sh EXCEPT !.WaitingReader = @ - 1])

CReaderDone(sh) == WakeNext([sh EXCEPT !.ActiveReader = @ - 1])

\* ---------------------------- reader and writer ---------------------------

reader == <<Call("P", mutex), Label("ReaderIn")>>
writer == <<Call("P", db), Label("Writes")>>

Writes(sh) == Does(sh, <<Call("V", db)>>)

Reads == <<Call("V", mutex), Call("P", mutex), Label("ReaderOut")>>

ReaderIn(sh) ==
  Does([sh EXCEPT !.ReaderCnt = @ + 1],
       IF sh.ReaderCnt = 0 THEN <<Call("P", db)>> \o Reads ELSE Reads)

ReaderOut(sh) ==
  Does([sh EXCEPT !.ReaderCnt = @ - 1],
       IF sh.ReaderCnt = 1 THEN <<Call("V", db), Call("V", mutex)>> ELSE <<Call("V", mutex)>>)

\* ------------------------------ other routines ----------------------------

\* SimpleThread: n times Yield.
SimpleThread(n) == [i \in 1 .. n |-> Call("Yield", NoThread)]

\* Fork the children, in turn.
ForkAll(children) == [i \in DOMAIN children |-> Call("Fork", children[i])]

\* The tests, as the program of the main thread and those its children choose
\* from; in ThreadTest5 to 7 the main thread, which would be done, takes the
\* part of one of them.
Test(children, mainPart, parts) == [main |-> ForkAll(children) \o mainPart, others |-> parts]

ThreadTest1(children) == Test(children, SimpleThread(2), {SimpleThread(2)})
ThreadTest4(children) == Test(children, SimpleThread(1), {SimpleThread(2)})
ThreadTest5(children) == Test(children, reader, {reader, writer})
ThreadTest6(children) == Test(children, CReader, {CReader, CWriter})
ThreadTest7(children) == Test(children, BarrierWait, {BarrierWait})

\* The tests that are about threads together; TidTable has ThreadTest2 and 3.
ThreadTest(testnum, children) ==
  CASE testnum = 1 -> ThreadTest1(children) [] testnum = 4 -> ThreadTest4(children)
    [] testnum = 5 -> ThreadTest5(children) [] testnum = 6 -> ThreadTest6(children)
    [] testnum = 7 -> ThreadTest7(children)
-----------------------------------------------------------------------------
Labels ==
  {"Arrive", "BarrierTest", "Put", "TakeItem", "CWriterTest", "CWriterWoken",
   "CWriterDone", "CReaderTest", "CReaderWoken", "CReaderDone", "ReaderIn", "ReaderOut", "Writes"}

Code(l, sh) ==
  CASE l = "Arrive" -> Arrive(sh)
    [] l = "BarrierTest" -> BarrierTest(sh)
    [] l = "Put" -> Put(sh)
    [] l = "TakeItem" -> TakeItem(sh)
    [] l = "CWriterTest" -> CWriterTest(sh)
    [] l = "CWriterWoken" -> CWriterWoken(sh)
    [] l = "CWriterDone" -> CWriterDone(sh)
    [] l = "CReaderTest" -> CReaderTest(sh)
    [] l = "CReaderWoken" -> CReaderWoken(sh)
    [] l = "CReaderDone" -> CReaderDone(sh)
    [] l = "ReaderIn" -> ReaderIn(sh)
    [] l = "ReaderOut" -> ReaderOut(sh)
    [] l = "Writes" -> Writes(sh)

\* The calls a program is made of, and the labels of the code between them.
Calls == KernelCalls \cup {Label(l) : l \in Labels}

ASSUME ProgramAssumption ==
  \A sc \in Scenarios :
    sc.program \in [Threads -> Seq(Calls)] /\ sc.priority \in [Threads -> Int]

AtLabel == program[currentThread] # <<>> /\ Head(program[currentThread])[1] \in Labels

\* A thread runs the code at a label and makes the call that follows.
CodeStep ==
  /\ InterruptsOn /\ AtLabel
  /\ LET done == Code(Head(program[currentThread])[1], shared)
     IN  /\ shared' = done.shared
         /\ wrote2' = (wrote2 \/ done.shared.ActiveWriter > 1)
         /\ Continue(Push(<<Head(done.code)>>))
         /\ program' = [program EXCEPT ![currentThread] = Tail(done.code) \o Tail(@)]
  /\ UNCHANGED <<inHandler, value, queue, owner, waiting, active, holds>>

ThreadStep ==
  \/ CodeStep
  \/ ~AtLabel /\ CallStep /\ UNCHANGED monitorVars

MonitorInit == Init /\ shared = InitShared /\ wrote2 = FALSE /\ handlerYielded = FALSE

\* V, called by an interrupt handler, makes a thread ready that is more urgent
\* than the one that runs: ReadyToRun switches to it in the middle of the handler.
HandlerYields == inHandler /\ currentThread' # currentThread

Next ==
  /\ \/ outcome = "running" /\ (ThreadStep \/ (KernelStep /\ UNCHANGED monitorVars))
     \/ Ended /\ UNCHANGED monitorVars
  /\ handlerYielded' = (handlerYielded \/ HandlerYields)
  /\ UNCHANGED priority

Spec == MonitorInit /\ [][Next]_allVars

\* A thread's code makes progress whenever it is dispatched often enough: the
\* random timer (machine/timer.cc) does not preempt every instruction for
\* ever.  Kernel code with interrupts off runs to its end, and a device
\* completes its request.
Fairness ==
  /\ \A t \in Threads : SF_vars(ThreadStep /\ currentThread = t /\ UNCHANGED priority)
  /\ WF_vars((SchedulerStep \/ SynchStep) /\ UNCHANGED <<priority, monitorVars>>)
  /\ \A d \in Devices : SF_vars(DeviceInterrupt(d) /\ UNCHANGED <<priority, monitorVars>>)

FairSpec == Spec /\ Fairness
-----------------------------------------------------------------------------
\* Every thread is where the scheduler or a V will find it, on the sorted ready
\* list, on one queue, or running because nobody is more urgent (scheduler.cc),
\* until a handler is switched out: then an idling thread, blocked or finished,
\* gets on the ready list.
SchedulerSound == TypeOK /\ (handlerYielded \/ ThreadsPlaced)

\* No ASSERT of the thread system fails, no deleted thread is dispatched:
\* interrupts are not enabled inside a handler (interrupt.cc), a lock is
\* released by its owner (synch.cc), a device is asked one thing at a time
\* (disk.cc), ~Thread does not delete the running thread (thread.cc).  The one
\* way to fail one is a handler that was switched out: whoever runs next turns
\* interrupts on with inHandler set, or deletes the idling thread below it.
NoAssertionFailure == outcome = "aborted" => handlerYielded

\* No thread passes the barrier before nTotal threads have arrived at it
\* (Barrier::Wait, synch.cc).
BarrierHolds == shared.passed # {} => shared.nArrived >= nTotal

\* SynchList hands out what was appended, in order and each item once; Remove
\* never finds the list empty after its loop (the ASSERT of synchlist.cc).
ListInOrder == shared.appended = shared.removed \o shared.list

\* A CReader reads only when no CWriter writes, provided CWriters have not
\* been writing together, which CWriter does not prevent (threadtest.cc).
ConditionRWExclusion ==
  ~wrote2 => shared.ActiveReader = 0 \/ shared.ActiveWriter = 0

\* The threads of ThreadTest5 that are in their critical section.
Writing ==
  {t \in Threads : /\ program[t] # <<>> /\ Head(program[t]) = Label("Writes")
                   /\ ~HasFrame(t, Call("P", db))}
Reading ==
  {t \in Threads : /\ Len(program[t]) >= 2
                   /\ program[t][1] = Call("P", mutex) /\ program[t][2] = Label("ReaderOut")
                   /\ ~HasFrame(t, Call("V", mutex))}

\* The readers and writers of ThreadTest5 exclude each other, and writers one
\* another; the last reader lets the writers in.
SemaphoreRWExclusion ==
  /\ Writing # {} => Reading = {}
  /\ Cardinality(Writing) <= 1

\* What is built from semaphores, locks and conditions keeps its promises:
\* locks exclude, the barrier holds, the list is in order, readers and writers
\* do not meet.
MonitorsHold ==
  /\ LockExclusion /\ BarrierHolds /\ ListInOrder
  /\ ConditionRWExclusion /\ SemaphoreRWExclusion

\* Every thread of equal priority gets through its program and finishes,
\* unless it waits on a condition that nobody promises to signal: barrier,
\* synchronized list, readers and writers all let everybody through.
AllFinish ==
  EqualPriorities => <>[](\A t \in Threads :
         \/ program[t] = <<>> /\ HasFrame(t, Finished)
         \/ \E x \in PlainConds : t \in Items(waiting[x]))
=============================================================================
