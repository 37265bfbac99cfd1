------------------------------- MODULE MCSynch -------------------------------
(***************************************************************************)
(* Instances of Synch: three threads, and the programs they run.           *)
(***************************************************************************)
EXTENDS Monitors, TLC

CONSTANTS
  main, a, b,  \* the threads
  sem, ioDone,   \* a semaphore that starts available, and one that does not
  lk, cv,      \* a lock and a condition variable; rcv, wcv two more
  rcv, wcv,
  mux,         \* the semaphore of the reader count
  dev          \* a device

Three == {main, a, b}

EqualPriority == [t \in Three |-> 0]

\* Exec (exception.cc) creates a thread of priority one less than its
\* parent's, which makes it more urgent.
ChildUrgent == (main :> 2) @@ (a :> 1) @@ (b :> 0)

\* Initialize (system.cc) creates the main thread with priority 0, and a thread
\* has 127 unless its creator says otherwise (thread.cc).
MainUrgent == (main :> 0) @@ (a :> 127) @@ (b :> 127)

\* Every way to give each thread one of its programs.
Choices(of) ==
  {p \in [Three -> UNION {of[t] : t \in Three}] : \A t \in Three : p[t] \in of[t]}

NoObjects == [x \in {} |-> x]

ForkBoth == ForkAll(<<a, b>>)

\* Semaphores: a consumer, a producer, and a thread that does both.
SemPrograms ==
  (main :> {ForkBoth \o <<Call("P", sem), Call("V", sem)>>,
            <<Call("P", sem)>> \o ForkBoth \o <<Call("V", sem), Call("V", sem)>>})
  @@ (a :> {<<Call("P", sem), Call("V", sem)>>, <<Call("P", sem), Call("V", sem), Call("P", sem), Call("V", sem)>>})
  @@ (b :> {<<Call("P", sem), Call("V", sem)>>, <<Call("V", sem), Call("P", sem)>>})

\* Locks and conditions: one thread waits, the others signal or broadcast.
WaitProgram == <<Call("Acquire", lk), Call("Wait", cv), Call("Release", lk)>>
SignalProgram == <<Call("Acquire", lk), Call("Signal", cv), Call("Release", lk)>>
BroadcastProgram == <<Call("Acquire", lk), Call("Broadcast", cv), Call("Release", lk)>>
SectionProgram == <<Call("Acquire", lk), Call("Yield", NoThread), Call("Release", lk)>>
PingPongProgram ==
  <<Call("Acquire", lk), Call("Signal", cv), Call("Wait", cv), Call("Release", lk)>>

LockPrograms ==
  (main :> {ForkBoth \o SignalProgram, ForkBoth \o BroadcastProgram,
            ForkBoth \o SectionProgram, ForkBoth \o PingPongProgram})
  @@ (a :> {WaitProgram, SectionProgram, WaitProgram \o SignalProgram})
  @@ (b :> {WaitProgram, BroadcastProgram, <<Call("Signal", cv)>> \o SectionProgram})

OneLock == (cv :> lk) @@ (rcv :> lk) @@ (wcv :> lk)

\* The pattern of SynchDisk::ReadSector and PostOffice::Send: a lock, a
\* request to the device, and a semaphore its interrupt handler signals.
TransferProgram ==
  <<Call("Acquire", lk), Call("Request", dev), Call("P", ioDone), Call("Release", lk)>>

DevicePrograms ==
  (main :> {ForkBoth \o TransferProgram, ForkBoth})
  @@ (a :> {TransferProgram, TransferProgram \o TransferProgram})
  @@ (b :> {TransferProgram, <<Call("Yield", NoThread)>>})

DeviceSem == (dev :> ioDone)

\* The programs of a test (Monitors).
Of(testnum) ==
  LET t == ThreadTest(testnum, <<a, b>>) IN Choices((main :> {t.main}) @@ (a :> t.others) @@ (b :> t.others))

\* ThreadTest1, 5, 6 and 7, a reader that comes back while a writer is active,
\* and a producer and two consumers of a SynchList.
TestPrograms ==
  Of(1) \cup Of(5) \cup Of(6) \cup Of(7)
  \cup Choices((main :> {ForkBoth \o CReader}) @@ (a :> {CWriter}) @@ (b :> {CReader \o CReader}))
  \cup Choices((main :> {ForkBoth \o ListAppend \o ListAppend})
               @@ (a :> {ListRemove}) @@ (b :> {ListRemove, ListAppend \o ListRemove}))

AllPrograms ==
  Choices(SemPrograms) \cup Choices(DevicePrograms) \cup Choices(LockPrograms) \cup TestPrograms

Plain == {cv}

Equal(programs) == [program : programs, priority : {EqualPriority}]
Urgent(programs) == [program : programs, priority : {ChildUrgent}]

\* ThreadTest4: children more urgent than their parent.
PriorityPrograms == Choices(LockPrograms) \cup Choices(DevicePrograms) \cup Of(4)

AllScenarios ==
  Equal(AllPrograms) \cup Urgent(PriorityPrograms)
  \cup [program : AllPrograms, priority : {MainUrgent}]

\* The start of MailTest (network/nettest.cc): the main thread waits for the
\* completion of its first Send while the others are idle.
FirstSendScenarios ==
  [program : Choices((main :> {ForkBoth \o <<Call("Request", dev), Call("P", ioDone)>>})
                     @@ (a :> {<<Call("P", sem), Call("P", sem)>>}) @@ (b :> {<<>>})),
   priority : {MainUrgent}]

SemValues == (sem :> 1) @@ (ioDone :> 0) @@ (mux :> 1)

\* How the semaphores of Synch, which run on the scheduler, implement module
\* Semaphore, in which P and V are atomic.
MaxMappedValue == Cardinality(Threads) * 10

\* V counts from the moment it looks at the queue: the value includes the
\* increments of the Vs that are still to add theirs.
MappedValue(x) ==
  value[x] + Cardinality({t \in Threads : HasFrame(t, <<"VIncrement", x>>)})

MappedPhase(x) ==
  [t \in Threads |-> IF t \in Items(queue[x]) THEN "asleep"
                     ELSE IF HasFrame(t, <<"P", x>>) THEN "calling"
                     ELSE "out"]

OfSemaphore ==
  INSTANCE Semaphore WITH
    Callers <- Threads, value <- MappedValue(sem), queue <- queue[sem], phase <- MappedPhase(sem),
    InitialValue <- InitValue[sem], MaxValue <- MaxMappedValue

OfLock ==
  INSTANCE Semaphore WITH
    Callers <- Threads, value <- MappedValue(lk), queue <- queue[lk], phase <- MappedPhase(lk),
    InitialValue <- 1, MaxValue <- MaxMappedValue

SemaphoreVars == <<MappedValue(sem), queue[sem], MappedPhase(sem)>>
LockVars == <<MappedValue(lk), queue[lk], MappedPhase(lk)>>

\* If priorities are equal, P and V of a semaphore are atomic, as synch.h says
\* of them, and a thread that V has woken or that enters P gets to test the
\* value: the semaphores that run on the scheduler implement Semaphore.
SemaphoreAtomic ==
  /\ OfSemaphore!SemaphoreInit
  /\ [][EqualPriorities => [OfSemaphore!SemaphoreNext]_SemaphoreVars]_allVars
  /\ EqualPriorities => OfSemaphore!Fairness

\* So are P and V of the semaphore inside a lock.
LockAtomic ==
  /\ OfLock!SemaphoreInit
  /\ [][EqualPriorities => [OfLock!SemaphoreNext]_LockVars]_allVars

\* Both, for P and V wherever the kernel uses them.
SemaphoresAtomic == SemaphoreAtomic /\ LockAtomic
=============================================================================
