# A TLA+ verification of the Nachos kernel in this repository

Nachos is a teaching operating system: a kernel in C++ that runs on a simulated
uniprocessor with simulated devices. This directory models the kernel, its file
system, its virtual memory, the simulated processor and the devices, checks them
with TLC on small instances, and proves the central properties of most parts with
TLAPS for every instance. Paths below are relative to `src/code/`.

## The system and its modules

| part | source | modules |
|---|---|---|
| thread identifiers | `threads/thread.cc`, `threads/system.cc` | `TidTable`, proofs in `ProcessesProofs` |
| lists | `threads/list.cc` | `LinkedList` (in memory), `ListAbs` (what it promises), `NachosList` (as a sequence), `NachosListProofs` |
| threads, scheduler | `threads/thread.cc`, `threads/scheduler.cc` | `Scheduler`, proofs in `SynchProofs` |
| semaphores, locks, conditions | `threads/synch.cc` | `Synch`, `Semaphore`, `SemaphoreAbs`; `SynchProofs`, `LockProofs` |
| barrier, synchronized list, thread tests | `threads/synch.cc`, `threads/synchlist.cc`, `threads/threadtest.cc` | `Monitors`, `MonitorsProofs` |
| interrupts, timer | `machine/interrupt.cc`, `machine/timer.cc` | `Interrupt` |
| disk, synchronous disk, cache | `machine/disk.cc`, `filesys/synchdisk.cc` | `Disk` (time), `SynchDisk` (data), `SectorStore` (what it promises), `SynchDiskProofs` |
| per-file locks, shared files | `filesys/synchdisk.cc`, `filesys/openfile.cc`, `filesys/fstest.cc` | `ReadersWriters`, `FileAccess`, `LockProofs` |
| bitmap, headers, directories, open files | `userprog/bitmap.cc`, `filesys/*.cc` | `FileHeader`, `FileSystem` |
| file system calls and tests | `userprog/exception.cc`, `filesys/fstest.cc` | `Syscalls`, `FileTests` |
| processes | `userprog/exception.cc` | `Processes` (over `TidTable`), `ProcessesProofs` |
| program loading | `bin/coff2noff.c`, `userprog/addrspace.cc` | `Loader` |
| virtual memory | `machine/translate.cc`, `userprog/addrspace.cc` | `VirtualMemory`, `VirtualMemoryProofs` |
| processor | `machine/mipssim.cc`, `machine/machine.cc` | `Mips` |
| console, elevators | `machine/console.cc`, `machine/elevator.cc`, `machine/elevatortest.cc` | `Console`, `Elevator`, composed with `Disk` over `Interrupt` in `Devices` |
| network, post office | `machine/network.cc`, `machine/sysdep.cc`, `network/*.cc` | `Network`, `PostOffice`, `PostOfficeProofs` |

Three modules put parts that do not interact side by side, so that one run checks them one
at a time: `KernelObjects` (a semaphore, a linked list, the loader, a shared file),
`UserPrograms` (the processes, the processor) and `FilesAndMemory` (the file system, the
virtual memory). A variable says which part is at work; the others keep their initial
state. The `MC*` modules give the constants their values.

The parts meet in a few places. Only `currentThread` runs. The processor changes
hands in `Scheduler::Run`, called by `Yield` and `Sleep`. Kernel code is atomic as
long as interrupts are off, and interrupts are taken when `SetLevel` turns them
on, when a user instruction ends, or in `Idle`. Handlers run on the stack of
whichever thread was running, and most of them call `Semaphore::V`. This build has
`SCHED_PRIO`, where a smaller number is more urgent: `ReadyToRun` makes the current
thread yield at once when the new thread is more urgent, which is a switch in the
middle of its caller. The main thread has priority 0 (`system.cc:153`), a forked thread 127
and a process started by `Exec` one less than its creator, so that main is more urgent than
every thread it forks.

Where the code breaks its own structures, the model takes the step the code takes and
records it in a history variable (`faults`, `memoryFaults`, `raced`, `deletedRead`,
`handlerYielded`, `outcome`, `crashed`, `status`). The invariants say that nothing else
breaks them. Each recorded place is listed below, with its line, under "Faults the
models record".

## How state and actions correspond to the code

**Scheduler, Synch, Monitors.** What a thread still has to do when it gets the
processor back is its call stack, a sequence of frames `<<label, operand>>`,
innermost first. A step executes the top frame of `currentThread` up to the next call
that may switch threads: `V`, for instance, is `VStep` (remove a waiter, `ReadyToRun`)
and `VIncrementStep` (`value++`), because `ReadyToRun` may switch in between. The timer
may preempt wherever interrupts are on. A handler that wakes a more urgent thread is
switched out with `inHandler` set (`handlerYielded`); what runs next turns interrupts on and
fails the ASSERT of `SetLevel`. `Monitors` adds code that looks at shared data
between two calls: the barrier, the synchronized list, and the two readers-writers
programs of `threadtest.cc`. Threads run programs chosen from small sets in the
initial state.

**Semaphore.** `P` and `V` under equal priorities: `Call`, `Block`, `Take`, `V`. The run
`threads` checks that `Synch` implements it for a plain semaphore
and for the one inside a lock (`SemaphoresAtomic`). `SynchDisk` and `FileAccess` use
semaphores at this level, for threads of one priority. `Elevator` and `PostOffice` also have
main as a client, and there the `V` of a handler wakes main before the increment.

**LinkedList.** Elements have addresses, and `new` and `delete` take and free them;
every branch of the list code is an operator on the heap, `first` and `last`. `Remove(item)`
of an empty list or an absent item, which the kernel never calls, is left out.

**SynchDisk.** A call of `ReadSector` or `WriteSector` scans the slots (`Scan`), and on a
miss chooses a victim without the lock (`ChooseVictim`), writes it back if it was dirty
(`WriteRequest`, `Evicted`), reads the sector (`ReadRequest`, `SwappedIn`) and scans
again. The lru ticks are the sequence `recency`. `Restart` is `Cleanup`, which a halt
may call at any time, followed by the next start.

**FileHeader, FileSystem, Syscalls, FileTests.** A sector holds a header, an index
block, a directory table, the map or data; each call is one step, as the code assumes
("no concurrent access", `filesys.cc:169`), with its early returns and the order in
which structures are written back. `Syscalls` adds ids, seek positions and the console
ids; `FileTests` adds the tests of `fstest.cc` as scripts of calls.

**FileAccess.** Several threads in `Open`, `ReadAt`, `WriteAt`, `Close` and `Remove` of one
file, as `ex7_test` runs them. Each disk access is a step. A lookup that does not find the
path opens sector -1, which fails an ASSERT of the disk and stops the simulator (`crashed`).

**Processes.** `Exec`, `Fork`, `Join`, `Yield` and `Exit` up to the point where they may
switch threads. The timer preempts a process in user mode, before `Exec` and `Fork` return
the tid, and in the loop of `Join`; between the constructor of a thread and `ReadyToRun`
it does not. The tables of identifiers change as `TidTable` says, and `TidInv` is about both.

**VirtualMemory.** A page holds one value; TLB slots, frames, page tables and the backing
store `vSpace` are kept, and the order of use stands for `LastHitTime`; two hits at the same
tick, between which `LRU_TLB` takes the first slot, do not happen in the model. `memory` is
what each process should see.

**Mips.** A word has `W` bits and every other width is scaled with it. One action fetches,
decodes and executes an instruction, with overflow, delayed loads and exceptions; system
calls end the program (`Halt`, `Exit`), resume behind themselves with or without a result in
r2, or, for a number without a case, are made again. With words of 4 bits the numbers stop
at 15, so the last two host calls and the unknown numbers above them do not occur. An
address outside the page table, which `translate.cc` does not test, ends the comparison
(`Stray`). `bin/execute.c`, a second simulator, is translated as the reference.

**Loader.** `coff2noff` section by section, then the constructor of `AddrSpace`.

**Interrupt, Console, Elevator, Disk, Devices.** Pending interrupts carry the time left.
Time passes in `OneTick` and `Idle`; due handlers run before any thread. The clients are
the device tests of the repository, two threads on a `SynchConsole` (a class no other code
of the repository uses: the `Read` and `Write` calls go to the host), and an elevator
controller that makes any legal calls. `ElevatorSelfTest` is called by a thread of the
controller's priority or by main.

**Network, PostOffice.** Sockets keep order, a packet may be lost when it is sent, and
polls and completions come at times of their own, so that a completion may also come before
the sender has got to its `P`. Machines start in any order. All threads have one priority,
or the first thread of a machine is main. `Put` into a mailbox is one step.

## Runs

| run | shows | bounds |
|---|---|---|
| `threads` | exact ready list, most urgent thread runs, no lost wakeup, lock exclusion, atomic `Wait`, barrier, list order, readers-writers; no ASSERT fails before a handler is switched out; equal threads finish | 3 threads, 3 semaphores, a lock, 3 conditions, a device; equal priorities, urgent children, urgent main |
| `kernel_objects` | the semaphore and the list implement what they promise; a loaded program is where it was linked to be; no torn read, and the users of a file finish or a late lookup stops the simulator | 4 threads, value up to 3; 3 elements, keys 0..2; 3 sections of 0..2 bytes; 2 readers, 2 writers, 1 cleaner, 2 sectors |
| `user_programs` | identifiers stay unique, no process is lost, `Join` waits for the right one and returns unless it waits for a less urgent one; the processor agrees with the second simulator and with arithmetic | 4 threads, 3 identifiers: exhaustion and reuse happen; 4-bit words, every operand |
| `disk` | the cache is invisible until a call overlaps a miss; one request at a time; calls return | 2 clients of one priority, 3 sectors, 2 slots, one shutdown |
| `files_and_memory` | exact free map, no shared sector, failed calls leave no trace, open files stay, the tests clean up; each process sees what it wrote, frames and TLB entries belong to the right process | 10 sectors of 2 bytes, 1 direct and 2 indirect sectors, 2 entries, 2 handles; 2 processes, 3 pages, 2 frames, 2 TLB slots |
| `devices` | no device assertion fails, nothing is under way at a halt, latencies follow the head, input is exact, tests end | 2 console threads, 3 characters; 2 elevators, 3 floors; 2 tracks of 3 sectors |
| `post_office` | in order and at most once, one send at a time, no other stop than an absent peer or a handler switched out, calls return unless a packet or a wake-up is lost | 2 machines, 2 threads, 2 boxes, losses |
| `priority_lost_wakeup` | *violated*: the machine halts with main asleep on an available semaphore | the first `Send` of `MailTest` |
| `tid_search` | *violated*: `MinAvailableTid` is not the least free identifier | 5 threads, 4 identifiers |
| `write_returns_early` | *violated*: `WriteSector` returns before the data is on the disk | as `disk`, no shutdown |
| `partial_write` | *violated*: a write undoes another write to the same sector | writers of bytes 2,3 and 1,2 |
| `fork_copies_memory` | *violated*: a forked thread does not share its creator's memory | as `files_and_memory` |

What a component promises at every moment is one conjunction, whose parts are named and
commented in its module:

| property | run | parts |
|---|---|---|
| `TidInv` | `user_programs` | unique tids, exact `TidMap`, ordered `PCBList`, `MinAvailableTid` free or past the end |
| `SchedulerSound` | `threads` | `ReadyListExact`, `MostUrgentRuns`, `BlockedIsQueued` |
| `NoSignalLost` | `threads` | `NoLostWakeup`, `WaitAtomic` |
| `MonitorsHold` | `threads` | lock exclusion, `BarrierHolds`, `ListInOrder`, both readers-writers programs |
| `SemaphoresAtomic` | `threads` | the semaphore and the lock each implement `Semaphore` |
| `SemInv` | `kernel_objects` | `QueueExact`, `NoLostWakeup` |
| `ImplementsList` | `kernel_objects` | the sequence of `ListAbs`, `ListWellFormed` (no leaked element) |
| `TransfersIsolated` | `kernel_objects` | `WriterExcludesAll`, `ReaderCountExact`, `RWHolder`, `ReadsNotTorn` |
| `ComputesExactly` | `user_programs` | `ArithmeticExact`, `OverflowExact` |
| `SynchDiskSound` | `disk` | `OneRequestAtATime`, `InterruptReachesRequester`, coherence, `ServedOnReturn` |
| `SectorsAccounted` | `files_and_memory` | `MapExact`, `OwnedOnce` |
| `CallEffects` | `files_and_memory` | what a failed `Create`, a `Remove` and a `WriteAt` change |
| `UserCallsExact` | `files_and_memory` | `CallsReachTheirFile`, `SeekInFile` |
| `TestsTidy` | `files_and_memory` | `CopyComplete`, `TestsCleanUp` |
| `MappingsExact` | `files_and_memory` | `FramesExclusive`, `TLBAgrees` |
| `StopsProperly` | `devices` | `NoAssertionFailure`, `HaltsAtRest` |
| `ConsoleSound`, `ElevatorsSound`, `DiskSound` | `devices` | exact input and reported output; watched elevators in the shaft, announced events; exact latency |

`TestsTidy` does not say that a test does what it is for: `PerformanceTest` creates an empty
file and always fails to write to it, and cleans up all the same. `StopsProperly` allows the
`Halt` after a typed `q` and, at the end of `ElevatorSelfTest`, a halt with the rider asleep;
`TestsProgress` says when that is. A barrier serves once (`nArrived` is never reset), and
`BarrierHolds` says nothing of a second use.

Every behaviour a run is about needs few objects: a lost wakeup needs a sleeper, a
waker and a newcomer; an eviction needs one sector more than there are slots, a wrong
reuse of an identifier three processes, an index block one sector more than `NumDirect`.
Named bounds: `MaxValue` (semaphore), `MaxRestarts` (disk), `MaxTyped`, `MaxCommands`,
`MaxSteps` (devices), `MaxSections` (loader). In `files_and_memory` a state reached through a
recorded fault is checked and not continued (`Continues`), and the view names handles by
their order and leaves out the contents of sectors no later call reads and of pages no
process reads any more; a user may stop calling at any time, so deadlock is not checked
there. Nor is it in `devices` and `post_office`, where Nachos halts or a lost packet is
waited for. In the other passing runs it is, with an explicit stutter where the simulation
has ended. In `kernel_objects` and `user_programs` fairness is asked of the part at work.

### Fairness

* `Synch`, `Monitors`: code with interrupts off runs on (weak); a dispatched thread
  executes its next call if dispatched again and again (strong), because the timer
  interval is random; devices complete (strong, since handlers run only where
  interrupts are on).
* `Semaphore`: a thread that may test the value does; the `threads` run shows that
  `Synch` provides it.
* `SynchDisk`, `FileAccess`: strong fairness of a thread's steps, since a waiter competes
  with newcomers for a lock; weak fairness of the completion interrupt. `CallsReturn` of the
  disk is about clients of one priority: a more urgent one can lose the wake-up of
  `RequestDone` as main does in `priority_lost_wakeup`.
* `Processes`: kernel code runs on; a process that is dispatched again and again makes its
  next call, and exits at last (strong, since the timer preempts it).
* `Devices`: Nachos never rests while something can happen; nobody is assumed to type.
* `PostOffice`: machines start, polls and completions come, threads run; strong fairness
  of the send lock. A packet that is lost is excused by the property, not by fairness.

## What the violation runs show

* `priority_lost_wakeup` (`threads/synch.cc:95`): `V` calls `ReadyToRun` before `value++`. A
  more urgent waiter runs at once, finds the value still 0 and sleeps again; nobody wakes
  it once the value is 1. The run is the first `Send` of `MailTest`: main waits for its
  completion, the other threads are idle, and the handler's `V` wakes main. `synch.h:46` says
  that `P` and `V` "are both *atomic*".
* `tid_search` (`threads/thread.cc:47`): the search for the next free identifier breaks after
  its first step. `MinAvailableTid` then skips free identifiers, or stays past the last one,
  and the next constructor fails its ASSERT although identifiers are free. `system.cc:22`
  calls it "the minimum tid which is available".
* `write_returns_early` (`filesys/synchdisk.cc:149`): `WriteSector` leaves its data in a dirty
  slot. Nothing flushes the cache at shutdown, so completed writes are lost.
  `synchdisk.cc:131` says "Return only after the data has been written".
* `partial_write` (`filesys/openfile.cc:190`): `WriteAt` reads the sectors it writes in part
  before `StartWrite`, so the bytes of a writer that came in between are overwritten.
* `fork_copies_memory` (`userprog/addrspace.cc:243`): `SC_Fork` copies the address space, and
  neither thread sees what the other writes. `syscall.h:129` says that the procedure runs "in
  the *same* address space". `MemoryPrivate` states what the code does instead.

## Faults the models record

* `Monitors`, `handlerYielded`: the `V` of a handler yields to a more urgent thread
  (`scheduler.cc:67`) with `inHandler` set. Whoever runs next turns interrupts on and fails the
  ASSERT of `SetLevel`, or an idling blocked thread gets on the ready list. The properties of
  `threads` allow both from then on. `PostOffice` has the same as status `switched`.
* `Elevator`, `PostOffice`, `Mislaid`: the same `V` wakes main before the increment. The first
  `Send` of `MailTest` never returns, and `ElevatorSelfTest` called by main halts with the rider
  asleep and the bank not deleted.
* `FileAccess`: `Remove` tests the count of openers and removes later (`filesys.cc:300`). A
  thread that opened the file in between reads and writes freed sectors; no property forbids
  it, since the code does not prevent it. A later lookup opens sector -1 (`crashed`).
* `SynchDisk`, `raced`: the victim is chosen without the lock (`synchdisk.cc:237`). Coherence is
  claimed only until a call overlaps a miss.
* `FileSystem`: `uninit` (`NSecIndex` is not initialized for small files, `filehdr.cc:45`),
  `extend` and `fullDisk` (`extendLength` does not test `Find`, `filehdr.cc:303`),
  `staleHeader` (`openfile.cc:148` writes back a header another handle has extended),
  `staleDir` (`filesys.cc:239` after a failed create of a directory), `dirAsFile` (a
  directory written as a plain file).
* `TidTable`, `aborted`: the constructor's ASSERT, with no identifier left or with
  `MinAvailableTid` past the end (`thread.cc:43`).
* `Processes`: `deletedRead` (`exception.cc:245` reads the tid of a thread that may be
  deleted), a carcass that is never deleted (`thread.cc:186`), and `Join` of a less urgent
  process, which yields for ever (`exception.cc:273`): this is what main meets when it joins a
  process it has forked. `UrgentJoinSpins` states it and is proved.
* `VirtualMemory`: `foreignEviction` (`translate.cc:479` invalidates the entry of the
  current process for a page of another), `execLeftover` (`exception.cc:73`, the child of
  `Exec` starts in its caller's space), `staleFork` (`addrspace.cc:243` copies the backing
  store, not the frames).
* `Elevator`: `behind` (`elevator.cc:82`, a move to the floor just left goes the wrong way)
  and `unscheduled` (`elevator.cc:302`, only the first of several elevators goes on).
* `Monitors`: two `CWriter`s may write together (`threadtest.cc:188`).
* `Mips`: where the two simulators differ is listed at `Differ`, among it `OR` computed from
  one operand (`mipssim.cc:376`), the arithmetic `SRL` (`mipssim.cc:446`), and `LWL` at an
  aligned address, which `bin/execute.c:305` ors into the register.
* `Loader`: contiguous `.bss` sections are refused and others accepted
  (`coff2noff.c:204`); `vSpace` is not cleared (`addrspace.cc:150`).

## Proofs

All theorems hold for any value of the constants, under the named assumptions of the
modules (finite thread sets, positive limits, distinct null values). What the threads
run is arbitrary: `Scenarios` in `PostOffice` and `Asks` in `SynchDisk` are any sets, and
`ProgramAssumption` of `Monitors` says only that a program is a sequence of calls of the
kernel and of the code of `Monitors`, on objects that exist.

* `NachosListProofs`: the contracts of `SortedInsert`, `RemoveItem`, `Append` and `Remove` on
  any sequence, which the proofs about tables, queues and the order of use cite. That a
  nonempty set of positions has a least one is the definition `NatWellOrdered`, a
  hypothesis of the lemmas; each module that needs it proves it from the library's
  induction on well-founded orders (`NatIsWellOrdered`), so no theorem depends on it.
* `ProcessesProofs`: `TidInv`, that is `TidsUnique`, `TidMapIsLiveTids`, `PCBListOrdered`,
  `AvailableTidIsFree` and the types. Uniqueness alone is not inductive: a fresh identifier
  is unused only if `TidMap` is exact. The conjunction is, and the system calls keep it
  because the constructor is called for a thread that does not exist and the destructor for
  one that does.
  `JoinWaits`: `Join` returns only after the exit. The inductive invariant `ProcInv` adds
  who is on the ready list (`Scheduled`: live unfinished threads, once each, never the
  running one), that only a finished thread is deleted (`DeletedLast`), and what a caller
  was told of its child (`CallsAgree`: as long as `Exec` has not read a deleted thread, the
  tid it returned is the child's). `NoProcessLost` adds the order of the ready list and that
  nobody ready is more urgent than the process that runs (`Ordered`); from it,
  `UrgentJoin`: a process in `Join` for a less urgent one is ready or runs for ever, and the
  other never does.
* `SynchProofs`, `MonitorsProofs`: the thread system itself, with threads of equal
  priority, where `ReadyToRun` does not switch. (With unequal priorities `NoSignalLost`
  claims nothing, and `priority_lost_wakeup` shows why.) `NothingLost`: no `V` and no
  `Signal` is lost. `NobodyMislaid`: `SchedulerSound`, and without its excuse, since no handler
  is switched out among equals. `LocksExclude`: a lock excludes until
  an ASSERT fails, which is what `Release` by another thread does. `HaltsRightly`: the
  machine does not halt while a sleeper's semaphore has a unit, so the flaw of the
  violation run cannot happen among equals.
  None of these is inductive: between two steps of a call, what matters is on the call
  stacks. `SynchInv` says which stacks there are (`Under`, by the frame on top), that a
  thread that does not run gave the processor away in `Sleep` or `Yield` or has not started
  (`Placed`), that ready list and queues hold exactly the threads whose status and stack
  say so (`Listed`, `Placed`), that a semaphore with sleepers has a woken thread on its way
  for every unit, counting the one a `V` is about to add (`WokenUp`), and that the unit of
  a lock is in its semaphore or with exactly one thread, which enters, holds or returns it
  (`OneUnit`). There is one lemma for each step of `Scheduler`, `Synch` and `Monitors`
  (`PBlockInv`, `VWakeInv`, `WaitSleepInv`, ...), most of them instances of a few kinds of step: a call
  that concerns no queue (`OrdinaryStep`), a wakeup (`WakeInv`), a switch (`DispatchStep`).
  `HaltInv` adds that the machine idles only with an empty ready list.
  The counting uses four laws of `Cardinality` and that `Nat` is well ordered; they are
  hypotheses of the lemmas and proved from the library at the end of `MonitorsProofs`
  (`CardinalitiesObey`, `NatIsWellOrdered`), so no theorem depends on them.
* `LockProofs`, semaphore: `SemInv`, that is `QueueExact` and `NoLostWakeup` with the types.
  `NoLostWakeup` counts the threads about to test the value; `QueueExact` says that the one
  `V` wakes was not counted before. `SemaphoreImplements`: every step is a step of
  `SemaphoreAbs` or a stutter.
* `LockProofs`, per-file lock: the invariant says who holds `rCntMutex`, that `readerCnt`
  counts the readers, and who holds `RW`; `WriterExcludesAll` follows.
* `LockProofs`, shared files: `NoTornRead`, that is `TransfersIsolated`: a reader inside its lock
  holds what the file holds, because no writer is inside. The inductive invariant contains
  that of the lock and adds that a thread is in the lock only between its open and its close
  (`Outside`) and which bytes a reader still has to copy (`ReaderTodo`).
* `SynchDiskProofs`: first the protocol with the raw disk (`IOInv`: the lock holder is the
  one client that waits, and one interrupt or one unit is on its way to it), then
  coherence of the cache as long as no call overlaps a miss (`CacheInv`: a slot that is
  not dirty matches the disk, no sector is cached twice, where each call stands):
  `SynchDiskSound`, from which `StoreImplemented` shows that every step is a step of
  `SectorStore` or a stutter.
* `PostOfficeProofs`: `OneSendAtATime`. The invariant (`SendInv`) says that the thread
  inside `Send` is the holder of `sendLock`, and that completions on their way are as many
  as threads that wait for one. `InOrderUnreliable` needs to know where packets are:
  `OrderInv` says that what a machine has delivered, the packet the network holds and
  what is in the socket are, one after the other, one stream (`Stream`) of packets sent to
  it, not lost, with increasing numbers of each sender; that the numbers of what was lost
  lie within the logs, so that a new packet is unlike every earlier one (`Logs`); and that
  a message is in the box it names (`Boxed`).
* `VirtualMemoryProofs`: `MemoryPrivate` and `MappingsExact`, for any number of processes,
  pages, frames and TLB slots. Neither is inductive. `MemoryInv` says of every state that
  whatever slot or frame is in use has been hit (`WellFormed`, so that a least recently
  used one exists), and, until a recorded fault, that page tables and `PhysicalPageTable`
  are inverses (`TablesAgree`), that a page is in its frame or else in `vSpace` (`Contents`),
  and that the TLB caches the table of the process that runs (`TlbCaches`). Each routine of
  `translate.cc` and `addrspace.cc` has a lemma that states what it does to these
  (`SwappedOut`, `SwappedIn`, `Mapped`, `Loaded`, `Allocated`, `Saved`, `Freed`), and each
  action one that puts them together. A refill of the TLB passes through states where the
  slot is loaded and not hit yet: `WellFormedBut` leaves that slot out.

Every inductive invariant was checked with TLC on the instance of its run first.

Only model-checked:

* every liveness property (`AllFinish`, `JoinReturns`, `CallsReturn`, `FileUsersFinish`,
  `TestsProgress`) and anything about `ENABLED`, which this prover does not do;
* `FileSystem`, `FileHeader`, `Syscalls`, `FileTests`: the layout of a file and the scripts of
  the tests are computed by recursion over the data;
* `ImplementsList`, `ImageExact`: what a walk along the elements and a loop over sections
  compute is induction over data;
* `Mips`: words are powers of two and `MultLoop` is recursive;
* `StopsOnlyOnAbsentPeer` of `PostOffice`, which holds because of the programs the
  repository runs;
* `NoAssertionFailure`, and in `MonitorsHold` the barrier, the list and the
  readers-writers programs, which hold because of the programs the repository runs (they
  release what they acquired, and as many threads come to the barrier as it counts);
* everything about threads of different priorities, where `ReadyToRun` switches in the
  middle of `V`, and `SemaphoresAtomic`, whose mapping computes the phase of a thread from
  its whole stack;
* the devices, whose properties are about exact times (quotients and remainders of
  rotation) and about the scripts of the device tests.

## Not modelled

* Host system calls, statistics and debug output (`machine/sysdep.cc` but its sockets,
  `machine/stats.cc`, `threads/utility.cc`): no state of Nachos.
* The assembly of `SWITCH`: an atomic change of `currentThread` here. Stack overflow
  checks are left out of `Scheduler`.
* Argument parsing (`threads/main.cc`).
* The system calls on host directories (`RDir`, `CDir`, `Cd`, `Ls`, `Pwd`, `Help`): they call
  the host and change only the program counter.
* `bin/coff2flat.c`, the disassembler and the driver of the stand-alone simulator; the
  user programs under `test/`; the C++ tutorial in `src/c++example/`.
* Printing, time stamps and names of files and threads.
* Builds other than the ones above: `SCHED_SLICE`, `DiskImage`, and the file system stub,
  which hands every call to the host.
