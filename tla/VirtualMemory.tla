---------------------------- MODULE VirtualMemory ----------------------------
(***************************************************************************)
(* Paged virtual memory with a software-loaded TLB: Machine::Translate,    *)
(* LRU_TLB and AllocatePhysicalPage (machine/translate.cc), the address    *)
(* spaces (userprog/addrspace.cc), the wrappers in which forked and        *)
(* executed threads start and the Exit call (userprog/exception.cc).       *)
(*                                                                         *)
(* A page holds one value.  A page table maps a page to its frame, or to   *)
(* NoFrame when the entry is invalid; the bits use, dirty and readOnly     *)
(* decide nothing in this build and are left out.  A process is a thread   *)
(* and the address space it ends up with.  LastHitTime is kept as the      *)
(* order in which TLB slots and frames were hit; of two hits within one    *)
(* tick the code replaces the lower index first, the model the earlier hit.*)
(*                                                                         *)
(* `memory` is what each process should see: the value last written to     *)
(* each of its pages.  `memoryFaults` records the places where the code lets     *)
(* one process disturb another; a state reached through one is not sound.  *)
(***************************************************************************)
EXTENDS NachosList, FiniteSets

CONSTANTS Processes, Root, Pages, NumPhysPages, TLBSize, Values, NoProcess

ASSUME MemoryConstants ==
  /\ Root \in Processes /\ NoProcess \notin Processes
  /\ {NumPhysPages, TLBSize} \subseteq Nat \ {0}
  /\ Pages \subseteq Nat /\ Values # {}

Frames == 0 .. NumPhysPages - 1
TLBSlots == 0 .. TLBSize - 1
NoFrame == -1
NoMapping == [virtualPage |-> NoFrame, physicalPage |-> NoFrame]
NoOwner == [OwnerThread |-> NoProcess, VirtualPageNumber |-> NoFrame]

VARIABLES
  m,        \* the machine: see MachineType
  state,    \* "none", "forked", "executed", "live" or "dead"
  caller,   \* ForkInfo::caller of a process that has not started
  current,
  memory,
  memoryFaults

memoryVars == <<m, state, caller, current, memory, memoryFaults>>

MachineType ==
  [pageTable : [Processes -> [Pages -> Frames \cup {NoFrame}]],
   vSpace : [Processes -> [Pages -> Values]],
   machineTable : Processes,            \* whose table Machine::pageTable is
   tlb : [TLBSlots -> [virtualPage : Pages \cup {NoFrame},
                       physicalPage : Frames \cup {NoFrame}]],
   tlbHits : Seq(TLBSlots),
   PhysicalPageTable : [Frames -> [OwnerThread : Processes \cup {NoProcess},
                                   VirtualPageNumber : Pages \cup {NoFrame}]],
   frameHits : Seq(Frames),
   mainMemory : [Frames -> Values]]

Unmapped == [v \in Pages |-> NoFrame]
AllFree == [f \in Frames |-> NoOwner]

\* AddrSpace::AddrSpace: every page is unmapped; vSpace holds the code and the
\* data of the executable, and whatever the rest of its memory held before.
Images == [Pages -> Values]
NewSpace(mm, p, image) == [mm EXCEPT !.pageTable[p] = Unmapped, !.vSpace[p] = image]

\* The index becomes the one hit last.
Touch(order, i) ==
  Append(IF i \in Items(order) THEN RemoveItem(order, i) ELSE order, i)

\* The first unused index, else the one hit longest ago.
Victim(unused, order) ==
  IF unused # {} THEN CHOOSE i \in unused : \A j \in unused : i <= j
  ELSE Head(order)

\* The loop of Translate over the TLB.
TLBHit(mm, v) == {i \in TLBSlots : mm.tlb[i].virtualPage = v}

\* -------------------------- AllocatePhysicalPage --------------------------

\* The old page of an occupied frame is written back to its owner's vSpace and
\* unmapped in its owner's table, and also in the table of the machine, even
\* if that belongs to another process.
SwapOutUnsaved(mm, ppn, spaceOf) ==
  LET old == mm.PhysicalPageTable[ppn]
      space == spaceOf[old.OwnerThread]
      vpn == old.VirtualPageNumber
  IN  IF old = NoOwner THEN mm
      ELSE [mm EXCEPT !.pageTable[space][vpn] = NoFrame,
                      !.pageTable[mm.machineTable][vpn] = NoFrame,
                      !.tlb = [i \in TLBSlots |-> IF @[i].physicalPage = ppn THEN NoMapping ELSE @[i]]]

SwapOut(mm, ppn, spaceOf) ==
  LET old == mm.PhysicalPageTable[ppn]
      space == spaceOf[old.OwnerThread]
      vpn == old.VirtualPageNumber
  IN  IF old = NoOwner THEN mm
      ELSE [mm EXCEPT
              !.vSpace[space][vpn] = mm.mainMemory[ppn],
              !.pageTable = [s \in Processes |->
                 IF s \in {space, mm.machineTable} THEN [@[s] EXCEPT ![vpn] = NoFrame]
                 ELSE @[s]],
              !.tlb = [i \in TLBSlots |->
                 IF @[i] = [virtualPage |-> vpn, physicalPage |-> ppn] THEN NoMapping
                 ELSE @[i]]]

SwapIn(mm, ppn, vpn, thread, space) ==
  [mm EXCEPT
     !.mainMemory[ppn] = mm.vSpace[space][vpn],
     !.PhysicalPageTable[ppn] = [OwnerThread |-> thread, VirtualPageNumber |-> vpn],
     !.frameHits = Touch(@, ppn),
     !.pageTable[mm.machineTable][vpn] = ppn]

FrameVictim(mm) ==
  Victim({i \in Frames : mm.PhysicalPageTable[i] = NoOwner}, mm.frameHits)

AllocatePhysicalPage(mm, vpn, thread, spaceOf) ==
  LET ppn == FrameVictim(mm)
  IN  SwapIn(SwapOut(mm, ppn, spaceOf), ppn, vpn, thread, spaceOf[thread])

\* Another process's page is unmapped in the machine's table by an eviction.
ForeignEviction(mm, spaceOf) ==
  LET ppn == FrameVictim(mm)
      old == mm.PhysicalPageTable[ppn]
  IN  old # NoOwner /\ mm.pageTable[mm.machineTable][old.VirtualPageNumber] \notin {NoFrame, ppn}

\* --------------------------------- LRU_TLB --------------------------------

TlbVictim(mm) == Victim({i \in TLBSlots : mm.tlb[i] = NoMapping}, mm.tlbHits)

\* The entry to be replaced goes back to the page table.
WriteBackEntry(mm, i) ==
  IF mm.tlb[i] = NoMapping THEN mm
  ELSE [mm EXCEPT !.pageTable[mm.machineTable][mm.tlb[i].virtualPage] = mm.tlb[i].physicalPage]

LRU_TLB(mm, vpn, thread, spaceOf) ==
  LET i == TlbVictim(mm)
      saved == WriteBackEntry(mm, i)
      mapped == IF saved.pageTable[saved.machineTable][vpn] # NoFrame THEN saved
                ELSE AllocatePhysicalPage(saved, vpn, thread, spaceOf)
  IN  [mapped EXCEPT !.tlb[i] =
         [virtualPage |-> vpn, physicalPage |-> mapped.pageTable[mapped.machineTable][vpn]]]

\* Translate, with the page fault taken first where there is no TLB entry, as
\* ReadMem and WriteMem do.
Translated(mm, vpn, thread, spaceOf) ==
  LET loaded == IF TLBHit(mm, vpn) # {} THEN mm ELSE LRU_TLB(mm, vpn, thread, spaceOf)
      i == CHOOSE i \in TLBHit(loaded, vpn) : \A j \in TLBHit(loaded, vpn) : i <= j
  IN  [loaded EXCEPT !.tlbHits = Touch(@, i),
                     !.frameHits = Touch(@, loaded.tlb[i].physicalPage)]

FrameOf(mm, vpn) ==
  mm.tlb[CHOOSE i \in TLBHit(mm, vpn) : \A j \in TLBHit(mm, vpn) : i <= j].physicalPage

FaultsOf(mm, vpn, spaceOf) ==
  LET saved == WriteBackEntry(mm, TlbVictim(mm))
  IN  IF TLBHit(mm, vpn) = {} /\ saved.pageTable[saved.machineTable][vpn] = NoFrame
         /\ ForeignEviction(saved, spaceOf)
      THEN {"foreignEviction"} ELSE {}

\* ------------------------------ the processes -----------------------------

OwnSpace == [p \in Processes |-> p]

ReadMem(v) ==
  LET mm == Translated(m, v, current, OwnSpace)
  IN  /\ state[current] = "live"
      /\ m' = mm
      /\ memoryFaults' = memoryFaults \cup FaultsOf(m, v, OwnSpace)
      /\ UNCHANGED <<state, caller, current, memory>>

WriteMem(v, value) ==
  LET mm == Translated(m, v, current, OwnSpace)
  IN  /\ state[current] = "live"
      /\ m' = [mm EXCEPT !.mainMemory[FrameOf(mm, v)] = value]
      /\ memory' = [memory EXCEPT ![current][v] = value]
      /\ memoryFaults' = memoryFaults \cup FaultsOf(m, v, OwnSpace)
      /\ UNCHANGED <<state, caller, current>>

\* SC_Fork and SC_Exec: the new thread is made ready; it starts when it is
\* first dispatched.
NewProcess(c, how) ==
  /\ state[current] = "live" /\ state[c] = "none"
  /\ state' = [state EXCEPT ![c] = how]
  /\ caller' = [caller EXCEPT ![c] = current]
  /\ UNCHANGED <<m, current, memory, memoryFaults>>

\* AddrSpace::SaveState of the thread that loses the processor.
SaveStateKeepsTLB(mm) ==
  [mm EXCEPT
     !.pageTable[mm.machineTable] =
        [v \in Pages |-> IF TLBHit(mm, v) = {} THEN @[v] ELSE FrameOf(mm, v)]]

SaveState(mm) ==
  [mm EXCEPT
     !.pageTable[mm.machineTable] =
        [v \in Pages |-> IF TLBHit(mm, v) = {} THEN @[v] ELSE FrameOf(mm, v)],
     !.tlb = [i \in TLBSlots |-> NoMapping]]

RestoreState(mm, p) == [mm EXCEPT !.machineTable = p]

\* ForkWrapper: a new space gets a copy of the caller's vSpace.
ForkWrapper(mm, p) ==
  RestoreState([mm EXCEPT !.pageTable[p] = Unmapped, !.vSpace[p] = mm.vSpace[caller[p]]], p)

\* ExecWrapper reads the name from page v of the caller's space, through the
\* table the machine happens to have and as a page of the new thread; then a
\* new space replaces the caller's, and the TLB keeps its entries.
ExecName(mm, p, v) == Translated(mm, v, p, [OwnSpace EXCEPT ![p] = caller[p]])

ExecWrapper(mm, p, v, image) ==
  RestoreState(NewSpace(ExecName(mm, p, v), p, image), p)

\* Scheduler::Run(p), and what runs first in p.
Run(p) ==
  LET saved == SaveState(m)
  IN  /\ p # current
      /\ current' = p
      /\ \/ /\ state[p] = "live"
            /\ m' = RestoreState(saved, p)
            /\ UNCHANGED <<state, memory, memoryFaults>>
         \/ /\ state[p] = "forked"
            /\ m' = ForkWrapper(saved, p)
            /\ memory' = [memory EXCEPT ![p] = memory[caller[p]]]
            /\ state' = [state EXCEPT ![p] = "live"]
            /\ memoryFaults' = memoryFaults \cup IF saved.vSpace[caller[p]] = memory[caller[p]]
                                     THEN {} ELSE {"staleFork"}
         \/ /\ state[p] = "executed"
            /\ \E v \in Pages, image \in Images :
                 /\ m' = ExecWrapper(saved, p, v, image)
                 /\ memory' = [memory EXCEPT ![p] = image]
            /\ state' = [state EXCEPT ![p] = "live"]
            /\ memoryFaults' = memoryFaults \cup {"execLeftover"}
         \/ /\ state[p] = "executed"    \* there is no such program
            /\ \E v \in Pages : m' = ExecName(saved, p, v)
            /\ state' = [state EXCEPT ![p] = "dead"]
            /\ memoryFaults' = memoryFaults \cup {"execLeftover"}
            /\ UNCHANGED memory
      /\ UNCHANGED caller

\* SC_Exit: the frames of the valid entries of the machine's table are freed.
FreeFrames(mm) ==
  LET mapped == {mm.pageTable[mm.machineTable][v] : v \in Pages} \ {NoFrame}
  IN  [mm EXCEPT
         !.pageTable[mm.machineTable] = Unmapped,
         !.PhysicalPageTable = [f \in Frames |-> IF f \in mapped THEN NoOwner ELSE @[f]]]

Exit ==
  /\ state[current] = "live"
  /\ m' = FreeFrames(m)
  /\ state' = [state EXCEPT ![current] = "dead"]
  /\ UNCHANGED <<caller, current, memory, memoryFaults>>

\* Initialize, and StartProcess of the root program with any image.
MemoryInit ==
  /\ \E image \in Images :
       /\ memory = [p \in Processes |-> image]
       /\ m = [pageTable |-> [p \in Processes |-> Unmapped],
               vSpace |-> [p \in Processes |-> image],
               machineTable |-> Root,
               tlb |-> [i \in TLBSlots |-> NoMapping], tlbHits |-> <<>>,
               PhysicalPageTable |-> AllFree, frameHits |-> <<>>,
               mainMemory |-> [f \in Frames |-> CHOOSE x \in Values : TRUE]]
  /\ state = [p \in Processes |-> IF p = Root THEN "live" ELSE "none"]
  /\ caller = [p \in Processes |-> NoProcess]
  /\ current = Root
  /\ memoryFaults = {}

MemoryNext ==
  \/ \E v \in Pages : ReadMem(v)
  \/ \E v \in Pages, value \in Values : WriteMem(v, value)
  \/ \E c \in Processes, how \in {"forked", "executed"} : NewProcess(c, how)
  \/ \E p \in Processes : Run(p)
  \/ Exit

MemorySpec == MemoryInit /\ [][MemoryNext]_memoryVars
------------------------------------------------------------------------------
Live == {p \in Processes : state[p] = "live"}
MemorySound == memoryFaults = {}

\* The machine, the processes and the faults have their types; the order of
\* use lists a TLB slot and a frame at most once.
MemoryTypeOK ==
  /\ m \in MachineType
  /\ NoDuplicates(m.tlbHits) /\ NoDuplicates(m.frameHits)
  /\ memory \in [Processes -> [Pages -> Values]]
  /\ caller \in [Processes -> Processes \cup {NoProcess}] /\ current \in Processes
  /\ state \in [Processes -> {"none", "forked", "executed", "live", "dead"}]
  /\ memoryFaults \subseteq {"foreignEviction", "execLeftover", "staleFork"}

\* What process p would read from page v.
Visible(p, v) ==
  IF p = current /\ TLBHit(m, v) # {} THEN m.mainMemory[FrameOf(m, v)]
  ELSE IF m.pageTable[p][v] # NoFrame THEN m.mainMemory[m.pageTable[p][v]]
  ELSE m.vSpace[p][v]

\* Every process sees the value it last wrote to each page, whatever was
\* evicted, reloaded, switched or freed in between.  A forked process starts
\* with a copy of its parent's pages, as CopyFrom makes it.
MemoryPrivate == MemorySound => \A p \in Live : \A v \in Pages : Visible(p, v) = memory[p][v]

\* syscall.h:129-131: Fork runs a procedure "in the *same* address space as the
\* current thread": while both live, a thread and the thread it forked see the
\* same value in every page.
ForkSharesMemory ==
  MemorySound => \A p \in Live : caller[p] \in Live =>
    \A v \in Pages : Visible(p, v) = Visible(caller[p], v)

\* A frame serves one page of one process, and PhysicalPageTable says which; a
\* frame in use belongs to a live process, so Exit leaks none.
FramesExclusive ==
  MemorySound => \A f \in Frames :
    LET o == m.PhysicalPageTable[f]
        users == {u \in Live \X Pages : m.pageTable[u[1]][u[2]] = f}
    IN  IF o = NoOwner THEN users = {}
        ELSE o.OwnerThread \in Live /\ users = {<<o.OwnerThread, o.VirtualPageNumber>>}

\* Machine::TLB_PageTable_check: a TLB entry agrees with the page table of the
\* running process and names a frame in use.
TLBAgrees ==
  MemorySound /\ state[current] = "live" => \A i \in TLBSlots : m.tlb[i] # NoMapping =>
    /\ m.machineTable = current
    /\ m.pageTable[current][m.tlb[i].virtualPage] = m.tlb[i].physicalPage
    /\ m.PhysicalPageTable[m.tlb[i].physicalPage].VirtualPageNumber = m.tlb[i].virtualPage
    /\ TLBHit(m, m.tlb[i].virtualPage) = {i}

\* Page tables, TLB and PhysicalPageTable describe one mapping.
MappingsExact == MemoryTypeOK /\ FramesExclusive /\ TLBAgrees
==============================================================================
