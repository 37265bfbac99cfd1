------------------------ MODULE VirtualMemoryProofs ------------------------
(***************************************************************************)
(* Each process sees the memory it wrote, and the page tables, the TLB and *)
(* the table of frames describe one mapping, for every number of           *)
(* processes, pages, frames and TLB entries.                               *)
(***************************************************************************)
EXTENDS VirtualMemory, NachosListProofs

\* ------------------------- the inductive invariant -------------------------

Mapping == [virtualPage : Pages, physicalPage : Frames]
Owner == [OwnerThread : Processes, VirtualPageNumber : Pages]

\* What holds of the machine even after a fault: entries are whole, and every
\* slot and frame in use was hit, so that the least recently used one exists.
\* A slot in `fresh` is being loaded and may not have been hit yet.
WellFormedBut(mm, fresh) ==
  /\ NatWellOrdered
  /\ mm \in MachineType
  /\ mm.tlb \in [TLBSlots -> Mapping \cup {NoMapping}]
  /\ mm.PhysicalPageTable \in [Frames -> Owner \cup {NoOwner}]
  /\ NoDuplicates(mm.tlbHits) /\ NoDuplicates(mm.frameHits)
  /\ \A i \in TLBSlots : mm.tlb[i] # NoMapping => i \in Items(mm.tlbHits) \cup fresh
  /\ \A f \in Frames : mm.PhysicalPageTable[f] # NoOwner => f \in Items(mm.frameHits)

WellFormed(mm) == WellFormedBut(mm, {})

\* The PhysicalPageTable entry of a frame that holds page v of process p.
OwnedBy(p, v) == [OwnerThread |-> p, VirtualPageNumber |-> v]

\* The page tables of the processes in `live` and PhysicalPageTable are
\* inverses.
TablesAgree(tables, owners, live) ==
  /\ \A p \in live, v \in Pages : tables[p][v] # NoFrame =>
       owners[tables[p][v]] = OwnedBy(p, v)
  /\ \A f \in Frames : owners[f] # NoOwner =>
       /\ owners[f].OwnerThread \in live
       /\ tables[owners[f].OwnerThread][owners[f].VirtualPageNumber] = f

\* A page of a live process is in its frame, or else in its vSpace.
Contents(tables, ram, disk, live, mem) ==
  \A p \in live, v \in Pages :
    mem[p][v] = IF tables[p][v] # NoFrame THEN ram[tables[p][v]] ELSE disk[p][v]

\* The TLB caches the table of the process that runs, each page once.
TlbCaches(tlb, table) ==
  /\ \A i \in TLBSlots : tlb[i] # NoMapping => table[tlb[i].virtualPage] = tlb[i].physicalPage
  /\ \A i, j \in TLBSlots :
       tlb[i] # NoMapping /\ tlb[i].virtualPage = tlb[j].virtualPage => i = j

Exact(mm, c, live, mem) ==
  /\ mm.machineTable = c
  /\ TablesAgree(mm.pageTable, mm.PhysicalPageTable, live)
  /\ Contents(mm.pageTable, mm.mainMemory, mm.vSpace, live, mem)
  /\ c \in live => TlbCaches(mm.tlb, mm.pageTable[c])

MemoryInv ==
  /\ MemoryTypeOK /\ WellFormed(m)
  /\ \A p \in Processes : state[p] \in {"forked", "executed"} => caller[p] \in Processes
  /\ MemorySound => Exact(m, current, Live, memory)

\* The two directions of TablesAgree, for a page and for a frame.
LEMMA OwnedByFields ==
  /\ \A p, v : OwnedBy(p, v).OwnerThread = p /\ OwnedBy(p, v).VirtualPageNumber = v
  /\ \A p \in Processes : \A v : OwnedBy(p, v) # NoOwner
<1>1. \A p, v : OwnedBy(p, v).OwnerThread = p /\ OwnedBy(p, v).VirtualPageNumber = v
  BY Zenon DEF OwnedBy
<1>2. NoOwner.OwnerThread \notin Processes
  BY MemoryConstants, Zenon DEF NoOwner
<1> QED
  BY <1>1, <1>2, Zenon

LEMMA PageOfFrame ==
  ASSUME NEW mm, WellFormed(mm), NEW c, NEW live, NEW mem, Exact(mm, c, live, mem),
         NEW f \in Frames, mm.PhysicalPageTable[f] # NoOwner
  PROVE  /\ mm.PhysicalPageTable[f].OwnerThread \in live
         /\ mm.PhysicalPageTable[f].VirtualPageNumber \in Pages
         /\ mm.pageTable[mm.PhysicalPageTable[f].OwnerThread]
                        [mm.PhysicalPageTable[f].VirtualPageNumber] = f
<1>1. mm.PhysicalPageTable[f] \in Owner
  BY Zenon DEF WellFormed, WellFormedBut
<1>2. mm.PhysicalPageTable[f].VirtualPageNumber \in Pages
  BY <1>1, Zenon DEF Owner
<1> QED
  BY <1>2, Zenon DEF Exact, TablesAgree

\* ------------------------ least recently used indices ----------------------

\* LastHitTime of an index that is hit (translate.cc): no index is lost, none
\* is listed twice.
LEMMA TouchKeeps ==
  ASSUME NEW S, NEW order \in Seq(S), NoDuplicates(order), NEW i \in S
  PROVE  /\ Touch(order, i) \in Seq(S)
         /\ NoDuplicates(Touch(order, i))
         /\ Items(Touch(order, i)) = Items(order) \cup {i}
<1> DEFINE rest == IF i \in Items(order) THEN RemoveItem(order, i) ELSE order
<1>1. rest \in Seq(S) /\ NoDuplicates(rest) /\ Items(rest) = Items(order) \ {i}
  <2>1. CASE i \in Items(order)
    <3> DEFINE key == [x \in S |-> 0]
    <3>1. key \in [S -> Int]
      OBVIOUS
    <3> HIDE DEF key
    <3> QED
      BY <2>1, <3>1, RemoveItemItems
  <2> QED
    BY <2>1, Zenon
<1> HIDE DEF rest
<1>2. Touch(order, i) = Append(rest, i)
  BY Zenon DEF Touch, rest
<1> QED
  BY <1>1, <1>2, AppendNew

\* The index to reuse exists: when none is unused, the order of use is not
\* empty (LRU_TLB and AllocatePhysicalPage choose among all indices).
LEMMA VictimFound ==
  ASSUME NEW n \in Nat \ {0}, NEW unused \in SUBSET (0 .. n - 1),
         NEW order \in Seq(0 .. n - 1),
         \A i \in 0 .. n - 1 : i \notin unused => i \in Items(order), NatWellOrdered
  PROVE  Victim(unused, order) \in 0 .. n - 1
<1>1. CASE unused = {}
  <2>1. 0 \in Items(order)
    BY <1>1
  <2>2. order # <<>>
    BY <2>1 DEF Items
  <2> QED
    BY <1>1, <2>2 DEF Victim
<1>2. CASE unused # {}
  <2>1. \E i \in unused : \A j \in unused : i <= j
    <3>1. unused \in SUBSET Nat
      OBVIOUS
    <3> QED
      BY <1>2, <3>1, Zenon DEF NatWellOrdered
  <2>2. Victim(unused, order) \in unused
    BY <1>2, <2>1, Zenon DEF Victim
  <2> QED
    BY <2>2, Zenon
<1> QED
  BY <1>1, <1>2, Zenon

\* ------------------------- the steps of a page fault -----------------------

\* What SwapOut of an occupied frame gives.
SwappedOut(mm, ppn, spaceOf, r) ==
  LET space == spaceOf[mm.PhysicalPageTable[ppn].OwnerThread]
      vpn == mm.PhysicalPageTable[ppn].VirtualPageNumber
  IN  /\ space \in Processes /\ vpn \in Pages
      /\ r \in MachineType
      /\ r.machineTable = mm.machineTable /\ r.tlbHits = mm.tlbHits
      /\ r.frameHits = mm.frameHits /\ r.mainMemory = mm.mainMemory
      /\ r.PhysicalPageTable = mm.PhysicalPageTable
      /\ r.vSpace = [mm.vSpace EXCEPT ![space][vpn] = mm.mainMemory[ppn]]
      /\ r.pageTable = [s \in Processes |->
           IF s \in {space, mm.machineTable} THEN [mm.pageTable[s] EXCEPT ![vpn] = NoFrame]
           ELSE mm.pageTable[s]]
      /\ r.tlb = [i \in TLBSlots |->
           IF mm.tlb[i] = [virtualPage |-> vpn, physicalPage |-> ppn] THEN NoMapping
           ELSE mm.tlb[i]]

\* AllocatePhysicalPage writes the old page back and unmaps it.
LEMMA SwapOutEffect ==
  ASSUME NEW mm, WellFormed(mm), NEW ppn \in Frames,
         NEW spaceOf \in [Processes -> Processes], mm.PhysicalPageTable[ppn] # NoOwner
  PROVE  SwappedOut(mm, ppn, spaceOf, SwapOut(mm, ppn, spaceOf))
<1> DEFINE space == spaceOf[mm.PhysicalPageTable[ppn].OwnerThread]
           vpn == mm.PhysicalPageTable[ppn].VirtualPageNumber
           r == SwapOut(mm, ppn, spaceOf)
           vs == [mm.vSpace EXCEPT ![space][vpn] = mm.mainMemory[ppn]]
           pt == [s \in Processes |->
                  IF s \in {space, mm.machineTable} THEN [mm.pageTable[s] EXCEPT ![vpn] = NoFrame]
                  ELSE mm.pageTable[s]]
           tb == [i \in TLBSlots |->
                  IF mm.tlb[i] = [virtualPage |-> vpn, physicalPage |-> ppn] THEN NoMapping
                  ELSE mm.tlb[i]]
<1>1. mm \in MachineType /\ mm.PhysicalPageTable[ppn] \in Owner
  BY Zenon DEF WellFormed, WellFormedBut
<1>2. space \in Processes /\ vpn \in Pages
  BY <1>1, Zenon DEF Owner
<1>3. r = [mm EXCEPT !.vSpace = vs, !.pageTable = pt, !.tlb = tb]
  BY <1>1, <1>2, Zenon DEF SwapOut, MachineType
<1> HIDE DEF r, vs, pt, tb, space, vpn
<1>4. vs \in [Processes -> [Pages -> Values]]
  BY <1>1, <1>2, Zenon DEF vs, MachineType
<1>5. pt \in [Processes -> [Pages -> Frames \cup {NoFrame}]]
  BY <1>1, <1>2, Zenon DEF pt, MachineType
<1>6. tb \in [TLBSlots -> [virtualPage : Pages \cup {NoFrame},
                           physicalPage : Frames \cup {NoFrame}]]
  BY <1>1, Zenon DEF tb, MachineType, NoMapping
<1>7. r \in MachineType
  BY <1>1, <1>3, <1>4, <1>5, <1>6, Zenon DEF MachineType
<1>8. /\ r.machineTable = mm.machineTable /\ r.tlbHits = mm.tlbHits
      /\ r.frameHits = mm.frameHits /\ r.mainMemory = mm.mainMemory
      /\ r.PhysicalPageTable = mm.PhysicalPageTable
      /\ r.vSpace = vs /\ r.pageTable = pt /\ r.tlb = tb
  BY <1>1, <1>3, Zenon DEF MachineType
<1> QED
  BY <1>2, <1>7, <1>8, Zenon DEF r, vs, pt, tb, space, vpn, SwappedOut

LEMMA SwapOutWellFormed ==
  ASSUME NEW mm, WellFormed(mm), NEW ppn \in Frames, NEW spaceOf \in [Processes -> Processes]
  PROVE  WellFormed(SwapOut(mm, ppn, spaceOf))
<1>1. CASE mm.PhysicalPageTable[ppn] = NoOwner
  BY <1>1, Zenon DEF SwapOut
<1>2. CASE mm.PhysicalPageTable[ppn] # NoOwner
  <2> DEFINE r == SwapOut(mm, ppn, spaceOf)
  <2>1. SwappedOut(mm, ppn, spaceOf, r)
    BY <1>2, SwapOutEffect, Zenon
  <2> HIDE DEF r
  <2>2. r.tlb \in [TLBSlots -> Mapping \cup {NoMapping}]
    <3>1. /\ mm.tlb \in [TLBSlots -> Mapping \cup {NoMapping}] /\ r \in MachineType
          /\ \A i \in TLBSlots : r.tlb[i] \in {mm.tlb[i], NoMapping}
      BY <2>1, Zenon DEF WellFormed, WellFormedBut, SwappedOut
    <3>2. r.tlb = [i \in TLBSlots |-> r.tlb[i]]
      BY <3>1, Zenon DEF MachineType
    <3>3. \A i \in TLBSlots : r.tlb[i] \in Mapping \cup {NoMapping}
      BY <3>1, Zenon
    <3> QED
      BY <3>2, <3>3, Zenon
  <2>3. \A i \in TLBSlots : r.tlb[i] # NoMapping => mm.tlb[i] # NoMapping
    BY <2>1, Zenon DEF SwappedOut
  <2> QED
    BY <2>1, <2>2, <2>3, Zenon DEF WellFormed, WellFormedBut, r, SwappedOut
<1> QED
  BY <1>1, <1>2, Zenon

\* What SwapIn gives.
SwappedIn(mm, ppn, vpn, thread, space, r) ==
  /\ r.machineTable = mm.machineTable /\ r.tlbHits = mm.tlbHits
  /\ r.tlb = mm.tlb /\ r.vSpace = mm.vSpace
  /\ r.mainMemory = [mm.mainMemory EXCEPT ![ppn] = mm.vSpace[space][vpn]]
  /\ r.PhysicalPageTable = [mm.PhysicalPageTable EXCEPT ![ppn] =
                              OwnedBy(thread, vpn)]
  /\ r.frameHits = Touch(mm.frameHits, ppn)
  /\ r.pageTable = [mm.pageTable EXCEPT ![mm.machineTable][vpn] = ppn]

\* AllocatePhysicalPage copies the new page in and maps it.
LEMMA SwapInEffect ==
  ASSUME NEW mm, WellFormed(mm), NEW ppn \in Frames, NEW vpn \in Pages,
         NEW thread \in Processes, NEW space \in Processes
  PROVE  /\ WellFormed(SwapIn(mm, ppn, vpn, thread, space))
         /\ SwappedIn(mm, ppn, vpn, thread, space, SwapIn(mm, ppn, vpn, thread, space))
<1> DEFINE r == SwapIn(mm, ppn, vpn, thread, space)
           mem == [mm.mainMemory EXCEPT ![ppn] = mm.vSpace[space][vpn]]
           own == [mm.PhysicalPageTable EXCEPT ![ppn] =
                     OwnedBy(thread, vpn)]
           hits == Touch(mm.frameHits, ppn)
           pt == [mm.pageTable EXCEPT ![mm.machineTable][vpn] = ppn]
<1>1. mm \in MachineType
  BY Zenon DEF WellFormed, WellFormedBut
<1>2. r = [mm EXCEPT !.mainMemory = mem, !.PhysicalPageTable = own, !.frameHits = hits,
                     !.pageTable = pt]
  BY <1>1, Zenon DEF SwapIn, MachineType, OwnedBy
<1>3. mem \in [Frames -> Values]
  BY <1>1 DEF MachineType
<1>4. own \in [Frames -> Owner \cup {NoOwner}]
  <2>1. OwnedBy(thread, vpn) \in Owner
    BY Zenon DEF OwnedBy, Owner
  <2> QED
    BY <2>1, Zenon DEF WellFormed, WellFormedBut
<1>5. own \in [Frames -> [OwnerThread : Processes \cup {NoProcess},
                          VirtualPageNumber : Pages \cup {NoFrame}]]
  <2>1. OwnedBy(thread, vpn) \in [OwnerThread : Processes \cup {NoProcess},
                                 VirtualPageNumber : Pages \cup {NoFrame}]
    BY Zenon DEF OwnedBy
  <2> QED
    BY <1>1, <2>1, Zenon DEF MachineType
<1>6. hits \in Seq(Frames) /\ NoDuplicates(hits) /\ Items(hits) = Items(mm.frameHits) \cup {ppn}
  BY <1>1, TouchKeeps DEF WellFormed, WellFormedBut, MachineType
<1>7. pt \in [Processes -> [Pages -> Frames \cup {NoFrame}]]
  BY <1>1, Zenon DEF MachineType
<1>8. \A f \in Frames : own[f] # NoOwner => f \in Items(hits)
  BY <1>1, <1>6, Zenon DEF WellFormed, WellFormedBut, MachineType
<1> HIDE DEF r, mem, own, hits, pt
<1>9. /\ r \in MachineType
      /\ r.machineTable = mm.machineTable /\ r.tlbHits = mm.tlbHits
      /\ r.tlb = mm.tlb /\ r.vSpace = mm.vSpace
      /\ r.mainMemory = mem /\ r.PhysicalPageTable = own /\ r.frameHits = hits
      /\ r.pageTable = pt
  BY <1>1, <1>2, <1>3, <1>5, <1>6, <1>7, Zenon DEF MachineType
<1>10. WellFormed(r)
  BY <1>4, <1>6, <1>8, <1>9, Zenon DEF WellFormed, WellFormedBut
<1> QED
  BY <1>9, <1>10, Zenon DEF r, mem, own, hits, pt, SwappedIn

\* AllocatePhysicalPage finds a frame.
LEMMA FrameVictimFound ==
  ASSUME NEW mm, WellFormed(mm)
  PROVE  FrameVictim(mm) \in Frames
BY VictimFound, MemoryConstants, Zenon DEF WellFormed, WellFormedBut, MachineType, FrameVictim, Frames

\* LRU_TLB finds a slot.
LEMMA TlbVictimFound ==
  ASSUME NEW mm, WellFormed(mm)
  PROVE  TlbVictim(mm) \in TLBSlots
BY VictimFound, MemoryConstants, Zenon DEF WellFormed, WellFormedBut, MachineType, TlbVictim, TLBSlots

LEMMA AllocateWellFormed ==
  ASSUME NEW mm, WellFormed(mm), NEW vpn \in Pages, NEW thread \in Processes,
         NEW spaceOf \in [Processes -> Processes]
  PROVE  LET r == AllocatePhysicalPage(mm, vpn, thread, spaceOf)
         IN  /\ WellFormed(r)
             /\ r.machineTable = mm.machineTable /\ r.tlbHits = mm.tlbHits
             /\ \A i \in TLBSlots : r.tlb[i] \in {NoMapping, mm.tlb[i]}
             /\ r.pageTable[mm.machineTable][vpn] \in Frames
<1> DEFINE ppn == FrameVictim(mm)
           out == SwapOut(mm, ppn, spaceOf)
           space == spaceOf[thread]
           r == SwapIn(out, ppn, vpn, thread, space)
<1>1. ppn \in Frames /\ space \in Processes
  BY FrameVictimFound, Zenon
<1> HIDE DEF ppn, space
<1>2. /\ WellFormed(out) /\ out.machineTable = mm.machineTable /\ out.tlbHits = mm.tlbHits
      /\ \A i \in TLBSlots : out.tlb[i] \in {NoMapping, mm.tlb[i]}
  <2>1. WellFormed(out)
    BY <1>1, SwapOutWellFormed, Zenon
  <2>2. CASE mm.PhysicalPageTable[ppn] = NoOwner
    BY <2>1, <2>2, Zenon DEF SwapOut
  <2>3. CASE mm.PhysicalPageTable[ppn] # NoOwner
    <3>1. SwappedOut(mm, ppn, spaceOf, out)
      BY <1>1, <2>3, SwapOutEffect, Zenon
    <3> QED
      BY <2>1, <3>1, Zenon DEF SwappedOut
  <2> QED
    BY <2>2, <2>3, Zenon
<1> HIDE DEF out
<1>3. WellFormed(r) /\ SwappedIn(out, ppn, vpn, thread, space, r)
  BY <1>1, <1>2, SwapInEffect, Zenon
<1>4. r.pageTable[mm.machineTable][vpn] \in Frames
  BY <1>1, <1>2, <1>3, SMTT(30) DEF WellFormed, WellFormedBut, MachineType, SwappedIn
<1>5. r = AllocatePhysicalPage(mm, vpn, thread, spaceOf)
  BY Zenon DEF AllocatePhysicalPage, ppn, out, space
<1> HIDE DEF r
<1> QED
  BY <1>2, <1>3, <1>4, <1>5, Zenon DEF SwappedIn

\* --------------------------------- LRU_TLB --------------------------------

\* The least slot that maps a page exists.
LEMMA LeastHit ==
  ASSUME NatWellOrdered, NEW hits \in SUBSET TLBSlots, hits # {}
  PROVE  (CHOOSE i \in hits : \A j \in hits : i <= j) \in hits
<1>1. hits \in SUBSET Nat
  BY DEF TLBSlots
<1> QED
  BY <1>1, Zenon DEF NatWellOrdered

WrittenBack(mm, i, r) ==
  /\ r.machineTable = mm.machineTable /\ r.tlbHits = mm.tlbHits
  /\ r.tlb = mm.tlb /\ r.vSpace = mm.vSpace /\ r.mainMemory = mm.mainMemory
  /\ r.PhysicalPageTable = mm.PhysicalPageTable /\ r.frameHits = mm.frameHits
  /\ mm.tlb[i] = NoMapping => r = mm
  /\ mm.tlb[i] # NoMapping =>
       r.pageTable = [mm.pageTable EXCEPT ![mm.machineTable][mm.tlb[i].virtualPage] =
                        mm.tlb[i].physicalPage]

\* LRU_TLB writes the entry it replaces back to the machine's table.
LEMMA WriteBackEffect ==
  ASSUME NEW mm, WellFormed(mm), NEW i \in TLBSlots
  PROVE  WellFormed(WriteBackEntry(mm, i)) /\ WrittenBack(mm, i, WriteBackEntry(mm, i))
<1> DEFINE r == WriteBackEntry(mm, i)
           pt == [mm.pageTable EXCEPT ![mm.machineTable][mm.tlb[i].virtualPage] =
                    mm.tlb[i].physicalPage]
<1>1. CASE mm.tlb[i] = NoMapping
  BY <1>1, Zenon DEF WriteBackEntry, WrittenBack
<1>2. CASE mm.tlb[i] # NoMapping
  <2>1. mm \in MachineType /\ mm.tlb[i] \in Mapping
    BY <1>2, Zenon DEF WellFormed, WellFormedBut
  <2>2. r = [mm EXCEPT !.pageTable = pt]
    BY <1>2, <2>1, Zenon DEF WriteBackEntry, MachineType
  <2>3. pt \in [Processes -> [Pages -> Frames \cup {NoFrame}]]
    BY <2>1, Zenon DEF MachineType, Mapping
  <2> HIDE DEF r, pt
  <2>4. /\ r \in MachineType
        /\ r.machineTable = mm.machineTable /\ r.tlbHits = mm.tlbHits
        /\ r.tlb = mm.tlb /\ r.vSpace = mm.vSpace /\ r.mainMemory = mm.mainMemory
        /\ r.PhysicalPageTable = mm.PhysicalPageTable /\ r.frameHits = mm.frameHits
        /\ r.pageTable = pt
    BY <2>1, <2>2, <2>3, Zenon DEF MachineType
  <2>5. WellFormed(r)
    BY <2>4, Zenon DEF WellFormed, WellFormedBut
  <2> QED
    BY <1>2, <2>4, <2>5, Zenon DEF WrittenBack, r, pt
<1> QED
  BY <1>1, <1>2, Zenon

\* The machine a miss loads the entry into.
Mapped(mm, vpn, thread, spaceOf) ==
  LET saved == WriteBackEntry(mm, TlbVictim(mm))
  IN  IF saved.pageTable[saved.machineTable][vpn] # NoFrame THEN saved
      ELSE AllocatePhysicalPage(saved, vpn, thread, spaceOf)

\* r is mm after page vpn was given a frame.
InFrame(mm, vpn, r) ==
  /\ WellFormed(r) /\ r.machineTable = mm.machineTable
  /\ \A i \in TLBSlots : r.tlb[i] \in {NoMapping, mm.tlb[i]}
  /\ r.pageTable[mm.machineTable][vpn] \in Frames

LEMMA MappedWellFormed ==
  ASSUME NEW mm, WellFormed(mm), NEW vpn \in Pages, NEW thread \in Processes,
         NEW spaceOf \in [Processes -> Processes]
  PROVE  InFrame(mm, vpn, Mapped(mm, vpn, thread, spaceOf))
<1> DEFINE i == TlbVictim(mm)
           saved == WriteBackEntry(mm, i)
           alloc == AllocatePhysicalPage(saved, vpn, thread, spaceOf)
           r == Mapped(mm, vpn, thread, spaceOf)
<1>1. WellFormed(saved) /\ WrittenBack(mm, i, saved)
  BY TlbVictimFound, WriteBackEffect, Zenon
<1>2. /\ WellFormed(alloc) /\ alloc.machineTable = saved.machineTable
      /\ \A j \in TLBSlots : alloc.tlb[j] \in {NoMapping, saved.tlb[j]}
      /\ alloc.pageTable[saved.machineTable][vpn] \in Frames
  <2> HIDE DEF saved
  <2> QED
    BY <1>1, AllocateWellFormed, Zenon
<1>3. r = IF saved.pageTable[saved.machineTable][vpn] # NoFrame THEN saved ELSE alloc
  BY Zenon DEF Mapped
<1> HIDE DEF saved, alloc, r, i
<1> SUFFICES InFrame(mm, vpn, r)
  BY Zenon DEF r
<1>4. CASE saved.pageTable[saved.machineTable][vpn] # NoFrame
  <2>1. saved.pageTable[saved.machineTable][vpn] \in Frames \cup {NoFrame}
    BY <1>1 DEF WellFormed, WellFormedBut, MachineType
  <2> QED
    BY <1>1, <1>3, <1>4, <2>1, Zenon DEF WrittenBack, InFrame
<1>5. CASE saved.pageTable[saved.machineTable][vpn] = NoFrame
  BY <1>1, <1>2, <1>3, <1>5, Zenon DEF WrittenBack, InFrame
<1> QED
  BY <1>4, <1>5, Zenon

\* r is md with page vpn loaded into slot i.
Loaded(md, i, vpn, r) ==
  /\ r.machineTable = md.machineTable /\ r.tlbHits = md.tlbHits
  /\ r.pageTable = md.pageTable /\ r.vSpace = md.vSpace /\ r.mainMemory = md.mainMemory
  /\ r.PhysicalPageTable = md.PhysicalPageTable /\ r.frameHits = md.frameHits
  /\ r.tlb = [md.tlb EXCEPT ![i] = [virtualPage |-> vpn,
                                    physicalPage |-> md.pageTable[md.machineTable][vpn]]]

\* LRU_TLB loads the page into one slot.
LEMMA LruEffect ==
  ASSUME NEW mm, WellFormed(mm), NEW vpn \in Pages, NEW thread \in Processes,
         NEW spaceOf \in [Processes -> Processes], TLBHit(mm, vpn) = {}
  PROVE  LET r == LRU_TLB(mm, vpn, thread, spaceOf)
         IN  /\ WellFormedBut(r, {TlbVictim(mm)})
             /\ Loaded(Mapped(mm, vpn, thread, spaceOf), TlbVictim(mm), vpn, r)
             /\ TLBHit(r, vpn) = {TlbVictim(mm)}
<1> DEFINE i == TlbVictim(mm)
           md == Mapped(mm, vpn, thread, spaceOf)
           r == LRU_TLB(mm, vpn, thread, spaceOf)
           entry == [virtualPage |-> vpn, physicalPage |-> md.pageTable[md.machineTable][vpn]]
           tb == [md.tlb EXCEPT ![i] = entry]
<1>1. i \in TLBSlots
  BY TlbVictimFound, Zenon
<1>2. /\ WellFormed(md) /\ md.machineTable = mm.machineTable
      /\ \A j \in TLBSlots : md.tlb[j] \in {NoMapping, mm.tlb[j]}
      /\ md.pageTable[mm.machineTable][vpn] \in Frames
  <2>1. InFrame(mm, vpn, md)
    BY MappedWellFormed, Zenon
  <2> HIDE DEF md
  <2> QED
    BY <2>1, Zenon DEF InFrame
<1>3. r = [md EXCEPT !.tlb[i] = entry]
  BY Zenon DEF LRU_TLB, Mapped
<1> HIDE DEF i, md, r
<1>4. md \in MachineType /\ entry \in Mapping
  BY <1>2, Zenon DEF WellFormed, WellFormedBut, Mapping
<1>5. r = [md EXCEPT !.tlb = tb]
  BY <1>3, <1>4, Zenon DEF MachineType
<1>6. tb \in [TLBSlots -> Mapping \cup {NoMapping}]
  BY <1>1, <1>2, <1>4, Zenon DEF WellFormed, WellFormedBut
<1>7. tb \in [TLBSlots -> [virtualPage : Pages \cup {NoFrame},
                           physicalPage : Frames \cup {NoFrame}]]
  BY <1>1, <1>4, Zenon DEF MachineType, Mapping
<1>8. \A j \in TLBSlots : /\ j # i => tb[j] = md.tlb[j]
                          /\ j = i => tb[j] = entry
  BY <1>1, <1>4, Zenon DEF MachineType
<1>9. \A j \in TLBSlots : tb[j].virtualPage = vpn <=> j = i
  <2> SUFFICES ASSUME NEW j \in TLBSlots, j # i PROVE md.tlb[j].virtualPage # vpn
    BY <1>8
  <2>1. mm.tlb[j].virtualPage # vpn
    BY Zenon DEF TLBHit
  <2>2. NoMapping.virtualPage # vpn
    BY MemoryConstants DEF NoMapping, NoFrame
  <2> QED
    BY <1>2, <2>1, <2>2, Zenon
<1> HIDE DEF entry, tb
<1>10. /\ r \in MachineType
       /\ r.machineTable = md.machineTable /\ r.tlbHits = md.tlbHits
       /\ r.pageTable = md.pageTable /\ r.vSpace = md.vSpace /\ r.mainMemory = md.mainMemory
       /\ r.PhysicalPageTable = md.PhysicalPageTable /\ r.frameHits = md.frameHits
       /\ r.tlb = tb
  BY <1>4, <1>5, <1>7, Zenon DEF MachineType
<1>11. WellFormedBut(r, {i})
  BY <1>2, <1>6, <1>8, <1>10, Zenon DEF WellFormed, WellFormedBut
<1>12. TLBHit(r, vpn) = {i}
  BY <1>1, <1>9, <1>10, Zenon DEF TLBHit
<1>13. Loaded(md, i, vpn, r)
  BY <1>10, Zenon DEF Loaded, tb, entry
<1> QED
  BY <1>11, <1>12, <1>13, Zenon DEF i, md, r

\* r is md after a hit in slot i.
HitIn(md, i, r) ==
  /\ r.machineTable = md.machineTable /\ r.pageTable = md.pageTable
  /\ r.vSpace = md.vSpace /\ r.mainMemory = md.mainMemory
  /\ r.PhysicalPageTable = md.PhysicalPageTable
  /\ r.tlb = md.tlb
  /\ i \in TLBSlots /\ r.tlb[i] \in Mapping

\* The machine in which Translate finds its hit.
Ready(mm, vpn, thread, spaceOf) ==
  IF TLBHit(mm, vpn) # {} THEN mm ELSE LRU_TLB(mm, vpn, thread, spaceOf)

\* Translate ends with a hit, whatever it had to load, and the machine stays
\* well formed.
LEMMA TranslatedEffect ==
  ASSUME NEW mm, WellFormed(mm), NEW vpn \in Pages, NEW thread \in Processes,
         NEW spaceOf \in [Processes -> Processes]
  PROVE  LET r == Translated(mm, vpn, thread, spaceOf)
         IN  /\ WellFormed(r)
             /\ \E i \in TLBHit(r, vpn) : HitIn(Ready(mm, vpn, thread, spaceOf), i, r)
<1> DEFINE md == Ready(mm, vpn, thread, spaceOf)
           i == CHOOSE i \in TLBHit(md, vpn) : \A j \in TLBHit(md, vpn) : i <= j
           r == Translated(mm, vpn, thread, spaceOf)
           f == md.tlb[i].physicalPage
           th == Touch(md.tlbHits, i)
           fh == Touch(md.frameHits, f)
<1>1. /\ NatWellOrdered /\ TLBHit(md, vpn) # {} /\ TLBHit(md, vpn) \in SUBSET TLBSlots
      /\ WellFormed(md) \/ \E k : WellFormedBut(md, {k}) /\ TLBHit(md, vpn) = {k}
  <2>1. NatWellOrdered /\ TLBHit(md, vpn) \in SUBSET TLBSlots
    BY Zenon DEF TLBHit, WellFormed, WellFormedBut
  <2>2. CASE TLBHit(mm, vpn) # {}
    <3>1. md = mm
      BY <2>2, Zenon DEF Ready
    <3> HIDE DEF md
    <3> QED
      BY <2>1, <2>2, <3>1, Zenon
  <2>3. CASE TLBHit(mm, vpn) = {}
    <3>1. md = LRU_TLB(mm, vpn, thread, spaceOf)
      BY <2>3, Zenon DEF Ready
    <3> HIDE DEF md
    <3> DEFINE lr == LRU_TLB(mm, vpn, thread, spaceOf)
    <3>3. WellFormedBut(lr, {TlbVictim(mm)}) /\ TLBHit(lr, vpn) = {TlbVictim(mm)}
      BY <2>3, LruEffect, Zenon
    <3> HIDE DEF lr
    <3>2. /\ WellFormedBut(md, {TlbVictim(mm)}) /\ TLBHit(md, vpn) = {TlbVictim(mm)}
      BY <3>1, <3>3, Zenon DEF lr
    <3> QED
      BY <2>1, <3>2, Zenon
  <2> QED
    BY <2>2, <2>3, Zenon
<1>2. r = [md EXCEPT !.tlbHits = Touch(@, i), !.frameHits = Touch(@, md.tlb[i].physicalPage)]
  BY Zenon DEF Translated, Ready
<1> HIDE DEF md, r
<1>4. i \in TLBHit(md, vpn)
  BY <1>1, LeastHit, Zenon
<1> HIDE DEF i
<1>3. WellFormedBut(md, {i})
  BY <1>1, <1>4, Zenon DEF WellFormed, WellFormedBut
<1>5. i \in TLBSlots /\ md.tlb[i].virtualPage = vpn
  BY <1>4, Zenon DEF TLBHit
<1>6. md \in MachineType /\ md.tlb[i] \in Mapping
  <2>1. md.tlb[i] # NoMapping
    BY <1>5, MemoryConstants DEF NoMapping, NoFrame
  <2> QED
    BY <1>3, <1>5, <2>1, Zenon DEF WellFormedBut
<1>7. f \in Frames
  BY <1>6, Zenon DEF Mapping
<1>8. /\ th \in Seq(TLBSlots) /\ NoDuplicates(th) /\ Items(th) = Items(md.tlbHits) \cup {i}
      /\ fh \in Seq(Frames) /\ NoDuplicates(fh) /\ Items(fh) = Items(md.frameHits) \cup {f}
  <2>1. md.tlbHits \in Seq(TLBSlots) /\ NoDuplicates(md.tlbHits)
    BY <1>3, <1>6, Zenon DEF WellFormedBut, MachineType
  <2>2. md.frameHits \in Seq(Frames) /\ NoDuplicates(md.frameHits)
    BY <1>3, <1>6, Zenon DEF WellFormedBut, MachineType
  <2> HIDE DEF f
  <2> QED
    BY <1>5, <1>7, <2>1, <2>2, TouchKeeps
<1>9. r = [md EXCEPT !.tlbHits = th, !.frameHits = fh]
  BY <1>2, <1>6, Zenon DEF MachineType
<1> HIDE DEF th, fh, f
<1>10. /\ r \in MachineType /\ r.tlbHits = th /\ r.frameHits = fh
       /\ r.machineTable = md.machineTable /\ r.pageTable = md.pageTable
       /\ r.vSpace = md.vSpace /\ r.mainMemory = md.mainMemory
       /\ r.PhysicalPageTable = md.PhysicalPageTable
       /\ r.tlb = md.tlb
  BY <1>6, <1>8, <1>9, Zenon DEF MachineType
<1>11. WellFormed(r)
  BY <1>3, <1>5, <1>8, <1>10, Zenon DEF WellFormed, WellFormedBut
<1>12. HitIn(md, i, r) /\ i \in TLBHit(r, vpn)
  BY <1>4, <1>5, <1>6, <1>10, Zenon DEF HitIn, TLBHit
<1> QED
  BY <1>11, <1>12, Zenon DEF md, r

\* ------------------ a page fault keeps the mapping exact -------------------

\* Where AllocatePhysicalPage leaves each page, frame and slot: the page in
\* frame ppn, if any, goes back to its owner's vSpace, and page vpn of process
\* c comes in.
Evicts(old, s, u) ==
  old # NoOwner /\ s = old.OwnerThread /\ u = old.VirtualPageNumber

Unmaps(old, c, s, u) ==
  old # NoOwner /\ s \in {old.OwnerThread, c} /\ u = old.VirtualPageNumber

Allocated(mm, ppn, vpn, c, r) ==
  LET old == mm.PhysicalPageTable[ppn]
  IN  /\ r.machineTable = mm.machineTable
      /\ \A s \in Processes, u \in Pages :
           /\ r.pageTable[s][u] = IF s = mm.machineTable /\ u = vpn THEN ppn
                                  ELSE IF Unmaps(old, mm.machineTable, s, u) THEN NoFrame
                                  ELSE mm.pageTable[s][u]
           /\ r.vSpace[s][u] = IF Evicts(old, s, u) THEN mm.mainMemory[ppn] ELSE mm.vSpace[s][u]
      /\ \A f \in Frames :
           /\ r.PhysicalPageTable[f] = IF f = ppn THEN OwnedBy(c, vpn) ELSE mm.PhysicalPageTable[f]
           /\ r.mainMemory[f] = IF f = ppn THEN r.vSpace[c][vpn] ELSE mm.mainMemory[f]
      /\ \A i \in TLBSlots :
           r.tlb[i] = IF /\ old # NoOwner
                         /\ mm.tlb[i] = [virtualPage |-> old.VirtualPageNumber,
                                         physicalPage |-> ppn]
                      THEN NoMapping ELSE mm.tlb[i]

LEMMA AllocateEffect ==
  ASSUME NEW mm, WellFormed(mm), NEW vpn \in Pages, NEW c \in Processes
  PROVE  Allocated(mm, FrameVictim(mm), vpn, c, AllocatePhysicalPage(mm, vpn, c, OwnSpace))
<1> DEFINE ppn == FrameVictim(mm)
           out == SwapOut(mm, ppn, OwnSpace)
           space == OwnSpace[c]
           r == SwapIn(out, ppn, vpn, c, space)
           old == mm.PhysicalPageTable[ppn]
<1>1. ppn \in Frames /\ space = c /\ OwnSpace \in [Processes -> Processes]
  BY FrameVictimFound, Zenon DEF OwnSpace
<1>2. r = AllocatePhysicalPage(mm, vpn, c, OwnSpace)
  BY Zenon DEF AllocatePhysicalPage
<1> SUFFICES Allocated(mm, ppn, vpn, c, r)
  BY <1>2, Zenon
<1> HIDE DEF ppn
<1>3. WellFormed(out)
  BY <1>1, SwapOutWellFormed, Zenon
<1>4. old = NoOwner => out = mm
  BY Zenon DEF SwapOut
<1>5. old # NoOwner => SwappedOut(mm, ppn, OwnSpace, out)
  BY <1>1, SwapOutEffect, Zenon
<1>6. old # NoOwner => OwnSpace[old.OwnerThread] = old.OwnerThread
  BY <1>1, Zenon DEF OwnSpace, WellFormed, WellFormedBut, Owner
<1> HIDE DEF out, space
<1>7. SwappedIn(out, ppn, vpn, c, c, r)
  BY <1>1, <1>3, SwapInEffect, Zenon
<1> HIDE DEF r
<1>8. mm \in MachineType /\ out \in MachineType
  BY <1>3, Zenon DEF WellFormed, WellFormedBut
<1>9. CASE old = NoOwner
  <2>1. \A s \in Processes, u \in Pages : ~Evicts(old, s, u) /\ ~Unmaps(old, mm.machineTable, s, u)
    BY <1>9, Zenon DEF Evicts, Unmaps
  <2> QED
    BY <1>1, <1>4, <1>7, <1>8, <1>9, <2>1, SMTT(30) DEF SwappedIn, Allocated, MachineType
<1>10. CASE old # NoOwner
  <2> DEFINE q == old.OwnerThread
             w == old.VirtualPageNumber
  <2>1. q \in Processes /\ w \in Pages
    BY <1>5, <1>6, <1>10, Zenon DEF SwappedOut
  <2>2. /\ out.machineTable = mm.machineTable
        /\ out.mainMemory = mm.mainMemory /\ out.PhysicalPageTable = mm.PhysicalPageTable
        /\ out.vSpace = [mm.vSpace EXCEPT ![q][w] = mm.mainMemory[ppn]]
        /\ out.pageTable = [s \in Processes |->
             IF s \in {q, mm.machineTable} THEN [mm.pageTable[s] EXCEPT ![w] = NoFrame]
             ELSE mm.pageTable[s]]
        /\ out.tlb = [i \in TLBSlots |->
             IF mm.tlb[i] = [virtualPage |-> w, physicalPage |-> ppn] THEN NoMapping
             ELSE mm.tlb[i]]
    BY <1>5, <1>6, <1>10, Zenon DEF SwappedOut
  <2> HIDE DEF q, w
  <2>7. /\ r.pageTable = [out.pageTable EXCEPT ![mm.machineTable][vpn] = ppn]
        /\ r.vSpace = out.vSpace /\ r.tlb = out.tlb
        /\ mm.machineTable \in Processes
        /\ mm.pageTable \in [Processes -> [Pages -> Frames \cup {NoFrame}]]
        /\ mm.vSpace \in [Processes -> [Pages -> Values]]
    BY <1>7, <1>8, <2>2, Zenon DEF SwappedIn, MachineType
  <2>3. r.machineTable = mm.machineTable
    BY <2>2, <1>7, Zenon DEF SwappedIn
  <2>4. \A s \in Processes, u \in Pages :
           /\ r.pageTable[s][u] = IF s = mm.machineTable /\ u = vpn THEN ppn
                                  ELSE IF s \in {q, mm.machineTable} /\ u = w THEN NoFrame
                                  ELSE mm.pageTable[s][u]
           /\ r.vSpace[s][u] = IF s = q /\ u = w THEN mm.mainMemory[ppn] ELSE mm.vSpace[s][u]
    <3> SUFFICES ASSUME NEW s \in Processes, NEW u \in Pages
                 PROVE  /\ r.pageTable[s][u] = IF s = mm.machineTable /\ u = vpn THEN ppn
                                  ELSE IF s \in {q, mm.machineTable} /\ u = w THEN NoFrame
                                  ELSE mm.pageTable[s][u]
                        /\ r.vSpace[s][u] = IF s = q /\ u = w THEN mm.mainMemory[ppn]
                                            ELSE mm.vSpace[s][u]
      BY Zenon
    <3>1. out.pageTable[s] = IF s \in {q, mm.machineTable}
                             THEN [mm.pageTable[s] EXCEPT ![w] = NoFrame]
                             ELSE mm.pageTable[s]
      BY <2>2, Zenon
    <3>2. out.pageTable[s][u] = IF s \in {q, mm.machineTable} /\ u = w THEN NoFrame
                                ELSE mm.pageTable[s][u]
      BY <2>7, <3>1
    <3>3. r.pageTable[s][u] = IF s = mm.machineTable /\ u = vpn THEN ppn
                              ELSE out.pageTable[s][u]
      <4>1. out.pageTable \in [Processes -> [Pages -> Frames \cup {NoFrame}]]
        BY <1>8, Zenon DEF MachineType
      <4> QED
        BY <2>7, <4>1
    <3>4. r.vSpace[s][u] = IF s = q /\ u = w THEN mm.mainMemory[ppn] ELSE mm.vSpace[s][u]
      BY <2>1, <2>2, <2>7, SMTT(30)
    <3> QED
      BY <3>2, <3>3, <3>4, Zenon
  <2>5. \A f \in Frames :
           /\ r.PhysicalPageTable[f] =
                IF f = ppn THEN OwnedBy(c, vpn)
                ELSE mm.PhysicalPageTable[f]
           /\ r.mainMemory[f] = IF f = ppn THEN r.vSpace[c][vpn] ELSE mm.mainMemory[f]
    BY <1>1, <1>7, <1>8, <2>2, SMTT(30) DEF SwappedIn, MachineType
  <2>6. \A i \in TLBSlots :
           r.tlb[i] = IF mm.tlb[i] = [virtualPage |-> w, physicalPage |-> ppn]
                      THEN NoMapping ELSE mm.tlb[i]
    BY <2>2, <2>7, SMTT(30)
  <2> QED
    BY <1>10, <2>3, <2>4, <2>5, <2>6, SMTT(30) DEF Allocated, Evicts, Unmaps, q, w
<1> QED
  BY <1>9, <1>10, Zenon

\* Under an exact mapping the entry that LRU_TLB writes back is in the table
\* already.
LEMMA WriteBackIdle ==
  ASSUME NEW mm, WellFormed(mm), NEW c \in Processes, mm.machineTable = c,
         TlbCaches(mm.tlb, mm.pageTable[c]), NEW i \in TLBSlots
  PROVE  WriteBackEntry(mm, i) = mm
<1>1. CASE mm.tlb[i] = NoMapping
  BY <1>1, Zenon DEF WriteBackEntry
<1>2. CASE mm.tlb[i] # NoMapping
  <2>1. mm \in MachineType /\ mm.tlb[i] \in Mapping
    BY <1>2, Zenon DEF WellFormed, WellFormedBut
  <2> DEFINE v == mm.tlb[i].virtualPage
             f == mm.tlb[i].physicalPage
  <2>2. v \in Pages /\ f \in Frames /\ mm.pageTable[c][v] = f
    BY <1>2, <2>1, Zenon DEF Mapping, TlbCaches
  <2>3. WriteBackEntry(mm, i) = [mm EXCEPT !.pageTable[mm.machineTable][v] = f]
    BY <1>2, Zenon DEF WriteBackEntry
  <2> HIDE DEF v, f
  <2>4. mm.pageTable = [mm.pageTable EXCEPT ![c][v] = f]
    BY <2>1, <2>2, Zenon DEF MachineType
  <2>5. [mm EXCEPT !.pageTable[mm.machineTable][v] = f]
          = [mm EXCEPT !.pageTable = [mm.pageTable EXCEPT ![c][v] = f]]
    BY <2>1, Zenon DEF MachineType
  <2>6. [mm EXCEPT !.pageTable = mm.pageTable] = mm
    BY <2>1, Zenon DEF MachineType
  <2> QED
    BY <2>3, <2>4, <2>5, <2>6, Zenon
<1> QED
  BY <1>1, <1>2, Zenon

\* A page fault of process c that evicts no other process's page from the
\* wrong table keeps tables, frames and contents exact.
LEMMA AllocateExact ==
  ASSUME NEW mm, WellFormed(mm), NEW live \in SUBSET Processes, NEW c \in live, NEW mem,
         Exact(mm, c, live, mem), NEW vpn \in Pages, NEW ppn \in Frames,
         mm.pageTable[c][vpn] = NoFrame,
         mm.PhysicalPageTable[ppn] # NoOwner =>
           mm.pageTable[c][mm.PhysicalPageTable[ppn].VirtualPageNumber] \in {NoFrame, ppn},
         NEW r, Allocated(mm, ppn, vpn, c, r)
  PROVE  Exact(r, c, live, mem)
<1> DEFINE old == mm.PhysicalPageTable[ppn]
           q == old.OwnerThread
           w == old.VirtualPageNumber
           used == old # NoOwner
<1>1. /\ mm \in MachineType /\ mm.machineTable = c /\ c \in Processes
      /\ used => q \in live /\ w \in Pages /\ mm.pageTable[q][w] = ppn
      /\ NoFrame \notin Frames /\ OwnedBy(c, vpn) # NoOwner
  <2>1. used => q \in live /\ w \in Pages /\ mm.pageTable[q][w] = ppn
    BY PageOfFrame, Zenon
  <2>2. NoFrame \notin Frames
    BY MemoryConstants DEF NoFrame, Frames
  <2>3. mm \in MachineType /\ mm.machineTable = c /\ c \in Processes
    BY Zenon DEF WellFormed, WellFormedBut, Exact
  <2>4. OwnedBy(c, vpn) # NoOwner
    BY <2>3, OwnedByFields, Zenon
  <2> QED
    BY <2>1, <2>2, <2>3, <2>4, Zenon
<1>2. \A p \in live, v \in Pages : mm.pageTable[p][v] = ppn => used /\ p = q /\ v = w
  <2> SUFFICES ASSUME NEW p \in live, NEW v \in Pages, mm.pageTable[p][v] = ppn
               PROVE  used /\ p = q /\ v = w
    BY Zenon
  <2>1. old = OwnedBy(p, v)
    BY <1>1, Zenon DEF Exact, TablesAgree
  <2>2. old # NoOwner
    BY <2>1, OwnedByFields, Zenon
  <2> QED
    BY <2>1, <2>2, SMT DEF OwnedBy
<1>3. used /\ c # q => mm.pageTable[c][w] = NoFrame
  BY <1>1, <1>2, Zenon
<1>4. \A s \in live, u \in Pages :
        /\ r.pageTable[s][u] = IF s = c /\ u = vpn THEN ppn
                               ELSE IF used /\ s = q /\ u = w THEN NoFrame
                               ELSE mm.pageTable[s][u]
        /\ r.vSpace[s][u] = IF used /\ s = q /\ u = w THEN mm.mainMemory[ppn]
                            ELSE mm.vSpace[s][u]
  <2> HIDE DEF old, q, w, used
  <2> TAKE s \in live, u \in Pages
  <2>1. r.pageTable[s][u] = IF s = c /\ u = vpn THEN ppn
                            ELSE IF used /\ s \in {q, c} /\ u = w THEN NoFrame
                            ELSE mm.pageTable[s][u]
    <3>1. s \in Processes /\ mm.machineTable = c
      BY <1>1, Zenon
    <3>2. r.pageTable[s][u] =
            IF s = mm.machineTable /\ u = vpn THEN ppn
            ELSE IF Unmaps(old, mm.machineTable, s, u) THEN NoFrame ELSE mm.pageTable[s][u]
      BY <3>1, Zenon DEF Allocated, old
    <3>3. Unmaps(old, mm.machineTable, s, u) <=> used /\ s \in {q, c} /\ u = w
      BY <3>1, Zenon DEF Unmaps, q, w, used
    <3> QED
      BY <3>1, <3>2, <3>3, Zenon
  <2>2. r.vSpace[s][u] = IF used /\ s = q /\ u = w THEN mm.mainMemory[ppn]
                         ELSE mm.vSpace[s][u]
    <3>1. s \in Processes
      BY <1>1, Zenon
    <3>2. r.vSpace[s][u] = IF Evicts(old, s, u) THEN mm.mainMemory[ppn] ELSE mm.vSpace[s][u]
      BY <3>1, Zenon DEF Allocated, old
    <3>3. Evicts(old, s, u) <=> used /\ s = q /\ u = w
      BY Zenon DEF Evicts, q, w, used
    <3> QED
      BY <3>2, <3>3, Zenon
  <2>3. r.pageTable[s][u] = IF s = c /\ u = vpn THEN ppn
                            ELSE IF used /\ s = q /\ u = w THEN NoFrame
                            ELSE mm.pageTable[s][u]
    BY <1>3, <2>1, Zenon
  <2> QED
    BY <2>2, <2>3, Zenon
<1>5. /\ r.machineTable = c
      /\ \A f \in Frames :
           /\ r.PhysicalPageTable[f] =
                IF f = ppn THEN OwnedBy(c, vpn)
                ELSE mm.PhysicalPageTable[f]
           /\ r.mainMemory[f] = IF f = ppn THEN r.vSpace[c][vpn] ELSE mm.mainMemory[f]
      /\ \A i \in TLBSlots :
           r.tlb[i] = IF used /\ mm.tlb[i] = [virtualPage |-> w, physicalPage |-> ppn]
                      THEN NoMapping ELSE mm.tlb[i]
  BY <1>1, Zenon DEF Allocated
<1>6. \A s \in live, u \in Pages : mm.pageTable[s][u] \in Frames \cup {NoFrame}
  BY <1>1 DEF MachineType
<1>7. ~(used /\ c = q /\ vpn = w)
  BY <1>1, Zenon
<1> HIDE DEF old, q, w, used
<1>8. TablesAgree(r.pageTable, r.PhysicalPageTable, live)
  <2>1. ASSUME NEW p \in live, NEW v \in Pages, r.pageTable[p][v] # NoFrame
        PROVE  r.PhysicalPageTable[r.pageTable[p][v]]
                 = OwnedBy(p, v)
    <3>1. CASE p = c /\ v = vpn
      <4>1. r.pageTable[p][v] = ppn
        BY <1>4, <3>1, Zenon
      <4>2. r.PhysicalPageTable[ppn] = OwnedBy(c, vpn)
        BY <1>5, Zenon
      <4> QED
        BY <3>1, <4>1, <4>2, Zenon
    <3>2. CASE ~(p = c /\ v = vpn)
      <4>1. r.pageTable[p][v] = mm.pageTable[p][v] /\ ~(used /\ p = q /\ v = w)
        BY <1>4, <2>1, <3>2, Zenon
      <4>2. mm.pageTable[p][v] \in Frames /\ mm.pageTable[p][v] # ppn
        BY <1>2, <1>6, <2>1, <4>1, Zenon
      <4>3. mm.PhysicalPageTable[mm.pageTable[p][v]]
              = OwnedBy(p, v)
        BY <2>1, <4>1, Zenon DEF Exact, TablesAgree
      <4> QED
        BY <1>5, <4>1, <4>2, <4>3, Zenon
    <3> QED
      BY <3>1, <3>2, Zenon
  <2>2. ASSUME NEW f \in Frames, r.PhysicalPageTable[f] # NoOwner
        PROVE  /\ r.PhysicalPageTable[f].OwnerThread \in live
               /\ r.pageTable[r.PhysicalPageTable[f].OwnerThread]
                             [r.PhysicalPageTable[f].VirtualPageNumber] = f
    <3>1. CASE f = ppn
      <4>1. r.PhysicalPageTable[f] = OwnedBy(c, vpn)
        BY <1>5, <3>1, Zenon
      <4>2. /\ r.PhysicalPageTable[f].OwnerThread = c
            /\ r.PhysicalPageTable[f].VirtualPageNumber = vpn
        BY <4>1, SMT DEF OwnedBy
      <4> QED
        BY <1>4, <3>1, <4>2, Zenon
    <3>2. CASE f # ppn
      <4> DEFINE p == mm.PhysicalPageTable[f].OwnerThread
                 v == mm.PhysicalPageTable[f].VirtualPageNumber
      <4>1. r.PhysicalPageTable[f] = mm.PhysicalPageTable[f]
        BY <1>5, <3>2, Zenon
      <4>2. p \in live /\ v \in Pages /\ mm.pageTable[p][v] = f
        <5>1. mm.PhysicalPageTable[f] \in Owner
          BY <2>2, <4>1, Zenon DEF WellFormed, WellFormedBut
        <5> QED
          BY <2>2, <4>1, <5>1, Zenon DEF Exact, TablesAgree, Owner
      <4> HIDE DEF p, v
      <4>3. ~(p = c /\ v = vpn) /\ ~(used /\ p = q /\ v = w)
        BY <1>1, <3>2, <4>2, Zenon DEF q, w, used, old
      <4>4. r.pageTable[p][v] = f
        BY <1>4, <4>2, <4>3, Zenon
      <4> QED
        BY <4>1, <4>2, <4>4, Zenon DEF p, v
    <3> QED
      BY <3>1, <3>2, Zenon
  <2> QED
    BY <2>1, <2>2, Zenon DEF TablesAgree
<1>9. Contents(r.pageTable, r.mainMemory, r.vSpace, live, mem)
  <2> SUFFICES ASSUME NEW p \in live, NEW v \in Pages
               PROVE  mem[p][v] = IF r.pageTable[p][v] # NoFrame
                                  THEN r.mainMemory[r.pageTable[p][v]]
                                  ELSE r.vSpace[p][v]
    BY Zenon DEF Contents
  <2>1. mem[p][v] = IF mm.pageTable[p][v] # NoFrame THEN mm.mainMemory[mm.pageTable[p][v]]
                    ELSE mm.vSpace[p][v]
    BY Zenon DEF Exact, Contents
  <2>2. CASE p = c /\ v = vpn
    <3>1. r.pageTable[p][v] = ppn /\ r.mainMemory[ppn] = r.vSpace[c][vpn]
      BY <1>4, <1>5, <2>2, Zenon
    <3>2. r.vSpace[c][vpn] = mm.vSpace[c][vpn]
      BY <1>4, <1>7, Zenon
    <3> QED
      BY <1>1, <2>1, <2>2, <3>1, <3>2, Zenon
  <2>3. CASE used /\ p = q /\ v = w
    <3>1. r.pageTable[p][v] = NoFrame /\ r.vSpace[p][v] = mm.mainMemory[ppn]
      BY <1>4, <1>7, <2>3, Zenon
    <3>2. mm.pageTable[p][v] = ppn
      BY <1>1, <2>3, Zenon DEF q, w, used, old
    <3> QED
      BY <1>1, <2>1, <3>1, <3>2, Zenon
  <2>4. CASE ~(p = c /\ v = vpn) /\ ~(used /\ p = q /\ v = w)
    <3>1. r.pageTable[p][v] = mm.pageTable[p][v] /\ r.vSpace[p][v] = mm.vSpace[p][v]
      BY <1>4, <2>4, Zenon
    <3>2. mm.pageTable[p][v] # ppn
      BY <1>2, <2>4, Zenon
    <3>3. mm.pageTable[p][v] # NoFrame =>
            r.mainMemory[mm.pageTable[p][v]] = mm.mainMemory[mm.pageTable[p][v]]
      BY <1>5, <1>6, <3>2, Zenon
    <3> QED
      BY <2>1, <3>1, <3>3, Zenon
  <2> QED
    BY <2>2, <2>3, <2>4, Zenon
<1>10. TlbCaches(r.tlb, r.pageTable[c])
  <2>1. TlbCaches(mm.tlb, mm.pageTable[c])
    BY Zenon DEF Exact
  <2>2. ASSUME NEW i \in TLBSlots, r.tlb[i] # NoMapping
        PROVE  /\ r.tlb[i] = mm.tlb[i] /\ mm.tlb[i] # NoMapping /\ mm.tlb[i] \in Mapping
               /\ r.pageTable[c][r.tlb[i].virtualPage] = r.tlb[i].physicalPage
    <3> DEFINE v == mm.tlb[i].virtualPage
               f == mm.tlb[i].physicalPage
    <3>1. /\ r.tlb[i] = mm.tlb[i] /\ mm.tlb[i] # NoMapping /\ mm.tlb[i] \in Mapping
          /\ ~(used /\ mm.tlb[i] = [virtualPage |-> w, physicalPage |-> ppn])
      BY <1>5, <2>2, SMTT(30) DEF WellFormed, WellFormedBut
    <3>2. v \in Pages /\ f \in Frames /\ mm.pageTable[c][v] = f
          /\ mm.tlb[i] = [virtualPage |-> v, physicalPage |-> f]
      BY <2>1, <3>1, Zenon DEF Mapping, TlbCaches
    <3> HIDE DEF v, f
    <3>3. v # vpn
      BY <1>1, <3>2, Zenon
    <3>4. ~(used /\ c = q /\ v = w)
      BY <1>1, <3>1, <3>2, Zenon DEF q, w, used, old
    <3>5. r.pageTable[c][v] = f
      BY <1>4, <3>2, <3>3, <3>4, Zenon
    <3> QED
      BY <3>1, <3>5, Zenon DEF v, f
  <2>3. ASSUME NEW i \in TLBSlots, NEW j \in TLBSlots, r.tlb[i] # NoMapping,
               r.tlb[i].virtualPage = r.tlb[j].virtualPage
        PROVE  i = j
    <3>1. r.tlb[i] = mm.tlb[i] /\ mm.tlb[i] # NoMapping /\ mm.tlb[i].virtualPage \in Pages
      BY <2>2, <2>3, Zenon DEF Mapping
    <3>2. r.tlb[j] # NoMapping
      BY <2>3, <3>1, MemoryConstants DEF NoMapping, NoFrame
    <3>3. r.tlb[j] = mm.tlb[j]
      BY <2>2, <3>2, Zenon
    <3> QED
      BY <2>1, <2>3, <3>1, <3>3, Zenon DEF TlbCaches
  <2> QED
    BY <2>2, <2>3, Zenon DEF TlbCaches
<1> QED
  BY <1>5, <1>8, <1>9, <1>10, Zenon DEF Exact

\* Translate by the running process c keeps the mapping exact unless it
\* records a fault, and ends with a TLB entry for the page.
LEMMA TranslatedExact ==
  ASSUME NEW mm, WellFormed(mm), NEW live \in SUBSET Processes, NEW c \in live, NEW mem,
         Exact(mm, c, live, mem), NEW vpn \in Pages, FaultsOf(mm, vpn, OwnSpace) = {}
  PROVE  Exact(Translated(mm, vpn, c, OwnSpace), c, live, mem)
<1> DEFINE i == TlbVictim(mm)
           md == Mapped(mm, vpn, c, OwnSpace)
           ready == Ready(mm, vpn, c, OwnSpace)
           r == Translated(mm, vpn, c, OwnSpace)
<1>1. OwnSpace \in [Processes -> Processes] /\ c \in Processes
  BY Zenon DEF OwnSpace
<1>2. i \in TLBSlots /\ mm.machineTable = c /\ TlbCaches(mm.tlb, mm.pageTable[c])
  BY TlbVictimFound, Zenon DEF Exact
<1>3. WriteBackEntry(mm, i) = mm
  BY <1>1, <1>2, WriteBackIdle, Zenon
<1>4. TLBHit(mm, vpn) = {} => Exact(md, c, live, mem)
  <2> SUFFICES ASSUME TLBHit(mm, vpn) = {} PROVE Exact(md, c, live, mem)
    BY Zenon
  <2>1. md = IF mm.pageTable[c][vpn] # NoFrame THEN mm
             ELSE AllocatePhysicalPage(mm, vpn, c, OwnSpace)
    BY <1>2, <1>3, Zenon DEF Mapped
  <2>2. CASE mm.pageTable[c][vpn] # NoFrame
    BY <2>1, <2>2, Zenon
  <2>3. CASE mm.pageTable[c][vpn] = NoFrame
    <3>1. ~ForeignEviction(mm, OwnSpace)
      BY <1>2, <1>3, <2>3, Zenon DEF FaultsOf
    <3> DEFINE ppn == FrameVictim(mm)
               alloc == AllocatePhysicalPage(mm, vpn, c, OwnSpace)
    <3>2. mm.PhysicalPageTable[ppn] # NoOwner =>
            mm.pageTable[c][mm.PhysicalPageTable[ppn].VirtualPageNumber] \in {NoFrame, ppn}
      BY <1>2, <3>1, Zenon DEF ForeignEviction
    <3>3. ppn \in Frames /\ Allocated(mm, ppn, vpn, c, alloc)
      BY <1>1, FrameVictimFound, AllocateEffect, Zenon
    <3> HIDE DEF ppn, alloc
    <3>4. Exact(alloc, c, live, mem)
      BY <2>3, <3>2, <3>3, AllocateExact, Zenon
    <3> QED
      BY <2>1, <2>3, <3>4, Zenon DEF alloc
  <2> QED
    BY <2>2, <2>3, Zenon
<1>5. Exact(ready, c, live, mem)
  <2>1. CASE TLBHit(mm, vpn) # {}
    BY <2>1, Zenon DEF Ready
  <2>2. CASE TLBHit(mm, vpn) = {}
    <3>1. ready = LRU_TLB(mm, vpn, c, OwnSpace)
      BY <2>2, Zenon DEF Ready
    <3>2. Exact(md, c, live, mem)
      BY <1>4, <2>2, Zenon
    <3>3. Loaded(md, i, vpn, ready)
      <4> HIDE DEF ready, md, i
      <4> DEFINE lr == LRU_TLB(mm, vpn, c, OwnSpace)
      <4>1. Loaded(Mapped(mm, vpn, c, OwnSpace), TlbVictim(mm), vpn, lr)
        BY <1>1, <2>2, LruEffect, Zenon
      <4> HIDE DEF lr
      <4> QED
        BY <3>1, <4>1, Zenon DEF lr, md, i
    <3>4. /\ WellFormed(md) /\ md.machineTable = c
          /\ \A j \in TLBSlots : md.tlb[j] \in {NoMapping, mm.tlb[j]}
          /\ md.pageTable[c][vpn] \in Frames
      <4>1. /\ WellFormed(md) /\ md.machineTable = mm.machineTable
            /\ \A j \in TLBSlots : md.tlb[j] \in {NoMapping, mm.tlb[j]}
            /\ md.pageTable[mm.machineTable][vpn] \in Frames
        <5>1. InFrame(mm, vpn, md)
          BY <1>1, MappedWellFormed, Zenon
        <5> HIDE DEF md
        <5> QED
          BY <5>1, Zenon DEF InFrame
      <4> HIDE DEF md
      <4> QED
        BY <1>2, <4>1, Zenon
    <3>5. \A j \in TLBSlots : md.tlb[j].virtualPage # vpn
      <4>1. \A j \in TLBSlots : mm.tlb[j].virtualPage # vpn
        BY <2>2, Zenon DEF TLBHit
      <4>2. NoMapping.virtualPage # vpn
        BY MemoryConstants DEF NoMapping, NoFrame
      <4> HIDE DEF md
      <4> QED
        BY <3>4, <4>1, <4>2, Zenon
    <3> HIDE DEF md, ready, i
    <3>6. /\ ready.machineTable = c /\ ready.pageTable = md.pageTable
          /\ ready.vSpace = md.vSpace /\ ready.mainMemory = md.mainMemory
          /\ ready.PhysicalPageTable = md.PhysicalPageTable
          /\ \A j \in TLBSlots :
               ready.tlb[j] = IF j = i THEN [virtualPage |-> vpn,
                                             physicalPage |-> md.pageTable[c][vpn]]
                              ELSE md.tlb[j]
      BY <1>2, <3>3, <3>4, SMTT(30) DEF Loaded, WellFormed, WellFormedBut, MachineType
    <3>7. /\ TablesAgree(ready.pageTable, ready.PhysicalPageTable, live)
          /\ Contents(ready.pageTable, ready.mainMemory, ready.vSpace, live, mem)
      BY <3>2, <3>6, Zenon DEF Exact
    <3>8. TlbCaches(ready.tlb, ready.pageTable[c])
      <4>1. TlbCaches(md.tlb, md.pageTable[c])
        BY <3>2, Zenon DEF Exact
      <4>2. \A j \in TLBSlots : ready.tlb[j] # NoMapping =>
              ready.pageTable[c][ready.tlb[j].virtualPage] = ready.tlb[j].physicalPage
        BY <3>6, <4>1, SMTT(30) DEF TlbCaches
      <4>3. ASSUME NEW j \in TLBSlots, NEW k \in TLBSlots, ready.tlb[j] # NoMapping,
                   ready.tlb[j].virtualPage = ready.tlb[k].virtualPage
            PROVE  j = k
        BY <3>5, <3>6, <4>1, <4>3, SMTT(30) DEF TlbCaches
      <4> QED
        BY <4>2, <4>3, Zenon DEF TlbCaches
    <3> QED
      BY <3>6, <3>7, <3>8, Zenon DEF Exact
  <2> QED
    BY <2>1, <2>2, Zenon
<1>6. PICK k \in TLBHit(r, vpn) : HitIn(ready, k, r)
  BY <1>1, TranslatedEffect, Zenon
<1> HIDE DEF ready, r
<1>7. Exact(r, c, live, mem)
  <2>1. /\ r.machineTable = ready.machineTable /\ r.pageTable = ready.pageTable
        /\ r.vSpace = ready.vSpace /\ r.mainMemory = ready.mainMemory
        /\ r.PhysicalPageTable = ready.PhysicalPageTable /\ r.tlb = ready.tlb
    BY <1>6, Zenon DEF HitIn
  <2>2. r.machineTable = c /\ TlbCaches(r.tlb, r.pageTable[c])
    BY <1>5, <2>1, Zenon DEF Exact
  <2>3. TablesAgree(r.pageTable, r.PhysicalPageTable, live)
    BY <1>5, <2>1, Zenon DEF Exact
  <2>4. Contents(r.pageTable, r.mainMemory, r.vSpace, live, mem)
    BY <1>5, <2>1, Zenon DEF Exact
  <2> QED
    BY <2>2, <2>3, <2>4, Zenon DEF Exact
<1> QED
  BY <1>7, Zenon DEF r

\* -------------------------------- switches ---------------------------------

\* A page with a TLB entry has a frame.
LEMMA FrameOfFound ==
  ASSUME NEW mm, WellFormed(mm), NEW v \in Pages, TLBHit(mm, v) # {}
  PROVE  /\ FrameOf(mm, v) \in Frames
         /\ \E i \in TLBSlots : /\ mm.tlb[i] # NoMapping /\ mm.tlb[i].virtualPage = v
                                /\ mm.tlb[i].physicalPage = FrameOf(mm, v)
<1> DEFINE i == CHOOSE i \in TLBHit(mm, v) : \A j \in TLBHit(mm, v) : i <= j
<1>1. NatWellOrdered /\ TLBHit(mm, v) \in SUBSET TLBSlots
  BY Zenon DEF TLBHit, WellFormed, WellFormedBut
<1>2. i \in TLBHit(mm, v)
  BY <1>1, LeastHit, Zenon
<1>3. FrameOf(mm, v) = mm.tlb[i].physicalPage
  BY Zenon DEF FrameOf
<1> HIDE DEF i
<1>4. i \in TLBSlots /\ mm.tlb[i].virtualPage = v
  BY <1>2, Zenon DEF TLBHit
<1>5. mm.tlb[i] # NoMapping
  BY <1>4, MemoryConstants DEF NoMapping, NoFrame
<1>6. mm.tlb[i] \in Mapping
  BY <1>4, <1>5, Zenon DEF WellFormed, WellFormedBut
<1> QED
  BY <1>3, <1>4, <1>5, <1>6, Zenon DEF Mapping

Saved(mm, r) ==
  /\ r.machineTable = mm.machineTable /\ r.tlbHits = mm.tlbHits
  /\ r.vSpace = mm.vSpace /\ r.mainMemory = mm.mainMemory
  /\ r.PhysicalPageTable = mm.PhysicalPageTable /\ r.frameHits = mm.frameHits
  /\ r.tlb = [i \in TLBSlots |-> NoMapping]
  /\ \A p \in Processes, v \in Pages :
       r.pageTable[p][v] = IF p = mm.machineTable /\ TLBHit(mm, v) # {} THEN FrameOf(mm, v)
                           ELSE mm.pageTable[p][v]

\* AddrSpace::SaveState saves the TLB in the machine's table and clears it.
LEMMA SaveStateEffect ==
  ASSUME NEW mm, WellFormed(mm)
  PROVE  WellFormed(SaveState(mm)) /\ Saved(mm, SaveState(mm))
<1> DEFINE r == SaveState(mm)
           table == [v \in Pages |-> IF TLBHit(mm, v) = {} THEN mm.pageTable[mm.machineTable][v]
                                     ELSE FrameOf(mm, v)]
           pt == [mm.pageTable EXCEPT ![mm.machineTable] = table]
           tb == [i \in TLBSlots |-> NoMapping]
<1>1. mm \in MachineType
  BY Zenon DEF WellFormed, WellFormedBut
<1>2. r = [mm EXCEPT !.pageTable = pt, !.tlb = tb]
  BY <1>1, Zenon DEF SaveState, MachineType
<1>3. \A v \in Pages : TLBHit(mm, v) # {} => FrameOf(mm, v) \in Frames
  BY FrameOfFound, Zenon
<1>4. table \in [Pages -> Frames \cup {NoFrame}]
  BY <1>1, <1>3 DEF MachineType
<1>5. \A v \in Pages : table[v] = IF TLBHit(mm, v) = {} THEN mm.pageTable[mm.machineTable][v]
                                  ELSE FrameOf(mm, v)
  BY Zenon
<1> HIDE DEF table
<1>6. pt \in [Processes -> [Pages -> Frames \cup {NoFrame}]]
  BY <1>1, <1>4, Zenon DEF MachineType
<1>7. \A p \in Processes : pt[p] = IF p = mm.machineTable THEN table ELSE mm.pageTable[p]
  BY <1>1, Zenon DEF MachineType
<1>8. /\ tb \in [TLBSlots -> [virtualPage : Pages \cup {NoFrame},
                              physicalPage : Frames \cup {NoFrame}]]
      /\ tb \in [TLBSlots -> Mapping \cup {NoMapping}]
      /\ \A i \in TLBSlots : tb[i] = NoMapping
  BY Zenon DEF NoMapping
<1> HIDE DEF r, pt, tb
<1>9. /\ r \in MachineType
      /\ r.machineTable = mm.machineTable /\ r.tlbHits = mm.tlbHits
      /\ r.vSpace = mm.vSpace /\ r.mainMemory = mm.mainMemory
      /\ r.PhysicalPageTable = mm.PhysicalPageTable /\ r.frameHits = mm.frameHits
      /\ r.tlb = tb /\ r.pageTable = pt
  BY <1>1, <1>2, <1>6, <1>8, Zenon DEF MachineType
<1>10. WellFormed(r)
  BY <1>8, <1>9, Zenon DEF WellFormed, WellFormedBut
<1>11. \A p \in Processes, v \in Pages :
         r.pageTable[p][v] = IF p = mm.machineTable /\ TLBHit(mm, v) # {} THEN FrameOf(mm, v)
                             ELSE mm.pageTable[p][v]
  BY <1>5, <1>7, <1>9, Zenon
<1>12. Saved(mm, r)
  BY <1>9, <1>11, Zenon DEF Saved, tb
<1> QED
  BY <1>10, <1>12, Zenon DEF r

\* A switch away from process c keeps the mapping exact: what the TLB held is
\* in the table.
LEMMA SaveExact ==
  ASSUME NEW mm, WellFormed(mm), NEW live \in SUBSET Processes, NEW c \in Processes, NEW mem,
         Exact(mm, c, live, mem)
  PROVE  Exact(SaveState(mm), c, live, mem)
<1> DEFINE r == SaveState(mm)
<1>1. Saved(mm, r)
  BY SaveStateEffect, Zenon
<1> HIDE DEF r
<1>2. mm.machineTable = c /\ (c \in live => TlbCaches(mm.tlb, mm.pageTable[c]))
  BY Zenon DEF Exact
<1>3. \A p \in live, v \in Pages : r.pageTable[p][v] = mm.pageTable[p][v]
  <2> SUFFICES ASSUME NEW p \in live, NEW v \in Pages, p = c, TLBHit(mm, v) # {}
               PROVE  FrameOf(mm, v) = mm.pageTable[p][v]
    BY <1>1, <1>2 DEF Saved
  <2>1. PICK i \in TLBSlots : /\ mm.tlb[i] # NoMapping /\ mm.tlb[i].virtualPage = v
                              /\ mm.tlb[i].physicalPage = FrameOf(mm, v)
    BY FrameOfFound, Zenon
  <2> QED
    BY <1>2, <2>1, Zenon DEF TlbCaches
<1>4. /\ r.machineTable = c /\ r.vSpace = mm.vSpace /\ r.mainMemory = mm.mainMemory
      /\ r.PhysicalPageTable = mm.PhysicalPageTable
      /\ \A i \in TLBSlots : r.tlb[i] = NoMapping
  BY <1>1, <1>2, Zenon DEF Saved
<1>5. TablesAgree(r.pageTable, r.PhysicalPageTable, live)
  <2>1. ASSUME NEW p \in live, NEW v \in Pages, r.pageTable[p][v] # NoFrame
        PROVE  r.PhysicalPageTable[r.pageTable[p][v]]
                 = OwnedBy(p, v)
    <3>1. r.pageTable[p][v] = mm.pageTable[p][v]
      BY <1>3, Zenon
    <3>2. mm.PhysicalPageTable[mm.pageTable[p][v]]
            = OwnedBy(p, v)
      BY <2>1, <3>1, Zenon DEF Exact, TablesAgree
    <3> QED
      BY <1>4, <3>1, <3>2, Zenon
  <2>2. ASSUME NEW f \in Frames, r.PhysicalPageTable[f] # NoOwner
        PROVE  /\ r.PhysicalPageTable[f].OwnerThread \in live
               /\ r.pageTable[r.PhysicalPageTable[f].OwnerThread]
                             [r.PhysicalPageTable[f].VirtualPageNumber] = f
    <3>1. mm.PhysicalPageTable[f] # NoOwner /\ r.PhysicalPageTable[f] = mm.PhysicalPageTable[f]
      BY <1>4, <2>2, Zenon
    <3>2. /\ mm.PhysicalPageTable[f].OwnerThread \in live
          /\ mm.PhysicalPageTable[f].VirtualPageNumber \in Pages
          /\ mm.pageTable[mm.PhysicalPageTable[f].OwnerThread]
                         [mm.PhysicalPageTable[f].VirtualPageNumber] = f
      BY <3>1, PageOfFrame, Zenon
    <3> QED
      BY <1>3, <3>1, <3>2, Zenon
  <2> QED
    BY <2>1, <2>2, Zenon DEF TablesAgree
<1>6. Contents(r.pageTable, r.mainMemory, r.vSpace, live, mem)
  BY <1>3, <1>4, SMTT(30) DEF Exact, Contents
<1>7. TlbCaches(r.tlb, r.pageTable[c])
  BY <1>4, Zenon DEF TlbCaches
<1>8. Exact(r, c, live, mem)
  BY <1>4, <1>5, <1>6, <1>7, Zenon DEF Exact
<1> QED
  BY <1>8, Zenon DEF r

Restored(mm, p, r) ==
  /\ r.machineTable = p /\ r.pageTable = mm.pageTable /\ r.vSpace = mm.vSpace
  /\ r.mainMemory = mm.mainMemory /\ r.PhysicalPageTable = mm.PhysicalPageTable
  /\ r.tlb = mm.tlb

\* AddrSpace::RestoreState changes the table of the machine only.
LEMMA RestoreEffect ==
  ASSUME NEW mm, WellFormed(mm), NEW p \in Processes
  PROVE  WellFormed(RestoreState(mm, p)) /\ Restored(mm, p, RestoreState(mm, p))
<1> DEFINE r == RestoreState(mm, p)
<1>1. mm \in MachineType /\ r = [mm EXCEPT !.machineTable = p]
  BY Zenon DEF WellFormed, WellFormedBut, RestoreState
<1> HIDE DEF r
<1>2. /\ r \in MachineType
      /\ r.machineTable = p /\ r.tlbHits = mm.tlbHits /\ r.pageTable = mm.pageTable
      /\ r.vSpace = mm.vSpace /\ r.mainMemory = mm.mainMemory
      /\ r.PhysicalPageTable = mm.PhysicalPageTable /\ r.frameHits = mm.frameHits
      /\ r.tlb = mm.tlb
  BY <1>1, Zenon DEF MachineType
<1>3. WellFormed(r) /\ Restored(mm, p, r)
  BY <1>2, Zenon DEF WellFormed, WellFormedBut, Restored
<1> QED
  BY <1>3, Zenon DEF r

\* With an empty TLB the machine may turn to any process.
LEMMA RestoreExact ==
  ASSUME NEW mm, NEW p, NEW c, NEW live, NEW mem, Exact(mm, c, live, mem),
         \A i \in TLBSlots : mm.tlb[i] = NoMapping, NEW r, Restored(mm, p, r)
  PROVE  Exact(r, p, live, mem)
<1>1. TlbCaches(r.tlb, r.pageTable[p])
  BY Zenon DEF TlbCaches, Restored
<1>2. TablesAgree(r.pageTable, r.PhysicalPageTable, live)
  BY Zenon DEF Exact, Restored
<1>3. Contents(r.pageTable, r.mainMemory, r.vSpace, live, mem)
  BY Zenon DEF Exact, Restored
<1> QED
  BY <1>1, <1>2, <1>3, Zenon DEF Exact, Restored

MadeSpace(mm, p, image, r) ==
  /\ r.machineTable = mm.machineTable /\ r.mainMemory = mm.mainMemory
  /\ r.PhysicalPageTable = mm.PhysicalPageTable /\ r.tlb = mm.tlb
  /\ \A q \in Processes : /\ r.pageTable[q] = IF q = p THEN Unmapped ELSE mm.pageTable[q]
                          /\ r.vSpace[q] = IF q = p THEN image ELSE mm.vSpace[q]

\* AddrSpace::AddrSpace makes a space of unmapped pages.
LEMMA NewSpaceEffect ==
  ASSUME NEW mm, WellFormed(mm), NEW p \in Processes, NEW image \in Images
  PROVE  WellFormed(NewSpace(mm, p, image)) /\ MadeSpace(mm, p, image, NewSpace(mm, p, image))
<1> DEFINE r == NewSpace(mm, p, image)
           pt == [mm.pageTable EXCEPT ![p] = Unmapped]
           vs == [mm.vSpace EXCEPT ![p] = image]
<1>1. mm \in MachineType
  BY Zenon DEF WellFormed, WellFormedBut
<1>2. r = [mm EXCEPT !.pageTable = pt, !.vSpace = vs]
  BY <1>1, Zenon DEF NewSpace, MachineType
<1>3. /\ pt \in [Processes -> [Pages -> Frames \cup {NoFrame}]]
      /\ vs \in [Processes -> [Pages -> Values]]
  BY <1>1, Zenon DEF MachineType, Unmapped, Images
<1>4. \A q \in Processes : /\ pt[q] = IF q = p THEN Unmapped ELSE mm.pageTable[q]
                           /\ vs[q] = IF q = p THEN image ELSE mm.vSpace[q]
  BY <1>1, Zenon DEF MachineType
<1> HIDE DEF r, pt, vs
<1>5. /\ r \in MachineType
      /\ r.machineTable = mm.machineTable /\ r.tlbHits = mm.tlbHits /\ r.pageTable = pt
      /\ r.vSpace = vs /\ r.mainMemory = mm.mainMemory
      /\ r.PhysicalPageTable = mm.PhysicalPageTable /\ r.frameHits = mm.frameHits
      /\ r.tlb = mm.tlb
  BY <1>1, <1>2, <1>3, Zenon DEF MachineType
<1>6. WellFormed(r)
  BY <1>5, Zenon DEF WellFormed, WellFormedBut
<1>7. MadeSpace(mm, p, image, r)
  BY <1>4, <1>5, Zenon DEF MadeSpace
<1> QED
  BY <1>6, <1>7, Zenon DEF r

\* A new space joins the exact ones.
LEMMA NewSpaceExact ==
  ASSUME NEW mm, WellFormed(mm), NEW live \in SUBSET Processes, NEW c,
         NEW mem \in [Processes -> [Pages -> Values]], Exact(mm, c, live, mem),
         \A i \in TLBSlots : mm.tlb[i] = NoMapping,
         NEW p \in Processes, p \notin live, NEW image \in Images,
         NEW r, MadeSpace(mm, p, image, r)
  PROVE  Exact(r, c, live \cup {p}, [mem EXCEPT ![p] = image])
<1> DEFINE new == [mem EXCEPT ![p] = image]
<1>1. /\ \A q \in live : /\ r.pageTable[q] = mm.pageTable[q] /\ r.vSpace[q] = mm.vSpace[q]
                         /\ new[q] = mem[q]
      /\ r.pageTable[p] = Unmapped /\ r.vSpace[p] = image /\ new[p] = image
  BY Zenon DEF MadeSpace
<1> HIDE DEF new
<1>2. /\ r.machineTable = c /\ r.mainMemory = mm.mainMemory
      /\ r.PhysicalPageTable = mm.PhysicalPageTable /\ r.tlb = mm.tlb
  BY Zenon DEF MadeSpace, Exact
<1>3. TlbCaches(r.tlb, r.pageTable[c])
  BY <1>2, Zenon DEF TlbCaches
<1>4. Contents(r.pageTable, r.mainMemory, r.vSpace, live \cup {p}, new)
  BY <1>1, <1>2, SMTT(30) DEF Contents, Exact, Unmapped
<1>5. TablesAgree(r.pageTable, r.PhysicalPageTable, live \cup {p})
  <2>1. ASSUME NEW q \in live \cup {p}, NEW v \in Pages, r.pageTable[q][v] # NoFrame
        PROVE  r.PhysicalPageTable[r.pageTable[q][v]]
                 = OwnedBy(q, v)
    <3>1. q # p
      BY <1>1, <2>1 DEF Unmapped
    <3>2. q \in live /\ r.pageTable[q] = mm.pageTable[q]
      BY <1>1, <3>1, Zenon
    <3> QED
      <4>1. mm.pageTable[q][v] # NoFrame
        BY <2>1, <3>2, Zenon
      <4>2. mm.PhysicalPageTable[mm.pageTable[q][v]] = OwnedBy(q, v)
        BY <3>2, <4>1, Zenon DEF Exact, TablesAgree
      <4> QED
        BY <1>2, <3>2, <4>2, Zenon
  <2>2. ASSUME NEW f \in Frames, r.PhysicalPageTable[f] # NoOwner
        PROVE  /\ r.PhysicalPageTable[f].OwnerThread \in live \cup {p}
               /\ r.pageTable[r.PhysicalPageTable[f].OwnerThread]
                             [r.PhysicalPageTable[f].VirtualPageNumber] = f
    <3>1. mm.PhysicalPageTable[f] # NoOwner
      BY <1>2, <2>2, Zenon
    <3>2. /\ mm.PhysicalPageTable[f].OwnerThread \in live
          /\ mm.pageTable[mm.PhysicalPageTable[f].OwnerThread]
                         [mm.PhysicalPageTable[f].VirtualPageNumber] = f
      BY <3>1, PageOfFrame, Zenon
    <3> QED
      BY <1>1, <1>2, <3>2, Zenon
  <2> QED
    BY <2>1, <2>2, Zenon DEF TablesAgree
<1> QED
  BY <1>2, <1>3, <1>4, <1>5, Zenon DEF Exact, new

\* ------------------------------ exits and writes ---------------------------

MappedFrames(mm) == {mm.pageTable[mm.machineTable][v] : v \in Pages} \ {NoFrame}

Freed(mm, r) ==
  /\ r.machineTable = mm.machineTable /\ r.vSpace = mm.vSpace
  /\ r.mainMemory = mm.mainMemory /\ r.tlb = mm.tlb
  /\ \A p \in Processes : p # mm.machineTable => r.pageTable[p] = mm.pageTable[p]
  /\ \A f \in Frames : r.PhysicalPageTable[f] = IF f \in MappedFrames(mm) THEN NoOwner
                                                ELSE mm.PhysicalPageTable[f]

\* SC_Exit frees the frames its table names.
LEMMA FreeFramesEffect ==
  ASSUME NEW mm, WellFormed(mm)
  PROVE  WellFormed(FreeFrames(mm)) /\ Freed(mm, FreeFrames(mm))
<1> DEFINE r == FreeFrames(mm)
           pt == [mm.pageTable EXCEPT ![mm.machineTable] = Unmapped]
           own == [f \in Frames |-> IF f \in MappedFrames(mm) THEN NoOwner
                                    ELSE mm.PhysicalPageTable[f]]
<1>1. mm \in MachineType
  BY Zenon DEF WellFormed, WellFormedBut
<1>2. r = [mm EXCEPT !.pageTable = pt, !.PhysicalPageTable = own]
  BY <1>1, Zenon DEF FreeFrames, MachineType, MappedFrames
<1>3. pt \in [Processes -> [Pages -> Frames \cup {NoFrame}]]
  BY <1>1, Zenon DEF MachineType, Unmapped
<1>4. /\ own \in [Frames -> Owner \cup {NoOwner}]
      /\ own \in [Frames -> [OwnerThread : Processes \cup {NoProcess},
                             VirtualPageNumber : Pages \cup {NoFrame}]]
  BY <1>1, Zenon DEF MachineType, WellFormed, WellFormedBut, NoOwner
<1>5. /\ \A p \in Processes : p # mm.machineTable => pt[p] = mm.pageTable[p]
      /\ \A f \in Frames : own[f] = IF f \in MappedFrames(mm) THEN NoOwner
                                    ELSE mm.PhysicalPageTable[f]
  BY <1>1, Zenon DEF MachineType
<1> HIDE DEF r, pt, own
<1>6. /\ r \in MachineType
      /\ r.machineTable = mm.machineTable /\ r.tlbHits = mm.tlbHits /\ r.pageTable = pt
      /\ r.vSpace = mm.vSpace /\ r.mainMemory = mm.mainMemory
      /\ r.PhysicalPageTable = own /\ r.frameHits = mm.frameHits
      /\ r.tlb = mm.tlb
  BY <1>1, <1>2, <1>3, <1>4, Zenon DEF MachineType
<1>7. WellFormed(r)
  BY <1>4, <1>5, <1>6, Zenon DEF WellFormed, WellFormedBut
<1>8. Freed(mm, r)
  BY <1>5, <1>6, Zenon DEF Freed
<1> QED
  BY <1>7, <1>8, Zenon DEF r

\* An exit frees the frames of the process that exits and no other.
LEMMA ExitExact ==
  ASSUME NEW mm, WellFormed(mm), NEW live \in SUBSET Processes, NEW c \in live, NEW mem,
         Exact(mm, c, live, mem), NEW r, Freed(mm, r)
  PROVE  Exact(r, c, live \ {c}, mem)
<1>1. /\ mm.machineTable = c
      /\ r.machineTable = c /\ r.vSpace = mm.vSpace /\ r.mainMemory = mm.mainMemory
      /\ \A p \in live \ {c} : r.pageTable[p] = mm.pageTable[p]
      /\ \A f \in Frames : r.PhysicalPageTable[f] = IF f \in MappedFrames(mm) THEN NoOwner
                                                    ELSE mm.PhysicalPageTable[f]
  BY Zenon DEF Exact, Freed
<1>2. Contents(r.pageTable, r.mainMemory, r.vSpace, live \ {c}, mem)
  BY <1>1, SMTT(30) DEF Contents, Exact
<1>3. ASSUME NEW p \in live \ {c}, NEW v \in Pages, r.pageTable[p][v] # NoFrame
      PROVE  r.PhysicalPageTable[r.pageTable[p][v]]
               = OwnedBy(p, v)
  <2> DEFINE f == mm.pageTable[p][v]
  <2>1. f \in Frames /\ r.pageTable[p][v] = f
    BY <1>1, <1>3, SMTT(30) DEF WellFormed, WellFormedBut, MachineType
  <2>2. mm.PhysicalPageTable[f] = OwnedBy(p, v)
    BY <1>3, <2>1, Zenon DEF Exact, TablesAgree
  <2> HIDE DEF f
  <2>5. f # NoFrame
    BY <2>1, MemoryConstants DEF Frames, NoFrame
  <2>3. ASSUME NEW u \in Pages, mm.pageTable[c][u] = f PROVE FALSE
    <3>1. mm.PhysicalPageTable[f] = OwnedBy(c, u)
      <4>1. mm.pageTable[c][u] # NoFrame
        BY <2>3, <2>5, Zenon
      <4>2. mm.PhysicalPageTable[mm.pageTable[c][u]] = OwnedBy(c, u)
        BY <4>1, Zenon DEF Exact, TablesAgree
      <4> QED
        BY <2>3, <4>2, Zenon
    <3> QED
      BY <2>2, <3>1, SMT DEF OwnedBy
  <2>4. f \notin MappedFrames(mm)
    BY <1>1, <2>3, SMTT(30) DEF MappedFrames
  <2> QED
    BY <1>1, <2>1, <2>2, <2>4, Zenon
<1>4. ASSUME NEW f \in Frames, r.PhysicalPageTable[f] # NoOwner
      PROVE  /\ r.PhysicalPageTable[f].OwnerThread \in live \ {c}
             /\ r.pageTable[r.PhysicalPageTable[f].OwnerThread]
                           [r.PhysicalPageTable[f].VirtualPageNumber] = f
  <2> DEFINE p == mm.PhysicalPageTable[f].OwnerThread
             v == mm.PhysicalPageTable[f].VirtualPageNumber
  <2>1. f \notin MappedFrames(mm) /\ r.PhysicalPageTable[f] = mm.PhysicalPageTable[f]
    BY <1>1, <1>4, Zenon
  <2>2. mm.PhysicalPageTable[f] \in Owner
    BY <1>4, <2>1, Zenon DEF WellFormed, WellFormedBut
  <2>3. p \in live /\ v \in Pages /\ mm.pageTable[p][v] = f
    BY <1>4, <2>1, <2>2, Zenon DEF Exact, TablesAgree, Owner
  <2> HIDE DEF p, v
  <2>4. p # c
    <3>1. f # NoFrame
      BY MemoryConstants DEF NoFrame, Frames
    <3> QED
      BY <1>1, <2>1, <2>3, <3>1 DEF MappedFrames
  <2>5. p \in live \ {c} /\ r.pageTable[p][v] = f
    BY <1>1, <2>3, <2>4, Zenon
  <2> QED
    BY <2>1, <2>5, Zenon DEF p, v
<1>5. TablesAgree(r.pageTable, r.PhysicalPageTable, live \ {c})
  BY <1>3, <1>4, Zenon DEF TablesAgree
<1> QED
  BY <1>1, <1>2, <1>5, Zenon DEF Exact

Stored(mm, f, value, r) ==
  /\ r.machineTable = mm.machineTable /\ r.vSpace = mm.vSpace
  /\ r.pageTable = mm.pageTable /\ r.tlb = mm.tlb
  /\ r.PhysicalPageTable = mm.PhysicalPageTable
  /\ r.mainMemory = [mm.mainMemory EXCEPT ![f] = value]

\* WriteMem stores in one frame.
LEMMA StoreEffect ==
  ASSUME NEW mm, WellFormed(mm), NEW f \in Frames, NEW value \in Values
  PROVE  /\ WellFormed([mm EXCEPT !.mainMemory[f] = value])
         /\ Stored(mm, f, value, [mm EXCEPT !.mainMemory[f] = value])
<1> DEFINE r == [mm EXCEPT !.mainMemory[f] = value]
           mem == [mm.mainMemory EXCEPT ![f] = value]
<1>1. mm \in MachineType
  BY Zenon DEF WellFormed, WellFormedBut
<1>2. r = [mm EXCEPT !.mainMemory = mem] /\ mem \in [Frames -> Values]
  BY <1>1, Zenon DEF MachineType
<1> HIDE DEF r, mem
<1>3. /\ r \in MachineType
      /\ r.machineTable = mm.machineTable /\ r.tlbHits = mm.tlbHits
      /\ r.pageTable = mm.pageTable /\ r.vSpace = mm.vSpace /\ r.mainMemory = mem
      /\ r.PhysicalPageTable = mm.PhysicalPageTable /\ r.frameHits = mm.frameHits
      /\ r.tlb = mm.tlb
  BY <1>1, <1>2, Zenon DEF MachineType
<1>4. WellFormed(r) /\ Stored(mm, f, value, r)
  BY <1>3, Zenon DEF WellFormed, WellFormedBut, Stored, mem
<1> QED
  BY <1>4, Zenon DEF r

\* A write through the TLB changes the page that is written and no other.
LEMMA StoreExact ==
  ASSUME NEW mm, WellFormed(mm), NEW live \in SUBSET Processes, NEW c \in live,
         NEW mem \in [Processes -> [Pages -> Values]], Exact(mm, c, live, mem),
         NEW v \in Pages, TLBHit(mm, v) # {}, NEW value \in Values,
         NEW r, Stored(mm, FrameOf(mm, v), value, r)
  PROVE  Exact(r, c, live, [mem EXCEPT ![c][v] = value])
<1> DEFINE f == FrameOf(mm, v)
           new == [mem EXCEPT ![c][v] = value]
<1>1. f \in Frames /\ mm.pageTable[c][v] = f
  <2>1. PICK i \in TLBSlots : /\ mm.tlb[i] # NoMapping /\ mm.tlb[i].virtualPage = v
                              /\ mm.tlb[i].physicalPage = FrameOf(mm, v)
    BY FrameOfFound, Zenon
  <2>2. FrameOf(mm, v) \in Frames
    BY FrameOfFound, Zenon
  <2> QED
    BY <2>1, <2>2, Zenon DEF Exact, TlbCaches
<1> HIDE DEF f
<1>2. /\ r.machineTable = mm.machineTable /\ r.vSpace = mm.vSpace
      /\ r.pageTable = mm.pageTable /\ r.tlb = mm.tlb
      /\ r.PhysicalPageTable = mm.PhysicalPageTable
      /\ r.mainMemory = [mm.mainMemory EXCEPT ![f] = value]
  BY Zenon DEF Stored, f
<1>3. \A g \in Frames : r.mainMemory[g] = IF g = f THEN value ELSE mm.mainMemory[g]
  BY <1>1, <1>2, Zenon DEF WellFormed, WellFormedBut, MachineType
<1>4. \A p \in live, u \in Pages : new[p][u] = IF p = c /\ u = v THEN value ELSE mem[p][u]
  BY Zenon
<1> HIDE DEF new
<1>5. TablesAgree(r.pageTable, r.PhysicalPageTable, live)
  BY <1>2, Zenon DEF Exact
<1>6. TlbCaches(r.tlb, r.pageTable[c])
  BY <1>2, Zenon DEF Exact
<1>7. Contents(r.pageTable, r.mainMemory, r.vSpace, live, new)
  <2> SUFFICES ASSUME NEW p \in live, NEW u \in Pages
               PROVE  new[p][u] = IF r.pageTable[p][u] # NoFrame
                                  THEN r.mainMemory[r.pageTable[p][u]]
                                  ELSE r.vSpace[p][u]
    BY Zenon DEF Contents
  <2>1. mem[p][u] = IF mm.pageTable[p][u] # NoFrame THEN mm.mainMemory[mm.pageTable[p][u]]
                    ELSE mm.vSpace[p][u]
    BY Zenon DEF Exact, Contents
  <2>2. mm.pageTable[p][u] \in Frames \cup {NoFrame} /\ f # NoFrame
    BY <1>1, MemoryConstants, SMTT(30) DEF WellFormed, WellFormedBut, MachineType, NoFrame, Frames
  <2>3. mm.pageTable[p][u] = f => p = c /\ u = v
    <3> SUFFICES ASSUME mm.pageTable[p][u] = f PROVE p = c /\ u = v
      BY Zenon
    <3>1. /\ mm.PhysicalPageTable[f] = OwnedBy(p, u)
          /\ mm.PhysicalPageTable[f] = OwnedBy(c, v)
      <4>1. mm.pageTable[p][u] # NoFrame /\ mm.pageTable[c][v] = f
        BY <1>1, <2>2, Zenon
      <4>2. /\ mm.PhysicalPageTable[mm.pageTable[p][u]] = OwnedBy(p, u)
            /\ mm.PhysicalPageTable[mm.pageTable[c][v]] = OwnedBy(c, v)
        BY <2>2, <4>1, Zenon DEF Exact, TablesAgree
      <4> QED
        BY <4>1, <4>2, Zenon
    <3> QED
      BY <3>1, SMT DEF OwnedBy
  <2> QED
    BY <1>1, <1>2, <1>3, <1>4, <2>1, <2>2, <2>3, SMTT(30)
<1>8. r.machineTable = c
  BY <1>2, Zenon DEF Exact
<1> QED
  BY <1>5, <1>6, <1>7, <1>8, Zenon DEF Exact, new

\* ------------------------------- the invariant -----------------------------

LEMMA InitMemoryInv == NatWellOrdered /\ MemoryInit => MemoryInv
<1> SUFFICES ASSUME NatWellOrdered, MemoryInit PROVE MemoryInv
  BY Zenon
<1> DEFINE any == CHOOSE x \in Values : TRUE
<1>1. any \in Values
  BY MemoryConstants, Zenon
<1> HIDE DEF any
<1>2. PICK image \in Images :
        /\ memory = [p \in Processes |-> image]
        /\ m = [pageTable |-> [p \in Processes |-> Unmapped],
               vSpace |-> [p \in Processes |-> image],
               machineTable |-> Root,
               tlb |-> [i \in TLBSlots |-> NoMapping], tlbHits |-> <<>>,
               PhysicalPageTable |-> AllFree, frameHits |-> <<>>,
               mainMemory |-> [f \in Frames |-> any]]
  BY Zenon DEF MemoryInit, any
<1>3. /\ m.pageTable = [p \in Processes |-> Unmapped] /\ m.vSpace = [p \in Processes |-> image]
      /\ m.machineTable = Root /\ m.tlb = [i \in TLBSlots |-> NoMapping] /\ m.tlbHits = <<>>
      /\ m.PhysicalPageTable = AllFree /\ m.frameHits = <<>>
  BY <1>2, Zenon
<1>4. <<>> \in Seq(TLBSlots) /\ <<>> \in Seq(Frames) /\ NoDuplicates(<<>>)
  BY DEF NoDuplicates
<1>5. m \in MachineType
  BY <1>1, <1>2, <1>4, MemoryConstants, Zenon
     DEF MachineType, Images, Unmapped, AllFree, NoOwner, NoMapping
<1>6. WellFormed(m)
  BY <1>3, <1>4, <1>5, Zenon DEF WellFormed, WellFormedBut, AllFree
<1>7. MemoryTypeOK
  BY <1>2, <1>3, <1>4, <1>5, MemoryConstants, Zenon DEF MemoryTypeOK, MemoryInit, Images
<1>8. Exact(m, current, Live, memory)
  <2>1. current = Root
    BY Zenon DEF MemoryInit
  <2>2. TablesAgree(m.pageTable, m.PhysicalPageTable, Live)
    BY <1>3, SMTT(30) DEF TablesAgree, Unmapped, AllFree, Live
  <2>3. Contents(m.pageTable, m.mainMemory, m.vSpace, Live, memory)
    BY <1>2, <1>3, Zenon DEF Contents, Unmapped, Live
  <2>4. TlbCaches(m.tlb, m.pageTable[Root])
    BY <1>3, Zenon DEF TlbCaches
  <2> QED
    BY <1>3, <2>1, <2>2, <2>3, <2>4, Zenon DEF Exact
<1> QED
  BY <1>6, <1>7, <1>8, Zenon DEF MemoryInv, MemoryInit

\* A memory access of the running process.
LEMMA AccessInv ==
  ASSUME MemoryInv, NEW v \in Pages, state[current] = "live", 
         memoryFaults' = memoryFaults \cup FaultsOf(m, v, OwnSpace)
  PROVE  LET mm == Translated(m, v, current, OwnSpace)
         IN  /\ WellFormed(mm) /\ TLBHit(mm, v) # {}
             /\ MemorySound' => Exact(mm, current, Live, memory)
<1>1. WellFormed(m) /\ current \in Processes /\ OwnSpace \in [Processes -> Processes]
  BY Zenon DEF MemoryInv, MemoryTypeOK, OwnSpace
<1> DEFINE mm == Translated(m, v, current, OwnSpace)
<1>2. WellFormed(mm) /\ TLBHit(mm, v) # {}
  BY <1>1, TranslatedEffect, Zenon
<1>3. ASSUME MemorySound' PROVE Exact(mm, current, Live, memory)
  <2>1. memoryFaults = {} /\ FaultsOf(m, v, OwnSpace) = {}
    BY <1>3, Zenon DEF MemorySound
  <2>2. Exact(m, current, Live, memory) /\ current \in Live /\ Live \in SUBSET Processes
    BY <1>1, <2>1, Zenon DEF MemoryInv, MemorySound, Live
  <2> QED
    BY <1>1, <2>1, <2>2, TranslatedExact, Zenon
<1> QED
  BY <1>2, <1>3, Zenon

LEMMA FaultNames ==
  ASSUME NEW mm, NEW v, NEW spaceOf
  PROVE  FaultsOf(mm, v, spaceOf) \subseteq {"foreignEviction"}
BY Zenon DEF FaultsOf

\* WellFormed holds the types of the machine.
LEMMA WellFormedType ==
  ASSUME WellFormed(m)
  PROVE  m \in MachineType /\ NoDuplicates(m.tlbHits) /\ NoDuplicates(m.frameHits)
BY Zenon DEF WellFormed, WellFormedBut

LEMMA ReadInv ==
  ASSUME MemoryInv, NEW v \in Pages, ReadMem(v)
  PROVE  MemoryInv'
<1>1. /\ m' = Translated(m, v, current, OwnSpace) /\ state[current] = "live"
      /\ memoryFaults' = memoryFaults \cup FaultsOf(m, v, OwnSpace)
      /\ UNCHANGED <<state, caller, current, memory>>
  BY Zenon DEF ReadMem
<1>2. WellFormed(m') /\ (MemorySound' => Exact(m', current, Live, memory))
  BY <1>1, AccessInv, Zenon
<1>3. Live' = Live
  BY <1>1, Zenon DEF Live
<1>4. MemorySound' => Exact(m, current, Live, memory)'
  BY <1>1, <1>2, <1>3, Zenon
<1>5. MemoryTypeOK'
  <2>1. m' \in MachineType /\ NoDuplicates(m'.tlbHits) /\ NoDuplicates(m'.frameHits)
    BY <1>2, Zenon DEF WellFormed, WellFormedBut
  <2> QED
    BY <1>1, <2>1, FaultNames, Zenon DEF MemoryInv, MemoryTypeOK
<1> QED
  BY <1>1, <1>2, <1>4, <1>5, Zenon DEF MemoryInv

LEMMA WriteInv ==
  ASSUME MemoryInv, NEW v \in Pages, NEW value \in Values, WriteMem(v, value)
  PROVE  MemoryInv'
<1> DEFINE mm == Translated(m, v, current, OwnSpace)
           f == FrameOf(mm, v)
<1>1. /\ m' = [mm EXCEPT !.mainMemory[f] = value] /\ state[current] = "live"
      /\ memoryFaults' = memoryFaults \cup FaultsOf(m, v, OwnSpace)
      /\ memory' = [memory EXCEPT ![current][v] = value]
      /\ UNCHANGED <<state, caller, current>>
  BY Zenon DEF WriteMem
<1>2. WellFormed(mm) /\ TLBHit(mm, v) # {} /\ (MemorySound' => Exact(mm, current, Live, memory))
  BY <1>1, AccessInv, Zenon
<1> HIDE DEF mm
<1>3. f \in Frames
  BY <1>2, FrameOfFound, Zenon
<1>4. WellFormed(m') /\ Stored(mm, f, value, m')
  BY <1>1, <1>2, <1>3, StoreEffect, Zenon
<1>5. Live' = Live /\ Live \in SUBSET Processes /\ current \in Live
      /\ memory \in [Processes -> [Pages -> Values]]
  BY <1>1, Zenon DEF Live, MemoryInv, MemoryTypeOK
<1>6. MemorySound' => Exact(m', current, Live, [memory EXCEPT ![current][v] = value])
  BY <1>2, <1>4, <1>5, StoreExact, Zenon
<1>7. MemorySound' => Exact(m, current, Live, memory)'
  BY <1>1, <1>5, <1>6, Zenon
<1>8. MemoryTypeOK'
  <2>1. m' \in MachineType /\ NoDuplicates(m'.tlbHits) /\ NoDuplicates(m'.frameHits)
    BY <1>4, Zenon DEF WellFormed, WellFormedBut
  <2> QED
    BY <1>1, <2>1, FaultNames, Zenon DEF MemoryInv, MemoryTypeOK
<1> QED
  BY <1>1, <1>4, <1>7, <1>8, Zenon DEF MemoryInv

LEMMA CreateInv ==
  ASSUME MemoryInv, NEW c \in Processes, NEW how \in {"forked", "executed"}, NewProcess(c, how)
  PROVE  MemoryInv'
<1>1. /\ state[c] = "none" /\ state' = [state EXCEPT ![c] = how]
      /\ caller' = [caller EXCEPT ![c] = current]
      /\ UNCHANGED <<m, current, memory, memoryFaults>>
  BY Zenon DEF NewProcess
<1>2. MemoryTypeOK /\ current \in Processes
  BY Zenon DEF MemoryInv, MemoryTypeOK
<1>3. Live' = Live
  BY <1>1, <1>2, Zenon DEF Live, MemoryTypeOK
<1>4. MemorySound' => Exact(m, current, Live, memory)'
  BY <1>1, <1>3, Zenon DEF MemoryInv, MemorySound
<1>5. MemoryTypeOK'
  BY <1>1, <1>2, Zenon DEF MemoryTypeOK
<1>6. \A p \in Processes : state'[p] \in {"forked", "executed"} => caller'[p] \in Processes
  BY <1>1, <1>2, Zenon DEF MemoryInv, MemoryTypeOK
<1>7. WellFormed(m)'
  BY <1>1, Zenon DEF MemoryInv
<1> QED
  BY <1>4, <1>5, <1>6, <1>7, Zenon DEF MemoryInv

LEMMA ExitInv ==
  ASSUME MemoryInv, Exit
  PROVE  MemoryInv'
<1>1. /\ state[current] = "live" /\ m' = FreeFrames(m)
      /\ state' = [state EXCEPT ![current] = "dead"]
      /\ UNCHANGED <<caller, current, memory, memoryFaults>>
  BY Zenon DEF Exit
<1>2. MemoryTypeOK /\ WellFormed(m)
  BY Zenon DEF MemoryInv
<1>3. WellFormed(m') /\ Freed(m, m')
  BY <1>1, <1>2, FreeFramesEffect, Zenon
<1>4. Live' = Live \ {current} /\ current \in Live /\ Live \in SUBSET Processes
  BY <1>1, <1>2, Zenon DEF Live, MemoryTypeOK
<1>5. ASSUME MemorySound' PROVE Exact(m, current, Live, memory)'
  <2>1. Exact(m, current, Live, memory)
    BY <1>1, <1>5, Zenon DEF MemoryInv, MemorySound
  <2>2. Exact(m', current, Live \ {current}, memory)
    BY <1>2, <1>3, <1>4, <2>1, ExitExact, Zenon
  <2> QED
    BY <1>1, <1>4, <2>2, Zenon
<1>6. MemoryTypeOK'
  <2>1. m' \in MachineType /\ NoDuplicates(m'.tlbHits) /\ NoDuplicates(m'.frameHits)
    BY <1>3, Zenon DEF WellFormed, WellFormedBut
  <2> QED
    BY <1>1, <1>2, <2>1, Zenon DEF MemoryTypeOK
<1>7. \A p \in Processes : state'[p] \in {"forked", "executed"} => caller'[p] \in Processes
  BY <1>1, <1>2, Zenon DEF MemoryInv, MemoryTypeOK
<1> QED
  BY <1>3, <1>5, <1>6, <1>7, Zenon DEF MemoryInv

LEMMA RunInv ==
  ASSUME MemoryInv, NEW p \in Processes, Run(p)
  PROVE  MemoryInv'
<1> DEFINE saved == SaveState(m)
<1>1. MemoryTypeOK /\ WellFormed(m)
  BY Zenon DEF MemoryInv
<1>2. WellFormed(saved) /\ Saved(m, saved)
  BY <1>1, SaveStateEffect, Zenon
<1>3. /\ p # current /\ current' = p /\ caller' = caller
      /\ \/ /\ state[p] = "live"
            /\ m' = RestoreState(saved, p)
            /\ UNCHANGED <<state, memory, memoryFaults>>
         \/ /\ state[p] = "forked"
            /\ m' = ForkWrapper(saved, p)
            /\ memory' = [memory EXCEPT ![p] = memory[caller[p]]]
            /\ state' = [state EXCEPT ![p] = "live"]
            /\ memoryFaults' = memoryFaults \cup IF saved.vSpace[caller[p]] = memory[caller[p]]
                                     THEN {} ELSE {"staleFork"}
         \/ /\ state[p] = "executed"
            /\ \E v \in Pages, image \in Images :
                 /\ m' = ExecWrapper(saved, p, v, image)
                 /\ memory' = [memory EXCEPT ![p] = image]
            /\ state' = [state EXCEPT ![p] = "live"]
            /\ memoryFaults' = memoryFaults \cup {"execLeftover"}
         \/ /\ state[p] = "executed"
            /\ \E v \in Pages : m' = ExecName(saved, p, v)
            /\ state' = [state EXCEPT ![p] = "dead"]
            /\ memoryFaults' = memoryFaults \cup {"execLeftover"}
            /\ UNCHANGED memory
  BY Zenon DEF Run
<1>4. Live \in SUBSET Processes /\ memory \in [Processes -> [Pages -> Values]]
      /\ current \in Processes /\ state \in [Processes -> {"none", "forked", "executed", "live", "dead"}]
      /\ memoryFaults \subseteq {"foreignEviction", "execLeftover", "staleFork"}
  BY <1>1, Zenon DEF Live, MemoryTypeOK
<1>5. MemorySound => Exact(saved, current, Live, memory)
  BY <1>1, <1>4, SaveExact, Zenon DEF MemoryInv
<1>6. /\ \A i \in TLBSlots : saved.tlb[i] = NoMapping
      /\ saved.vSpace = m.vSpace
  BY <1>2, Zenon DEF Saved
<1>7. saved.vSpace \in [Processes -> Images]
  BY <1>1, <1>6, Zenon DEF MemoryTypeOK, MachineType, Images
<1> HIDE DEF saved
<1>8. SUFFICES /\ WellFormed(m') /\ memory' \in [Processes -> [Pages -> Values]]
               /\ state' \in [Processes -> {"none", "forked", "executed", "live", "dead"}]
               /\ \A q \in Processes : state'[q] \in {"forked", "executed"}
                                         => state'[q] = state[q]
               /\ memoryFaults' \subseteq {"foreignEviction", "execLeftover", "staleFork"}
               /\ MemorySound' => Exact(m', p, Live', memory')
  <2>1. m' \in MachineType /\ NoDuplicates(m'.tlbHits) /\ NoDuplicates(m'.frameHits)
    BY <1>8, Zenon DEF WellFormed, WellFormedBut
  <2>2. MemoryTypeOK'
    BY <1>1, <1>3, <1>8, <2>1, Zenon DEF MemoryTypeOK
  <2>3. \A q \in Processes : state'[q] \in {"forked", "executed"} => caller'[q] \in Processes
    BY <1>3, <1>8, Zenon DEF MemoryInv
  <2> QED
    BY <1>3, <1>8, <2>2, <2>3, Zenon DEF MemoryInv
<1>9. CASE /\ state[p] = "live"
           /\ m' = RestoreState(saved, p)
           /\ UNCHANGED <<state, memory, memoryFaults>>
  <2>1. WellFormed(m') /\ Restored(saved, p, m')
    BY <1>2, <1>9, RestoreEffect, Zenon
  <2>2. Live' = Live /\ memory' = memory /\ (MemorySound' => MemorySound)
    BY <1>9, Zenon DEF Live, MemorySound
  <2>3. MemorySound' => Exact(m', p, Live, memory)
    BY <1>5, <1>6, <2>1, <2>2, RestoreExact
  <2> QED
    BY <1>4, <1>9, <2>1, <2>2, <2>3, Zenon
<1>10. CASE /\ state[p] = "forked"
            /\ m' = ForkWrapper(saved, p)
            /\ memory' = [memory EXCEPT ![p] = memory[caller[p]]]
            /\ state' = [state EXCEPT ![p] = "live"]
            /\ memoryFaults' = memoryFaults \cup IF saved.vSpace[caller[p]] = memory[caller[p]]
                                     THEN {} ELSE {"staleFork"}
  <2> DEFINE image == saved.vSpace[caller[p]]
             r == NewSpace(saved, p, image)
  <2>1. caller[p] \in Processes
    BY <1>10, Zenon DEF MemoryInv
  <2>2. image \in Images
    BY <1>7, <2>1, Zenon
  <2>3. m' = RestoreState(r, p)
    BY <1>10, Zenon DEF ForkWrapper, NewSpace
  <2> HIDE DEF image
  <2>4. WellFormed(r) /\ MadeSpace(saved, p, image, r)
    BY <1>2, <2>2, NewSpaceEffect, Zenon
  <2> HIDE DEF r
  <2>5. WellFormed(m') /\ Restored(r, p, m')
    BY <2>3, <2>4, RestoreEffect, Zenon
  <2>6. Live' = Live \cup {p} /\ p \notin Live
    BY <1>4, <1>10, Zenon DEF Live
  <2>7. ASSUME MemorySound' PROVE Exact(m', p, Live', memory')
    <3>1. MemorySound /\ image = memory[caller[p]]
      BY <1>10, <2>7, Zenon DEF MemorySound, image
    <3>2. Exact(r, current, Live \cup {p}, [memory EXCEPT ![p] = image])
      BY <1>2, <1>4, <1>5, <1>6, <2>2, <2>4, <2>6, <3>1, NewSpaceExact, Zenon
    <3>3. \A i \in TLBSlots : r.tlb[i] = NoMapping
      BY <1>6, <2>4, Zenon DEF MadeSpace
    <3>4. Exact(m', p, Live \cup {p}, [memory EXCEPT ![p] = image])
      BY <2>5, <3>2, <3>3, RestoreExact, Zenon
    <3> QED
      BY <1>10, <2>6, <3>1, <3>4, Zenon
  <2>8. memory' \in [Processes -> [Pages -> Values]]
    BY <1>4, <1>10, <2>1, Zenon
  <2> QED
    BY <1>4, <1>10, <2>5, <2>7, <2>8, Zenon
<1> DEFINE spaces == [OwnSpace EXCEPT ![p] = caller[p]]
<1>11. ASSUME state[p] = "executed", NEW v \in Pages
       PROVE  WellFormed(ExecName(saved, p, v))
  <2>1. caller[p] \in Processes
    BY <1>11, Zenon DEF MemoryInv
  <2>2. spaces \in [Processes -> Processes]
    BY <2>1, Zenon DEF OwnSpace
  <2> HIDE DEF spaces
  <2>3. WellFormed(Translated(saved, v, p, spaces))
    BY <1>2, <2>2, TranslatedEffect, Zenon
  <2> QED
    BY <2>3, Zenon DEF ExecName, spaces
<1> HIDE DEF spaces
<1>12. ASSUME "execLeftover" \in memoryFaults' PROVE ~MemorySound'
  BY <1>12, Zenon DEF MemorySound
<1>13. ASSUME state[p] = "executed", NEW v \in Pages, NEW image \in Images,
              m' = ExecWrapper(saved, p, v, image),
              memory' = [memory EXCEPT ![p] = image],
              state' = [state EXCEPT ![p] = "live"],
              memoryFaults' = memoryFaults \cup {"execLeftover"}
       PROVE  /\ WellFormed(m') /\ memory' \in [Processes -> [Pages -> Values]]
              /\ state' \in [Processes -> {"none", "forked", "executed", "live", "dead"}]
              /\ \A q \in Processes : state'[q] \in {"forked", "executed"}
                                        => state'[q] = state[q]
              /\ memoryFaults' \subseteq {"foreignEviction", "execLeftover", "staleFork"}
              /\ ~MemorySound'
  <2> DEFINE named == ExecName(saved, p, v)
             r == NewSpace(named, p, image)
  <2>1. WellFormed(named)
    BY <1>11, <1>13, Zenon
  <2> HIDE DEF named
  <2>2. WellFormed(r)
    BY <2>1, NewSpaceEffect, Zenon
  <2>3. m' = RestoreState(r, p)
    BY <1>13, Zenon DEF ExecWrapper, named
  <2> HIDE DEF r
  <2>4. WellFormed(m')
    BY <2>2, <2>3, RestoreEffect, Zenon
  <2>5. memory' \in [Processes -> [Pages -> Values]]
    BY <1>4, <1>13, Zenon DEF Images
  <2> QED
    BY <1>4, <1>12, <1>13, <2>4, <2>5
<1>14. ASSUME state[p] = "executed", NEW v \in Pages, m' = ExecName(saved, p, v),
              state' = [state EXCEPT ![p] = "dead"],
              memoryFaults' = memoryFaults \cup {"execLeftover"}, memory' = memory
       PROVE  /\ WellFormed(m') /\ memory' \in [Processes -> [Pages -> Values]]
              /\ state' \in [Processes -> {"none", "forked", "executed", "live", "dead"}]
              /\ \A q \in Processes : state'[q] \in {"forked", "executed"}
                                        => state'[q] = state[q]
              /\ memoryFaults' \subseteq {"foreignEviction", "execLeftover", "staleFork"}
              /\ ~MemorySound'
  <2>1. WellFormed(m')
    BY <1>11, <1>14, Zenon
  <2> QED
    BY <1>4, <1>12, <1>14, <2>1, Zenon
<1> QED
  BY <1>3, <1>9, <1>10, <1>13, <1>14, Zenon

-----------------------------------------------------------------------------
LOCAL INSTANCE WellFoundedInduction

LEMMA NatIsWellOrdered == NatWellOrdered
<1> SUFFICES ASSUME NEW T \in SUBSET Nat, T # {}
             PROVE  \E n \in T : \A k \in T : n <= k
  BY Zenon DEF NatWellOrdered
<1>1. PICK n \in T : \A k \in T : ~(<<k, n>> \in OpToRel(<, Nat))
  BY NatLessThanWellFounded, WFMin, Zenon
<1>2. \A k \in T : n <= k
  <2> SUFFICES ASSUME NEW k \in T, ~(n <= k) PROVE FALSE
    BY Zenon
  <2>1. k \in Nat /\ n \in Nat /\ k < n
    OBVIOUS
  <2>2. <<k, n>> \in OpToRel(<, Nat)
    BY <2>1, Zenon DEF OpToRel
  <2> QED
    BY <1>1, <2>2, Zenon
<1> QED
  BY <1>2, Zenon

LEMMA MemoryInvariant == MemorySpec => []MemoryInv
<1>1. MemoryInit => MemoryInv
  BY NatIsWellOrdered, InitMemoryInv, Zenon
<1>2. MemoryInv /\ [MemoryNext]_memoryVars => MemoryInv'
  <2> SUFFICES ASSUME MemoryInv, [MemoryNext]_memoryVars PROVE MemoryInv'
    BY Zenon
  <2>1. ASSUME NEW v \in Pages, ReadMem(v) PROVE MemoryInv'
    BY <2>1, ReadInv, Zenon
  <2>2. ASSUME NEW v \in Pages, NEW value \in Values, WriteMem(v, value) PROVE MemoryInv'
    BY <2>2, WriteInv, Zenon
  <2>3. ASSUME NEW c \in Processes, NEW how \in {"forked", "executed"}, NewProcess(c, how)
        PROVE  MemoryInv'
    BY <2>3, CreateInv
  <2>4. ASSUME NEW p \in Processes, Run(p) PROVE MemoryInv'
    BY <2>4, RunInv, Zenon
  <2>5. CASE Exit
    BY <2>5, ExitInv, Zenon
  <2>6. CASE UNCHANGED memoryVars
    <3>1. m' = m /\ memory' = memory /\ caller' = caller /\ current' = current
          /\ state' = state /\ memoryFaults' = memoryFaults
      BY <2>6, Zenon DEF memoryVars
    <3>2. MemoryTypeOK' /\ Live' = Live /\ MemorySound' = MemorySound
      BY <3>1, Zenon DEF MemoryInv, MemoryTypeOK, Live, MemorySound
    <3>3. WellFormed(m)' /\ (MemorySound => Exact(m, current, Live, memory)')
      BY <3>1, <3>2, Zenon DEF MemoryInv
    <3> QED
      BY <3>1, <3>2, <3>3, Zenon DEF MemoryInv
  <2> QED
    BY <2>1, <2>2, <2>3, <2>4, <2>5, <2>6 DEF MemoryNext
<1> QED
  BY <1>1, <1>2, PTL DEF MemorySpec

\* As long as no fault of the list happened, every live process sees in each
\* page the value it last wrote there, for any number of processes, pages,
\* frames and TLB slots: what Allocate evicts, SwapOut saves, SwapIn reloads,
\* SaveState and RestoreState switch and Exit frees is never another's.
THEOREM MemoryIsPrivate == MemorySpec => []MemoryPrivate
<1>1. MemoryInv => MemoryPrivate
  <2> SUFFICES ASSUME MemoryInv, MemorySound, NEW p \in Live, NEW v \in Pages
               PROVE  Visible(p, v) = memory[p][v]
    BY Zenon DEF MemoryPrivate
  <2>1. Exact(m, current, Live, memory) /\ WellFormed(m) /\ p \in Processes
    BY Zenon DEF MemoryInv, Live
  <2>2. memory[p][v] = IF m.pageTable[p][v] # NoFrame THEN m.mainMemory[m.pageTable[p][v]]
                       ELSE m.vSpace[p][v]
    BY <2>1, Zenon DEF Exact, Contents
  <2>3. ASSUME p = current, TLBHit(m, v) # {}
        PROVE  m.pageTable[p][v] = FrameOf(m, v) /\ FrameOf(m, v) # NoFrame
    <3>1. /\ FrameOf(m, v) \in Frames
          /\ \E i \in TLBSlots : /\ m.tlb[i] # NoMapping /\ m.tlb[i].virtualPage = v
                                 /\ m.tlb[i].physicalPage = FrameOf(m, v)
      BY <2>1, <2>3, FrameOfFound, Zenon
    <3>2. PICK i \in TLBSlots : /\ m.tlb[i] # NoMapping /\ m.tlb[i].virtualPage = v
                                /\ m.tlb[i].physicalPage = FrameOf(m, v)
      BY <3>1, Zenon
    <3>3. TlbCaches(m.tlb, m.pageTable[p])
      BY <2>1, <2>3, Zenon DEF Exact
    <3> QED
      BY <3>1, <3>2, <3>3, MemoryConstants, SMTT(30) DEF TlbCaches, Frames, NoFrame
  <2> QED
    BY <2>2, <2>3, Zenon DEF Visible
<1> QED
  BY <1>1, MemoryInvariant, PTL

\* As long as no fault of the list happened, page tables, TLB and
\* PhysicalPageTable describe one mapping: a frame serves one page of one live
\* process, Exit leaks none, and the TLB caches the running process's table.
THEOREM MappingsAreExact == MemorySpec => []MappingsExact
<1>1. MemoryInv => MappingsExact
  <2> SUFFICES ASSUME MemoryInv PROVE MappingsExact
    BY Zenon
  <2>1. WellFormed(m) /\ (MemorySound => Exact(m, current, Live, memory))
        /\ Live \in SUBSET Processes /\ m \in MachineType
    BY Zenon DEF MemoryInv, Live, MemoryTypeOK
  <2>2. FramesExclusive
    <3> SUFFICES ASSUME MemorySound, NEW f \in Frames
                 PROVE  LET o == m.PhysicalPageTable[f]
                            users == {u \in Live \X Pages : m.pageTable[u[1]][u[2]] = f}
                        IN  IF o = NoOwner THEN users = {}
                            ELSE /\ o.OwnerThread \in Live
                                 /\ users = {<<o.OwnerThread, o.VirtualPageNumber>>}
      BY Zenon DEF FramesExclusive
    <3> DEFINE o == m.PhysicalPageTable[f]
               users == {u \in Live \X Pages : m.pageTable[u[1]][u[2]] = f}
    <3>1. TablesAgree(m.pageTable, m.PhysicalPageTable, Live)
      BY <2>1, Zenon DEF Exact
    <3>2. \A u \in users : /\ u[1] \in Live /\ u = <<u[1], u[2]>>
                           /\ o.OwnerThread = u[1] /\ o.VirtualPageNumber = u[2]
      <4> SUFFICES ASSUME NEW u \in users
                   PROVE  /\ u[1] \in Live /\ u = <<u[1], u[2]>>
                          /\ o.OwnerThread = u[1] /\ o.VirtualPageNumber = u[2]
        BY Zenon
      <4>1. /\ u[1] \in Live /\ u[2] \in Pages /\ u = <<u[1], u[2]>>
            /\ m.pageTable[u[1]][u[2]] = f
        OBVIOUS
      <4>2. f # NoFrame
        BY MemoryConstants DEF Frames, NoFrame
      <4>3. o = OwnedBy(u[1], u[2])
        BY <3>1, <4>1, <4>2, Zenon DEF TablesAgree
      <4> QED
        BY <4>1, <4>3, SMT DEF OwnedBy
    <3> HIDE DEF users
    <3>3. CASE o = NoOwner
      <4>1. users = {}
        <5> SUFFICES ASSUME NEW u \in users PROVE FALSE
          BY Zenon
        <5>1. o.OwnerThread = u[1] /\ u[1] \in Processes
          BY <2>1, <3>2, Zenon
        <5>2. o.OwnerThread = NoProcess
          BY <3>3 DEF NoOwner
        <5> QED
          BY <5>1, <5>2, MemoryConstants, Zenon
      <4> QED
        BY <3>3, <4>1, Zenon DEF users
    <3>4. CASE o # NoOwner
      <4>1. /\ o.OwnerThread \in Live /\ o.VirtualPageNumber \in Pages
            /\ m.pageTable[o.OwnerThread][o.VirtualPageNumber] = f
        <5>1. o \in Owner
          BY <2>1, <3>4, Zenon DEF WellFormed, WellFormedBut
        <5> QED
          BY <3>1, <3>4, <5>1, Zenon DEF TablesAgree, Owner
      <4>2. <<o.OwnerThread, o.VirtualPageNumber>> \in users
        BY <4>1, Zenon DEF users
      <4>3. \A u \in users : u = <<o.OwnerThread, o.VirtualPageNumber>>
        <5> SUFFICES ASSUME NEW u \in users PROVE u = <<o.OwnerThread, o.VirtualPageNumber>>
          BY Zenon
        <5>1. o.OwnerThread = u[1] /\ o.VirtualPageNumber = u[2] /\ u = <<u[1], u[2]>>
          BY <3>2, Zenon
        <5> QED
          BY <5>1, Zenon
      <4>4. users = {<<o.OwnerThread, o.VirtualPageNumber>>}
        BY <4>2, <4>3, Zenon
      <4> QED
        BY <3>4, <4>1, <4>4, Zenon DEF users
    <3> QED
      BY <3>3, <3>4, Zenon
  <2>3. TLBAgrees
    <3> SUFFICES ASSUME MemorySound, state[current] = "live", NEW i \in TLBSlots,
                        m.tlb[i] # NoMapping
                 PROVE  /\ m.machineTable = current
                        /\ m.pageTable[current][m.tlb[i].virtualPage] = m.tlb[i].physicalPage
                        /\ m.PhysicalPageTable[m.tlb[i].physicalPage].VirtualPageNumber
                             = m.tlb[i].virtualPage
                        /\ TLBHit(m, m.tlb[i].virtualPage) = {i}
      BY Zenon DEF TLBAgrees
    <3>1. current \in Live /\ Exact(m, current, Live, memory)
      BY <2>1, Zenon DEF Live, MemoryInv, MemoryTypeOK
    <3>2. /\ TlbCaches(m.tlb, m.pageTable[current]) /\ m.machineTable = current
          /\ TablesAgree(m.pageTable, m.PhysicalPageTable, Live)
      BY <3>1, Zenon DEF Exact
    <3>3. m.pageTable[current][m.tlb[i].virtualPage] = m.tlb[i].physicalPage
      BY <3>2, Zenon DEF TlbCaches
    <3>4. m.tlb[i].virtualPage \in Pages /\ m.tlb[i].physicalPage \in Frames
      BY <2>1, Zenon DEF WellFormed, WellFormedBut, Mapping
    <3>5. m.PhysicalPageTable[m.tlb[i].physicalPage].VirtualPageNumber = m.tlb[i].virtualPage
      <4>1. m.tlb[i].physicalPage # NoFrame
        BY <3>4, MemoryConstants DEF Frames, NoFrame
      <4>2. m.PhysicalPageTable[m.pageTable[current][m.tlb[i].virtualPage]]
              = OwnedBy(current, m.tlb[i].virtualPage)
        BY <3>1, <3>2, <3>3, <3>4, <4>1, Zenon DEF TablesAgree
      <4> QED
        BY <3>3, <4>2, SMT DEF OwnedBy
    <3>6. TLBHit(m, m.tlb[i].virtualPage) = {i}
      BY <2>1, <3>2, <3>4, Zenon DEF TLBHit, TlbCaches, WellFormed, WellFormedBut
    <3> QED
      BY <3>2, <3>3, <3>5, <3>6, Zenon
  <2> QED
    BY <2>2, <2>3, Zenon DEF MappingsExact, MemoryInv
<1> QED
  BY <1>1, MemoryInvariant, PTL
=============================================================================
