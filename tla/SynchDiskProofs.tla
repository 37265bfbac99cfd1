--------------------------- MODULE SynchDiskProofs ---------------------------
(***************************************************************************)
(* For any number of clients, slots and sectors: the raw disk is asked one *)
(* thing at a time and its interrupts reach the thread that waits for      *)
(* them; as long as no call overlaps a miss the cache is coherent and the  *)
(* synchronous disk implements the store of SectorStore.                   *)
(***************************************************************************)
EXTENDS SynchDisk, NachosListProofs

\* The inductive invariant of the protocol with the raw disk.
IOInv ==
  /\ semaphore \in Nat
  /\ active \in BOOLEAN
  /\ DOMAIN pc = Clients
  /\ OneRequestAtATime
  /\ InterruptReachesRequester

LEMMA IOInit == Init => IOInv
<1> SUFFICES ASSUME Init  PROVE IOInv
  BY Zenon
<1>1. /\ semaphore = 0
      /\ active = FALSE
      /\ lock = NoClient
      /\ pc = [c \in Clients |-> "idle"]
      /\ aborted = FALSE
  BY Zenon DEF Init
<1>2. InterruptReachesRequester
  BY <1>1, DiskAssumption, Zenon DEF InterruptReachesRequester, Transferring
<1> QED  BY <1>1, <1>2, Zenon DEF IOInv, OneRequestAtATime

LEMMA IONext == IOInv /\ [Next]_vars => IOInv'
<1> SUFFICES ASSUME IOInv, [Next]_vars  PROVE IOInv'
  BY Zenon
<1> USE DEF IOInv, OneRequestAtATime, InterruptReachesRequester, Transferring
<1> USE DiskAssumption
<1>1. CASE UNCHANGED vars
  BY <1>1, Zenon DEF vars, diskVars, clientVars
<1>2. CASE RequestDone
  <2>1. /\ active
        /\ active' = FALSE
        /\ semaphore' = semaphore + 1
        /\ UNCHANGED <<lock, pc, aborted>>
    BY <1>2, Zenon DEF RequestDone, clientVars
  <2>2. lock # NoClient /\ semaphore = 0
    BY <2>1, Zenon
  <2>3. semaphore' = 1
    BY <2>1, <2>2
  <2>4. \A c \in Clients : pc'[c] \in {"evicting", "swapping"} <=> lock' = c
    BY <2>1, Zenon
  <2>5. lock' # NoClient /\ ~active' /\ ~aborted' /\ DOMAIN pc' = Clients
    BY <2>1, <2>2, Zenon
  <2>6. semaphore' \in Nat
    BY <2>3, Zenon
  <2>7. active' \in BOOLEAN
    BY <2>1, Zenon
  <2>8. InterruptReachesRequester'
    BY <2>3, <2>4, <2>5, Zenon
  <2> QED  BY <2>5, <2>6, <2>7, <2>8, Zenon
<1>3. CASE Restart
  BY <1>3, Zenon DEF Restart, clientVars
<1>4. ASSUME NEW c \in Clients, Begin(c)  PROVE IOInv'
  BY <1>4, Zenon DEF Begin, Goto, diskVars
<1>5. ASSUME NEW c \in Clients, Scan(c)  PROVE IOInv'
  <2> DEFINE l == IF hit'[c] \/ pc[c] = "rescan" THEN "done" ELSE "choose"
  <2>1. pc' = pc \/ pc' = [pc EXCEPT ![c] = l]
    BY <1>5, Zenon DEF Scan, Goto
  <2>2. l \in {"done", "choose"}  BY Zenon
  <2> HIDE DEF l
  <2>3. UNCHANGED <<semaphore, active, lock, aborted>>
    BY <1>5, Zenon DEF Scan, diskVars
  <2>4. pc[c] \in {"scan", "rescan"}
    BY <1>5, Zenon DEF Scan
  <2> QED  BY <2>1, <2>2, <2>3, <2>4, Zenon
<1>6. ASSUME NEW c \in Clients, ChooseVictim(c)  PROVE IOInv'
  <2> DEFINE l == IF cache[Victim].valid /\ cache[Victim].dirty THEN "evict"
                                                               ELSE "swap"
  <2>1. pc' = [pc EXCEPT ![c] = l] /\ pc[c] = "choose"
    BY <1>6, Zenon DEF ChooseVictim, Goto
  <2>2. l \in {"evict", "swap"}  BY Zenon
  <2> HIDE DEF l
  <2>3. UNCHANGED <<semaphore, active, lock, aborted>>
    BY <1>6, Zenon DEF ChooseVictim, diskVars
  <2> QED  BY <2>1, <2>2, <2>3, Zenon
<1>7. ASSUME NEW c \in Clients, WriteRequest(c)  PROVE IOInv'
  BY <1>7, Zenon DEF WriteRequest, StartIO, Goto
<1>8. ASSUME NEW c \in Clients, ReadRequest(c)  PROVE IOInv'
  BY <1>8, Zenon DEF ReadRequest, StartIO, Goto
<1>9. ASSUME NEW c \in Clients, Evicted(c)  PROVE IOInv'
  BY <1>9 DEF Evicted, EndIO, Goto
<1>10. ASSUME NEW c \in Clients, SwappedIn(c)  PROVE IOInv'
  BY <1>10 DEF SwappedIn, EndIO, Goto
<1>11. ASSUME NEW c \in Clients, Return(c)  PROVE IOInv'
  BY <1>11, Zenon DEF Return, Goto, diskVars
<1> QED
  BY <1>1, <1>2, <1>3, <1>4, <1>5, <1>6, <1>7, <1>8, <1>9, <1>10, <1>11, Zenon
     DEF Next, ClientStep

\* ASSERT(!active) of the disk never fails and no completion interrupt is
\* consumed by another thread than the one that waits for it, whatever the
\* number of clients and across shutdowns.
THEOREM DiskProtocol ==
  Spec => [](OneRequestAtATime /\ InterruptReachesRequester)
<1>1. IOInv => OneRequestAtATime /\ InterruptReachesRequester
  BY Zenon DEF IOInv
<1> QED  BY IOInit, IONext, <1>1, PTL DEF Spec

-----------------------------------------------------------------------------
\* The lru order lists every slot in use, once, and a slot in use, or about
\* to be written or named, has been filled.
Recorded ==
  /\ NoDuplicates(recency)
  /\ \A i \in Slots : cache[i].valid => i \in Items(recency) /\ cache[i].data \in Data
  /\ \A c \in Clients :
       pc[c] \in {"evict", "swapping"} => cache[slot[c]].data \in Data

\* A call starts at the first slot with nothing found, and a miss found nothing.
Unserved(c) == pc[c] \in {"choose", "evict", "evicting", "swap", "swapping"}

CallState ==
  \A c \in Clients :
    /\ pc[c] \in {"idle", "done"} => slot[c] = 0
    /\ pc[c] = "idle" \/ Unserved(c) => ~hit[c]

\* What holds in addition as long as no call has overlapped a miss.
Alone == \A c, d \in Clients : Missing(c) /\ c # d => pc[d] = "idle"

\* The slots a loop has passed hold the sector exactly if it was found.
Passed ==
  \A c \in Clients :
    LET found == \E i \in Slots : i < slot[c] /\ Matches(i, request[c].sector)
    IN  /\ pc[c] = "scan" => (hit[c] <=> found)
        /\ pc[c] = "rescan" /\ hit[c] => found

\* A miss looks for a sector no slot holds, and then finds it.
Absent ==
  \A c \in Clients : Unserved(c) => \A i \in Slots : ~Matches(i, request[c].sector)

Ahead ==
  \A c \in Clients :
    pc[c] = "rescan" /\ ~hit[c] =>
      \E i \in Slots : i >= slot[c] /\ Matches(i, request[c].sector)

\* A dirty victim is saved before it is replaced.
VictimSafe ==
  \A c \in Clients :
    LET victim == cache[slot[c]]
    IN  /\ pc[c] \in {"evict", "evicting"} => victim.valid
        /\ pc[c] = "evicting" => victim.data = disk[victim.sector]
        /\ pc[c] = "swap" /\ victim.valid => ~victim.dirty
        /\ pc[c] = "swapping" => victim.data = disk[request[c].sector]

Coherent ==
  /\ Alone /\ Passed /\ Absent /\ Ahead /\ VictimSafe
  /\ CleanSlotsMatchDisk /\ SectorCachedOnce /\ ServedOnReturn

CacheInv == TypeOK /\ IOInv /\ Recorded /\ CallState /\ (~raced => Coherent)

\* Using a slot puts it last in the lru order.
LEMMA TouchOrder ==
  ASSUME recency \in Seq(Slots), NoDuplicates(recency), NEW i \in Slots
  PROVE  /\ Touch(i) \in Seq(Slots)
         /\ NoDuplicates(Touch(i))
         /\ Items(Touch(i)) = Items(recency) \cup {i}
<1> DEFINE rest == IF i \in Items(recency) THEN RemoveItem(recency, i) ELSE recency
<1>1. rest \in Seq(Slots) /\ NoDuplicates(rest) /\ Items(rest) = Items(recency) \ {i}
  <2>1. CASE i \in Items(recency)
    <3> DEFINE key == [j \in Slots |-> 0]
    <3>1. key \in [Slots -> Int]
      OBVIOUS
    <3> HIDE DEF key
    <3>2. /\ RemoveItem(recency, i) \in Seq(Slots)
          /\ Items(RemoveItem(recency, i)) = Items(recency) \ {i}
          /\ NoDuplicates(RemoveItem(recency, i))
      BY <2>1, <3>1, RemoveItemItems
    <3> QED  BY <2>1, <3>2, Zenon
  <2>2. CASE i \notin Items(recency)
    BY <2>2, Zenon
  <2> QED  BY <2>1, <2>2, Zenon
<1>2. Touch(i) = Append(rest, i)
  BY Zenon DEF Touch
<1> HIDE DEF rest
<1>3. /\ Append(rest, i) \in Seq(Slots)
      /\ Len(Append(rest, i)) = Len(rest) + 1
      /\ \A j \in 1 .. Len(rest) : Append(rest, i)[j] = rest[j]
      /\ Append(rest, i)[Len(rest) + 1] = i
      /\ Len(rest) \in Nat
  BY <1>1
<1>4. DOMAIN Append(rest, i) = 1 .. Len(rest) + 1 /\ DOMAIN rest = 1 .. Len(rest)
  BY <1>1, <1>3
<1>5. i \notin Items(rest)
  BY <1>1, Zenon
<1>6. NoDuplicates(Append(rest, i))
  BY <1>1, <1>3, <1>4, <1>5 DEF NoDuplicates, Items
<1>7. Items(Append(rest, i)) = Items(rest) \cup {i}
  <2>1. ASSUME NEW x \in Items(Append(rest, i))  PROVE x \in Items(rest) \cup {i}
    BY <1>3, <1>4 DEF Items
  <2>2. ASSUME NEW x \in Items(rest) \cup {i}  PROVE x \in Items(Append(rest, i))
    BY <1>3, <1>4 DEF Items
  <2> QED  BY <2>1, <2>2, Zenon
<1> QED  BY <1>1, <1>2, <1>3, <1>6, <1>7, Zenon

\* CacheMiss always finds a victim: a slot that is free if one is.
LEMMA VictimFound ==
  ASSUME NatWellOrdered, TypeOK, Recorded
  PROVE  Victim \in Slots
<1>1. CASE \E i \in Slots : ~cache[i].valid
  <2> DEFINE free == {i \in Slots : ~cache[i].valid}
  <2>1. free \in SUBSET Nat /\ free # {}
    BY <1>1 DEF Slots
  <2>2. PICK i \in free : \A j \in free : i <= j
    BY <2>1, Zenon DEF NatWellOrdered
  <2>3. i \in Slots /\ ~cache[i].valid /\ \A j \in 0 .. i - 1 : cache[j].valid
    BY <2>2, DiskAssumption DEF Slots
  <2> QED  BY <1>1, <2>3, Zenon DEF Victim
<1>2. CASE ~ \E i \in Slots : ~cache[i].valid
  <2>1. 0 \in Slots
    BY DiskAssumption DEF Slots
  <2>2. 0 \in Items(recency)
    BY <1>2, <2>1, Zenon DEF Recorded
  <2>3. recency \in Seq(Slots) /\ recency # <<>>
    BY <2>2 DEF TypeOK, Items
  <2>4. Head(recency) \in Slots
    BY <2>3
  <2> QED  BY <1>2, <2>4, Zenon DEF Victim
<1> QED  BY <1>1, <1>2, Zenon

LEMMA NoRequestTyped == NoRequest \in Requests
<1>1. PICK x \in Sectors : TRUE
  BY DiskAssumption, Zenon
<1>2. [op |-> "read", sector |-> x, data |-> NoData] \in Requests
  BY Zenon DEF Requests
<1> QED  BY <1>2, Zenon DEF NoRequest

\* The fields a hit leaves alone, and those it writes.
LEMMA AccessEffect ==
  ASSUME TypeOK, Recorded, NEW c \in Clients, Access(c, slot[c]),
         Matches(slot[c], request[c].sector)
  PROVE  /\ hit' = [hit EXCEPT ![c] = TRUE]
         /\ recency' \in Seq(Slots) /\ NoDuplicates(recency')
         /\ Items(recency') = Items(recency) \cup {slot[c]}
         /\ cache' \in [Slots -> [valid : BOOLEAN, dirty : BOOLEAN, sector : Sectors,
                                  data : Data \cup {NoData}]]
         /\ buffer' \in [Clients -> Data \cup {NoData}]
         /\ \A i \in Slots : cache'[i].valid = cache[i].valid /\ cache'[i].sector = cache[i].sector
         /\ \A i \in Slots : i # slot[c] => cache'[i] = cache[i]
         /\ \/ cache' = cache
            \/ cache'[slot[c]].dirty /\ cache'[slot[c]].data \in Data
         /\ request[c].op # "read" =>
              cache'[slot[c]].data = request[c].data /\ buffer' = buffer
<1>1. slot[c] \in Slots /\ request[c] \in Requests
  BY Zenon DEF TypeOK
<1>2. recency \in Seq(Slots) /\ NoDuplicates(recency)
  BY Zenon DEF TypeOK, Recorded
<1>3. /\ recency' \in Seq(Slots) /\ NoDuplicates(recency')
      /\ Items(recency') = Items(recency) \cup {slot[c]}
  BY <1>1, <1>2, TouchOrder, Zenon DEF Access
<1>4. CASE request[c].op = "read"
  <2>1. buffer' = [buffer EXCEPT ![c] = cache[slot[c]].data] /\ cache' = cache
    BY <1>4, Zenon DEF Access
  <2>2. cache[slot[c]].data \in Data \cup {NoData}
    BY <1>1, Zenon DEF TypeOK
  <2> QED  BY <1>3, <2>1, <2>2 DEF TypeOK, Access
<1>5. CASE request[c].op # "read"
  <2>1. /\ cache' = [cache EXCEPT ![slot[c]].data = request[c].data, ![slot[c]].dirty = TRUE]
        /\ buffer' = buffer
    BY <1>5, Zenon DEF Access
  <2>2. request[c].data \in Data
    BY <1>1, <1>5, Zenon DEF Requests
  <2>3. /\ cache' \in [Slots -> [valid : BOOLEAN, dirty : BOOLEAN, sector : Sectors,
                                 data : Data \cup {NoData}]]
        /\ \A i \in Slots : cache'[i].valid = cache[i].valid /\ cache'[i].sector = cache[i].sector
        /\ \A i \in Slots : i # slot[c] => cache'[i] = cache[i]
        /\ cache'[slot[c]].dirty /\ cache'[slot[c]].data = request[c].data
    <3> DEFINE entry == [valid : BOOLEAN, dirty : BOOLEAN, sector : Sectors,
                         data : Data \cup {NoData}]
               new == [cache[slot[c]] EXCEPT !.data = request[c].data, !.dirty = TRUE]
    <3>1. cache' = [cache EXCEPT ![slot[c]] = new]
      BY <2>1, Zenon
    <3>2. cache \in [Slots -> entry] /\ cache[slot[c]] \in entry
      BY <1>1, Zenon DEF TypeOK
    <3>3. new \in entry
      BY <2>2, <3>2, Zenon
    <3>4. new.valid = cache[slot[c]].valid /\ new.sector = cache[slot[c]].sector /\ new.dirty
          /\ new.data = request[c].data
      BY <3>2, Zenon
    <3> HIDE DEF new, entry
    <3>5. cache' \in [Slots -> entry]
      BY <1>1, <3>1, <3>2, <3>3, Zenon
    <3>6. \A i \in Slots : cache'[i] = IF i = slot[c] THEN new ELSE cache[i]
      BY <1>1, <3>1, <3>2, Zenon
    <3> QED  BY <1>1, <3>4, <3>5, <3>6, Zenon DEF entry
  <2> QED  BY <1>3, <2>1, <2>2, <2>3, Zenon DEF TypeOK, Access
<1> QED  BY <1>4, <1>5, Zenon

\* A turn of a loop: the slot matches and is used, or nothing happens to it.
LEMMA ScanEffect ==
  ASSUME TypeOK, Recorded, NEW c \in Clients, Scan(c)
  PROVE  /\ UNCHANGED <<disk, active, semaphore, lock, request, restarts, aborted>>
         /\ \/ Matches(slot[c], request[c].sector) /\ Access(c, slot[c])
            \/ ~Matches(slot[c], request[c].sector) /\ UNCHANGED <<cache, recency, hit, buffer>>
         /\ \/ slot[c] < CacheSize - 1 /\ slot' = [slot EXCEPT ![c] = slot[c] + 1] /\ pc' = pc
            \/ /\ slot[c] = CacheSize - 1 /\ slot' = [slot EXCEPT ![c] = 0]
               /\ \/ (hit'[c] \/ pc[c] = "rescan") /\ pc' = [pc EXCEPT ![c] = "done"]
                  \/ ~hit'[c] /\ pc[c] = "scan" /\ pc' = [pc EXCEPT ![c] = "choose"]
         /\ raced' = (raced \/ /\ pc'[c] = "choose" /\ \E d \in Clients \ {c} : pc[d] # "idle")
<1>1. slot[c] \in 0 .. CacheSize - 1
  BY Zenon DEF TypeOK, Slots
<1>2. pc[c] \in {"scan", "rescan"}
  BY Zenon DEF Scan
<1> QED  BY <1>1, <1>2, DiskAssumption DEF Scan, LastSlot, Goto, diskVars

Entries ==
  [valid : BOOLEAN, dirty : BOOLEAN, sector : Sectors, data : Data \cup {NoData}]

\* What the steps of a miss do to the victim's slot.
LEMMA ReadRequestEffect ==
  ASSUME TypeOK, NEW c \in Clients, ReadRequest(c)
  PROVE  /\ cache' \in [Slots -> Entries]
         /\ \A i \in Slots : i # slot[c] => cache'[i] = cache[i]
         /\ cache'[slot[c]].valid = cache[slot[c]].valid
         /\ cache'[slot[c]].dirty = cache[slot[c]].dirty
         /\ cache'[slot[c]].sector = cache[slot[c]].sector
         /\ cache'[slot[c]].data = disk[request[c].sector]
<1> DEFINE new == [cache[slot[c]] EXCEPT !.data = disk[request[c].sector]]
<1>1. slot[c] \in Slots /\ request[c].sector \in Sectors
  BY Zenon DEF TypeOK, Requests
<1>2. cache' = [cache EXCEPT ![slot[c]] = new]
  BY Zenon DEF ReadRequest
<1>3. cache \in [Slots -> Entries] /\ cache[slot[c]] \in Entries
  BY <1>1, Zenon DEF TypeOK, Entries
<1>4. disk[request[c].sector] \in Data
  BY <1>1, Zenon DEF TypeOK
<1>5. new \in Entries
  BY <1>3, <1>4, Zenon DEF Entries
<1>6. /\ new.valid = cache[slot[c]].valid /\ new.dirty = cache[slot[c]].dirty
      /\ new.sector = cache[slot[c]].sector /\ new.data = disk[request[c].sector]
  BY <1>3, Zenon DEF Entries
<1> HIDE DEF new
<1>7. cache' \in [Slots -> Entries]
  BY <1>1, <1>2, <1>3, <1>5, Zenon
<1>8. \A i \in Slots : cache'[i] = IF i = slot[c] THEN new ELSE cache[i]
  BY <1>1, <1>2, <1>3, Zenon
<1> QED  BY <1>1, <1>6, <1>7, <1>8, Zenon

LEMMA EvictedEffect ==
  ASSUME TypeOK, NEW c \in Clients, Evicted(c)
  PROVE  /\ cache' \in [Slots -> Entries]
         /\ \A i \in Slots : i # slot[c] => cache'[i] = cache[i]
         /\ ~cache'[slot[c]].valid
         /\ cache'[slot[c]].sector = cache[slot[c]].sector
         /\ cache'[slot[c]].data = cache[slot[c]].data
<1> DEFINE new == [cache[slot[c]] EXCEPT !.dirty = FALSE, !.valid = FALSE]
<1>1. slot[c] \in Slots
  BY Zenon DEF TypeOK
<1>2. cache' = [cache EXCEPT ![slot[c]] = new]
  BY Zenon DEF Evicted
<1>3. cache \in [Slots -> Entries] /\ cache[slot[c]] \in Entries
  BY <1>1, Zenon DEF TypeOK, Entries
<1>5. new \in Entries
  BY <1>3, Zenon DEF Entries
<1>6. ~new.valid /\ new.sector = cache[slot[c]].sector /\ new.data = cache[slot[c]].data
  BY <1>3, Zenon DEF Entries
<1> HIDE DEF new
<1>7. cache' \in [Slots -> Entries]
  BY <1>1, <1>2, <1>3, <1>5, Zenon
<1>8. \A i \in Slots : cache'[i] = IF i = slot[c] THEN new ELSE cache[i]
  BY <1>1, <1>2, <1>3, Zenon
<1> QED  BY <1>1, <1>6, <1>7, <1>8, Zenon

LEMMA SwappedInEffect ==
  ASSUME TypeOK, NEW c \in Clients, SwappedIn(c)
  PROVE  /\ cache' \in [Slots -> Entries]
         /\ \A i \in Slots : i # slot[c] => cache'[i] = cache[i]
         /\ cache'[slot[c]].valid /\ ~cache'[slot[c]].dirty
         /\ cache'[slot[c]].sector = request[c].sector
         /\ cache'[slot[c]].data = cache[slot[c]].data
<1> DEFINE new == [cache[slot[c]] EXCEPT !.dirty = FALSE, !.valid = TRUE,
                                         !.sector = request[c].sector]
<1>1. slot[c] \in Slots /\ request[c].sector \in Sectors
  BY Zenon DEF TypeOK, Requests
<1>2. cache' = [cache EXCEPT ![slot[c]] = new]
  BY Zenon DEF SwappedIn
<1>3. cache \in [Slots -> Entries] /\ cache[slot[c]] \in Entries
  BY <1>1, Zenon DEF TypeOK, Entries
<1>5. new \in Entries
  BY <1>1, <1>3, Zenon DEF Entries
<1>6. /\ new.valid /\ ~new.dirty
      /\ new.sector = request[c].sector /\ new.data = cache[slot[c]].data
  BY <1>3, Zenon DEF Entries
<1> HIDE DEF new
<1>7. cache' \in [Slots -> Entries]
  BY <1>1, <1>2, <1>3, <1>5, Zenon
<1>8. \A i \in Slots : cache'[i] = IF i = slot[c] THEN new ELSE cache[i]
  BY <1>1, <1>2, <1>3, Zenon
<1> QED  BY <1>1, <1>6, <1>7, <1>8, Zenon

LEMMA TypeInit == Init => TypeOK /\ Recorded /\ CallState
<1> SUFFICES ASSUME Init  PROVE TypeOK /\ Recorded /\ CallState
  BY Zenon
<1> USE DiskAssumption
<1>1. EmptySlot \in Entries /\ ~EmptySlot.valid
  BY Zenon DEF EmptySlot, Entries
<1>2. 0 \in Slots
  BY DEF Slots
<1>3. cache \in [Slots -> Entries] /\ \A i \in Slots : ~cache[i].valid
  BY <1>1, Zenon DEF Init
<1>4. recency \in Seq(Slots) /\ NoDuplicates(recency)
  BY DEF Init, NoDuplicates
<1>5. /\ disk \in [Sectors -> Data] /\ semaphore \in Nat /\ lock \in Clients \cup {NoClient}
      /\ pc = [c \in Clients |-> "idle"] /\ slot \in [Clients -> Slots]
      /\ request \in [Clients -> Requests] /\ buffer \in [Clients -> Data \cup {NoData}]
      /\ restarts \in 0 .. MaxRestarts
  BY <1>2, NoRequestTyped DEF Init
<1>6. /\ active \in BOOLEAN /\ hit \in [Clients -> BOOLEAN]
      /\ aborted \in BOOLEAN /\ raced \in BOOLEAN
  BY Zenon DEF Init
<1>7. TypeOK
  BY <1>3, <1>4, <1>5, <1>6, Zenon DEF TypeOK, Entries
<1>8. CallState
  BY <1>5, Zenon DEF Init, CallState, Unserved
<1> QED  BY <1>3, <1>4, <1>5, <1>7, <1>8, Zenon DEF Recorded

LEMMA TypeNext ==
  NatWellOrdered /\ TypeOK /\ Recorded /\ [Next]_vars => TypeOK' /\ Recorded'
<1> SUFFICES ASSUME NatWellOrdered, TypeOK, Recorded, [Next]_vars  PROVE TypeOK' /\ Recorded'
  BY Zenon
<1> USE DiskAssumption
<1>1. CASE UNCHANGED vars
  BY <1>1, Zenon DEF vars, diskVars, clientVars, TypeOK, Recorded
<1>2. CASE RequestDone
  <2>1. /\ semaphore' \in Nat /\ active' = FALSE
        /\ UNCHANGED <<disk, lock, cache, recency, pc, request, slot, hit, buffer, restarts,
                       aborted, raced>>
    BY <1>2 DEF RequestDone, clientVars, TypeOK
  <2>2. active' \in BOOLEAN
    BY <2>1, Zenon
  <2> QED  BY <2>1, <2>2, Zenon DEF TypeOK, Recorded
<1>3. CASE Restart
  <2>1. EmptySlot \in Entries /\ ~EmptySlot.valid
    BY Zenon DEF EmptySlot, Entries
  <2>2. 0 \in Slots
    BY DEF Slots
  <2>3. cache' \in [Slots -> Entries] /\ \A i \in Slots : ~cache'[i].valid
    BY <1>3, <2>1, Zenon DEF Restart
  <2>4. recency' \in Seq(Slots) /\ NoDuplicates(recency')
    BY <1>3 DEF Restart, NoDuplicates
  <2>5. /\ disk' \in [Sectors -> Data] /\ semaphore' \in Nat /\ lock' \in Clients \cup {NoClient}
        /\ pc' = [c \in Clients |-> "idle"] /\ slot' \in [Clients -> Slots]
        /\ request' \in [Clients -> Requests] /\ buffer' \in [Clients -> Data \cup {NoData}]
        /\ restarts' \in 0 .. MaxRestarts
    BY <1>3, <2>2, NoRequestTyped DEF Restart, TypeOK
  <2>6. /\ active' \in BOOLEAN /\ hit' \in [Clients -> BOOLEAN]
        /\ raced' \in BOOLEAN
    BY <1>3, Zenon DEF Restart
  <2>7. aborted' \in BOOLEAN
    BY <1>3, Zenon DEF Restart, TypeOK
  <2> QED  BY <2>3, <2>4, <2>5, <2>6, <2>7, Zenon DEF TypeOK, Entries, Recorded
<1>4. ASSUME NEW c \in Clients, Begin(c)  PROVE TypeOK' /\ Recorded'
  <2>1. request' \in [Clients -> Requests]
    BY <1>4, AsksAssumption, Zenon DEF Begin, TypeOK
  <2>2. raced' \in BOOLEAN
    BY <1>4, Zenon DEF Begin
  <2> QED  BY <1>4, <2>1, <2>2, Zenon DEF Begin, Goto, diskVars, TypeOK, Recorded
<1>5. ASSUME NEW c \in Clients, Scan(c)  PROVE TypeOK' /\ Recorded'
  <2>1. slot[c] \in 0 .. CacheSize - 1
    BY Zenon DEF TypeOK, Slots
  <2>2. slot' \in [Clients -> Slots]
    <3>1. PICK n \in {slot[c] + 1, 0} : slot' = [slot EXCEPT ![c] = n] /\ (n = 0 \/ slot[c] < CacheSize - 1)
      BY <1>5, ScanEffect, Zenon
    <3>2. n \in Slots
      BY <2>1, <3>1 DEF Slots
    <3> QED  BY <3>1, <3>2, Zenon DEF TypeOK
  <2>3. pc' \in [Clients -> {"idle", "scan", "choose", "evict", "evicting",
                             "swap", "swapping", "rescan", "done"}]
    <3>1. \E s \in {"done", "choose"} : pc' = pc \/ pc' = [pc EXCEPT ![c] = s]
      BY <1>5, ScanEffect, Zenon
    <3>2. PICK s \in {"done", "choose"} : pc' = pc \/ pc' = [pc EXCEPT ![c] = s]
      BY <3>1, Zenon
    <3> QED  BY <3>2, Zenon DEF TypeOK
  <2>4. raced' \in BOOLEAN
    BY <1>5, Zenon DEF Scan
  <2>5. /\ cache' \in [Slots -> Entries] /\ recency' \in Seq(Slots) /\ NoDuplicates(recency')
        /\ buffer' \in [Clients -> Data \cup {NoData}]
        /\ \A i \in Slots : cache'[i].valid => i \in Items(recency') /\ cache'[i].data \in Data
        /\ \A i \in Slots : cache[i].data \in Data => cache'[i].data \in Data
    <3>1. CASE Matches(slot[c], request[c].sector)
      <4>1. Access(c, slot[c])
        BY <1>5, <3>1, ScanEffect, Zenon
      <4>2. slot[c] \in Slots
        BY Zenon DEF TypeOK
      <4>3. /\ cache' \in [Slots -> Entries] /\ recency' \in Seq(Slots) /\ NoDuplicates(recency')
            /\ buffer' \in [Clients -> Data \cup {NoData}]
            /\ Items(recency') = Items(recency) \cup {slot[c]}
        BY <3>1, <4>1, AccessEffect, Zenon DEF Entries
      <4>4. \A i \in Slots : cache'[i].valid = cache[i].valid
        BY <3>1, <4>1, AccessEffect, Zenon
      <4>5. \A i \in Slots : cache'[i].data = cache[i].data \/ cache'[i].data \in Data
        BY <3>1, <4>1, <4>2, AccessEffect, Zenon
      <4> QED  BY <4>3, <4>4, <4>5, Zenon DEF Recorded
    <3>2. CASE ~Matches(slot[c], request[c].sector)
      BY <1>5, <3>2, ScanEffect DEF Recorded, Entries, TypeOK
    <3> QED  BY <3>1, <3>2, Zenon
  <2>6. hit' \in [Clients -> BOOLEAN]
    <3>1. hit' = hit \/ hit' = [hit EXCEPT ![c] = TRUE]
      BY <1>5, ScanEffect, Zenon DEF Access
    <3> QED  BY <3>1, Zenon DEF TypeOK
  <2>7. \A d \in Clients : pc'[d] \in {"evict", "swapping"} =>
           slot'[d] = slot[d] /\ pc[d] = pc'[d] /\ slot[d] \in Slots
    BY <1>5, ScanEffect DEF TypeOK, Scan
  <2>8. Recorded'
    BY <2>5, <2>7, Zenon DEF Recorded
  <2> QED  BY <1>5, <2>2, <2>3, <2>4, <2>5, <2>6, <2>8, ScanEffect DEF TypeOK, Entries
<1>6. ASSUME NEW c \in Clients, ChooseVictim(c)  PROVE TypeOK' /\ Recorded'
  <2>1. Victim \in Slots
    BY VictimFound, Zenon
  <2>2. pc' = [pc EXCEPT ![c] = IF cache[Victim].valid /\ cache[Victim].dirty THEN "evict"
                                ELSE "swap"]
    BY <1>6, Zenon DEF ChooseVictim, Goto
  <2>3. slot' = [slot EXCEPT ![c] = Victim]
    BY <1>6, Zenon DEF ChooseVictim
  <2> HIDE DEF Victim
  <2>4. TypeOK'
    BY <1>6, <2>1, <2>2, <2>3 DEF ChooseVictim, diskVars, TypeOK
  <2>5. UNCHANGED <<cache, recency>>
    BY <1>6, Zenon DEF ChooseVictim
  <2> QED  BY <2>1, <2>2, <2>3, <2>4, <2>5, Zenon DEF TypeOK, Recorded
<1>7. ASSUME NEW c \in Clients, WriteRequest(c)  PROVE TypeOK' /\ Recorded'
  <2>1. cache[slot[c]].sector \in Sectors /\ cache[slot[c]].data \in Data
    BY <1>7, Zenon DEF WriteRequest, Recorded, TypeOK
  <2>2. disk' \in [Sectors -> Data]
    BY <1>7, <2>1, Zenon DEF WriteRequest, TypeOK
  <2>3. active' \in BOOLEAN /\ aborted' \in BOOLEAN
    BY <1>7, Zenon DEF WriteRequest, StartIO
  <2> QED  BY <1>7, <2>2, <2>3, Zenon DEF WriteRequest, StartIO, Goto, TypeOK, Recorded
<1>8. ASSUME NEW c \in Clients, ReadRequest(c)  PROVE TypeOK' /\ Recorded'
  <2>1. request[c].sector \in Sectors /\ slot[c] \in Slots
    BY Zenon DEF TypeOK, Requests
  <2>2. disk[request[c].sector] \in Data
    BY <2>1, Zenon DEF TypeOK
  <2>3. active' \in BOOLEAN /\ aborted' \in BOOLEAN
    BY <1>8, Zenon DEF ReadRequest, StartIO
  <2>4. cache' \in [Slots -> Entries]
    BY <1>8, ReadRequestEffect, Zenon
  <2>5. TypeOK'
    BY <1>8, <2>3, <2>4, Zenon DEF ReadRequest, StartIO, Goto, TypeOK, Entries
  <2>6. UNCHANGED <<recency, slot>> /\ pc' = [pc EXCEPT ![c] = "swapping"]
    BY <1>8, Zenon DEF ReadRequest, StartIO, Goto
  <2>7. \A i \in Slots : cache'[i].valid = cache[i].valid
                        /\ (cache'[i].data = cache[i].data \/ cache'[i].data \in Data)
    BY <1>8, <2>1, <2>2, ReadRequestEffect, Zenon
  <2>8. cache'[slot[c]].data \in Data
    BY <1>8, <2>2, ReadRequestEffect, Zenon
  <2> QED  BY <2>1, <2>5, <2>6, <2>7, <2>8, Zenon DEF Recorded, TypeOK
<1>9. ASSUME NEW c \in Clients, Evicted(c)  PROVE TypeOK' /\ Recorded'
  <2>1. slot[c] \in Slots
    BY Zenon DEF TypeOK
  <2>2. semaphore' \in Nat
    BY <1>9 DEF Evicted, EndIO, TypeOK
  <2>3. cache' \in [Slots -> Entries]
    BY <1>9, EvictedEffect, Zenon
  <2>4. TypeOK'
    BY <1>9, <2>2, <2>3, Zenon DEF Evicted, EndIO, Goto, TypeOK, Entries
  <2>5. UNCHANGED <<recency, slot>> /\ pc' = [pc EXCEPT ![c] = "swap"]
    BY <1>9, Zenon DEF Evicted, EndIO, Goto
  <2>6. \A i \in Slots : (cache'[i].valid => cache[i].valid) /\ cache'[i].data = cache[i].data
    BY <1>9, <2>1, EvictedEffect, Zenon
  <2> QED  BY <2>1, <2>4, <2>5, <2>6 DEF Recorded, TypeOK
<1>10. ASSUME NEW c \in Clients, SwappedIn(c)  PROVE TypeOK' /\ Recorded'
  <2>1. slot[c] \in Slots /\ 0 \in Slots
    BY DEF TypeOK, Slots
  <2>2. semaphore' \in Nat
    BY <1>10 DEF SwappedIn, EndIO, TypeOK
  <2>3. cache' \in [Slots -> Entries]
    BY <1>10, SwappedInEffect, Zenon
  <2>4. /\ recency' \in Seq(Slots) /\ NoDuplicates(recency')
        /\ Items(recency') = Items(recency) \cup {slot[c]}
    BY <1>10, <2>1, TouchOrder, Zenon DEF SwappedIn, TypeOK, Recorded
  <2>5. slot' = [slot EXCEPT ![c] = 0] /\ pc' = [pc EXCEPT ![c] = "rescan"]
    BY <1>10, Zenon DEF SwappedIn, EndIO, Goto
  <2>6. TypeOK'
    BY <1>10, <2>1, <2>2, <2>3, <2>4, <2>5 DEF SwappedIn, EndIO, TypeOK, Entries
  <2>7. \A i \in Slots : (cache'[i].valid => cache[i].valid \/ i = slot[c])
                        /\ cache'[i].data = cache[i].data
    BY <1>10, <2>1, SwappedInEffect, Zenon
  <2>8. cache[slot[c]].data \in Data
    BY <1>10, Zenon DEF SwappedIn, Recorded
  <2> QED  BY <2>1, <2>4, <2>5, <2>6, <2>7, <2>8 DEF Recorded, TypeOK
<1>11. ASSUME NEW c \in Clients, Return(c)  PROVE TypeOK' /\ Recorded'
  <2>1. hit' \in [Clients -> BOOLEAN]
    BY <1>11, Zenon DEF Return, TypeOK
  <2> QED  BY <1>11, <2>1, NoRequestTyped, Zenon DEF Return, Goto, diskVars, TypeOK, Recorded
<1> QED
  BY <1>1, <1>2, <1>3, <1>4, <1>5, <1>6, <1>7, <1>8, <1>9, <1>10, <1>11, Zenon
     DEF Next, ClientStep

LEMMA CallNext ==
  TypeOK /\ Recorded /\ CallState /\ [Next]_vars => CallState'
<1> SUFFICES ASSUME TypeOK, Recorded, CallState, [Next]_vars  PROVE CallState'
  BY Zenon
<1> USE DEF CallState, Unserved
<1>1. CASE UNCHANGED vars
  BY <1>1, Zenon DEF vars, clientVars
<1>2. CASE RequestDone
  BY <1>2, Zenon DEF RequestDone, clientVars
<1>3. CASE Restart
  BY <1>3, Zenon DEF Restart
<1>4. ASSUME NEW c \in Clients, Begin(c)  PROVE CallState'
  BY <1>4, Zenon DEF Begin, Goto, TypeOK
<1>5. ASSUME NEW c \in Clients, Scan(c)  PROVE CallState'
  <2>1. hit' = hit \/ hit' = [hit EXCEPT ![c] = TRUE]
    BY <1>5, ScanEffect, Zenon DEF Access
  <2>2. \A d \in Clients : d # c => pc'[d] = pc[d] /\ slot'[d] = slot[d] /\ hit'[d] = hit[d]
    BY <1>5, <2>1, ScanEffect DEF TypeOK
  <2>3. pc[c] \in {"scan", "rescan"}
    BY <1>5, Zenon DEF Scan
  <2>4. /\ pc'[c] \in {"idle", "done"} => slot'[c] = 0
        /\ pc'[c] = "idle" \/ Unserved(c)' => ~hit'[c]
    BY <1>5, <2>3, ScanEffect DEF TypeOK
  <2> QED  BY <2>2, <2>4, Zenon
<1>6. ASSUME NEW c \in Clients, ChooseVictim(c)  PROVE CallState'
  <2>1. PICK l \in {"evict", "swap"} : pc' = [pc EXCEPT ![c] = l]
    BY <1>6, Zenon DEF ChooseVictim, Goto
  <2> QED  BY <1>6, <2>1, Zenon DEF ChooseVictim, TypeOK
<1>7. ASSUME NEW c \in Clients, WriteRequest(c)  PROVE CallState'
  BY <1>7, Zenon DEF WriteRequest, StartIO, Goto, TypeOK
<1>8. ASSUME NEW c \in Clients, ReadRequest(c)  PROVE CallState'
  BY <1>8, Zenon DEF ReadRequest, StartIO, Goto, TypeOK
<1>9. ASSUME NEW c \in Clients, Evicted(c)  PROVE CallState'
  BY <1>9, Zenon DEF Evicted, EndIO, Goto, TypeOK
<1>10. ASSUME NEW c \in Clients, SwappedIn(c)  PROVE CallState'
  BY <1>10, Zenon DEF SwappedIn, EndIO, Goto, TypeOK
<1>11. ASSUME NEW c \in Clients, Return(c)  PROVE CallState'
  BY <1>11, Zenon DEF Return, Goto, TypeOK
<1> QED
  BY <1>1, <1>2, <1>3, <1>4, <1>5, <1>6, <1>7, <1>8, <1>9, <1>10, <1>11, Zenon
     DEF Next, ClientStep

LEMMA ScanCoherent ==
  ASSUME CacheInv, NEW c \in Clients, Scan(c), ~raced'
  PROVE  Coherent'
<1>1. TypeOK /\ Recorded /\ CallState
  BY Zenon DEF CacheInv
<1>2. pc[c] \in {"scan", "rescan"} /\ slot[c] \in 0 .. CacheSize - 1
  BY <1>1, Zenon DEF Scan, TypeOK, Slots
<1>3. ~raced
  BY ScanEffect, <1>1, Zenon
<1>4. Coherent
  BY <1>3, Zenon DEF CacheInv
<1>5. \A i \in Slots : cache'[i].valid = cache[i].valid /\ cache'[i].sector = cache[i].sector
  BY <1>1, ScanEffect, AccessEffect, Zenon
<1>6. \A i \in Slots, x \in Sectors : Matches(i, x)' <=> Matches(i, x)
  BY <1>5, Zenon DEF Matches
<1>7. /\ request' = request /\ disk' = disk
      /\ \A d \in Clients : request[d].sector \in Sectors
  BY <1>1, ScanEffect, Zenon DEF TypeOK, Requests
<1>8. hit'[c] <=> hit[c] \/ Matches(slot[c], request[c].sector)
  <2>1. \/ Matches(slot[c], request[c].sector) /\ hit' = [hit EXCEPT ![c] = TRUE]
        \/ ~Matches(slot[c], request[c].sector) /\ hit' = hit
    BY <1>1, ScanEffect, Zenon DEF Access
  <2>2. hit \in [Clients -> BOOLEAN]
    BY <1>1, Zenon DEF TypeOK
  <2> QED  BY <2>1, <2>2, Zenon
<1>9. \A d \in Clients : d # c =>
        /\ pc'[d] = pc[d] /\ slot'[d] = slot[d] /\ hit'[d] = hit[d]
        /\ ~Missing(d)
  <2>1. hit' = hit \/ hit' = [hit EXCEPT ![c] = TRUE]
    BY <1>1, ScanEffect, Zenon DEF Access
  <2>2. \A d \in Clients : d # c => pc'[d] = pc[d] /\ slot'[d] = slot[d] /\ hit'[d] = hit[d]
    BY <1>1, <2>1, ScanEffect DEF TypeOK
  <2>3. \A d \in Clients : d # c => ~Missing(d)
    BY <1>2, <1>4, Zenon DEF Coherent, Alone
  <2> QED  BY <2>2, <2>3, Zenon
<1>10. \/ slot[c] < CacheSize - 1 /\ slot'[c] = slot[c] + 1 /\ pc'[c] = pc[c]
       \/ /\ slot[c] = CacheSize - 1 /\ slot'[c] = 0
          /\ \/ (hit'[c] \/ pc[c] = "rescan") /\ pc'[c] = "done"
             \/ ~hit'[c] /\ pc[c] = "scan" /\ pc'[c] = "choose"
  BY <1>1, ScanEffect DEF TypeOK
<1>11. Alone'
  <2>1. pc'[c] = "choose" => \A d \in Clients : d # c => pc[d] = "idle"
    BY <1>1, ScanEffect, Zenon
  <2>2. pc'[c] = "rescan" => pc[c] = "rescan"
    BY <1>2, <1>10, Zenon
  <2> QED  BY <1>2, <1>4, <1>9, <1>10, <2>1, <2>2, Zenon DEF Coherent, Alone, Missing
<1>12. Passed'
  <2>1. ASSUME NEW d \in Clients, d # c
        PROVE  LET found == \E i \in Slots : i < slot[d] /\ Matches(i, request[d].sector)
               IN  /\ (pc[d] = "scan" => (hit[d] <=> found))'
                   /\ (pc[d] = "rescan" /\ hit[d] => found)'
    BY <1>4, <1>6, <1>7, <1>9, <2>1, Zenon DEF Coherent, Passed
  <2>2. LET found == \E i \in Slots : i < slot[c] /\ Matches(i, request[c].sector)
        IN  /\ (pc[c] = "scan" => (hit[c] <=> found))'
            /\ (pc[c] = "rescan" /\ hit[c] => found)'
    <3>1. CASE slot'[c] = slot[c] + 1 /\ pc'[c] = pc[c] /\ slot[c] < CacheSize - 1
      <4>1. slot[c] \in Slots
        BY <1>2, Zenon DEF Slots
      <4>2. \A i \in Slots : i < slot'[c] <=> i < slot[c] \/ i = slot[c]
        BY <1>2, <3>1 DEF Slots
      <4> QED  BY <1>4, <1>6, <1>7, <1>8, <3>1, <4>1, <4>2, Zenon DEF Coherent, Passed
    <3>2. CASE pc'[c] \in {"done", "choose"}
      BY <3>2, Zenon
    <3> QED  BY <1>10, <3>1, <3>2, Zenon
  <2> QED  BY <2>1, <2>2, Zenon DEF Passed
<1>13. Absent'
  <2>1. ASSUME NEW d \in Clients, Unserved(d)', NEW i \in Slots
        PROVE  ~Matches(i, request[d].sector)'
    <3>1. d = c /\ pc'[c] = "choose" /\ pc[c] = "scan" /\ ~hit'[c] /\ slot[c] = CacheSize - 1
      BY <1>2, <1>9, <1>10, <2>1, Zenon DEF Unserved, Missing
    <3>2. i < slot[c] \/ i = slot[c]
      BY <3>1, DiskAssumption DEF Slots
    <3>3. ~Matches(i, request[c].sector)
      BY <1>4, <1>8, <3>1, <3>2, Zenon DEF Coherent, Passed
    <3> QED  BY <1>6, <1>7, <3>1, <3>3, Zenon
  <2> QED  BY <2>1, Zenon DEF Absent
<1>14. Ahead'
  <2>1. ASSUME NEW d \in Clients, (pc[d] = "rescan" /\ ~hit[d])'
        PROVE  (\E i \in Slots : i >= slot[d] /\ Matches(i, request[d].sector))'
    <3>1. d = c /\ pc[c] = "rescan" /\ slot'[c] = slot[c] + 1
      BY <1>9, <1>10, <2>1, Zenon DEF Missing
    <3>2. ~hit[c] /\ ~Matches(slot[c], request[c].sector)
      BY <1>8, <2>1, <3>1, Zenon
    <3>3. PICK i \in Slots : i >= slot[c] /\ Matches(i, request[c].sector)
      BY <1>4, <3>1, <3>2, Zenon DEF Coherent, Ahead
    <3>4. i >= slot'[c]
      BY <1>2, <3>1, <3>2, <3>3 DEF Slots
    <3> QED  BY <1>6, <1>7, <3>1, <3>3, <3>4, Zenon
  <2> QED  BY <2>1, Zenon DEF Ahead
<1>15. VictimSafe'
  <2>1. \A d \in Clients : pc'[d] \notin {"evict", "evicting", "swap", "swapping"}
    BY <1>2, <1>9, <1>10, Zenon DEF Missing
  <2> QED  BY <2>1, Zenon DEF VictimSafe
<1>16. CleanSlotsMatchDisk'
  <2>1. \A d \in Clients : pc[d] # "swapping"
    BY <1>2, <1>9, Zenon DEF Missing
  <2>2. \A i \in Slots : Stable(i)
    BY <2>1, Zenon DEF Stable
  <2>3. \A i \in Slots : ~cache'[i].dirty => cache'[i] = cache[i]
    BY <1>1, ScanEffect, AccessEffect, Zenon
  <2> QED  BY <1>3, <1>4, <1>7, <2>2, <2>3, Zenon DEF Coherent, CleanSlotsMatchDisk
<1>17. SectorCachedOnce'
  BY <1>3, <1>4, <1>5, Zenon DEF Coherent, SectorCachedOnce
<1>18. ServedOnReturn'
  <2>1. ASSUME NEW d \in Clients, pc'[d] = "done"  PROVE hit'[d]
    <3>1. CASE d # c
      BY <1>3, <1>4, <1>9, <2>1, <3>1, Zenon DEF Coherent, ServedOnReturn
    <3>2. CASE d = c /\ ~hit[c] /\ pc[c] = "rescan"
      <4>1. slot[c] = CacheSize - 1
        BY <1>2, <1>10, <2>1, <3>2, Zenon
      <4>2. PICK i \in Slots : i >= slot[c] /\ Matches(i, request[c].sector)
        BY <1>4, <3>2, Zenon DEF Coherent, Ahead
      <4>3. i = slot[c]
        BY <4>1, <4>2, DiskAssumption DEF Slots
      <4> QED  BY <1>8, <3>2, <4>2, <4>3, Zenon
    <3>3. CASE d = c /\ (hit[c] \/ pc[c] = "scan")
      BY <1>2, <1>8, <1>10, <2>1, <3>3, Zenon
    <3> QED  BY <1>2, <3>1, <3>2, <3>3, Zenon
  <2> QED  BY <2>1, Zenon DEF ServedOnReturn
<1> QED  BY <1>11, <1>12, <1>13, <1>14, <1>15, <1>16, <1>17, <1>18, Zenon DEF Coherent

\* The steps of a miss, whose client is alone.
LEMMA MissCoherent ==
  ASSUME CacheInv, NEW c \in Clients, ~raced',
         ChooseVictim(c) \/ WriteRequest(c) \/ ReadRequest(c) \/ Evicted(c) \/ SwappedIn(c)
  PROVE  Coherent'
<1>1. TypeOK /\ Recorded /\ CallState
  BY Zenon DEF CacheInv
<1>2. raced' = raced /\ request' = request /\ hit' = hit
  BY Zenon DEF ChooseVictim, WriteRequest, ReadRequest, StartIO, Evicted, SwappedIn, EndIO
<1>3. Coherent
  BY <1>2, Zenon DEF CacheInv
<1>4. Missing(c) /\ Missing(c)' /\ ~hit[c] /\ slot[c] \in Slots
  BY <1>1, Zenon DEF ChooseVictim, WriteRequest, ReadRequest, Evicted, SwappedIn, Goto, Missing,
              CallState, Unserved, TypeOK
<1>5. \A d \in Clients : d # c => pc[d] = "idle" /\ pc'[d] = "idle" /\ slot'[d] = slot[d]
  <2>1. \A d \in Clients : d # c => pc'[d] = pc[d] /\ slot'[d] = slot[d]
    BY <1>1, Zenon DEF ChooseVictim, WriteRequest, ReadRequest, StartIO, Evicted, SwappedIn, EndIO,
                Goto, TypeOK
  <2> QED  BY <1>3, <1>4, <2>1, Zenon DEF Coherent, Alone
<1>6. Alone'
  BY <1>5, Zenon DEF Alone, Missing
<1>7. pc'[c] \notin {"idle", "scan", "done"}
  BY <1>4, Zenon DEF Missing
<1>8. Passed'
  BY <1>2, <1>4, <1>5, <1>7, Zenon DEF Passed
<1>9. ServedOnReturn'
  BY <1>5, <1>7, Zenon DEF ServedOnReturn
<1>10. \A i \in Slots : i # slot[c] => Stable(i)
  BY <1>5, Zenon DEF Stable
<1>11. request[c].sector \in Sectors
  BY <1>1, Zenon DEF TypeOK, Requests
<1>12. CASE ChooseVictim(c)
  <2>1. /\ pc'[c] = IF cache[Victim].valid /\ cache[Victim].dirty THEN "evict" ELSE "swap"
        /\ slot'[c] = Victim
    BY <1>1, <1>12, Zenon DEF ChooseVictim, Goto, TypeOK
  <2>2. UNCHANGED <<cache, disk>> /\ pc[c] = "choose"
    BY <1>12, Zenon DEF ChooseVictim, diskVars
  <2>3. \A i \in Slots : Stable(i)
    BY <1>5, <2>2, Zenon DEF Stable
  <2>4. Absent'
    BY <1>2, <1>3, <1>5, <2>2 DEF Coherent, Absent, Unserved, Matches
  <2>5. Ahead'
    BY <1>5, <2>1, Zenon DEF Ahead
  <2>6. VictimSafe'
    BY <1>5, <2>1, <2>2, Zenon DEF VictimSafe
  <2>7. CleanSlotsMatchDisk' /\ SectorCachedOnce'
    BY <1>2, <1>3, <2>2, <2>3, Zenon DEF Coherent, CleanSlotsMatchDisk, SectorCachedOnce
  <2> QED  BY <1>6, <1>8, <1>9, <2>4, <2>5, <2>6, <2>7, Zenon DEF Coherent
<1>13. CASE WriteRequest(c)
  <2>1. /\ pc[c] = "evict" /\ pc'[c] = "evicting" /\ slot'[c] = slot[c] /\ cache' = cache
        /\ disk' = [disk EXCEPT ![cache[slot[c]].sector] = cache[slot[c]].data]
    BY <1>1, <1>13, Zenon DEF WriteRequest, StartIO, Goto, TypeOK
  <2>2. cache[slot[c]].valid /\ \A i \in Slots : cache[i].sector \in Sectors
    BY <1>1, <1>3, <2>1, Zenon DEF Coherent, VictimSafe, TypeOK
  <2>3. \A x \in Sectors : disk'[x] = IF x = cache[slot[c]].sector THEN cache[slot[c]].data
                                      ELSE disk[x]
    BY <1>1, <2>1, Zenon DEF TypeOK
  <2>4. \A i \in Slots : Stable(i)
    BY <1>5, <2>1, Zenon DEF Stable
  <2>5. Absent'
    BY <1>2, <1>3, <1>5, <2>1, Zenon DEF Coherent, Absent, Unserved, Matches
  <2>6. Ahead'
    BY <1>5, <2>1, Zenon DEF Ahead
  <2>7. VictimSafe'
    BY <1>4, <1>5, <2>1, <2>2, <2>3, SMTT(30) DEF VictimSafe
  <2>8. CleanSlotsMatchDisk'
    <3>1. ASSUME NEW i \in Slots, cache[i].valid, ~cache[i].dirty
          PROVE  cache[i].data = disk'[cache[i].sector]
      <4>1. cache[i].sector = cache[slot[c]].sector => i = slot[c]
        BY <1>2, <1>3, <1>4, <2>2, <3>1, Zenon DEF Coherent, SectorCachedOnce
      <4>2. cache[i].data = disk[cache[i].sector]
        BY <1>2, <1>3, <2>4, <3>1, Zenon DEF Coherent, CleanSlotsMatchDisk
      <4> QED  BY <2>2, <2>3, <4>1, <4>2, Zenon
    <3> QED  BY <2>1, <3>1, Zenon DEF CleanSlotsMatchDisk
  <2>9. SectorCachedOnce'
    BY <1>2, <1>3, <2>1, Zenon DEF Coherent, SectorCachedOnce
  <2> QED  BY <1>6, <1>8, <1>9, <2>5, <2>6, <2>7, <2>8, <2>9, Zenon DEF Coherent
<1>14. CASE Evicted(c)
  <2>1. pc[c] = "evicting" /\ pc'[c] = "swap" /\ slot'[c] = slot[c] /\ disk' = disk
    BY <1>1, <1>14, Zenon DEF Evicted, EndIO, Goto, TypeOK
  <2>2. \A i \in Slots : cache'[i].valid => i # slot[c] /\ cache'[i] = cache[i]
    BY <1>1, <1>14, EvictedEffect, Zenon
  <2>3. ~cache'[slot[c]].valid
    BY <1>1, <1>14, EvictedEffect, Zenon
  <2>4. Absent'
    BY <1>2, <1>3, <1>5, <2>1, <2>2, SMTT(30) DEF Coherent, Absent, Unserved, Matches
  <2>5. Ahead'
    BY <1>5, <2>1, Zenon DEF Ahead
  <2>6. VictimSafe'
    BY <1>5, <2>1, <2>3, Zenon DEF VictimSafe
  <2>7. CleanSlotsMatchDisk'
    BY <1>2, <1>3, <1>10, <2>1, <2>2, Zenon DEF Coherent, CleanSlotsMatchDisk
  <2>8. SectorCachedOnce'
    BY <1>2, <1>3, <2>2, Zenon DEF Coherent, SectorCachedOnce
  <2> QED  BY <1>6, <1>8, <1>9, <2>4, <2>5, <2>6, <2>7, <2>8, Zenon DEF Coherent
<1>15. CASE ReadRequest(c)
  <2>1. pc[c] = "swap" /\ pc'[c] = "swapping" /\ slot' = slot /\ disk' = disk
    BY <1>1, <1>15, Zenon DEF ReadRequest, StartIO, Goto, TypeOK
  <2>2. \A i \in Slots : cache'[i].valid = cache[i].valid /\ cache'[i].sector = cache[i].sector
    BY <1>1, <1>4, <1>15, ReadRequestEffect, Zenon
  <2>3. \A i \in Slots : i # slot[c] => cache'[i] = cache[i]
    BY <1>1, <1>15, ReadRequestEffect, Zenon
  <2>4. cache'[slot[c]].data = disk[request[c].sector]
    BY <1>1, <1>15, ReadRequestEffect, Zenon
  <2>5. Absent'
    BY <1>2, <1>3, <1>5, <2>1, <2>2, SMTT(30) DEF Coherent, Absent, Unserved, Matches
  <2>6. Ahead'
    BY <1>5, <2>1, Zenon DEF Ahead
  <2>7. VictimSafe'
    BY <1>2, <1>5, <2>1, <2>4, Zenon DEF VictimSafe
  <2>8. CleanSlotsMatchDisk'
    <3>1. ~Stable(slot[c])'
      BY <2>1, Zenon DEF Stable
    <3> QED  BY <1>2, <1>3, <1>10, <2>1, <2>3, <3>1, Zenon DEF Coherent, CleanSlotsMatchDisk
  <2>9. SectorCachedOnce'
    BY <1>2, <1>3, <2>2, Zenon DEF Coherent, SectorCachedOnce
  <2> QED  BY <1>6, <1>8, <1>9, <2>5, <2>6, <2>7, <2>8, <2>9, Zenon DEF Coherent
<1>16. CASE SwappedIn(c)
  <2>1. pc[c] = "swapping" /\ pc'[c] = "rescan" /\ slot'[c] = 0 /\ disk' = disk
    BY <1>1, <1>16, Zenon DEF SwappedIn, EndIO, Goto, TypeOK
  <2>2. \A i \in Slots : i # slot[c] => cache'[i] = cache[i]
    BY <1>1, <1>16, SwappedInEffect, Zenon
  <2>3. /\ cache'[slot[c]].valid /\ cache'[slot[c]].sector = request[c].sector
        /\ cache'[slot[c]].data = disk[request[c].sector]
    BY <1>1, <1>3, <1>16, <2>1, SwappedInEffect, Zenon DEF Coherent, VictimSafe
  <2>4. \A i \in Slots : i # slot[c] => ~(cache'[i].valid /\ cache'[i].sector = request[c].sector)
    BY <1>3, <2>1, <2>2, Zenon DEF Coherent, Absent, Unserved, Matches
  <2>5. Absent'
    BY <1>5, <2>1, Zenon DEF Absent, Unserved
  <2>6. Ahead'
    <3>1. slot[c] >= 0
      BY <1>4, DiskAssumption, SMTT(30) DEF Slots
    <3> QED  BY <1>2, <1>4, <1>5, <2>1, <2>3, <3>1 DEF Ahead, Matches
  <2>7. VictimSafe'
    BY <1>5, <2>1, Zenon DEF VictimSafe
  <2>8. CleanSlotsMatchDisk'
    BY <1>2, <1>3, <1>10, <2>1, <2>2, <2>3, Zenon DEF Coherent, CleanSlotsMatchDisk
  <2>9. SectorCachedOnce'
    BY <1>2, <1>3, <2>2, <2>3, <2>4, SMTT(30) DEF Coherent, SectorCachedOnce
  <2> QED  BY <1>6, <1>8, <1>9, <2>5, <2>6, <2>7, <2>8, <2>9, Zenon DEF Coherent
<1> QED  BY <1>12, <1>13, <1>14, <1>15, <1>16, Zenon

LEMMA CoherentNext ==
  ASSUME CacheInv, [Next]_vars, ~raced'
  PROVE  Coherent'
<1>1. TypeOK /\ Recorded /\ CallState
  BY Zenon DEF CacheInv
<1>2. ASSUME UNCHANGED <<disk, cache, pc, request, slot, hit, raced>>  PROVE Coherent'
  <2>1. Coherent
    BY <1>2, Zenon DEF CacheInv
  <2>2. Alone' /\ Passed' /\ Absent' /\ Ahead'
    BY <1>2, <2>1, Zenon DEF Coherent, Alone, Passed, Absent, Ahead, Missing, Unserved, Matches
  <2>3. VictimSafe' /\ CleanSlotsMatchDisk' /\ SectorCachedOnce' /\ ServedOnReturn'
    BY <1>2, <2>1, Zenon DEF Coherent, VictimSafe, CleanSlotsMatchDisk, SectorCachedOnce,
                      ServedOnReturn, Stable
  <2> QED  BY <2>2, <2>3, Zenon DEF Coherent
<1>3. CASE UNCHANGED vars
  BY <1>2, <1>3, Zenon DEF vars, diskVars, clientVars
<1>4. CASE RequestDone
  BY <1>2, <1>4, Zenon DEF RequestDone, clientVars
<1>5. CASE Restart
  <2>1. \A c \in Clients : pc'[c] = "idle"
    BY <1>5, Zenon DEF Restart
  <2>2. \A i \in Slots : ~cache'[i].valid
    BY <1>5, Zenon DEF Restart, EmptySlot
  <2>3. Alone' /\ Passed' /\ Absent' /\ Ahead' /\ VictimSafe'
    BY <2>1, Zenon DEF Alone, Passed, Absent, Ahead, Unserved, VictimSafe
  <2>4. CleanSlotsMatchDisk' /\ SectorCachedOnce' /\ ServedOnReturn'
    BY <2>1, <2>2, Zenon DEF CleanSlotsMatchDisk, SectorCachedOnce, ServedOnReturn
  <2> QED  BY <2>3, <2>4, Zenon DEF Coherent
<1>6. ASSUME NEW c \in Clients, Begin(c)  PROVE Coherent'
  <2>1. ~raced /\ \A d \in Clients : ~Missing(d)
    BY <1>6, Zenon DEF Begin
  <2>2. Coherent
    BY <2>1, Zenon DEF CacheInv
  <2>3. /\ UNCHANGED <<disk, cache, slot, hit>> /\ pc'[c] = "scan" /\ slot[c] = 0 /\ ~hit[c]
        /\ \A d \in Clients : d # c => pc'[d] = pc[d] /\ request'[d] = request[d]
    BY <1>1, <1>6, Zenon DEF Begin, Goto, diskVars, TypeOK, CallState
  <2>4. \A d \in Clients : ~Missing(d)' /\ (pc'[d] = "scan" => d = c \/ pc[d] = "scan")
    BY <2>1, <2>3, Zenon DEF Missing
  <2>5. Alone' /\ Absent' /\ Ahead' /\ VictimSafe'
    BY <2>4, Zenon DEF Alone, Absent, Ahead, VictimSafe, Unserved, Missing
  <2>6. Passed'
    <3>1. \A i \in Slots : ~(i < slot[c])
      BY <2>3, DiskAssumption DEF Slots
    <3>2. \A d \in Clients : pc'[d] # "rescan"
      BY <2>4, Zenon DEF Missing
    <3>3. SUFFICES ASSUME NEW d \in Clients, pc'[d] = "scan"
                   PROVE  hit'[d] <=> \E i \in Slots : i < slot'[d] /\ Matches(i, request[d].sector)'
      BY <3>2, Zenon DEF Passed
    <3>4. CASE d = c
      BY <2>3, <3>1, <3>4, Zenon
    <3>5. CASE d # c
      <4>1. pc[d] = "scan" /\ request'[d] = request[d] /\ slot' = slot /\ hit' = hit
        BY <2>3, <3>3, <3>5, Zenon
      <4>2. hit[d] <=> \E i \in Slots : i < slot[d] /\ Matches(i, request[d].sector)
        BY <2>2, <4>1, Zenon DEF Coherent, Passed
      <4> QED  BY <2>3, <4>1, <4>2, Zenon DEF Matches
    <3> QED  BY <3>4, <3>5, Zenon
  <2>7. \A i \in Slots : Stable(i)
    BY <2>1, Zenon DEF Missing, Stable
  <2>8. CleanSlotsMatchDisk' /\ SectorCachedOnce'
    BY <2>1, <2>2, <2>3, <2>7, Zenon DEF Coherent, CleanSlotsMatchDisk, SectorCachedOnce
  <2>9. ServedOnReturn'
    BY <2>1, <2>2, <2>3, Zenon DEF Coherent, ServedOnReturn
  <2> QED  BY <2>5, <2>6, <2>8, <2>9, Zenon DEF Coherent
<1>7. ASSUME NEW c \in Clients, Return(c)  PROVE Coherent'
  <2>1. /\ UNCHANGED <<disk, cache, slot, raced>> /\ pc[c] = "done" /\ pc'[c] = "idle"
        /\ \A d \in Clients : d # c => pc'[d] = pc[d] /\ request'[d] = request[d] /\ hit'[d] = hit[d]
    BY <1>1, <1>7, Zenon DEF Return, Goto, diskVars, TypeOK
  <2>2. Coherent /\ ~raced
    BY <2>1, Zenon DEF CacheInv
  <2>3. Alone' /\ Passed' /\ Absent' /\ Ahead'
    BY <2>1, <2>2, SMTT(30) DEF Coherent, Alone, Passed, Absent, Ahead, Missing, Unserved, Matches
  <2>4. VictimSafe'
    BY <2>1, <2>2, SMTT(30) DEF Coherent, VictimSafe
  <2>5. \A i \in Slots : Stable(i)' => Stable(i)
    BY <2>1, Zenon DEF Stable
  <2>6. CleanSlotsMatchDisk' /\ SectorCachedOnce' /\ ServedOnReturn'
    BY <2>1, <2>2, <2>5 DEF Coherent, CleanSlotsMatchDisk, SectorCachedOnce, ServedOnReturn
  <2> QED  BY <2>3, <2>4, <2>6, Zenon DEF Coherent
<1> QED
  BY <1>3, <1>4, <1>5, <1>6, <1>7, ScanCoherent, MissCoherent, Zenon DEF Next, ClientStep

LEMMA CacheInit == Init => CacheInv
<1> SUFFICES ASSUME Init  PROVE CacheInv
  BY Zenon
<1>1. \A c \in Clients : pc[c] = "idle"
  BY Zenon DEF Init
<1>2. \A i \in Slots : ~cache[i].valid
  BY Zenon DEF Init, EmptySlot
<1>3. Alone /\ Passed /\ Absent /\ Ahead /\ VictimSafe
  BY <1>1, Zenon DEF Alone, Passed, Absent, Ahead, Unserved, VictimSafe
<1>4. CleanSlotsMatchDisk /\ SectorCachedOnce /\ ServedOnReturn
  BY <1>1, <1>2, Zenon DEF CleanSlotsMatchDisk, SectorCachedOnce, ServedOnReturn
<1> QED  BY <1>3, <1>4, TypeInit, IOInit, Zenon DEF CacheInv, Coherent

LEMMA CacheNext == NatWellOrdered /\ CacheInv /\ [Next]_vars => CacheInv'
<1> SUFFICES ASSUME NatWellOrdered, CacheInv, [Next]_vars  PROVE CacheInv'
  BY Zenon
<1>1. TypeOK' /\ Recorded'
  BY TypeNext, Zenon DEF CacheInv
<1>2. IOInv'
  BY IONext, Zenon DEF CacheInv
<1>3. CallState'
  BY CallNext, Zenon DEF CacheInv
<1>4. ~raced' => Coherent'
  BY CoherentNext, Zenon
<1> QED  BY <1>1, <1>2, <1>3, <1>4, Zenon DEF CacheInv

-----------------------------------------------------------------------------
\* What callers see in a sector: the slot that holds it, or the disk.
Held(i, x) == Matches(i, x) /\ Stable(i)

LEMMA ContentsValue ==
  CacheInv /\ ~raced =>
    \A x \in Sectors :
      /\ \A i \in Slots : Held(i, x) => Contents[x] = cache[i].data
      /\ (\A i \in Slots : ~Held(i, x)) => Contents[x] = disk[x]
<1> SUFFICES ASSUME CacheInv, ~raced, NEW x \in Sectors
             PROVE  /\ \A i \in Slots : Held(i, x) => Contents[x] = cache[i].data
                    /\ (\A i \in Slots : ~Held(i, x)) => Contents[x] = disk[x]
  BY Zenon
<1>1. Contents[x] = IF Holding(x) = {} THEN disk[x]
                    ELSE cache[CHOOSE i \in Holding(x) : TRUE].data
  BY Zenon DEF Contents
<1>2. Holding(x) = {i \in Slots : Held(i, x)}
  BY Zenon DEF Holding, Held
<1>3. ASSUME NEW i \in Slots, Held(i, x)  PROVE Contents[x] = cache[i].data
  <2>1. Holding(x) = {i}
    <3>1. \A j \in Slots : Held(j, x) => j = i
      BY <1>3, Zenon DEF CacheInv, Coherent, SectorCachedOnce, Held, Matches
    <3> QED  BY <1>2, <1>3, <3>1, Zenon
  <2>2. (CHOOSE j \in Holding(x) : TRUE) = i
    BY <2>1, Zenon
  <2> QED  BY <1>1, <2>1, <2>2, Zenon
<1>4. ASSUME \A i \in Slots : ~Held(i, x)  PROVE Contents[x] = disk[x]
  BY <1>1, <1>2, <1>4, Zenon
<1> QED  BY <1>3, <1>4, Zenon

LEMMA ContentsValueNext ==
  (CacheInv /\ ~raced =>
    \A x \in Sectors :
      /\ \A i \in Slots : Held(i, x) => Contents[x] = cache[i].data
      /\ (\A i \in Slots : ~Held(i, x)) => Contents[x] = disk[x])'
BY ContentsValue, PTL

\* A step that leaves the value callers see in every sector alone.
LEMMA ContentsKept ==
  ASSUME CacheInv, CacheInv', ~raced, ~raced',
         \A x \in Sectors, i \in Slots :
           Held(i, x)' => \/ Held(i, x) /\ cache'[i].data = cache[i].data
                          \/ cache'[i].data = Contents[x],
         \A x \in Sectors : (\A i \in Slots : ~Held(i, x)') => disk'[x] = Contents[x]
  PROVE  Contents' = Contents
<1>1. ASSUME NEW x \in Sectors  PROVE Contents'[x] = Contents[x]
  <2>1. CASE \E i \in Slots : Held(i, x)'
    BY <2>1, ContentsValue, ContentsValueNext
  <2>2. CASE \A i \in Slots : ~Held(i, x)'
    BY <2>2, ContentsValueNext, Zenon
  <2> QED  BY <2>1, <2>2, Zenon
<1>2. Contents = [x \in Sectors |-> Contents[x]] /\ Contents' = [x \in Sectors |-> Contents'[x]]
  BY SMTT(30) DEF Contents
<1> QED  BY <1>1, <1>2, Zenon

\* The same when neither the slots nor the disk change.
LEMMA ContentsUntouched ==
  ASSUME CacheInv, CacheInv', ~raced, ~raced', UNCHANGED <<cache, disk>>,
         \A i \in Slots : Stable(i)' <=> Stable(i)
  PROVE  Contents' = Contents
<1>1. \A x \in Sectors, i \in Slots : Held(i, x)' <=> Held(i, x)
  BY Zenon DEF Held, Matches
<1>2. \A x \in Sectors : (\A i \in Slots : ~Held(i, x)') => disk'[x] = Contents[x]
  BY <1>1, ContentsValue, Zenon
<1> QED  BY <1>1, <1>2, ContentsKept, Zenon

\* A miss moves sectors between the cache and the disk and changes none.
LEMMA MissKeeps ==
  ASSUME CacheInv, CacheInv', ~raced, ~raced', NEW c \in Clients,
         ChooseVictim(c) \/ WriteRequest(c) \/ Evicted(c) \/ ReadRequest(c) \/ SwappedIn(c)
  PROVE  Contents' = Contents /\ MappedPhase' = MappedPhase /\ UNCHANGED <<request, buffer>>
<1>1. TypeOK /\ Coherent /\ slot[c] \in Slots /\ request[c].sector \in Sectors
  BY Zenon DEF CacheInv, TypeOK, Requests
<1>2. \A d \in Clients : d # c => pc[d] = "idle"
  BY <1>1, Zenon DEF Coherent, Alone, Missing, ChooseVictim, WriteRequest, Evicted, ReadRequest, SwappedIn
<1>3. ASSUME NEW l, l \in {"evict", "swap", "evicting", "swapping", "rescan"},
             pc' = [pc EXCEPT ![c] = l], pc[c] # "idle", hit' = hit
      PROVE  MappedPhase' = MappedPhase
  <2>1. \A d \in Clients : (pc'[d] = "idle") <=> (pc[d] = "idle")
    BY <1>1, <1>3, Zenon DEF TypeOK
  <2> QED  BY <1>3, <2>1, Zenon DEF MappedPhase
<1>4. ASSUME pc[c] # "swapping"  PROVE \A i \in Slots : Stable(i)
  BY <1>2, <1>4, Zenon DEF Stable
<1>5. ASSUME NEW l, l # "swapping", pc' = [pc EXCEPT ![c] = l]
      PROVE  \A i \in Slots : Stable(i)'
  BY <1>1, <1>2, <1>5, Zenon DEF Stable, TypeOK
<1>6. CASE ChooseVictim(c)
  <2> DEFINE l == IF cache[Victim].valid /\ cache[Victim].dirty THEN "evict" ELSE "swap"
  <2>1. pc' = [pc EXCEPT ![c] = l] /\ l \in {"evict", "swap"} /\ pc[c] = "choose"
    BY <1>6, Zenon DEF ChooseVictim, Goto
  <2>2. UNCHANGED <<cache, disk, hit, request, buffer>>
    BY <1>6, Zenon DEF ChooseVictim, diskVars
  <2> HIDE DEF l
  <2>3. \A i \in Slots : Stable(i)' <=> Stable(i)
    BY <1>4, <1>5, <2>1, Zenon
  <2> QED  BY <1>3, <2>1, <2>2, <2>3, ContentsUntouched, Zenon
<1>7. CASE WriteRequest(c)
  <2>1. pc' = [pc EXCEPT ![c] = "evicting"] /\ pc[c] = "evict"
    BY <1>7, Zenon DEF WriteRequest, Goto
  <2>2. /\ UNCHANGED <<cache, hit, request, buffer>>
        /\ disk' = [disk EXCEPT ![cache[slot[c]].sector] = cache[slot[c]].data]
    BY <1>7, Zenon DEF WriteRequest, StartIO
  <2>3. \A i \in Slots : Stable(i)' /\ Stable(i)
    BY <1>4, <1>5, <2>1, Zenon
  <2>4. \A x \in Sectors, i \in Slots : Held(i, x)' <=> Held(i, x)
    BY <2>2, <2>3, Zenon DEF Held, Matches
  <2>5. cache[slot[c]].valid
    BY <1>1, <2>1, Zenon DEF Coherent, VictimSafe
  <2>6. ASSUME NEW x \in Sectors, \A i \in Slots : ~Held(i, x)'  PROVE disk'[x] = Contents[x]
    <3>1. x # cache[slot[c]].sector
      BY <1>1, <2>3, <2>4, <2>5, <2>6, Zenon DEF Held, Matches
    <3>2. disk'[x] = disk[x]
      BY <1>1, <2>2, <3>1, Zenon DEF TypeOK
    <3>3. \A i \in Slots : ~Held(i, x)
      BY <2>4, <2>6, Zenon
    <3>4. Contents[x] = disk[x]
      BY <3>3, ContentsValue, Zenon
    <3> QED  BY <3>2, <3>4, Zenon
  <2>7. Contents' = Contents
    BY <2>2, <2>4, <2>6, ContentsKept, Zenon
  <2> QED  BY <1>3, <2>1, <2>2, <2>7, Zenon
<1>8. CASE Evicted(c)
  <2>1. pc' = [pc EXCEPT ![c] = "swap"] /\ pc[c] = "evicting"
    BY <1>8, Zenon DEF Evicted, Goto
  <2>2. UNCHANGED <<disk, hit, request, buffer>>
    BY <1>8, Zenon DEF Evicted, EndIO
  <2>3. \A i \in Slots : Stable(i)' /\ Stable(i)
    BY <1>4, <1>5, <2>1, Zenon
  <2>4. /\ \A i \in Slots : i # slot[c] => cache'[i] = cache[i]
        /\ ~cache'[slot[c]].valid
    BY <1>1, <1>8, EvictedEffect, Zenon
  <2>5. cache[slot[c]].data = disk[cache[slot[c]].sector]
    BY <1>1, <2>1, Zenon DEF Coherent, VictimSafe
  <2>6. \A x \in Sectors, i \in Slots : Held(i, x)' <=> i # slot[c] /\ Held(i, x)
    BY <2>3, <2>4, Zenon DEF Held, Matches
  <2>7. ASSUME NEW x \in Sectors, \A i \in Slots : ~Held(i, x)'  PROVE disk'[x] = Contents[x]
    <3>1. CASE Held(slot[c], x)
      <4>1. x = cache[slot[c]].sector
        BY <3>1, Zenon DEF Held, Matches
      <4>2. slot[c] \in Slots
        BY <1>1, Zenon DEF TypeOK
      <4>3. Contents[x] = cache[slot[c]].data
        BY <3>1, <4>2, ContentsValue, Zenon
      <4> QED  BY <2>2, <2>5, <4>1, <4>3, Zenon
    <3>2. CASE ~Held(slot[c], x)
      <4>1. \A i \in Slots : ~Held(i, x)
        BY <2>6, <2>7, <3>2, Zenon
      <4>2. Contents[x] = disk[x]
        BY <4>1, ContentsValue, Zenon
      <4> QED  BY <2>2, <4>2, Zenon
    <3> QED  BY <3>1, <3>2, Zenon
  <2>8. Contents' = Contents
    BY <2>4, <2>6, <2>7, ContentsKept, Zenon
  <2> QED  BY <1>3, <2>1, <2>2, <2>8, Zenon
<1>9. CASE ReadRequest(c)
  <2>1. pc' = [pc EXCEPT ![c] = "swapping"] /\ pc[c] = "swap"
    BY <1>9, Zenon DEF ReadRequest, Goto
  <2>2. UNCHANGED <<disk, hit, request, buffer, slot>>
    BY <1>9, Zenon DEF ReadRequest, StartIO
  <2>3. \A i \in Slots : Stable(i)
    BY <1>4, <2>1, Zenon
  <2>4. \A i \in Slots : Stable(i)' <=> i # slot[c]
    BY <1>1, <1>2, <2>1, <2>2, Zenon DEF Stable, TypeOK
  <2>5. \A i \in Slots : i # slot[c] => cache'[i] = cache[i]
    BY <1>1, <1>9, ReadRequestEffect, Zenon
  <2>6. cache[slot[c]].valid => cache[slot[c]].data = disk[cache[slot[c]].sector]
    <3>1. cache[slot[c]].valid => ~cache[slot[c]].dirty
      BY <1>1, <2>1, Zenon DEF Coherent, VictimSafe
    <3> QED  BY <1>1, <2>3, <3>1, Zenon DEF Coherent, CleanSlotsMatchDisk
  <2>7. \A x \in Sectors, i \in Slots : Held(i, x)' <=> i # slot[c] /\ Held(i, x)
    BY <2>3, <2>4, <2>5, Zenon DEF Held, Matches
  <2>8. ASSUME NEW x \in Sectors, \A i \in Slots : ~Held(i, x)'  PROVE disk'[x] = Contents[x]
    <3>1. CASE Held(slot[c], x)
      BY <1>1, <2>2, <2>6, <3>1, ContentsValue, Zenon DEF Held, Matches
    <3>2. CASE ~Held(slot[c], x)
      BY <2>2, <2>7, <2>8, <3>2, ContentsValue, Zenon
    <3> QED  BY <3>1, <3>2, Zenon
  <2>9. Contents' = Contents
    BY <2>5, <2>7, <2>8, ContentsKept, Zenon
  <2> QED  BY <1>3, <2>1, <2>2, <2>9, Zenon
<1>10. CASE SwappedIn(c)
  <2>1. pc' = [pc EXCEPT ![c] = "rescan"] /\ pc[c] = "swapping"
    BY <1>10, Zenon DEF SwappedIn, Goto
  <2>2. UNCHANGED <<disk, hit, request, buffer>>
    BY <1>10, Zenon DEF SwappedIn, EndIO
  <2>3. \A i \in Slots : Stable(i) <=> i # slot[c]
    BY <1>1, <1>2, <2>1, Zenon DEF Stable
  <2>4. \A i \in Slots : Stable(i)'
    BY <1>5, <2>1, Zenon
  <2>5. /\ \A i \in Slots : i # slot[c] => cache'[i] = cache[i]
        /\ cache'[slot[c]].sector = request[c].sector
        /\ cache'[slot[c]].data = cache[slot[c]].data
        /\ cache'[slot[c]].valid
    BY <1>1, <1>10, SwappedInEffect, Zenon
  <2>6. /\ cache[slot[c]].data = disk[request[c].sector]
        /\ \A i \in Slots : ~Held(i, request[c].sector)
    BY <1>1, <2>1, Zenon DEF Coherent, VictimSafe, Absent, Unserved, Held
  <2>7. Contents[request[c].sector] = disk[request[c].sector]
    BY <1>1, <2>6, ContentsValue, Zenon
  <2>8. \A x \in Sectors, i \in Slots :
           IF i = slot[c] THEN Held(i, x)' <=> x = request[c].sector
                          ELSE Held(i, x)' <=> Held(i, x)
    BY <2>3, <2>4, <2>5, Zenon DEF Held, Matches
  <2>9. \A x \in Sectors : ~Held(slot[c], x)
    BY <1>1, <2>3, Zenon DEF Held
  <2>10. ASSUME NEW x \in Sectors, \A i \in Slots : ~Held(i, x)'  PROVE disk'[x] = Contents[x]
    <3>1. ASSUME NEW i \in Slots  PROVE ~Held(i, x)
      BY <2>8, <2>9, <2>10, Zenon
    <3>2. Contents[x] = disk[x]
      BY <3>1, ContentsValue, Zenon
    <3> QED  BY <2>2, <3>2, Zenon
  <2>11. \A x \in Sectors, i \in Slots :
           Held(i, x)' => \/ Held(i, x) /\ cache'[i].data = cache[i].data
                          \/ cache'[i].data = Contents[x]
    BY <2>5, <2>6, <2>7, <2>8, Zenon
  <2>12. Contents' = Contents
    BY <2>10, <2>11, ContentsKept, Zenon
  <2> QED  BY <1>3, <2>1, <2>2, <2>12, Zenon
<1> QED  BY <1>6, <1>7, <1>8, <1>9, <1>10, Zenon

\* The turn of the loops that finds the sector serves the call, any other
\* turn changes nothing a caller can see.
LEMMA ScanServes ==
  ASSUME CacheInv, CacheInv', ~raced, ~raced', NEW c \in Clients, Scan(c)
  PROVE  Store!Serve(c) \/ UNCHANGED Store!vars
<1>1. TypeOK /\ Recorded /\ Coherent /\ slot[c] \in Slots /\ request[c] \in Requests
  BY SMTT(30), Zenon DEF CacheInv, TypeOK
<1>2. request[c].sector \in Sectors /\ pc[c] \in {"scan", "rescan"}
  BY <1>1, Zenon DEF Requests, Scan
<1>3. \A d \in Clients : (pc'[d] = "idle" <=> pc[d] = "idle") /\ pc[d] # "swapping"
                         /\ pc'[d] # "swapping"
  <2>1. \A d \in Clients : d # c => pc'[d] = pc[d]
    BY <1>1, ScanEffect, SMTT(30) DEF TypeOK
  <2>2. pc'[c] \in {"scan", "rescan", "done", "choose"}
    BY <1>1, <1>2, ScanEffect, Zenon DEF TypeOK
  <2>3. \A d \in Clients : pc[d] # "swapping"
    BY DiskAssumption, Zenon DEF Scan, CacheInv, IOInv, InterruptReachesRequester, Transferring
  <2> QED  BY <1>2, <2>1, <2>2, <2>3, Zenon
<1>4. \A i \in Slots : Stable(i) /\ Stable(i)'
  BY <1>3, Zenon DEF Stable
<1>5. request' = request /\ disk' = disk
  BY <1>1, ScanEffect, Zenon
<1>6. CASE ~Matches(slot[c], request[c].sector)
  <2>1. UNCHANGED <<cache, hit, buffer>>
    BY <1>1, <1>6, ScanEffect, Zenon
  <2>2. Contents' = Contents
    BY <1>4, <1>5, <2>1, ContentsUntouched, Zenon
  <2>3. MappedPhase' = MappedPhase
    BY <1>3, <2>1, Zenon DEF MappedPhase
  <2> QED  BY <1>5, <2>1, <2>2, <2>3, Zenon DEF Store!vars
<1>7. CASE Matches(slot[c], request[c].sector)
  <2>1. Access(c, slot[c])
    BY <1>1, <1>7, ScanEffect, Zenon
  <2>2. ~hit[c]
    <3>1. SUFFICES ASSUME hit[c]  PROVE FALSE
      BY Zenon
    <3>2. PICK i \in Slots : i < slot[c] /\ Matches(i, request[c].sector)
      BY <1>1, <1>2, <3>1, Zenon DEF Coherent, Passed
    <3>3. i = slot[c]
      BY <1>1, <1>7, <3>2, Zenon DEF Coherent, SectorCachedOnce, Matches
    <3> QED  BY <3>2, <3>3, SMTT(30) DEF Slots
  <2>3. MappedPhase[c] = "asked" /\ MappedPhase' = [MappedPhase EXCEPT ![c] = "served"]
    <3>1. hit' = [hit EXCEPT ![c] = TRUE]
      BY <2>1, Zenon DEF Access
    <3>2. \A d \in Clients : hit'[d] <=> (d = c \/ hit[d])
      BY <1>1, <3>1, Zenon DEF TypeOK
    <3>3. MappedPhase[c] = "asked"
      BY <1>2, <2>2, Zenon DEF MappedPhase
    <3>4. \A d \in Clients : MappedPhase'[d] = IF d = c THEN "served" ELSE MappedPhase[d]
      BY <1>2, <1>3, <3>2, Zenon DEF MappedPhase
    <3>5. /\ MappedPhase = [d \in Clients |-> MappedPhase[d]]
          /\ MappedPhase' = [d \in Clients |-> MappedPhase'[d]]
      BY Zenon DEF MappedPhase
    <3> QED  BY <3>3, <3>4, <3>5, Zenon
  <2>4. Held(slot[c], request[c].sector)
    BY <1>1, <1>4, <1>7, Zenon DEF Held
  <2>5. CASE request[c].op = "read"
    <3>1. cache' = cache /\ buffer' = [buffer EXCEPT ![c] = cache[slot[c]].data]
      BY <2>1, <2>5, Zenon DEF Access
    <3>2. Contents' = Contents
      BY <1>4, <1>5, <3>1, ContentsUntouched, Zenon
    <3>3. Contents[request[c].sector] = cache[slot[c]].data
      BY <1>1, <1>2, <2>4, ContentsValue, Zenon
    <3> QED  BY <1>5, <2>3, <2>5, <3>1, <3>2, <3>3, Zenon DEF Store!Serve
  <2>6. CASE request[c].op # "read"
    <3>1. /\ buffer' = buffer
          /\ \A i \in Slots : /\ cache'[i].valid = cache[i].valid
                              /\ cache'[i].sector = cache[i].sector
                              /\ i # slot[c] => cache'[i].data = cache[i].data
          /\ cache'[slot[c]].data = request[c].data
      BY <1>1, <1>7, <2>1, <2>6, AccessEffect, Zenon
    <3>2. \A x \in Sectors, i \in Slots : Held(i, x)' <=> Held(i, x)
      BY <1>4, <3>1, Zenon DEF Held, Matches
    <3>3. \A x \in Sectors : x # request[c].sector => ~Held(slot[c], x)
      BY <1>7, Zenon DEF Held, Matches
    <3>4. Contents'[request[c].sector] = request[c].data
      BY <1>1, <1>2, <2>4, <3>1, <3>2, ContentsValueNext, Zenon
    <3>5. ASSUME NEW x \in Sectors, x # request[c].sector  PROVE Contents'[x] = Contents[x]
      <4>1. CASE \E i \in Slots : Held(i, x)
        <5>1. PICK i \in Slots : Held(i, x)
          BY <4>1, Zenon
        <5>2. i # slot[c]
          BY <3>3, <3>5, <5>1, Zenon
        <5>3. cache'[i].data = cache[i].data
          BY <3>1, <5>2, Zenon
        <5>4. Held(i, x)'
          BY <3>2, <5>1, Zenon
        <5>5. Contents[x] = cache[i].data
          BY <5>1, ContentsValue, Zenon
        <5>6. Contents'[x] = cache'[i].data
          BY <5>4, ContentsValueNext, Zenon
        <5> QED
          BY <5>3, <5>5, <5>6, Zenon
      <4>2. CASE \A i \in Slots : ~Held(i, x)
        <5>1. \A i \in Slots : ~Held(i, x)'
          BY <3>2, <4>2, Zenon
        <5>2. Contents[x] = disk[x]
          BY <4>2, ContentsValue, Zenon
        <5>3. Contents'[x] = disk'[x]
          BY <5>1, ContentsValueNext, Zenon
        <5> QED
          BY <1>5, <5>2, <5>3, Zenon
      <4> QED  BY <4>1, <4>2, Zenon
    <3>6. /\ Contents = [x \in Sectors |-> Contents[x]]
          /\ Contents' = [x \in Sectors |-> Contents'[x]]
      BY SMTT(30) DEF Contents
    <3>7. Contents' = [Contents EXCEPT ![request[c].sector] = request[c].data]
      BY <1>2, <3>4, <3>5, <3>6, Zenon
    <3> QED  BY <1>5, <2>3, <2>6, <3>1, <3>7, Zenon DEF Store!Serve
  <2> QED  BY <2>5, <2>6, Zenon
<1> QED  BY <1>6, <1>7, Zenon

LEMMA StoreInit == Init => Store!Init
<1> SUFFICES ASSUME Init  PROVE Store!Init
  BY Zenon
<1>1. CacheInv /\ ~raced
  BY CacheInit, Zenon DEF Init
<1>2. \A x \in Sectors, i \in Slots : ~Held(i, x)
  BY SMTT(30), Zenon DEF Init, Held, Matches, EmptySlot
<1>3. \A x \in Sectors : Contents[x] = Blank
  BY <1>1, <1>2, ContentsValue, Zenon DEF Init
<1>4. Contents = [x \in Sectors |-> Contents[x]]
  BY DEF Contents
<1>5. Contents = [x \in Sectors |-> Blank]
  BY <1>3, <1>4, Zenon
<1>6. MappedPhase = [c \in Clients |-> "idle"]
  BY Zenon DEF Init, MappedPhase
<1> QED  BY <1>5, <1>6, Zenon DEF Init, Store!Init

LEMMA StoreNext ==
  CacheInv /\ CacheInv' /\ [Next]_vars =>
    (~raced' /\ restarts' = restarts => [Store!Next]_(Store!vars))
<1> SUFFICES ASSUME CacheInv, CacheInv', [Next]_vars, ~raced', restarts' = restarts
             PROVE  Store!Next \/ UNCHANGED Store!vars
  BY Zenon
<1>1. TypeOK /\ CallState
  BY Zenon DEF CacheInv
<1>2. CASE UNCHANGED vars
  <2>1. Contents' = Contents
    BY <1>2 DEF vars, diskVars, clientVars, Contents, Holding, Matches, Stable
  <2>2. MappedPhase' = MappedPhase /\ UNCHANGED <<request, buffer>>
    BY <1>2, Zenon DEF vars, clientVars, MappedPhase
  <2> QED  BY <2>1, <2>2, Zenon DEF Store!vars
<1>3. CASE RequestDone
  <2>1. Contents' = Contents
    BY <1>3, SMTT(30) DEF RequestDone, clientVars, Contents, Holding, Matches, Stable
  <2>2. MappedPhase' = MappedPhase /\ UNCHANGED <<request, buffer>>
    BY <1>3, Zenon DEF RequestDone, clientVars, MappedPhase
  <2> QED  BY <2>1, <2>2, Zenon DEF Store!vars
<1>4. CASE Restart
  <2>1. restarts \in Nat /\ restarts' = restarts + 1
    BY <1>1, <1>4, DiskAssumption, SMTT(30) DEF Restart, TypeOK
  <2> QED  BY <2>1
<1>5. ASSUME NEW c \in Clients, Begin(c)  PROVE Store!Next
  <2>1. ~raced /\ pc[c] = "idle" /\ pc' = [pc EXCEPT ![c] = "scan"]
        /\ UNCHANGED <<cache, disk, slot, hit, buffer>>
    BY <1>5, Zenon DEF Begin, Goto, diskVars
  <2>2. \A i \in Slots : Stable(i)' <=> Stable(i)
    BY <1>1, <2>1, Zenon DEF Stable, TypeOK
  <2>3. Contents' = Contents
    BY <2>1, <2>2, ContentsUntouched, Zenon
  <2>4. ~hit[c]
    BY <1>1, <2>1, Zenon DEF CallState
  <2>5. MappedPhase[c] = "idle" /\ MappedPhase' = [MappedPhase EXCEPT ![c] = "asked"]
    <3>1. \A d \in Clients : MappedPhase'[d] = IF d = c THEN "asked" ELSE MappedPhase[d]
      BY <1>1, <2>1, <2>4, Zenon DEF MappedPhase, TypeOK
    <3>2. /\ MappedPhase = [d \in Clients |-> MappedPhase[d]]
          /\ MappedPhase' = [d \in Clients |-> MappedPhase'[d]]
      BY Zenon DEF MappedPhase
    <3>3. MappedPhase[c] = "idle"
      BY <2>1, Zenon DEF MappedPhase
    <3> QED  BY <3>1, <3>2, <3>3, Zenon
  <2>6. \E r \in Requests : request' = [request EXCEPT ![c] = r]
    BY <1>5, AsksAssumption, Zenon DEF Begin
  <2>7. Store!Ask(c)
    BY <2>1, <2>3, <2>5, <2>6, Zenon DEF Store!Ask
  <2> QED  BY <2>7, Zenon DEF Store!Next
<1>6. ASSUME NEW c \in Clients, Return(c)  PROVE Store!Next
  <2>1. /\ ~raced /\ pc[c] = "done" /\ pc' = [pc EXCEPT ![c] = "idle"]
        /\ hit' = [hit EXCEPT ![c] = FALSE] /\ UNCHANGED <<cache, disk, slot>>
        /\ request' = [request EXCEPT ![c] = NoRequest]
        /\ buffer' = [buffer EXCEPT ![c] = NoData]
    BY <1>6, Zenon DEF Return, Goto, diskVars
  <2>2. \A i \in Slots : Stable(i)' <=> Stable(i)
    BY <1>1, <2>1, Zenon DEF Stable, TypeOK
  <2>3. Contents' = Contents
    BY <2>1, <2>2, ContentsUntouched, Zenon
  <2>4. hit[c]
    BY <2>1, Zenon DEF CacheInv, Coherent, ServedOnReturn
  <2>5. MappedPhase[c] = "served" /\ MappedPhase' = [MappedPhase EXCEPT ![c] = "idle"]
    <3>1. \A d \in Clients : MappedPhase'[d] = IF d = c THEN "idle" ELSE MappedPhase[d]
      BY <1>1, <2>1, Zenon DEF MappedPhase, TypeOK
    <3>2. /\ MappedPhase = [d \in Clients |-> MappedPhase[d]]
          /\ MappedPhase' = [d \in Clients |-> MappedPhase'[d]]
      BY Zenon DEF MappedPhase
    <3>3. MappedPhase[c] = "served"
      BY <2>1, <2>4, Zenon DEF MappedPhase
    <3> QED  BY <3>1, <3>2, <3>3, Zenon
  <2>6. Store!Reply(c)
    BY <2>1, <2>3, <2>5, Zenon DEF Store!Reply
  <2> QED  BY <2>6, Zenon DEF Store!Next
<1>7. ASSUME NEW c \in Clients, Scan(c)  PROVE Store!Next \/ UNCHANGED Store!vars
  <2>1. ~raced
    BY <1>7, Zenon DEF Scan
  <2> QED  BY <1>7, <2>1, ScanServes, Zenon DEF Store!Next
<1>8. ASSUME NEW c \in Clients,
             ChooseVictim(c) \/ WriteRequest(c) \/ Evicted(c) \/ ReadRequest(c) \/ SwappedIn(c)
      PROVE  UNCHANGED Store!vars
  <2>1. ~raced
    BY <1>8, Zenon DEF ChooseVictim, WriteRequest, Evicted, ReadRequest, SwappedIn, StartIO, EndIO
  <2> QED  BY <1>8, <2>1, MissKeeps, Zenon DEF Store!vars
<1> QED  BY <1>2, <1>3, <1>4, <1>5, <1>6, <1>7, <1>8, Zenon DEF Next, ClientStep

-----------------------------------------------------------------------------
LOCAL INSTANCE WellFoundedInduction

LEMMA NatIsWellOrdered == NatWellOrdered
<1> SUFFICES ASSUME NEW T \in SUBSET Nat, T # {}
             PROVE  \E n \in T : \A k \in T : n <= k
  BY Zenon DEF NatWellOrdered
<1>1. PICK n \in T : \A k \in T : ~(<<k, n>> \in OpToRel(<, Nat))
  BY NatLessThanWellFounded, WFMin, Zenon
<1>2. \A k \in T : n <= k
  <2> SUFFICES ASSUME NEW k \in T, ~(n <= k) PROVE FALSE
    BY Zenon
  <2>1. k \in Nat /\ n \in Nat /\ k < n
    OBVIOUS
  <2>2. <<k, n>> \in OpToRel(<, Nat)
    BY <2>1, Zenon DEF OpToRel
  <2> QED
    BY <1>1, <2>2, Zenon
<1> QED
  BY <1>2, Zenon

LEMMA CacheInvariant == Spec => []CacheInv
<1>1. CacheInv /\ [Next]_vars => CacheInv'
  BY NatIsWellOrdered, CacheNext, Zenon
<1> QED  BY <1>1, CacheInit, PTL DEF Spec

\* The synchronous disk is sound, whatever the number of clients, slots and
\* sectors: ASSERT(!active) never fails and interrupts reach their requester;
\* as long as no call has overlapped a miss, clean slots may be dropped, no
\* sector is cached twice, and a call that returns has found its sector.
THEOREM CacheCoherent == Spec => []SynchDiskSound
<1>1. CacheInv => SynchDiskSound
  BY SMTT(30), Zenon DEF CacheInv, IOInv, Coherent, SynchDiskSound, CleanSlotsMatchDisk, SectorCachedOnce,
         ServedOnReturn
<1> QED  BY CacheInvariant, <1>1, PTL

\* ReadSector and WriteSector behave as a memory of sectors accessed one call
\* at a time, whatever the number of clients, slots and sectors, between two
\* shutdowns and as long as no call has overlapped a miss.
THEOREM StoreImplemented == Spec => ImplementsStore
BY CacheInvariant, StoreInit, StoreNext, PTL DEF Spec, ImplementsStore
=============================================================================
