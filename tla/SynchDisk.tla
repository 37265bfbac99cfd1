------------------------------ MODULE SynchDisk ------------------------------
(***************************************************************************)
(* The synchronous disk and its write-back cache (filesys/synchdisk.cc) on *)
(* top of the raw disk (machine/disk.cc).                                  *)
(*                                                                         *)
(* A step is what a thread does between two places where it may lose the   *)
(* processor, a lock or semaphore operation.  A loop turn that acquires    *)
(* the lock, looks at a slot and releases it is one step, possible when    *)
(* the lock is free.  The threads have equal priorities, so that Semaphore *)
(* (module Semaphore) and the lock built on it are atomic.                 *)
(***************************************************************************)
EXTENDS NachosList

CONSTANTS
  Clients,      \* the threads that use the disk
  Sectors,
  Data,         \* contents of a sector
  Blank,        \* the contents of every sector of a new disk
  NoData,       \* a buffer nothing was copied to
  NoClient,
  CacheSize,    \* number of cache slots (8 in synchdisk.h)
  Asks,         \* the requests each client makes
  MaxRestarts   \* bound on the number of shutdowns

ASSUME DiskAssumption ==
  /\ CacheSize \in Nat \ {0}
  /\ MaxRestarts \in Nat
  /\ Blank \in Data
  /\ NoData \notin Data
  /\ NoClient \notin Clients
  /\ Sectors # {}

Slots == 0 .. CacheSize - 1

Requests ==
  [op : {"write"}, sector : Sectors, data : Data]
    \cup [op : {"read"}, sector : Sectors, data : {NoData}]

ASSUME AsksAssumption == \A c \in Clients : Asks[c] \subseteq Requests

\* The arguments of a client that is in no call.
NoRequest == CHOOSE r \in Requests : TRUE

VARIABLES
  disk,       \* the contents of the UNIX file behind the disk
  active,     \* Disk::active: a completion interrupt is pending
  semaphore,  \* value of SynchDisk::semaphore
  lock,       \* holder of SynchDisk::lock
  cache,      \* CacheTable
  recency,    \* the slots in the order of their lru field, oldest first
  pc, request, slot, hit, buffer,   \* of each client's ReadSector/WriteSector
  restarts,
  aborted,    \* ASSERT(!active) failed
  raced       \* a call has overlapped a miss of another client

diskVars == <<disk, active, semaphore, lock>>
clientVars == <<pc, request, slot, hit, buffer>>
vars == <<diskVars, cache, recency, clientVars, restarts, aborted, raced>>

EmptySlot ==
  [valid |-> FALSE, dirty |-> FALSE,
   sector |-> CHOOSE x \in Sectors : TRUE, data |-> NoData]

Init ==
  /\ disk = [x \in Sectors |-> Blank]
  /\ active = FALSE
  /\ semaphore = 0
  /\ lock = NoClient
  /\ cache = [i \in Slots |-> EmptySlot]
  /\ recency = <<>>
  /\ pc = [c \in Clients |-> "idle"]
  /\ request = [c \in Clients |-> NoRequest]
  /\ slot = [c \in Clients |-> 0]
  /\ hit = [c \in Clients |-> FALSE]
  /\ buffer = [c \in Clients |-> NoData]
  /\ restarts = 0
  /\ aborted = FALSE
  /\ raced = FALSE

\* The slots' order once slot i has been used at the current tick.
Touch(i) == Append(IF i \in Items(recency) THEN RemoveItem(recency, i) ELSE recency, i)

Goto(c, label) == pc' = [pc EXCEPT ![c] = label]

Missing(c) == pc[c] \in {"choose", "evict", "evicting", "swap", "swapping", "rescan"}

\* A client calls ReadSector or WriteSector.
Begin(c) ==
  /\ pc[c] = "idle"
  /\ Goto(c, "scan")
  /\ \E r \in Asks[c] : request' = [request EXCEPT ![c] = r]
  /\ raced' = (raced \/ \E d \in Clients : Missing(d))
  /\ UNCHANGED <<diskVars, cache, recency, slot, hit, buffer, restarts, aborted>>

Matches(i, x) == cache[i].valid /\ cache[i].sector = x

\* Mutant: a write does not mark the slot dirty.
AccessNotDirty(c, i) ==
  /\ hit' = [hit EXCEPT ![c] = TRUE]
  /\ recency' = Touch(i)
  /\ IF request[c].op = "read"
     THEN /\ buffer' = [buffer EXCEPT ![c] = cache[i].data]
          /\ UNCHANGED cache
     ELSE /\ cache' = [cache EXCEPT ![i].data = request[c].data]
          /\ UNCHANGED buffer

\* What a matching slot does for the request.
Access(c, i) ==
  /\ hit' = [hit EXCEPT ![c] = TRUE]
  /\ recency' = Touch(i)
  /\ IF request[c].op = "read"
     THEN /\ buffer' = [buffer EXCEPT ![c] = cache[i].data]
          /\ UNCHANGED cache
     ELSE /\ cache' = [cache EXCEPT ![i].data = request[c].data,
                                    ![i].dirty = TRUE]
          /\ UNCHANGED buffer

LastSlot == CacheSize - 1

\* Mutant: a call whose second loop finds nothing misses again.
ScanAgain(c) ==
  /\ pc[c] \in {"scan", "rescan"}
  /\ lock = NoClient
  /\ IF Matches(slot[c], request[c].sector)
     THEN Access(c, slot[c])
     ELSE UNCHANGED <<cache, recency, hit, buffer>>
  /\ IF slot[c] < LastSlot
     THEN /\ slot' = [slot EXCEPT ![c] = @ + 1]
          /\ UNCHANGED pc
     ELSE /\ slot' = [slot EXCEPT ![c] = 0]
          /\ Goto(c, IF hit'[c] THEN "done" ELSE "choose")
  /\ raced' = (raced \/ /\ pc'[c] = "choose"
                        /\ \E d \in Clients \ {c} : pc[d] # "idle")
  /\ UNCHANGED <<diskVars, request, restarts, aborted>>

\* One turn of the loops over the cache: at the end of the first a miss goes
\* to CacheMiss, at the end of the second the call returns, hit or not.
Scan(c) ==
  /\ pc[c] \in {"scan", "rescan"}
  /\ lock = NoClient
  /\ IF Matches(slot[c], request[c].sector)
     THEN Access(c, slot[c])
     ELSE UNCHANGED <<cache, recency, hit, buffer>>
  /\ IF slot[c] < LastSlot
     THEN /\ slot' = [slot EXCEPT ![c] = @ + 1]
          /\ UNCHANGED pc
     ELSE /\ slot' = [slot EXCEPT ![c] = 0]
          /\ Goto(c, IF hit'[c] \/ pc[c] = "rescan" THEN "done" ELSE "choose")
  /\ raced' = (raced \/ /\ pc'[c] = "choose"
                        /\ \E d \in Clients \ {c} : pc[d] # "idle")
  /\ UNCHANGED <<diskVars, request, restarts, aborted>>

\* CacheMiss picks its victim without the lock: the first invalid slot, or
\* the least recently used one.
Victim ==
  IF \E i \in Slots : ~cache[i].valid
  THEN CHOOSE i \in Slots :
         ~cache[i].valid /\ \A j \in 0 .. i - 1 : cache[j].valid
  ELSE Head(recency)

ChooseVictim(c) ==
  /\ pc[c] = "choose"
  /\ slot' = [slot EXCEPT ![c] = Victim]
  /\ Goto(c, IF cache[Victim].valid /\ cache[Victim].dirty THEN "evict" ELSE "swap")
  /\ UNCHANGED <<diskVars, cache, recency, request, hit, buffer, restarts,
                 aborted, raced>>

\* The disk transfers the data at once and interrupts later.
StartIO(c) ==
  /\ lock = NoClient
  /\ lock' = c
  /\ active' = TRUE
  /\ aborted' = (aborted \/ active)
  /\ UNCHANGED <<semaphore, recency, request, slot, hit, buffer, restarts, raced>>

\* Mutant: the victim is written to the sector that is about to be read.
WriteRequestWrongSector(c) ==
  /\ pc[c] = "evict"
  /\ StartIO(c)
  /\ disk' = [disk EXCEPT ![request[c].sector] = cache[slot[c]].data]
  /\ Goto(c, "evicting")
  /\ UNCHANGED cache

WriteRequest(c) ==
  /\ pc[c] = "evict"
  /\ StartIO(c)
  /\ disk' = [disk EXCEPT ![cache[slot[c]].sector] = cache[slot[c]].data]
  /\ Goto(c, "evicting")
  /\ UNCHANGED cache

ReadRequest(c) ==
  /\ pc[c] = "swap"
  /\ StartIO(c)
  /\ cache' = [cache EXCEPT ![slot[c]].data = disk[request[c].sector]]
  /\ Goto(c, "swapping")
  /\ UNCHANGED disk

\* Disk::HandleInterrupt and SynchDisk::RequestDone.
RequestDone ==
  /\ active
  /\ active' = FALSE
  /\ semaphore' = semaphore + 1
  /\ UNCHANGED <<disk, lock, cache, recency, clientVars, restarts, aborted, raced>>

\* semaphore->P returns; the slot's fields are set and the lock released.
EndIO(c) ==
  /\ semaphore > 0
  /\ semaphore' = semaphore - 1
  /\ lock' = NoClient
  /\ UNCHANGED <<disk, active, request, hit, buffer, restarts, aborted, raced>>

Evicted(c) ==
  /\ pc[c] = "evicting"
  /\ EndIO(c)
  /\ cache' = [cache EXCEPT ![slot[c]].dirty = FALSE, ![slot[c]].valid = FALSE]
  /\ Goto(c, "swap")
  /\ UNCHANGED <<recency, slot>>

SwappedIn(c) ==
  /\ pc[c] = "swapping"
  /\ EndIO(c)
  /\ cache' = [cache EXCEPT ![slot[c]].dirty = FALSE, ![slot[c]].valid = TRUE,
                            ![slot[c]].sector = request[c].sector]
  /\ recency' = Touch(slot[c])
  /\ slot' = [slot EXCEPT ![c] = 0]
  /\ Goto(c, "rescan")

Return(c) ==
  /\ pc[c] = "done"
  /\ Goto(c, "idle")
  /\ request' = [request EXCEPT ![c] = NoRequest]
  /\ hit' = [hit EXCEPT ![c] = FALSE]
  /\ buffer' = [buffer EXCEPT ![c] = NoData]
  /\ UNCHANGED <<diskVars, cache, recency, slot, restarts, aborted, raced>>

\* Cleanup, which Halt and a user abort may call at any time, deletes the
\* synchronous disk with its dirty slots; the next Initialize constructs a new
\* one over the same UNIX file.  The calls in progress are gone.
Restart ==
  /\ restarts < MaxRestarts
  /\ restarts' = restarts + 1
  /\ cache' = [i \in Slots |-> EmptySlot]
  /\ recency' = <<>>
  /\ semaphore' = 0
  /\ lock' = NoClient
  /\ active' = FALSE
  /\ pc' = [c \in Clients |-> "idle"]
  /\ request' = [c \in Clients |-> NoRequest]
  /\ slot' = [c \in Clients |-> 0]
  /\ hit' = [c \in Clients |-> FALSE]
  /\ buffer' = [c \in Clients |-> NoData]
  /\ raced' = FALSE
  /\ UNCHANGED <<disk, aborted>>

ClientStep(c) ==
  \/ Scan(c) \/ ChooseVictim(c) \/ WriteRequest(c) \/ Evicted(c)
  \/ ReadRequest(c) \/ SwappedIn(c) \/ Return(c)

Next == RequestDone \/ Restart \/ \E c \in Clients : Begin(c) \/ ClientStep(c)

Spec == Init /\ [][Next]_vars

\* Threads are dispatched, woken ones get the lock in turn, and the disk
\* completes its request.
FairSpec ==
  /\ Spec
  /\ WF_vars(RequestDone)
  /\ \A c \in Clients : SF_vars(ClientStep(c))
-----------------------------------------------------------------------------
\* The type of every variable.
TypeOK ==
  /\ disk \in [Sectors -> Data]
  /\ active \in BOOLEAN
  /\ semaphore \in Nat
  /\ lock \in Clients \cup {NoClient}
  /\ cache \in [Slots -> [valid : BOOLEAN, dirty : BOOLEAN, sector : Sectors,
                          data : Data \cup {NoData}]]
  /\ recency \in Seq(Slots)
  /\ pc \in [Clients -> {"idle", "scan", "choose", "evict", "evicting",
                         "swap", "swapping", "rescan", "done"}]
  /\ request \in [Clients -> Requests]
  /\ slot \in [Clients -> Slots]
  /\ hit \in [Clients -> BOOLEAN]
  /\ buffer \in [Clients -> Data \cup {NoData}]
  /\ restarts \in 0 .. MaxRestarts
  /\ aborted \in BOOLEAN
  /\ raced \in BOOLEAN

\* The lock lets one request through at a time: ASSERT(!active) in
\* Disk::ReadRequest and WriteRequest never fails, for any number of clients.
OneRequestAtATime == ~aborted

Transferring(c) == pc[c] \in {"evicting", "swapping"}

\* The completion of a request is consumed by the client that made it: there
\* is one pending interrupt or one unit in the semaphore exactly while a
\* client that holds the lock waits for it.
InterruptReachesRequester ==
  /\ \/ lock = NoClient /\ semaphore = 0 /\ ~active
     \/ lock # NoClient /\ semaphore = 0 /\ active
     \/ lock # NoClient /\ semaphore = 1 /\ ~active
  /\ \A c \in Clients : Transferring(c) <=> lock = c

Stable(i) == \A c \in Clients : pc[c] = "swapping" => slot[c] # i

\* A slot that is not dirty holds what the disk holds, so that CacheMiss may
\* drop it, as long as no call has overlapped a miss since the last start.
CleanSlotsMatchDisk ==
  ~raced =>
    \A i \in Slots :
      cache[i].valid /\ ~cache[i].dirty /\ Stable(i) =>
        cache[i].data = disk[cache[i].sector]

\* No sector is cached twice, as long as no call has overlapped a miss: which
\* copy is written back last would decide what the disk holds.
SectorCachedOnce ==
  ~raced =>
    \A i, j \in Slots :
      cache[i].valid /\ cache[j].valid /\ cache[i].sector = cache[j].sector
        => i = j

\* ReadSector and WriteSector return after they have found their sector in the
\* cache (whether a write is then on the disk is WrittenOnReturn).  A call that
\* overlaps a miss may lose its slot to the other one, since CacheMiss picks
\* its victim before it takes the lock.
ServedOnReturn == ~raced => \A c \in Clients : pc[c] = "done" => hit[c]

\* The raw disk is asked one thing at a time and answers the client that
\* asked; and until a call overlaps a miss the cache is coherent and every call
\* that returns was served.
SynchDiskSound ==
  /\ TypeOK /\ OneRequestAtATime /\ InterruptReachesRequester
  /\ CleanSlotsMatchDisk /\ SectorCachedOnce /\ ServedOnReturn

\* The sectors as callers see them.
Holding(x) == {i \in Slots : Matches(i, x) /\ Stable(i)}

Contents ==
  [x \in Sectors |->
     IF Holding(x) = {} THEN disk[x]
     ELSE cache[CHOOSE i \in Holding(x) : TRUE].data]

MappedPhase ==
  [c \in Clients |-> IF pc[c] = "idle" THEN "idle"
                     ELSE IF hit[c] THEN "served" ELSE "asked"]

Store == INSTANCE SectorStore WITH store <- Contents, phase <- MappedPhase

\* The cache is invisible: every call takes effect once, on the sector it
\* names (synchdisk.h), for calls of several clients that overlap each other
\* but no miss, and between two shutdowns.
ImplementsStore ==
  /\ Store!Init
  /\ [][~raced' /\ restarts' = restarts => [Store!Next]_(Store!vars)]_vars

\* synchdisk.cc:131-132, of WriteSector: "Return only after the data has been
\* written."  When a write that no miss overlaps is about to return, the disk
\* holds its data, so that a shutdown loses no write a caller was told is done.
WrittenOnReturn ==
  \A c \in Clients :
    pc[c] = "done" /\ request[c].op = "write" /\ ~raced =>
      disk[request[c].sector] = request[c].data

\* Every call returns: nobody waits for ever for the lock, for an interrupt,
\* or for a client that waits for them, as long as the clients have equal
\* priorities: RequestDone's V can lose a wakeup otherwise (module Synch).
CallsReturn == \A c \in Clients : pc[c] # "idle" ~> pc[c] = "idle"
=============================================================================
