--------------------------- MODULE FilesAndMemory ---------------------------
(***************************************************************************)
(* The two services that keep a user's data, one at a time: the file       *)
(* system with its clients, or the virtual memory with its processes.      *)
(***************************************************************************)
EXTENDS MCFileSystem, VirtualMemory

VARIABLE service

filesVars == <<vars, syscallVars, client, script>>

\* While the memory is exercised the files stay as a faulty Format left them:
\* the invariants of the files ask nothing of such a disk.
ServicesInit ==
  /\ FilesInit /\ MemoryInit
  /\ \/ service = "files"
     \/ service = "memory" /\ ~NoFaultYet

ServicesNext ==
  /\ UNCHANGED service
  /\ \/ service = "files" /\ FilesNext /\ UNCHANGED memoryVars
     \/ service = "memory" /\ MemoryNext /\ UNCHANGED filesVars

ServicesSpec == ServicesInit /\ [][ServicesNext]_<<service, filesVars, memoryVars>>

\* Memory no process can reach any more, and no new one will copy, decides
\* nothing.
Reached(p) ==
  state[p] = "live" \/ \E c \in Processes : state[c] \in {"forked", "executed"} /\ caller[c] = p

MemoryView ==
  <<[m EXCEPT
       !.mainMemory = [f \in Frames |->
          IF m.PhysicalPageTable[f] = NoOwner THEN 0 ELSE @[f]],
       !.vSpace = [p \in Processes |-> IF Reached(p) THEN @[p] ELSE 0]],
    state, caller, current,
    [p \in Processes |-> IF Reached(p) THEN memory[p] ELSE 0], memoryFaults>>

\* The service that is not exercised stays as it started.
ServicesView == <<service, IF service = "files" THEN View ELSE MemoryView>>

\* A state reached through a fault is checked, and not continued.
Continues == IF service = "files" THEN NoFaultYet ELSE MemorySound
=============================================================================
