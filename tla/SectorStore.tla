----------------------------- MODULE SectorStore -----------------------------
(***************************************************************************)
(* What SynchDisk promises (filesys/synchdisk.h): ReadSector and           *)
(* WriteSector return only once the data is actually read or written, as   *)
(* if the sectors were a memory accessed one request at a time.            *)
(***************************************************************************)
CONSTANTS Clients, Requests, NoRequest, Sectors, Data, Blank, NoData

VARIABLES store, phase, request, buffer

vars == <<store, phase, request, buffer>>

Init ==
  /\ store = [x \in Sectors |-> Blank]
  /\ phase = [c \in Clients |-> "idle"]
  /\ request = [c \in Clients |-> NoRequest]
  /\ buffer = [c \in Clients |-> NoData]

Ask(c) ==
  /\ phase[c] = "idle"
  /\ phase' = [phase EXCEPT ![c] = "asked"]
  /\ \E r \in Requests : request' = [request EXCEPT ![c] = r]
  /\ UNCHANGED <<store, buffer>>

Serve(c) ==
  /\ phase[c] = "asked"
  /\ phase' = [phase EXCEPT ![c] = "served"]
  /\ IF request[c].op = "read"
     THEN /\ buffer' = [buffer EXCEPT ![c] = store[request[c].sector]]
          /\ UNCHANGED store
     ELSE /\ store' = [store EXCEPT ![request[c].sector] = request[c].data]
          /\ UNCHANGED buffer
  /\ UNCHANGED request

Reply(c) ==
  /\ phase[c] = "served"
  /\ phase' = [phase EXCEPT ![c] = "idle"]
  /\ request' = [request EXCEPT ![c] = NoRequest]
  /\ buffer' = [buffer EXCEPT ![c] = NoData]
  /\ UNCHANGED store

Next == \E c \in Clients : Ask(c) \/ Serve(c) \/ Reply(c)

Spec ==
  /\ Init /\ [][Next]_vars
  /\ \A c \in Clients : WF_vars(Serve(c)) /\ WF_vars(Reply(c))
=============================================================================
