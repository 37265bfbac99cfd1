------------------------------ MODULE Network -------------------------------
(***************************************************************************)
(* The network device of every machine (machine/network.cc) and the UNIX   *)
(* sockets between them (machine/sysdep.cc): a socket keeps the order of   *)
(* its packets, a packet may be lost when it is sent, and sending to a     *)
(* machine that is not running fails an ASSERT.  Polls and completions     *)
(* come at times of their own, so only their order is modelled.  Lost      *)
(* packets, the handlers' signals and what was sent are kept as history.   *)
(***************************************************************************)
EXTENDS Integers, Sequences, FiniteSets

CONSTANTS Machines, Lossy   \* Lossy: is the reliability less than 1?

ASSUME LossyAssumption == Lossy \in BOOLEAN

VARIABLES
  status,             \* "off", "up", "halted"; "aborted" by an ASSERT, which is
                      \* "noPeer" when it was about a machine not started and
                      \* "switched" when it was about a handler switched out
  sock,               \* packets in the socket of a machine
  inHdr,              \* the packet the device has read, or NoPacket (length 0)
  sending,            \* scheduled NetworkSendInt interrupts
  messageAvailable, messageSent,   \* semaphores the device's handlers signal
  sentLog, lost       \* every packet ever sent, and those dropped

networkVars == <<status, sock, inHdr, sending, messageAvailable, messageSent, sentLog, lost>>

NoPacket == [id |-> 0]

Stopped(peer) == IF status[peer] = "halted" THEN "aborted" ELSE "noPeer"

\* Network::Send; sendBusy, which its ASSERT tests, is
\* never set.  SendToSocket aborts when nobody is bound to the name.
Send(n, packet, drop) ==
  /\ sentLog' = [sentLog EXCEPT ![n] = Append(@, packet)]
  /\ sending' = [sending EXCEPT ![n] = @ + 1]
  /\ lost' = IF drop THEN lost \union {packet} ELSE lost
  /\ IF drop \/ status[packet.to] = "up"
     THEN /\ sock' = IF drop THEN sock ELSE [sock EXCEPT ![packet.to] = Append(@, packet)]
          /\ UNCHANGED status
     ELSE /\ status' = [status EXCEPT ![n] = Stopped(packet.to)]
          /\ UNCHANGED sock

\* Network::SendDone, and the increment of PacketSent's V.
SendDone(n) ==
  /\ status[n] = "up" /\ sending[n] > 0
  /\ sending' = [sending EXCEPT ![n] = @ - 1]
  /\ messageSent' = [messageSent EXCEPT ![n] = @ + 1]
  /\ UNCHANGED <<sock, inHdr, messageAvailable, sentLog, lost>>

CheckPktAvailAnyway(n) ==
  /\ status[n] = "up" /\ sock[n] # <<>>
  /\ inHdr' = [inHdr EXCEPT ![n] = Head(sock[n])]
  /\ sock' = [sock EXCEPT ![n] = Tail(@)]
  /\ messageAvailable' = [messageAvailable EXCEPT ![n] = @ + 1]
  /\ UNCHANGED <<status, sending, messageSent, sentLog, lost>>

\* Network::CheckPktAvail when there is something to do, and IncomingPacket's V.
CheckPktAvail(n) ==
  /\ status[n] = "up" /\ inHdr[n] = NoPacket /\ sock[n] # <<>>
  /\ inHdr' = [inHdr EXCEPT ![n] = Head(sock[n])]
  /\ sock' = [sock EXCEPT ![n] = Tail(@)]
  /\ messageAvailable' = [messageAvailable EXCEPT ![n] = @ + 1]
  /\ UNCHANGED <<status, sending, messageSent, sentLog, lost>>

\* Network::Receive: the packet is handed over and the buffer is free again.
Receive(n) == inHdr' = [inHdr EXCEPT ![n] = NoPacket]

NetworkInit ==
  /\ status = [n \in Machines |-> "off"]
  /\ sock = [n \in Machines |-> <<>>]
  /\ inHdr = [n \in Machines |-> NoPacket]
  /\ sending = [n \in Machines |-> 0]
  /\ messageAvailable = [n \in Machines |-> 0]
  /\ messageSent = [n \in Machines |-> 0]
  /\ sentLog = [n \in Machines |-> <<>>] /\ lost = {}
=============================================================================
