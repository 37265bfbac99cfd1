----------------------------- MODULE PostOffice -----------------------------
(***************************************************************************)
(* The post office (network/post.cc) of every machine: mailboxes, Send     *)
(* under the send lock, the postal worker, and threads that run MailTest   *)
(* (network/nettest.cc) or another list of calls.  A mailbox is a          *)
(* SynchList, an atomic queue.  main is more urgent (0, system.cc) than    *)
(* every forked thread (127), the postal worker among them: it runs before *)
(* they do, and a V that wakes it switches to it before value++            *)
(* (scheduler.cc, synch.cc; step by step in module Synch).                 *)
(***************************************************************************)
EXTENDS Network, TLC

CONSTANTS
  Threads,     \* thread names, on every machine
  NumBoxes,
  Scenarios    \* for each machine, the calls of its threads and the urgent ones

VARIABLES
  boxes,       \* messages in each mailbox of each machine
  sendLock,    \* holder, or NoOne
  worker,      \* postal worker: "waiting" or "delivering"
  calls, at,   \* calls a thread has still to make, and its place inside one
  mail,        \* the message a thread received last
  delivered,   \* history: what the worker put into mailboxes
  urgent,      \* the threads of a machine that have main's priority
  asleep,      \* threads in the queue of the P they have called
  current      \* currentThread: the one that runs, or ran last and idles

officeVars ==
  <<boxes, sendLock, worker, calls, at, mail, delivered, urgent, asleep, current>>
vars == <<networkVars, officeVars>>

NoOne == "none"
PostalWorker == "postal worker"
Boxes == 0 .. NumBoxes - 1

ASSUME ThreadsAssumption == NoOne \notin Threads /\ PostalWorker \notin Threads

SendCall(to, box, replyTo, data) ==
  [op |-> "send", to |-> to, box |-> box, replyTo |-> replyTo, data |-> data]
ReceiveCall(box) == [op |-> "receive", box |-> box]
ReplyCall(replyTo, data) == [op |-> "reply", replyTo |-> replyTo, data |-> data]
HaltCall == [op |-> "halt"]

\* MailTest: a message to the far machine, its message, an answer, its answer.
MailTest(farAddr) ==
  <<SendCall(farAddr, 0, 1, "Hello there!"), ReceiveCall(0),
    ReplyCall(1, "Got it!"), ReceiveCall(1), HaltCall>>

\* Scheduler: thread x has the processor; a more urgent one does not want it.
CanRun(n, x) ==
  x \notin asleep[n] /\ (x # PostalWorker => calls[n][x] # <<>>)
Dispatched(n, x) ==
  /\ status[n] = "up" /\ CanRun(n, x)
  /\ x \in urgent[n] \/ \A u \in urgent[n] : ~CanRun(n, u)
  /\ current' = [current EXCEPT ![n] = x] /\ UNCHANGED urgent

Runs(n, t, ops, label) ==
  /\ Dispatched(n, t)
  /\ Head(calls[n][t]).op \in ops /\ at[n][t] = label

\* Semaphore::V and the thread it wakes.  A more urgent one runs at once, finds
\* the value still 0 and is back in the queue when V increments it.
Overtakes(n, t) == t \in urgent[n] /\ current[n] \notin urgent[n]
Sleepers(n, ops, label) ==
  {t \in asleep[n] \cap Threads : Head(calls[n][t]).op \in ops /\ at[n][t] = label}
Wake(n, sleepers) ==
  asleep' \in {[asleep EXCEPT ![n] = @ \ {t}] : t \in {u \in sleepers : ~Overtakes(n, u)}}
              \union {asleep : t \in {u \in sleepers : Overtakes(n, u)}}
              \union (IF sleepers = {} THEN {asleep} ELSE {})

MoveTo(n, t, label) == at' = [at EXCEPT ![n][t] = label] /\ UNCHANGED calls
Done(n, t) ==
  /\ at' = [at EXCEPT ![n][t] = "start"]
  /\ calls' = [calls EXCEPT ![n][t] = Tail(@)]

\* The packet of a call; a reply goes to the box named in the last mail.
\* The packets of a machine are told apart by their place in its log.
PacketOf(n, t) ==
  LET call == Head(calls[n][t])  last == mail[n][t]
  IN  IF call.op = "send"
      THEN [to |-> call.to, box |-> call.box, replyTo |-> call.replyTo, data |-> call.data,
            from |-> n, id |-> Len(sentLog[n]) + 1]
      ELSE [to |-> last.from, box |-> last.replyTo, replyTo |-> call.replyTo,
            data |-> call.data, from |-> n, id |-> Len(sentLog[n]) + 1]

Abort(n) == status' = [status EXCEPT ![n] = "aborted"]

\* PostOffice::Send.
AcquireSendUnlocked(n, t) ==
  /\ Runs(n, t, {"send", "reply"}, "start")
  /\ sendLock' = [sendLock EXCEPT ![n] = t]
  /\ MoveTo(n, t, "transmit")
  /\ UNCHANGED <<networkVars, boxes, worker, mail, delivered, asleep>>

AcquireSend(n, t) ==
  /\ Runs(n, t, {"send", "reply"}, "start")
  /\ IF PacketOf(n, t).box \in Boxes
     THEN /\ sendLock[n] = NoOne
          /\ sendLock' = [sendLock EXCEPT ![n] = t]
          /\ MoveTo(n, t, "transmit") /\ UNCHANGED status
     ELSE Abort(n) /\ UNCHANGED <<sendLock, at, calls>>
  /\ UNCHANGED <<sock, inHdr, sending, messageAvailable, messageSent, sentLog, lost,
                 boxes, worker, mail, delivered, asleep>>

Transmit(n, t) ==
  /\ Runs(n, t, {"send", "reply"}, "transmit")
  /\ \E drop \in {FALSE, Lossy} : Send(n, PacketOf(n, t), drop)
  /\ MoveTo(n, t, "sent")
  /\ UNCHANGED <<inHdr, messageAvailable, messageSent, boxes, sendLock, worker, mail, delivered, asleep>>

AwaitSent(n, t) ==
  /\ Runs(n, t, {"send", "reply"}, "sent") /\ messageSent[n] > 0
  /\ messageSent' = [messageSent EXCEPT ![n] = @ - 1]
  /\ MoveTo(n, t, "release")
  /\ UNCHANGED <<status, sock, inHdr, sending, messageAvailable, sentLog, lost,
                 boxes, sendLock, worker, mail, delivered, asleep>>

ReleaseSendForgotten(n, t) ==
  /\ Runs(n, t, {"send", "reply"}, "release")
  /\ Done(n, t)
  /\ UNCHANGED <<networkVars, boxes, sendLock, worker, mail, delivered, asleep>>

ReleaseSend(n, t) ==
  /\ Runs(n, t, {"send", "reply"}, "release")
  /\ sendLock' = [sendLock EXCEPT ![n] = NoOne]
  /\ Wake(n, Sleepers(n, {"send", "reply"}, "start"))
  /\ Done(n, t)
  /\ UNCHANGED <<networkVars, boxes, worker, mail, delivered>>

\* PostOffice::Receive.
ReceiveMail(n, t) ==
  /\ Runs(n, t, {"receive"}, "start")
  /\ LET box == Head(calls[n][t]).box
     IN  IF box \in Boxes
         THEN /\ boxes[n][box] # <<>>
              /\ mail' = [mail EXCEPT ![n][t] = Head(boxes[n][box])]
              /\ boxes' = [boxes EXCEPT ![n][box] = Tail(@)]
              /\ Done(n, t) /\ UNCHANGED status
         ELSE Abort(n) /\ UNCHANGED <<mail, boxes, at, calls>>
  /\ UNCHANGED <<sock, inHdr, sending, messageAvailable, messageSent, sentLog, lost,
                 sendLock, worker, delivered, asleep>>

\* Semaphore::P and Condition::Wait when there is nothing to take: the thread
\* joins the queue.
Sleeps(n, t) ==
  /\ \/ Runs(n, t, {"send", "reply"}, "start") /\ sendLock[n] # NoOne
     \/ Runs(n, t, {"send", "reply"}, "sent") /\ messageSent[n] = 0
     \/ /\ Runs(n, t, {"receive"}, "start")
        /\ \E box \in Boxes : box = Head(calls[n][t]).box /\ boxes[n][box] = <<>>
  /\ asleep' = [asleep EXCEPT ![n] = @ \union {t}]
  /\ UNCHANGED <<networkVars, boxes, sendLock, worker, calls, at, mail, delivered>>

Halt(n, t) ==
  /\ Runs(n, t, {"halt"}, "start")
  /\ status' = [status EXCEPT ![n] = "halted"]
  /\ Done(n, t)
  /\ UNCHANGED <<sock, inHdr, sending, messageAvailable, messageSent, sentLog, lost,
                 boxes, sendLock, worker, mail, delivered, asleep>>

\* PostOffice::PostalDelivery: P, then Receive and Put.
WorkerSleeps(n) ==
  /\ Dispatched(n, PostalWorker) /\ worker[n] = "waiting" /\ messageAvailable[n] = 0
  /\ asleep' = [asleep EXCEPT ![n] = @ \union {PostalWorker}]
  /\ UNCHANGED <<networkVars, boxes, sendLock, worker, calls, at, mail, delivered>>

WorkerWakes(n) ==
  /\ Dispatched(n, PostalWorker) /\ worker[n] = "waiting" /\ messageAvailable[n] > 0
  /\ messageAvailable' = [messageAvailable EXCEPT ![n] = @ - 1]
  /\ worker' = [worker EXCEPT ![n] = "delivering"]
  /\ UNCHANGED <<status, sock, inHdr, sending, messageSent, sentLog, lost,
                 boxes, sendLock, calls, at, mail, delivered, asleep>>

\* What the worker finds in its buffer: when the device has no packet, the one
\* of the last time.
Buffered(n) ==
  IF inHdr[n] = NoPacket /\ delivered[n] # <<>>
  THEN delivered[n][Len(delivered[n])] ELSE inHdr[n]

PostalDelivery(n) ==
  /\ Dispatched(n, PostalWorker) /\ worker[n] = "delivering"
  /\ worker' = [worker EXCEPT ![n] = "waiting"]
  /\ Receive(n)
  /\ LET p == Buffered(n)
     IN  IF p # NoPacket /\ p.to = n /\ p.box \in Boxes
         THEN /\ boxes' = [boxes EXCEPT ![n][p.box] = Append(@, p)]
              /\ delivered' = [delivered EXCEPT ![n] = Append(@, p)]
              /\ Wake(n, {t \in Sleepers(n, {"receive"}, "start") :
                            Head(calls[n][t]).box = p.box})
              /\ UNCHANGED status
         ELSE Abort(n) /\ UNCHANGED <<boxes, delivered, asleep>>
  /\ UNCHANGED <<sock, sending, messageAvailable, messageSent, sentLog, lost,
                 sendLock, calls, at, mail>>

\* PostOffice::PacketSent.  When V switches to a more urgent sender inside the
\* handler, and the thread that runs after it is not the interrupted one, or
\* that one has finished, the simulator aborts (interrupt.cc, scheduler.cc).
Astray(n) ==
  \/ current[n] \in Threads /\ calls[n][current[n]] = <<>>
  \/ \E x \in (Threads \union {PostalWorker}) \ {current[n]} : CanRun(n, x)

PacketSent(n) ==
  /\ SendDone(n)
  /\ LET sleepers == Sleepers(n, {"send", "reply"}, "sent")
     IN  IF (\E t \in sleepers : Overtakes(n, t)) /\ Astray(n)
         THEN status' = [status EXCEPT ![n] = "switched"] /\ UNCHANGED asleep
         ELSE Wake(n, sleepers) /\ UNCHANGED status
  /\ UNCHANGED <<boxes, sendLock, worker, calls, at, mail, delivered, urgent, current>>

\* PostOffice::IncomingPacket: nobody is less urgent than the postal worker.
IncomingPacket(n) ==
  /\ CheckPktAvail(n)
  /\ asleep' = [asleep EXCEPT ![n] = @ \ {PostalWorker}]
  /\ UNCHANGED <<boxes, sendLock, worker, calls, at, mail, delivered, urgent, current>>

\* Initialize: the user starts the machine.
Start(n) ==
  /\ status[n] = "off"
  /\ status' = [status EXCEPT ![n] = "up"]
  /\ UNCHANGED <<sock, inHdr, sending, messageAvailable, messageSent, sentLog, lost, officeVars>>

Init ==
  /\ NetworkInit
  /\ boxes = [n \in Machines |-> [b \in Boxes |-> <<>>]]
  /\ sendLock = [n \in Machines |-> NoOne]
  /\ worker = [n \in Machines |-> "waiting"]
  /\ \E s \in Scenarios : calls = s.calls /\ urgent = s.urgent
  /\ asleep = [n \in Machines |-> {}] /\ current = [n \in Machines |-> PostalWorker]
  /\ at = [n \in Machines |-> [t \in Threads |-> "start"]]
  /\ mail = [n \in Machines |-> [t \in Threads |-> NoPacket]]
  /\ delivered = [n \in Machines |-> <<>>]

Thread(n, t) ==
  \/ AcquireSend(n, t) \/ Transmit(n, t) \/ AwaitSent(n, t) \/ ReleaseSend(n, t)
  \/ ReceiveMail(n, t) \/ Halt(n, t) \/ Sleeps(n, t)
Worker(n) == WorkerSleeps(n) \/ WorkerWakes(n) \/ PostalDelivery(n)

Next ==
  \E n \in Machines :
    \/ Start(n) \/ PacketSent(n) \/ IncomingPacket(n) \/ Worker(n)
    \/ \E t \in Threads : Thread(n, t)

\* The devices interrupt again and again, and the scheduler runs every thread
\* that can go on; a lock may pass a waiting thread by.
Fairness ==
  \A n \in Machines :
    /\ WF_vars(Start(n)) /\ WF_vars(PacketSent(n)) /\ WF_vars(IncomingPacket(n))
    /\ WF_vars(Worker(n))
    /\ \A t \in Threads : SF_vars(AcquireSend(n, t)) /\ WF_vars(Thread(n, t))

Spec == Init /\ [][Next]_vars /\ Fairness

\* -------------------------------- properties -------------------------------

TypeOK ==
  /\ status \in [Machines -> {"off", "up", "halted", "aborted", "noPeer", "switched"}]
  /\ \A n \in Machines :
       /\ messageAvailable[n] \in 0 .. 1 /\ messageSent[n] \in 0 .. 1 /\ sending[n] \in 0 .. 1
       /\ sendLock[n] \in Threads \union {NoOne} /\ worker[n] \in {"waiting", "delivering"}

Increasing(log, from) ==
  \A i, j \in DOMAIN log : i < j /\ log[i].from = from /\ log[j].from = from => log[i].id < log[j].id

\* "capable of delivering fixed sized packets, in order but unreliably": what
\* the postal worker delivers is what was sent to this machine, each packet at
\* most once and in the order it was sent, and never one that was lost.
InOrderUnreliable ==
  \A n \in Machines :
    /\ \A i \in DOMAIN delivered[n] :
         LET p == delivered[n][i]
         IN  p.to = n /\ p \notin lost /\ p.id \in DOMAIN sentLog[p.from] /\ sentLog[p.from][p.id] = p
    /\ \A from \in Machines : Increasing(delivered[n], from)
    /\ \A b \in Boxes : \A i \in DOMAIN boxes[n][b] : boxes[n][b][i].box = b

\* A thread waits for the completion of its own packet: sendBusy is never set,
\* so only the send lock keeps a second packet from the device.
OneSendAtATime ==
  \A n \in Machines :
    LET inSend == {t \in Threads : at[n][t] \in {"transmit", "sent", "release"}}
    IN  /\ Cardinality(inSend) <= 1
        /\ status[n] = "up" =>
             sending[n] + messageSent[n] = Cardinality({t \in Threads : at[n][t] = "sent"})

\* No assertion stops a machine, except that it sent to one the user had not
\* started yet, or that V switched to main inside the handler of a completion:
\* nobody sends to a machine that has halted, and the device has at most one
\* packet to hand over and one completion to report.
StopsOnlyOnAbsentPeer == TypeOK /\ \A n \in Machines : status[n] # "aborted"

\* A wake-up that V gave to a more urgent thread too early: it sleeps although
\* what it waits for is there, and the machine has nothing more to do.
Mislaid(n, t) ==
  /\ t \in asleep[n] \cap urgent[n]
  /\ \/ t \in Sleepers(n, {"send", "reply"}, "sent") /\ messageSent[n] > 0
     \/ t \in Sleepers(n, {"send", "reply"}, "start") /\ sendLock[n] = NoOne
     \/ /\ t \in Sleepers(n, {"receive"}, "start")
        /\ \E b \in Boxes : b = Head(calls[n][t]).box /\ boxes[n][b] # <<>>

\* Every thread makes all its calls when no packet is lost, no machine found its
\* peer absent and main's priority has cost no wake-up (as it does in the first
\* Send of MailTest).  A lost packet is never sent again: the test hangs then.
CallsReturn ==
  <>(\/ lost # {} \/ \E n \in Machines : status[n] \in {"noPeer", "switched"}
     \/ \E n \in Machines, t \in Threads : Mislaid(n, t)
     \/ \A n \in Machines, t \in Threads : calls[n][t] = <<>>)
=============================================================================
