-------------------------- MODULE PostOfficeProofs --------------------------
(***************************************************************************)
(* For any machines, threads, mailboxes and lists of calls: the send lock  *)
(* of PostOffice::Send serialises the use of the network device (sendBusy, *)
(* which Network::Send's ASSERT tests, is never set, so nothing else       *)
(* would), and the postal worker delivers packets in the order of their    *)
(* sends, none twice and none that was dropped.                            *)
(***************************************************************************)
EXTENDS PostOffice, FiniteSetTheorems, TLAPS

Sending == {"transmit", "sent", "release"}
Places == {"start"} \cup Sending

SendTypes ==
  /\ at \in [Machines -> [Threads -> Places]]
  /\ sendLock \in [Machines -> Threads \cup {NoOne}]
  /\ sending \in [Machines -> Nat]
  /\ messageSent \in [Machines -> Nat]

\* The thread inside Send holds the lock, and the device has one completion to
\* report, or has reported it, exactly while that thread waits for it.
LockHeld ==
  \A n \in Machines, t \in Threads : at[n][t] \in Sending <=> sendLock[n] = t

OneCompletion ==
  \A n \in Machines :
    sending[n] + messageSent[n] = IF \E t \in Threads : at[n][t] = "sent" THEN 1 ELSE 0

SendInv == SendTypes /\ LockHeld /\ OneCompletion

\* Thread t of machine n has moved to l, and nobody else.
Moved(n, t, l) ==
  /\ at' \in [Machines -> [Threads -> Places]]
  /\ \A m \in Machines, u \in Threads : at'[m][u] = IF m = n /\ u = t THEN l ELSE at[m][u]

LEMMA MoveEffect ==
  ASSUME SendTypes, NEW n \in Machines, NEW t \in Threads, NEW l \in Places,
         at' = [at EXCEPT ![n][t] = l]
  PROVE  Moved(n, t, l)
<1> DEFINE new == [at[n] EXCEPT ![t] = l]
<1>1. at' = [at EXCEPT ![n] = new]
  BY Zenon
<1>2. at[n] \in [Threads -> Places]
  BY Zenon DEF SendTypes
<1>3. new \in [Threads -> Places] /\ \A u \in Threads : new[u] = IF u = t THEN l ELSE at[n][u]
  BY <1>2, Zenon
<1> HIDE DEF new
<1>4. \A m \in Machines : at'[m] = IF m = n THEN new ELSE at[m]
  BY <1>1, Zenon DEF SendTypes
<1> QED  BY <1>1, <1>3, <1>4 DEF SendTypes, Moved

LEMMA SendInit == Init => SendInv
BY ThreadsAssumption
   DEF Init, NetworkInit, SendInv, SendTypes, LockHeld, OneCompletion, Places, Sending

\* A step that moves no thread and leaves the lock and the completions alone.
LEMMA SendUntouched ==
  ASSUME SendInv, UNCHANGED <<at, sendLock, sending, messageSent>>
  PROVE  SendInv'
BY Zenon DEF SendInv, SendTypes, LockHeld, OneCompletion

LEMMA SendNext == SendInv /\ [Next]_vars => SendInv'
<1> SUFFICES ASSUME SendInv, [Next]_vars  PROVE SendInv'
  BY Zenon
<1>0. SendTypes /\ LockHeld /\ OneCompletion
  BY Zenon DEF SendInv
<1>1. CASE UNCHANGED vars
  BY <1>1, SendUntouched, Zenon DEF vars, networkVars, officeVars
<1>2. ASSUME NEW n \in Machines,
             Start(n) \/ WorkerSleeps(n) \/ WorkerWakes(n) \/ PostalDelivery(n) \/ IncomingPacket(n)
      PROVE  SendInv'
  BY <1>2, SendUntouched, Zenon
     DEF Start, WorkerSleeps, WorkerWakes, PostalDelivery, IncomingPacket, CheckPktAvail,
         networkVars, officeVars
<1>3. ASSUME NEW n \in Machines, PacketSent(n)  PROVE SendInv'
  <2>1. SendDone(n) /\ at' = at /\ sendLock' = sendLock
    BY <1>3, Zenon DEF PacketSent
  <2>2. SendInv'
    <3>1. /\ sending' \in [Machines -> Nat] /\ messageSent' \in [Machines -> Nat]
          /\ \A m \in Machines : sending'[m] + messageSent'[m] = sending[m] + messageSent[m]
      <4>1. /\ sending' = [sending EXCEPT ![n] = sending[n] - 1] /\ sending[n] > 0
            /\ messageSent' = [messageSent EXCEPT ![n] = messageSent[n] + 1]
            /\ sending[n] \in Nat /\ messageSent[n] \in Nat
        BY <1>0, <2>1, Zenon DEF SendDone, SendTypes
      <4>2. sending[n] - 1 \in Nat /\ messageSent[n] + 1 \in Nat
        BY <4>1
      <4>3. sending' \in [Machines -> Nat] /\ messageSent' \in [Machines -> Nat]
        BY <1>0, <4>1, <4>2, Zenon DEF SendTypes
      <4>4. \A m \in Machines :
              IF m = n THEN sending'[m] = sending[n] - 1 /\ messageSent'[m] = messageSent[n] + 1
                       ELSE sending'[m] = sending[m] /\ messageSent'[m] = messageSent[m]
        BY <1>0, <4>1, Zenon DEF SendTypes
      <4> QED  BY <4>1, <4>3, <4>4
    <3> QED  BY <1>0, <2>1, <3>1 DEF SendInv, SendTypes, LockHeld, OneCompletion
  <2> QED  BY <2>2, Zenon
<1>4. ASSUME NEW n \in Machines, NEW t \in Threads, AcquireSend(n, t)  PROVE SendInv'
  <2>0. CASE PacketOf(n, t).box \notin Boxes
    BY <1>4, <2>0, SendUntouched, Zenon DEF AcquireSend
  <2> SUFFICES ASSUME PacketOf(n, t).box \in Boxes  PROVE SendInv'
    BY <2>0, Zenon
  <2>1. /\ at[n][t] = "start" /\ sendLock[n] = NoOne
        /\ at' = [at EXCEPT ![n][t] = "transmit"]
        /\ sendLock' = [sendLock EXCEPT ![n] = t]
        /\ UNCHANGED <<sending, messageSent>>
    BY <1>4, Zenon DEF AcquireSend, Runs, MoveTo
  <2>2. /\ at' \in [Machines -> [Threads -> Places]]
        /\ \A m \in Machines, u \in Threads :
             at'[m][u] = IF m = n /\ u = t THEN "transmit" ELSE at[m][u]
    <3>1. Moved(n, t, "transmit")
      BY <1>0, <2>1, MoveEffect, Zenon DEF Places, Sending
    <3> QED  BY <3>1, Zenon DEF Moved
  <2>3. SendTypes'
    BY <1>0, <2>1, <2>2, Zenon DEF SendTypes
  <2>4. LockHeld'
    BY <1>0, <2>1, <2>2, ThreadsAssumption DEF SendTypes, LockHeld, Sending
  <2>5. \A m \in Machines, u \in Threads : at'[m][u] = "sent" <=> at[m][u] = "sent"
    BY <2>1, <2>2, Zenon
  <2>6. OneCompletion'
    BY <1>0, <2>1, <2>5, Zenon DEF OneCompletion
  <2> QED  BY <2>3, <2>4, <2>6, Zenon DEF SendInv
<1>5. ASSUME NEW n \in Machines, NEW t \in Threads, Transmit(n, t)  PROVE SendInv'
  <2>1. /\ at[n][t] = "transmit" /\ at' = [at EXCEPT ![n][t] = "sent"]
        /\ sending' = [sending EXCEPT ![n] = @ + 1]
        /\ UNCHANGED <<sendLock, messageSent>>
    BY <1>5, Zenon DEF Transmit, Runs, MoveTo, Send
  <2>2. /\ at' \in [Machines -> [Threads -> Places]]
        /\ \A m \in Machines, u \in Threads :
             at'[m][u] = IF m = n /\ u = t THEN "sent" ELSE at[m][u]
    <3>1. Moved(n, t, "sent")
      BY <1>0, <2>1, MoveEffect, Zenon DEF Places, Sending
    <3> QED  BY <3>1, Zenon DEF Moved
  <2>3. SendTypes'
    BY <1>0, <2>1, <2>2 DEF SendTypes
  <2>4. LockHeld'
    BY <1>0, <2>1, <2>2 DEF LockHeld, Sending
  <2>5. sendLock[n] = t /\ \A u \in Threads : at[n][u] # "sent"
    BY <1>0, <2>1 DEF LockHeld, Sending
  <2>6. \A m \in Machines \ {n}, u \in Threads : at'[m][u] = "sent" <=> at[m][u] = "sent"
    BY <2>2, Zenon
  <2>7. sending'[n] + messageSent'[n] = 1
    BY <1>0, <2>1, <2>5 DEF OneCompletion, SendTypes
  <2>8. \A m \in Machines \ {n} :
          sending'[m] + messageSent'[m] = sending[m] + messageSent[m]
    BY <1>0, <2>1, Zenon DEF SendTypes
  <2>9. OneCompletion'
    BY <1>0, <2>2, <2>6, <2>7, <2>8 DEF OneCompletion
  <2> QED  BY <2>3, <2>4, <2>9, Zenon DEF SendInv
<1>6. ASSUME NEW n \in Machines, NEW t \in Threads, AwaitSent(n, t)  PROVE SendInv'
  <2>1. /\ at[n][t] = "sent" /\ at' = [at EXCEPT ![n][t] = "release"]
        /\ messageSent[n] > 0 /\ messageSent' = [messageSent EXCEPT ![n] = @ - 1]
        /\ UNCHANGED <<sendLock, sending>>
    BY <1>6, Zenon DEF AwaitSent, Runs, MoveTo
  <2>2. /\ at' \in [Machines -> [Threads -> Places]]
        /\ \A m \in Machines, u \in Threads :
             at'[m][u] = IF m = n /\ u = t THEN "release" ELSE at[m][u]
    <3>1. Moved(n, t, "release")
      BY <1>0, <2>1, MoveEffect, Zenon DEF Places, Sending
    <3> QED  BY <3>1, Zenon DEF Moved
  <2>3. SendTypes'
    BY <1>0, <2>1, <2>2 DEF SendTypes
  <2>4. LockHeld'
    BY <1>0, <2>1, <2>2 DEF LockHeld, Sending
  <2>5. \A u \in Threads : at'[n][u] # "sent"
    BY <1>0, <2>1, <2>2 DEF LockHeld, Sending
  <2>6. \A m \in Machines \ {n}, u \in Threads : at'[m][u] = "sent" <=> at[m][u] = "sent"
    BY <2>2, Zenon
  <2>7. sending'[n] + messageSent'[n] = 0
    BY <1>0, <2>1 DEF OneCompletion, SendTypes
  <2>8. \A m \in Machines \ {n} :
          sending'[m] + messageSent'[m] = sending[m] + messageSent[m]
    BY <1>0, <2>1, Zenon DEF SendTypes
  <2>9. OneCompletion'
    BY <1>0, <2>5, <2>6, <2>7, <2>8 DEF OneCompletion
  <2> QED  BY <2>3, <2>4, <2>9, Zenon DEF SendInv
<1>7. ASSUME NEW n \in Machines, NEW t \in Threads, ReleaseSend(n, t)  PROVE SendInv'
  <2>1. /\ at[n][t] = "release" /\ at' = [at EXCEPT ![n][t] = "start"]
        /\ sendLock' = [sendLock EXCEPT ![n] = NoOne]
        /\ UNCHANGED <<sending, messageSent>>
    BY <1>7, Zenon DEF ReleaseSend, Runs, Done, networkVars
  <2>2. /\ at' \in [Machines -> [Threads -> Places]]
        /\ \A m \in Machines, u \in Threads :
             at'[m][u] = IF m = n /\ u = t THEN "start" ELSE at[m][u]
    <3>1. Moved(n, t, "start")
      BY <1>0, <2>1, MoveEffect, Zenon DEF Places, Sending
    <3> QED  BY <3>1, Zenon DEF Moved
  <2>3. SendTypes'
    BY <1>0, <2>1, <2>2, Zenon DEF SendTypes
  <2>4. LockHeld'
    BY <1>0, <2>1, <2>2, ThreadsAssumption DEF SendTypes, LockHeld, Sending
  <2>5. \A m \in Machines, u \in Threads : at'[m][u] = "sent" <=> at[m][u] = "sent"
    BY <2>1, <2>2, Zenon
  <2>6. OneCompletion'
    BY <1>0, <2>1, <2>5, Zenon DEF OneCompletion
  <2> QED  BY <2>3, <2>4, <2>6, Zenon DEF SendInv
<1>8. ASSUME NEW n \in Machines, NEW t \in Threads, ReceiveMail(n, t) \/ Halt(n, t) \/ Sleeps(n, t)
      PROVE  SendInv'
  <2>0. CASE UNCHANGED <<at, sendLock, sending, messageSent>>
    BY <2>0, SendUntouched, Zenon
  <2> SUFFICES ASSUME ~UNCHANGED <<at, sendLock, sending, messageSent>>  PROVE SendInv'
    BY <2>0, Zenon
  <2>1. /\ at[n][t] = "start" /\ at' = [at EXCEPT ![n][t] = "start"]
        /\ UNCHANGED <<sendLock, sending, messageSent>>
    BY <1>8, Zenon DEF ReceiveMail, Halt, Sleeps, Runs, Done, networkVars
  <2>2. /\ at' \in [Machines -> [Threads -> Places]]
        /\ \A m \in Machines, u \in Threads : at'[m][u] = at[m][u]
    <3>1. Moved(n, t, "start")
      BY <1>0, <2>1, MoveEffect, Zenon DEF Places, Sending
    <3> QED  BY <2>1, <3>1, Zenon DEF Moved
  <2> QED  BY <1>0, <2>1, <2>2 DEF SendInv, SendTypes, LockHeld, OneCompletion
<1> QED
  BY <1>1, <1>2, <1>3, <1>4, <1>5, <1>6, <1>7, <1>8, Zenon DEF Next, Worker, Thread

LEMMA SendSerialised == SendInv => OneSendAtATime
<1> SUFFICES ASSUME SendInv, NEW n \in Machines
             PROVE  LET inSend == {t \in Threads : at[n][t] \in Sending}
                    IN  /\ Cardinality(inSend) <= 1
                        /\ status[n] = "up" =>
                             sending[n] + messageSent[n]
                               = Cardinality({t \in Threads : at[n][t] = "sent"})
  BY Zenon DEF OneSendAtATime, Sending
<1> DEFINE inSend == {t \in Threads : at[n][t] \in Sending}
           waiting == {t \in Threads : at[n][t] = "sent"}
<1>1. inSend = {} \/ inSend = {sendLock[n]}
  BY Zenon DEF SendInv, LockHeld
<1>2. waiting = {} \/ waiting = {sendLock[n]}
  BY DEF SendInv, LockHeld, Sending
<1>3. Cardinality(inSend) <= 1
  <2>1. CASE inSend = {}
    BY <2>1, FS_EmptySet
  <2>2. CASE inSend = {sendLock[n]}
    <3>1. Cardinality({sendLock[n]}) = 1
      BY FS_Singleton, Zenon
    <3> QED  BY <2>2, <3>1
  <2> QED  BY <1>1, <2>1, <2>2, Zenon
<1>4. Cardinality(waiting) = IF \E t \in Threads : at[n][t] = "sent" THEN 1 ELSE 0
  <2>1. CASE waiting = {}
    BY <2>1, FS_EmptySet, Zenon
  <2>2. CASE waiting = {sendLock[n]}
    BY <2>2, FS_Singleton, Zenon
  <2> QED  BY <1>2, <2>1, <2>2, Zenon
<1> QED  BY <1>3, <1>4, Zenon DEF SendInv, OneCompletion

\* On every machine one thread at a time is inside PostOffice::Send, and the
\* completion interrupt it waits for is that of its own packet.
THEOREM SendsSerialised == Spec => []OneSendAtATime
<1>1. Spec => Init /\ [][Next]_vars
  BY Zenon DEF Spec
<1> QED  BY <1>1, SendInit, SendNext, SendSerialised, PTL
-----------------------------------------------------------------------------
\* ---------------------------- what is delivered -----------------------------

\* s is a sequence, of whatever items.
IsSeq(s) == s \in Seq({s[i] : i \in DOMAIN s})

\* Packet p was sent to machine n, as log and gone record it, and not dropped.
Sent(p, n, log, gone) ==
  /\ p.to = n /\ p \notin gone /\ p.from \in Machines
  /\ p.id \in DOMAIN log[p.from] /\ log[p.from][p.id] = p

Before(p, q) == p.from = q.from => p.id < q.id

Ordered(s) == \A i, j \in DOMAIN s : i < j => Before(s[i], s[j])

\* A machine's packets pass from its socket s over the device's buffer h to the
\* delivered ones d.  Their order is that of the sends in all three together:
\* a packet that is read must not be overtaken by one still in the socket.
Stream(d, h, s, n, log, gone) ==
  /\ IsSeq(d) /\ IsSeq(s) /\ Ordered(d) /\ Ordered(s)
  /\ \A i \in DOMAIN d : Sent(d[i], n, log, gone)
  /\ \A j \in DOMAIN s : Sent(s[j], n, log, gone)
  /\ \A i \in DOMAIN d, j \in DOMAIN s : Before(d[i], s[j])
  /\ h # NoPacket => /\ Sent(h, n, log, gone)
                     /\ \A i \in DOMAIN d : Before(d[i], h)
                     /\ \A j \in DOMAIN s : Before(h, s[j])

\* The identifiers of what was sent and dropped stay within the logs, so that
\* a new packet is unlike every earlier one.
Logs(log, gone) ==
  /\ log = [n \in Machines |-> log[n]] /\ \A n \in Machines : IsSeq(log[n])
  /\ \A p \in gone : p.from \in Machines /\ p.id \in DOMAIN log[p.from]

Boxed(n) ==
  /\ boxes[n] = [b \in Boxes |-> boxes[n][b]]
  /\ \A b \in Boxes : /\ IsSeq(boxes[n][b])
                      /\ \A i \in DOMAIN boxes[n][b] : boxes[n][b][i].box = b

OrderInv ==
  /\ Logs(sentLog, lost)
  /\ sock = [n \in Machines |-> sock[n]] /\ inHdr = [n \in Machines |-> inHdr[n]]
  /\ delivered = [n \in Machines |-> delivered[n]] /\ boxes = [n \in Machines |-> boxes[n]]
  /\ \A n \in Machines : /\ Stream(delivered[n], inHdr[n], sock[n], n, sentLog, lost)
                         /\ Boxed(n)

\* While messageAvailable counts a packet or the postal worker is on its way to
\* it, and only then, the device's buffer holds one.
HandedOver(h, available, w) ==
  \/ h = NoPacket /\ available = 0 /\ w = "waiting"
  \/ h # NoPacket /\ available = 1 /\ w = "waiting"
  \/ h # NoPacket /\ available = 0 /\ w = "delivering"

HandOver ==
  /\ messageAvailable \in [Machines -> Nat] /\ worker = [n \in Machines |-> worker[n]]
  /\ \A n \in Machines : HandedOver(inHdr[n], messageAvailable[n], worker[n])

LEMMA SeqOfOwnItems ==
  ASSUME NEW T, NEW s \in Seq(T)
  PROVE  IsSeq(s)
BY DEF IsSeq

LEMMA AppendAny ==
  ASSUME NEW s, IsSeq(s), NEW x
  PROVE  /\ IsSeq(Append(s, x)) /\ Len(s) \in Nat
         /\ DOMAIN s = 1 .. Len(s) /\ DOMAIN Append(s, x) = 1 .. Len(s) + 1
         /\ \A i \in 1 .. Len(s) : Append(s, x)[i] = s[i]
         /\ Append(s, x)[Len(s) + 1] = x
<1> DEFINE T == {s[i] : i \in DOMAIN s} \cup {x}
<1>1. s \in Seq(T) /\ x \in T
  BY DEF IsSeq
<1> HIDE DEF T
<1>2. Append(s, x) \in Seq(T)
  BY <1>1
<1>3. IsSeq(Append(s, x))
  BY <1>2, SeqOfOwnItems, Zenon
<1> QED
  BY <1>1, <1>3

LEMMA TailAny ==
  ASSUME NEW s, IsSeq(s), s # <<>>
  PROVE  /\ IsSeq(Tail(s)) /\ Len(s) \in Nat \ {0} /\ DOMAIN s = 1 .. Len(s)
         /\ Head(s) = s[1] /\ DOMAIN Tail(s) = 1 .. Len(s) - 1
         /\ \A i \in 1 .. Len(s) - 1 : Tail(s)[i] = s[i + 1]
<1> DEFINE T == {s[i] : i \in DOMAIN s}
<1>1. s \in Seq(T)
  BY Zenon DEF IsSeq
<1> HIDE DEF T
<1>2. Tail(s) \in Seq(T)
  BY <1>1
<1>3. IsSeq(Tail(s))
  BY <1>2, SeqOfOwnItems, Zenon
<1> QED
  BY <1>1, <1>3

\* The worker hands the buffered packet over.
LEMMA StreamDelivered ==
  ASSUME NEW d, NEW h, NEW s, NEW n, NEW log, NEW gone,
         Stream(d, h, s, n, log, gone), h # NoPacket
  PROVE  Stream(Append(d, h), NoPacket, s, n, log, gone)
<1> DEFINE e == Append(d, h)
<1>1. /\ IsSeq(e) /\ Len(d) \in Nat /\ DOMAIN d = 1 .. Len(d) /\ DOMAIN e = 1 .. Len(d) + 1
      /\ \A i \in 1 .. Len(d) : e[i] = d[i]
      /\ e[Len(d) + 1] = h
  BY AppendAny DEF Stream
<1> HIDE DEF e
<1>2. \A i \in DOMAIN e : (i \in DOMAIN d /\ e[i] = d[i]) \/ (i = Len(d) + 1 /\ e[i] = h)
  BY <1>1
<1>3. \A i \in DOMAIN e : Sent(e[i], n, log, gone)
  BY <1>2, Zenon DEF Stream
<1>4. \A i \in DOMAIN e, j \in DOMAIN s : Before(e[i], s[j])
  BY <1>2, Zenon DEF Stream
<1>5. Ordered(e)
  <2> SUFFICES ASSUME NEW i \in DOMAIN e, NEW j \in DOMAIN e, i < j PROVE Before(e[i], e[j])
    BY Zenon DEF Ordered
  <2>1. i \in DOMAIN d /\ e[i] = d[i]
    BY <1>1
  <2> QED
    BY <1>2, <2>1, Zenon DEF Stream, Ordered
<1> QED
  BY <1>1, <1>3, <1>4, <1>5, Zenon DEF Stream, e

\* The device reads a packet into its free buffer.
LEMMA SentIsPacket ==
  ASSUME NEW p, NEW n, NEW log, NEW gone, Sent(p, n, log, gone), Logs(log, gone)
  PROVE  p # NoPacket
<1>1. p.id \in DOMAIN log[p.from] /\ IsSeq(log[p.from])
  BY Zenon DEF Sent, Logs
<1>2. p.id # 0
  BY <1>1 DEF IsSeq
<1> QED  BY <1>2 DEF NoPacket

LEMMA StreamPolled ==
  ASSUME NEW d, NEW s, NEW n, NEW log, NEW gone, s # <<>>,
         Stream(d, NoPacket, s, n, log, gone)
  PROVE  Stream(d, Head(s), Tail(s), n, log, gone)
<1> DEFINE t == Tail(s)
           h == Head(s)
<1>1. /\ IsSeq(t) /\ Len(s) \in Nat \ {0} /\ DOMAIN s = 1 .. Len(s)
      /\ h = s[1] /\ DOMAIN t = 1 .. Len(s) - 1
      /\ \A i \in 1 .. Len(s) - 1 : t[i] = s[i + 1]
  BY TailAny, Zenon DEF Stream
<1> HIDE DEF t, h
<1>2. h = s[1] /\ 1 \in DOMAIN s
  BY <1>1
<1>3. \A i \in DOMAIN t : i + 1 \in DOMAIN s /\ 1 < i + 1 /\ t[i] = s[i + 1]
  BY <1>1
<1>4. Ordered(t)
  BY <1>1, <1>3 DEF Stream, Ordered
<1>5. \A i \in DOMAIN t : Sent(t[i], n, log, gone) /\ Before(h, t[i])
  BY <1>2, <1>3, Zenon DEF Stream, Ordered
<1>6. \A i \in DOMAIN d, j \in DOMAIN t : Before(d[i], t[j])
  BY <1>3, Zenon DEF Stream
<1>7. Sent(h, n, log, gone) /\ \A i \in DOMAIN d : Before(d[i], h)
  BY <1>2, Zenon DEF Stream
<1> QED
  BY <1>1, <1>4, <1>5, <1>6, <1>7, Zenon DEF Stream, t, h

\* A send by machine m appends packet p to its log.
SentBy(m, p, log, log1, gone, gone1) ==
  /\ p.from = m /\ p.id = Len(log[m]) + 1
  /\ log1 = [log EXCEPT ![m] = Append(log[m], p)]
  /\ gone1 \in {gone, gone \cup {p}}

\* Packet p is new, and what the logs held they still hold.
NewIn(m, p, log, log1, gone) ==
  /\ p \notin gone /\ p.id \in DOMAIN log1[m] /\ log1[m][p.id] = p
  /\ \A k \in Machines : \A i \in DOMAIN log[k] :
       i \in DOMAIN log1[k] /\ log1[k][i] = log[k][i] /\ (k = m => i < p.id)

LEMMA LogGrows ==
  ASSUME NEW m \in Machines, NEW p, NEW log, NEW log1, NEW gone, NEW gone1,
         Logs(log, gone), SentBy(m, p, log, log1, gone, gone1)
  PROVE  Logs(log1, gone1) /\ NewIn(m, p, log, log1, gone)
<1>1. /\ IsSeq(Append(log[m], p)) /\ Len(log[m]) \in Nat
      /\ DOMAIN log[m] = 1 .. Len(log[m]) /\ DOMAIN Append(log[m], p) = 1 .. Len(log[m]) + 1
      /\ \A i \in 1 .. Len(log[m]) : Append(log[m], p)[i] = log[m][i]
      /\ Append(log[m], p)[Len(log[m]) + 1] = p
  BY AppendAny, Zenon DEF Logs
<1>2. \A k \in Machines : log1[k] = IF k = m THEN Append(log[m], p) ELSE log[k]
  BY Zenon DEF Logs, SentBy
<1>3. log1 = [k \in Machines |-> log1[k]]
  BY Zenon DEF Logs, SentBy
<1>4. p.id \in DOMAIN log1[m] /\ log1[m][p.id] = p
  <2>1. log1[m] = Append(log[m], p) /\ p.id = Len(log[m]) + 1
    BY <1>2, Zenon DEF SentBy
  <2>2. Len(log[m]) + 1 \in 1 .. Len(log[m]) + 1
    BY <1>1
  <2> QED
    BY <1>1, <2>1, <2>2, Zenon
<1>5. \A k \in Machines : \A i \in DOMAIN log[k] :
        i \in DOMAIN log1[k] /\ log1[k][i] = log[k][i] /\ (k = m => i < p.id)
  BY <1>1, <1>2 DEF SentBy
<1>6. p \notin gone
  <2> SUFFICES ASSUME p \in gone PROVE FALSE
    BY Zenon
  <2>1. p.from \in Machines /\ p.id \in DOMAIN log[m]
    BY Zenon DEF Logs, SentBy
  <2> QED
    BY <1>1, <2>1 DEF SentBy
<1>7. \A q \in gone1 : q.from \in Machines /\ q.id \in DOMAIN log1[q.from]
  BY <1>4, <1>5 DEF Logs, SentBy
<1>8. \A k \in Machines : IsSeq(log1[k])
  BY <1>1, <1>2, Zenon DEF Logs
<1> QED
  BY <1>3, <1>4, <1>5, <1>6, <1>7, <1>8, Zenon DEF Logs, NewIn

\* What was sent before stays sent, and comes before the new packet.
LEMMA SentKept ==
  ASSUME NEW m \in Machines, NEW p, NEW log, NEW log1, NEW gone, NEW gone1,
         Logs(log, gone), SentBy(m, p, log, log1, gone, gone1), NEW n,
         NEW q, Sent(q, n, log, gone)
  PROVE  Sent(q, n, log1, gone1) /\ Before(q, p)
<1>1. /\ q.from \in Machines /\ q.id \in DOMAIN log[q.from] /\ log[q.from][q.id] = q
      /\ q.to = n /\ q \notin gone
  BY Zenon DEF Sent
<1>2. /\ q.id \in DOMAIN log1[q.from] /\ log1[q.from][q.id] = q
      /\ q.from = m => q.id < p.id
  <2>1. NewIn(m, p, log, log1, gone)
    BY LogGrows, Zenon
  <2> QED
    BY <1>1, <2>1, Zenon DEF NewIn
<1>3. q # p
  <2> SUFFICES ASSUME q = p PROVE FALSE
    BY Zenon
  <2>1. p.id \in DOMAIN log[m] /\ IsSeq(log[m]) /\ p.id = Len(log[m]) + 1
    BY <1>1, Zenon DEF SentBy, Logs
  <2>2. Len(log[m]) \in Nat /\ DOMAIN log[m] = 1 .. Len(log[m])
    BY <2>1, AppendAny, Zenon
  <2> QED
    BY <2>1, <2>2
<1>4. q \notin gone1
  BY <1>1, <1>3, Zenon DEF SentBy
<1> QED
  BY <1>1, <1>2, <1>4, Zenon DEF Sent, Before, SentBy

LEMMA StreamKept ==
  ASSUME NEW m \in Machines, NEW p, NEW log, NEW log1, NEW gone, NEW gone1,
         Logs(log, gone), SentBy(m, p, log, log1, gone, gone1),
         NEW d, NEW h, NEW s, NEW n, Stream(d, h, s, n, log, gone)
  PROVE  Stream(d, h, s, n, log1, gone1)
<1>1. \A q : Sent(q, n, log, gone) => Sent(q, n, log1, gone1)
  BY SentKept, Zenon
<1> QED
  BY <1>1, Zenon DEF Stream

\* The new packet reaches the end of the socket of the machine it is sent to.
LEMMA StreamSent ==
  ASSUME NEW m \in Machines, NEW p, NEW log, NEW log1, NEW gone,
         Logs(log, gone), SentBy(m, p, log, log1, gone, gone),
         NEW d, NEW h, NEW s, NEW n, Stream(d, h, s, n, log, gone), p.to = n
  PROVE  Stream(d, h, Append(s, p), n, log1, gone)
<1> DEFINE t == Append(s, p)
<1>1. /\ IsSeq(t) /\ Len(s) \in Nat /\ DOMAIN s = 1 .. Len(s) /\ DOMAIN t = 1 .. Len(s) + 1
      /\ \A i \in 1 .. Len(s) : t[i] = s[i]
      /\ t[Len(s) + 1] = p
  BY AppendAny DEF Stream
<1> HIDE DEF t
<1>2. \A i \in DOMAIN t : (i \in DOMAIN s /\ t[i] = s[i]) \/ (i = Len(s) + 1 /\ t[i] = p)
  BY <1>1
<1>3. Stream(d, h, s, n, log1, gone)
  BY StreamKept, Zenon
<1>4. Sent(p, n, log1, gone)
  <2>1. NewIn(m, p, log, log1, gone)
    BY LogGrows, Zenon
  <2> QED
    BY <2>1, Zenon DEF NewIn, Sent, SentBy
<1>5. \A q : Sent(q, n, log, gone) => Before(q, p)
  BY SentKept, Zenon
<1>6. /\ \A i \in DOMAIN d : Before(d[i], p)
      /\ \A i \in DOMAIN s : Before(s[i], p)
      /\ h # NoPacket => Before(h, p)
  BY <1>5, Zenon DEF Stream
<1>7. \A i \in DOMAIN t : Sent(t[i], n, log1, gone)
  BY <1>2, <1>3, <1>4, Zenon DEF Stream
<1>8. /\ \A i \in DOMAIN d, j \in DOMAIN t : Before(d[i], t[j])
      /\ h # NoPacket => \A j \in DOMAIN t : Before(h, t[j])
  BY <1>2, <1>3, <1>6, Zenon DEF Stream
<1>9. Ordered(t)
  <2> SUFFICES ASSUME NEW i \in DOMAIN t, NEW j \in DOMAIN t, i < j PROVE Before(t[i], t[j])
    BY Zenon DEF Ordered
  <2>1. i \in DOMAIN s /\ t[i] = s[i]
    BY <1>1
  <2> QED
    BY <1>2, <1>6, <2>1, Zenon DEF Stream, Ordered
<1> QED
  BY <1>1, <1>3, <1>7, <1>8, <1>9, Zenon DEF Stream, t

\* A step of machine n that changes its device's buffer, its socket or what it
\* has delivered, and no log.
LEMMA OneStreamMoves ==
  ASSUME OrderInv, NEW n \in Machines, NEW d, NEW h, NEW s,
         delivered' = [delivered EXCEPT ![n] = d], inHdr' = [inHdr EXCEPT ![n] = h],
         sock' = [sock EXCEPT ![n] = s], UNCHANGED <<sentLog, lost>>,
         Stream(d, h, s, n, sentLog, lost),
         boxes' = [k \in Machines |-> boxes'[k]], \A k \in Machines : Boxed(k)'
  PROVE  OrderInv'
<1>1. /\ sock = [k \in Machines |-> sock[k]] /\ inHdr = [k \in Machines |-> inHdr[k]]
      /\ delivered = [k \in Machines |-> delivered[k]]
      /\ \A k \in Machines : Stream(delivered[k], inHdr[k], sock[k], k, sentLog, lost)
      /\ Logs(sentLog, lost)
  BY Zenon DEF OrderInv
<1>2. \A k \in Machines : /\ sock'[k] = IF k = n THEN s ELSE sock[k]
                          /\ inHdr'[k] = IF k = n THEN h ELSE inHdr[k]
                          /\ delivered'[k] = IF k = n THEN d ELSE delivered[k]
  BY <1>1, Zenon
<1>3. /\ sock' = [k \in Machines |-> sock'[k]] /\ inHdr' = [k \in Machines |-> inHdr'[k]]
      /\ delivered' = [k \in Machines |-> delivered'[k]]
  BY <1>1, Zenon
<1>4. \A k \in Machines : Stream(delivered'[k], inHdr'[k], sock'[k], k, sentLog, lost)
  BY <1>1, <1>2, Zenon
<1> QED
  BY <1>1, <1>3, <1>4, Zenon DEF OrderInv

LEMMA OrderInit == Init => OrderInv
<1> SUFFICES ASSUME Init PROVE OrderInv
  BY Zenon
<1>1. IsSeq(<<>>) /\ DOMAIN <<>> = {}
  BY DEF IsSeq
<1>2. /\ sock = [n \in Machines |-> <<>>] /\ inHdr = [n \in Machines |-> NoPacket]
      /\ sentLog = [n \in Machines |-> <<>>] /\ lost = {}
      /\ delivered = [n \in Machines |-> <<>>]
      /\ boxes = [n \in Machines |-> [b \in Boxes |-> <<>>]]
  BY Zenon DEF Init, NetworkInit
<1>3. Logs(sentLog, lost)
  BY <1>1, <1>2, Zenon DEF Logs
<1>4. \A n \in Machines : Stream(delivered[n], inHdr[n], sock[n], n, sentLog, lost)
  BY <1>1, <1>2, Zenon DEF Stream, Ordered
<1>5. \A n \in Machines : Boxed(n)
  BY <1>1, <1>2, Zenon DEF Boxed
<1> QED
  BY <1>2, <1>3, <1>4, <1>5, Zenon DEF OrderInv

LEMMA OrderUntouched ==
  ASSUME OrderInv, UNCHANGED <<sock, inHdr, sentLog, lost, boxes, delivered>>
  PROVE  OrderInv'
BY DEF OrderInv, Boxed

LEMMA OrderNext == OrderInv /\ HandOver /\ [Next]_vars => OrderInv'
<1> SUFFICES ASSUME OrderInv, HandOver, [Next]_vars  PROVE OrderInv'
  BY Zenon
<1>h. HandOver
  OBVIOUS
<1>0. /\ sock = [k \in Machines |-> sock[k]] /\ inHdr = [k \in Machines |-> inHdr[k]]
      /\ delivered = [k \in Machines |-> delivered[k]]
      /\ boxes = [k \in Machines |-> boxes[k]]
      /\ \A k \in Machines : Boxed(k) /\ Stream(delivered[k], inHdr[k], sock[k], k, sentLog, lost)
      /\ Logs(sentLog, lost)
  BY Zenon DEF OrderInv
<1>1. CASE UNCHANGED vars
  BY <1>1, OrderUntouched, Zenon DEF vars, networkVars, officeVars
<1>2. ASSUME NEW n \in Machines,
             Start(n) \/ WorkerSleeps(n) \/ WorkerWakes(n) \/ PacketSent(n)
      PROVE  OrderInv'
  BY <1>2, OrderUntouched, Zenon
     DEF Start, WorkerSleeps, WorkerWakes, PacketSent, SendDone, networkVars, officeVars
<1>3. ASSUME NEW n \in Machines, NEW t \in Threads,
             AcquireSend(n, t) \/ AwaitSent(n, t) \/ ReleaseSend(n, t) \/ Halt(n, t) \/ Sleeps(n, t)
      PROVE  OrderInv'
  BY <1>3, OrderUntouched, Zenon
     DEF AcquireSend, AwaitSent, ReleaseSend, Halt, Sleeps, networkVars
<1>4. ASSUME NEW n \in Machines, IncomingPacket(n)  PROVE OrderInv'
  <2> DEFINE h == Head(sock[n])
             s == Tail(sock[n])
  <2>1. /\ inHdr[n] = NoPacket /\ sock[n] # <<>>
        /\ inHdr' = [inHdr EXCEPT ![n] = h] /\ sock' = [sock EXCEPT ![n] = s]
        /\ UNCHANGED <<sentLog, lost, boxes, delivered>>
    BY <1>4, Zenon DEF IncomingPacket, CheckPktAvail
  <2>2. Stream(delivered[n], h, s, n, sentLog, lost)
    BY <1>0, <2>1, StreamPolled, Zenon
  <2> HIDE DEF h, s
  <2>3. delivered' = [delivered EXCEPT ![n] = delivered[n]]
    BY <1>0, <2>1, Zenon
  <2>4. boxes' = [k \in Machines |-> boxes'[k]] /\ \A k \in Machines : Boxed(k)'
    BY <1>0, <2>1 DEF Boxed
  <2> QED  BY <2>1, <2>2, <2>3, <2>4, OneStreamMoves, Zenon
<1>5. ASSUME NEW n \in Machines, PostalDelivery(n)  PROVE OrderInv'
  <2>1. inHdr' = [inHdr EXCEPT ![n] = NoPacket] /\ UNCHANGED <<sock, sentLog, lost>>
    BY <1>5, Zenon DEF PostalDelivery, Receive
  <2>2. sock' = [sock EXCEPT ![n] = sock[n]]
    BY <1>0, <2>1, Zenon
  <2> DEFINE p == inHdr[n]
             ok == p # NoPacket /\ p.to = n /\ p.box \in Boxes
  <2>0. Buffered(n) = p
    BY <1>5, <1>h, Zenon DEF PostalDelivery, HandOver, HandedOver, Buffered
  <2>3. CASE ok
    <3>1. /\ boxes' = [boxes EXCEPT ![n][p.box] = Append(@, p)]
          /\ delivered' = [delivered EXCEPT ![n] = Append(delivered[n], p)]
      BY <1>5, <2>0, <2>3, Zenon DEF PostalDelivery
    <3>2. Stream(Append(delivered[n], p), NoPacket, sock[n], n, sentLog, lost)
      BY <1>0, <2>3, StreamDelivered, Zenon
    <3>3. boxes' = [k \in Machines |-> boxes'[k]] /\ \A k \in Machines : Boxed(k)'
      <4> HIDE DEF p
      <4> DEFINE new == Append(boxes[n][p.box], p)
                 row == [boxes[n] EXCEPT ![p.box] = new]
      <4>1. boxes' = [boxes EXCEPT ![n] = row]
        BY <3>1, Zenon
      <4>2. /\ IsSeq(new) /\ Len(boxes[n][p.box]) \in Nat
            /\ DOMAIN boxes[n][p.box] = 1 .. Len(boxes[n][p.box])
            /\ DOMAIN new = 1 .. Len(boxes[n][p.box]) + 1
            /\ \A i \in 1 .. Len(boxes[n][p.box]) : new[i] = boxes[n][p.box][i]
            /\ new[Len(boxes[n][p.box]) + 1] = p
        BY <1>0, <2>3, AppendAny DEF Boxed
      <4>3. \A i \in DOMAIN new : new[i].box = p.box
        BY <1>0, <2>3, <4>2 DEF Boxed
      <4> HIDE DEF new
      <4>4. \A b \in Boxes : row[b] = IF b = p.box THEN new ELSE boxes[n][b]
        BY <1>0, Zenon DEF Boxed
      <4>5. row = [b \in Boxes |-> row[b]]
        BY <1>0, Zenon DEF Boxed
      <4> HIDE DEF row
      <4>6. /\ \A k \in Machines : boxes'[k] = IF k = n THEN row ELSE boxes[k]
            /\ boxes' = [k \in Machines |-> boxes'[k]]
        BY <1>0, <4>1, Zenon
      <4>7. Boxed(n)'
        <5>1. boxes'[n] = row
          BY <4>6, Zenon
        <5>2. ASSUME NEW b \in Boxes
              PROVE  IsSeq(row[b]) /\ \A i \in DOMAIN row[b] : row[b][i].box = b
          <6>1. CASE b = p.box
            BY <4>2, <4>3, <4>4, <6>1, Zenon
          <6>2. CASE b # p.box
            BY <1>0, <4>4, <6>2 DEF Boxed
          <6> QED  BY <6>1, <6>2, Zenon
        <5> QED  BY <4>5, <5>1, <5>2, Zenon DEF Boxed
      <4>8. ASSUME NEW k \in Machines, k # n  PROVE Boxed(k)'
        BY <1>0, <4>6, <4>8 DEF Boxed
      <4> QED  BY <4>6, <4>7, <4>8, Zenon
    <3> QED
      BY <2>1, <2>2, <3>1, <3>2, <3>3, OneStreamMoves, Zenon
  <2>4. CASE ~ok
    <3>1. UNCHANGED <<boxes, delivered>>
      BY <1>5, <2>0, <2>4, Zenon DEF PostalDelivery
    <3>2. Stream(delivered[n], NoPacket, sock[n], n, sentLog, lost)
      BY <1>0, Zenon DEF Stream
    <3>3. delivered' = [delivered EXCEPT ![n] = delivered[n]]
      BY <1>0, <3>1, Zenon
    <3>4. boxes' = [k \in Machines |-> boxes'[k]] /\ \A k \in Machines : Boxed(k)'
      BY <1>0, <3>1 DEF Boxed
    <3> QED
      BY <2>1, <2>2, <3>2, <3>3, <3>4, OneStreamMoves, Zenon
  <2> QED  BY <2>3, <2>4, Zenon
<1>6. ASSUME NEW n \in Machines, NEW t \in Threads, ReceiveMail(n, t)  PROVE OrderInv'
  <2>0. CASE Head(calls[n][t]).box \notin Boxes
    BY <1>6, <2>0, OrderUntouched, Zenon DEF ReceiveMail
  <2> SUFFICES ASSUME Head(calls[n][t]).box \in Boxes  PROVE OrderInv'
    BY <2>0, Zenon
  <2> DEFINE box == Head(calls[n][t]).box
             row == [boxes[n] EXCEPT ![box] = Tail(boxes[n][box])]
  <2>1. /\ boxes[n][box] # <<>> /\ boxes' = [boxes EXCEPT ![n][box] = Tail(@)]
        /\ UNCHANGED <<sock, inHdr, sentLog, lost, delivered>>
    BY <1>6, Zenon DEF ReceiveMail
  <2> HIDE DEF box
  <2>2. boxes' = [boxes EXCEPT ![n] = row]
    BY <2>1, Zenon
  <2>3. \A b \in Boxes : row[b] = IF b = box THEN Tail(boxes[n][box]) ELSE boxes[n][b]
    BY <1>0, Zenon DEF Boxed
  <2>4. row = [b \in Boxes |-> row[b]]
    BY <1>0, Zenon DEF Boxed
  <2>5. box \in Boxes => /\ IsSeq(Tail(boxes[n][box]))
                         /\ \A i \in DOMAIN Tail(boxes[n][box]) : Tail(boxes[n][box])[i].box = box
    <3> SUFFICES ASSUME box \in Boxes
                 PROVE  /\ IsSeq(Tail(boxes[n][box]))
                        /\ \A i \in DOMAIN Tail(boxes[n][box]) : Tail(boxes[n][box])[i].box = box
      BY Zenon
    <3> DEFINE old == boxes[n][box]
    <3>1. IsSeq(old) /\ \A i \in DOMAIN old : old[i].box = box
      BY <1>0, Zenon DEF Boxed
    <3> HIDE DEF old
    <3>2. /\ IsSeq(Tail(old)) /\ Len(old) \in Nat \ {0} /\ DOMAIN old = 1 .. Len(old)
          /\ DOMAIN Tail(old) = 1 .. Len(old) - 1
          /\ \A i \in 1 .. Len(old) - 1 : Tail(old)[i] = old[i + 1]
      BY <2>1, <3>1, TailAny, Zenon DEF old
    <3>3. \A i \in DOMAIN Tail(old) : Tail(old)[i].box = box
      BY <3>1, <3>2
    <3> QED  BY <3>2, <3>3, Zenon DEF old
  <2> HIDE DEF row
  <2>6. /\ \A k \in Machines : boxes'[k] = IF k = n THEN row ELSE boxes[k]
        /\ boxes' = [k \in Machines |-> boxes'[k]]
    BY <1>0, <2>2, Zenon
  <2>7. \A b \in Boxes : IsSeq(row[b]) /\ \A i \in DOMAIN row[b] : row[b][i].box = b
    <3> TAKE b \in Boxes
    <3>1. CASE b = box
      BY <2>3, <2>5, <3>1, Zenon
    <3>2. CASE b # box
      BY <1>0, <2>3, <3>2 DEF Boxed
    <3> QED  BY <3>1, <3>2, Zenon
  <2>8. ASSUME NEW k \in Machines PROVE Boxed(k)'
    BY <1>0, <2>4, <2>6, <2>7 DEF Boxed
  <2> QED  BY <1>0, <2>1, <2>6, <2>8, Zenon DEF OrderInv
<1>7. ASSUME NEW n \in Machines, NEW t \in Threads, Transmit(n, t)  PROVE OrderInv'
  <2> DEFINE p == PacketOf(n, t)
  <2>1. p.from = n /\ p.id = Len(sentLog[n]) + 1
    BY Zenon DEF PacketOf
  <2> HIDE DEF p
  <2>2. PICK drop \in {FALSE, Lossy} : Send(n, p, drop)
    BY <1>7, Zenon DEF Transmit, p
  <2>3. UNCHANGED <<inHdr, boxes, delivered>>
    BY <1>7, Zenon DEF Transmit
  <2>4. SentBy(n, p, sentLog, sentLog', lost, lost')
    BY <2>1, <2>2, Zenon DEF Send, SentBy
  <2>5. Logs(sentLog', lost')
    BY <1>0, <2>4, LogGrows, Zenon
  <2>6. \/ sock' = sock
        \/ lost' = lost /\ sock' = [sock EXCEPT ![p.to] = Append(@, p)]
    BY <2>2, Zenon DEF Send
  <2>7. /\ sock' = [k \in Machines |-> sock'[k]]
        /\ \A k \in Machines : \/ sock'[k] = sock[k]
                               \/ lost' = lost /\ p.to = k /\ sock'[k] = Append(sock[k], p)
    BY <1>0, <2>6, Zenon
  <2>8. ASSUME NEW k \in Machines
        PROVE  Stream(delivered[k], inHdr[k], sock'[k], k, sentLog', lost')
    <3>1. CASE sock'[k] = sock[k]
      BY <1>0, <2>4, <3>1, StreamKept, Zenon
    <3>2. CASE lost' = lost /\ p.to = k /\ sock'[k] = Append(sock[k], p)
      <4>1. SentBy(n, p, sentLog, sentLog', lost, lost)
        BY <2>4, <3>2, Zenon
      <4>2. Stream(delivered[k], inHdr[k], Append(sock[k], p), k, sentLog', lost)
        BY <1>0, <3>2, <4>1, StreamSent, Zenon
      <4> QED  BY <3>2, <4>2, Zenon
    <3> QED  BY <2>7, <3>1, <3>2, Zenon
  <2>9. \A k \in Machines : Boxed(k)'
    BY <1>0, <2>3 DEF Boxed
  <2> QED  BY <1>0, <2>3, <2>5, <2>7, <2>8, <2>9, Zenon DEF OrderInv
<1> QED
  BY <1>1, <1>2, <1>3, <1>4, <1>5, <1>6, <1>7, Zenon DEF Next, Worker, Thread

LEMMA HandOverInit == Init => HandOver
BY DEF Init, NetworkInit, HandOver, HandedOver

LEMMA HandOverUntouched ==
  ASSUME HandOver, UNCHANGED <<inHdr, messageAvailable, worker>>
  PROVE  HandOver'
BY Zenon DEF HandOver

\* A step of machine n that moves the device's buffer, the semaphore or the worker.
LEMMA HandOverMoves ==
  ASSUME HandOver, NEW n \in Machines, NEW h, NEW a \in Nat, NEW w,
         inHdr = [k \in Machines |-> inHdr[k]], inHdr' = [inHdr EXCEPT ![n] = h],
         messageAvailable' = [messageAvailable EXCEPT ![n] = a],
         worker' = [worker EXCEPT ![n] = w], HandedOver(h, a, w)
  PROVE  HandOver'
<1>1. \A k \in Machines : /\ inHdr'[k] = IF k = n THEN h ELSE inHdr[k]
                          /\ messageAvailable'[k] = IF k = n THEN a ELSE messageAvailable[k]
                          /\ worker'[k] = IF k = n THEN w ELSE worker[k]
  BY Zenon DEF HandOver
<1>2. /\ messageAvailable' \in [Machines -> Nat]
      /\ worker' = [k \in Machines |-> worker'[k]]
  BY Zenon DEF HandOver
<1>3. \A k \in Machines : HandedOver(inHdr'[k], messageAvailable'[k], worker'[k])
  BY <1>1, Zenon DEF HandOver
<1> QED  BY <1>2, <1>3, Zenon DEF HandOver

LEMMA HandOverNext == OrderInv /\ HandOver /\ [Next]_vars => HandOver'
<1> SUFFICES ASSUME OrderInv, HandOver, [Next]_vars  PROVE HandOver'
  BY Zenon
<1>0. /\ inHdr = [k \in Machines |-> inHdr[k]] /\ worker = [k \in Machines |-> worker[k]]
      /\ messageAvailable \in [Machines -> Nat]
      /\ \A k \in Machines : HandedOver(inHdr[k], messageAvailable[k], worker[k])
  BY Zenon DEF OrderInv, HandOver
<1>1. CASE UNCHANGED vars
  BY <1>1, HandOverUntouched, Zenon DEF vars, networkVars, officeVars
<1>2. ASSUME NEW n \in Machines, Start(n) \/ WorkerSleeps(n) \/ PacketSent(n)  PROVE HandOver'
  BY <1>2, HandOverUntouched, Zenon
     DEF Start, WorkerSleeps, PacketSent, SendDone, networkVars, officeVars
<1>3. ASSUME NEW n \in Machines, NEW t \in Threads, Thread(n, t)  PROVE HandOver'
  BY <1>3, HandOverUntouched, Zenon
     DEF Thread, AcquireSend, Transmit, AwaitSent, ReleaseSend, ReceiveMail, Halt, Sleeps,
         networkVars
<1>4. ASSUME NEW n \in Machines, IncomingPacket(n)  PROVE HandOver'
  <2> DEFINE h == Head(sock[n])
  <2>1. /\ inHdr[n] = NoPacket /\ sock[n] # <<>> /\ inHdr' = [inHdr EXCEPT ![n] = h]
        /\ messageAvailable' = [messageAvailable EXCEPT ![n] = messageAvailable[n] + 1]
        /\ worker' = worker
    BY <1>4, Zenon DEF IncomingPacket, CheckPktAvail
  <2>2. worker' = [worker EXCEPT ![n] = worker[n]]
    BY <1>0, <2>1, Zenon
  <2>3. h # NoPacket
    <3>1. IsSeq(sock[n]) /\ \A j \in DOMAIN sock[n] : Sent(sock[n][j], n, sentLog, lost)
      BY Zenon DEF OrderInv, Stream
    <3>2. h = sock[n][1] /\ 1 \in DOMAIN sock[n]
      BY <2>1, <3>1, TailAny
    <3>3. Sent(h, n, sentLog, lost)
      BY <3>1, <3>2, Zenon
    <3> QED  BY <3>3, SentIsPacket, Zenon DEF OrderInv
  <2> HIDE DEF h
  <2>4. messageAvailable[n] = 0 /\ worker[n] = "waiting"
    BY <1>0, <2>1, Zenon DEF HandedOver
  <2>5. messageAvailable[n] + 1 = 1 /\ 1 \in Nat
    BY <2>4
  <2>6. HandedOver(h, 1, worker[n])
    BY <2>3, <2>4, Zenon DEF HandedOver
  <2> QED  BY <1>0, <2>1, <2>2, <2>5, <2>6, HandOverMoves, Zenon
<1>5. ASSUME NEW n \in Machines, WorkerWakes(n)  PROVE HandOver'
  <2>1. /\ messageAvailable[n] > 0 /\ worker' = [worker EXCEPT ![n] = "delivering"]
        /\ messageAvailable' = [messageAvailable EXCEPT ![n] = messageAvailable[n] - 1]
        /\ inHdr' = inHdr
    BY <1>5, Zenon DEF WorkerWakes
  <2>2. inHdr' = [inHdr EXCEPT ![n] = inHdr[n]]
    BY <1>0, <2>1, Zenon
  <2>3. inHdr[n] # NoPacket /\ messageAvailable[n] - 1 = 0 /\ 0 \in Nat
    BY <1>0, <2>1 DEF HandedOver
  <2>4. HandedOver(inHdr[n], 0, "delivering")
    BY <2>3, Zenon DEF HandedOver
  <2> QED  BY <1>0, <2>1, <2>2, <2>3, <2>4, HandOverMoves, Zenon
<1>6. ASSUME NEW n \in Machines, PostalDelivery(n)  PROVE HandOver'
  <2>1. /\ worker[n] = "delivering" /\ worker' = [worker EXCEPT ![n] = "waiting"]
        /\ inHdr' = [inHdr EXCEPT ![n] = NoPacket] /\ messageAvailable' = messageAvailable
    BY <1>6, Zenon DEF PostalDelivery, Receive
  <2>2. messageAvailable' = [messageAvailable EXCEPT ![n] = messageAvailable[n]]
    BY <1>0, <2>1, Zenon
  <2>3. messageAvailable[n] = 0 /\ messageAvailable[n] \in Nat
    BY <1>0, <2>1 DEF HandedOver
  <2>4. HandedOver(NoPacket, messageAvailable[n], "waiting")
    BY <2>3, Zenon DEF HandedOver
  <2> QED  BY <1>0, <2>1, <2>2, <2>3, <2>4, HandOverMoves, Zenon
<1> QED
  BY <1>1, <1>2, <1>3, <1>4, <1>5, <1>6, Zenon DEF Next, Worker

\* The network keeps its promise ("in order but unreliably", network.h) up to
\* the mailboxes, for any machines, threads, mailboxes and lists of calls: the
\* postal worker delivers what was sent to its machine, in the order of the
\* sends and never twice, and never a packet that was dropped.
THEOREM DeliveredInOrder == Spec => []InOrderUnreliable
<1>1. Spec => Init /\ [][Next]_vars
  BY Zenon DEF Spec
<1>2. OrderInv => InOrderUnreliable
  <2> SUFFICES ASSUME OrderInv, NEW n \in Machines
               PROVE  /\ \A i \in DOMAIN delivered[n] :
                           LET p == delivered[n][i]
                           IN  /\ p.to = n /\ p \notin lost /\ p.id \in DOMAIN sentLog[p.from]
                               /\ sentLog[p.from][p.id] = p
                      /\ \A from \in Machines : Increasing(delivered[n], from)
                      /\ \A b \in Boxes : \A i \in DOMAIN boxes[n][b] : boxes[n][b][i].box = b
    BY Zenon DEF InOrderUnreliable
  <2>1. /\ \A i \in DOMAIN delivered[n] : Sent(delivered[n][i], n, sentLog, lost)
        /\ Ordered(delivered[n]) /\ Boxed(n)
    BY Zenon DEF OrderInv, Stream
  <2>2. \A from \in Machines : Increasing(delivered[n], from)
    BY <2>1, Zenon DEF Increasing, Ordered, Before
  <2> QED  BY <2>1, <2>2, Zenon DEF Sent, Boxed
<1> QED  BY <1>1, <1>2, OrderInit, OrderNext, HandOverInit, HandOverNext, PTL
=============================================================================
