------------------------------ MODULE Devices -------------------------------
(***************************************************************************)
(* The interrupt hardware with the devices and clients of one of Nachos'   *)
(* device tests: the console echo (-c), threads that share a SynchConsole, *)
(* the elevator self test, an elevator bank with a controller of its own,  *)
(* or a client of the disk; each with and without the timer (-rs).         *)
(***************************************************************************)
EXTENDS Console, Elevator, Disk

CONSTANTS ConsoleCalls   \* for each console test, the calls its threads may make

VARIABLE test

vars == <<test, interruptVars, consoleVars, elevatorVars, diskVars>>

ConsoleTests == {"ConsoleTest", "SynchConsole"}
ElevatorTests == {"ElevatorSelfTest", "bank"}
NoCalls == [t \in ConsoleThreads |-> <<>>]

\* Initialize with or without -rs, then the constructor of the console.
Init ==
  /\ test \in ConsoleTests \union ElevatorTests \union {"Disk"}
  /\ mode = "thread"
  /\ \E timer \in {<<>>} \union {Schedule(<<>>, "TimerInt", d) : d \in TimeOfNextInterrupt(TRUE)} :
       pending = IF test \in ConsoleTests THEN Schedule(timer, "ConsoleReadInt", ConsoleTime)
                 ELSE timer
  /\ \E calls \in IF test \in ConsoleTests THEN ConsoleCalls[test] ELSE {NoCalls} :
       ConsoleInit(calls)
  /\ ElevatorInit(IF test = "bank" THEN "free" ELSE "rider")
  /\ DiskInit(IF test = "Disk" THEN MaxSteps ELSE 0)

ConsoleStep ==
  \/ Type \/ CheckCharAvail \/ WriteDone
  \/ \E t \in ConsoleThreads : ConsoleThread(t)
  \/ ~ConsoleCanRun /\ Idle /\ UNCHANGED consoleVars
  \/ (NothingDue \/ TimerExpired) /\ UNCHANGED consoleVars

ElevatorStep ==
  \/ HandleInterrupt \/ SelfTest \/ FreeController \/ ElevatorIdle
  \/ (NothingDue \/ TimerExpired) /\ UNCHANGED elevatorVars

Next ==
  /\ UNCHANGED test
  /\ \/ test \in ConsoleTests /\ ConsoleStep /\ UNCHANGED <<elevatorVars, diskVars>>
     \/ test \in ElevatorTests /\ ElevatorStep /\ UNCHANGED <<consoleVars, diskVars>>
     \/ test = "Disk" /\ DiskStep /\ UNCHANGED <<consoleVars, elevatorVars>>

\* The machine never rests while something can happen, and a terminal that is
\* typed at is not assumed: only the steps of Nachos itself are fair.  The random
\* timer does not switch threads at every tick for ever, so each of the two
\* testers goes on in the end.
Fairness ==
  /\ WF_vars(Next /\ UNCHANGED typed)
  /\ SF_vars(test = "ElevatorSelfTest" /\ Rider /\ UNCHANGED <<test, consoleVars, diskVars>>)
  /\ SF_vars(test = "ElevatorSelfTest" /\ Controller /\ UNCHANGED <<test, consoleVars, diskVars>>)

Spec == Init /\ [][Next]_vars /\ Fairness

\* -------------------------------- properties -------------------------------

\* Pending interrupts are of the kinds the devices schedule, soonest first.
TypeOK ==
  /\ \A i \in DOMAIN pending : pending[i].type \in IntTypes
  /\ IsSorted(pending, [x \in Items(pending) |-> x.in])
  /\ mode \in {"thread", "segment", "tick", "idle", "halted", "aborted"}

\* None of the device assertions fails: PutChar never finds a write in
\* progress, the rider and the controller meet the events they expect, and no
\* interrupt arrives for the bank after ElevatorSelfTest has deleted it.
NoAssertionFailure == mode # "aborted"

\* "If the console or the network is operating, there are *always* pending
\* interrupts" (Interrupt::Idle): one poll is always scheduled, so in a console
\* test the machine halts only when main asks for it, after the 'q' is shown;
\* and it halts with every elevator and the disk at rest.
HaltsAtRest ==
  /\ test \in ConsoleTests =>
       /\ Cardinality(Pending("ConsoleReadInt")) = 1
       /\ mode = "halted" => test = "ConsoleTest" /\ ~putBusy /\ display[Len(display)] = "q"
  /\ mode = "halted" => ~active /\ \A e \in Elevators : ~lift[e].inMotion

\* The machine stops in no other way than by halting with nothing under way.
StopsProperly == TypeOK /\ NoAssertionFailure /\ HaltsAtRest

\* ConsoleTest echoes every character typed before the first 'q', and every
\* elevator test comes to an end: the self test with the rider on the other
\* floor and the bank deleted, but with the rider asleep for good when main
\* runs it (HandleInterrupt's V).  The disk's client gets all its answers.
TestsProgress ==
  /\ \A n \in 1 .. MaxTyped :
       (test = "ConsoleTest" /\ Len(typed) >= n /\ "q" \notin Range(SubSeq(typed, 1, n - 1))
          /\ EOF \notin Range(typed))
         ~> (Len(display) >= n \/ EOF \in Range(typed))
  /\ (test = "bank") ~> (mode = "halted" \/ commands < MaxCommands)
  /\ (test = "ElevatorSelfTest") ~> (mode = "halted" /\ IF riderIsMain THEN Mislaid ELSE deleted)
  /\ (test = "Disk") ~> (mode = "halted" /\ steps = 0)
=============================================================================
