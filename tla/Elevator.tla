------------------------------ MODULE Elevator ------------------------------
(***************************************************************************)
(* The elevator bank (machine/elevator.cc) with two kinds of clients: the  *)
(* rider and the controller of ElevatorSelfTest (machine/elevatortest.cc), *)
(* and a controller that makes any sequence of legal calls.  A thread that *)
(* is switched to turns interrupts on before it goes on, so an interrupt   *)
(* scheduled by the thread before it is handled first; "segment" is the    *)
(* mode of a thread that has called the device and not ticked since.  The  *)
(* rider is the caller of ElevatorSelfTest: a thread of the controller's   *)
(* priority, or main, which is more urgent (system.cc) and which the V of  *)
(* a handler switches to before value++ (synch.cc, scheduler.cc).          *)
(***************************************************************************)
EXTENDS Interrupt, FiniteSets

CONSTANTS
  Elevators,       \* 0 .. numElevators - 1
  numFloors,
  DelayPerFloor,
  MaxCommands      \* bound on the calls of the free controller

VARIABLES
  lift,                              \* ElevatorInfo, by elevator
  riderEvents, controllerEvents,     \* ListOfEvents
  riderWakeup, controllerWakeup,     \* semaphore values
  current, where,                    \* the running thread, and each one's place
  asleep, riderIsMain,               \* threads in the queue of their semaphore
  deleted,                           \* the inspector and its bank are deleted
  commands,                          \* calls the free controller has made
  faults                             \* the hazards that were met

elevatorVars == <<lift, riderEvents, controllerEvents, riderWakeup, controllerWakeup,
                  current, where, asleep, riderIsMain, deleted, commands, faults>>
testerVars == <<current, where, asleep, riderIsMain>>

Floors == 0 .. numFloors - 1
Testers == {"rider", "controller"}
AtRest == [display |-> "Neither", doorsOpen |-> FALSE, inMotion |-> FALSE,
          lastFloor |-> 0, goingTo |-> 0, willArrive |-> 0, riders |-> {}]

Later(l, ticks) ==
  [e \in Elevators |-> IF l[e].inMotion THEN [l[e] EXCEPT !.willArrive = @ - ticks] ELSE l[e]]

Event(event, floor, elevator) == [event |-> event, floor |-> floor, elevator |-> elevator]

\* PostEvent outside a handler asks for an interrupt to pick the event up.
Post(p) == Schedule(p, "ElevatorInt", 1)

\* ------------------------- the interrupt handler --------------------------

ReachedNextFloor(l) == l.inMotion /\ l.willArrive <= 0
NextFloorReversed(l) == l.lastFloor + (IF l.goingTo > l.lastFloor THEN -1 ELSE 1)
NextFloor(l) == l.lastFloor + (IF l.goingTo > l.lastFloor THEN 1 ELSE -1)

\* ReachedNextFloor and CheckArrived for every elevator; the first one that has
\* farther to go is the only one whose next arrival is scheduled.
Arrivals == {e \in Elevators : ReachedNextFloor(lift[e]) /\ NextFloor(lift[e]) = lift[e].goingTo}
GoingOn == {e \in Elevators : ReachedNextFloor(lift[e])} \ Arrivals
Scheduled(e) == e \in GoingOn /\ \A f \in GoingOn : e <= f

Moved(e) ==
  IF ~ReachedNextFloor(lift[e]) THEN lift[e]
  ELSE [lift[e] EXCEPT !.lastFloor = NextFloor(lift[e]),
                       !.inMotion = e \notin Arrivals,
                       !.willArrive = IF e \in Arrivals THEN 0
                                      ELSE IF Scheduled(e) THEN @ + DelayPerFloor ELSE @]

ArrivalEvents ==
  LET event(e) == IF e \in Arrivals THEN <<Event("ElevatorArrived", lift[e].goingTo, e)>> ELSE <<>>
      upTo[e \in Elevators \union {-1}] == IF e = -1 THEN <<>> ELSE upTo[e - 1] \o event(e)
  IN  upTo[Cardinality(Elevators) - 1]

\* V by the callback.  The rider, when it is main and another thread runs or
\* idles, tests the value before V increments it and is asleep again; a thread
\* that idles after its Finish is deleted by the switch and dispatched again.
Overtakes(t) == t = "rider" /\ riderIsMain /\ current # "rider"
Woken ==
  {t \in asleep : (IF t = "rider" THEN riderEvents ELSE controllerEvents \o ArrivalEvents) # <<>>}
SwitchedFromDead == \E t \in Woken : Overtakes(t) /\ where[current] = "done"

HandleInterruptNoSchedule ==
  /\ CheckIfDue("ElevatorInt")
  /\ mode' = IF deleted \/ SwitchedFromDead THEN "aborted" ELSE mode
  /\ lift' = [e \in Elevators |-> Moved(e)]
  /\ pending' = Rest
  /\ controllerEvents' = controllerEvents \o ArrivalEvents
  /\ riderWakeup' = riderWakeup + (IF riderEvents # <<>> THEN 1 ELSE 0)
  /\ controllerWakeup' = controllerWakeup + (IF controllerEvents' # <<>> THEN 1 ELSE 0)
  /\ asleep' = asleep \ {t \in Woken : ~Overtakes(t)}
  /\ faults' = faults
  /\ UNCHANGED <<riderEvents, current, where, riderIsMain, deleted, commands>>

\* ElevatorBank::HandleInterrupt, the V of both callbacks included.
HandleInterrupt ==
  /\ CheckIfDue("ElevatorInt")
  /\ mode' = IF deleted \/ SwitchedFromDead THEN "aborted" ELSE mode
  /\ lift' = [e \in Elevators |-> Moved(e)]
  /\ pending' = IF GoingOn = {} THEN Rest ELSE Schedule(Rest, "ElevatorInt", DelayPerFloor)
  /\ controllerEvents' = controllerEvents \o ArrivalEvents
  /\ riderWakeup' = riderWakeup + (IF riderEvents # <<>> THEN 1 ELSE 0)
  /\ controllerWakeup' = controllerWakeup + (IF controllerEvents' # <<>> THEN 1 ELSE 0)
  /\ faults' = faults \union (IF Cardinality(GoingOn) > 1 THEN {"unscheduled"} ELSE {})
  /\ asleep' = asleep \ {t \in Woken : ~Overtakes(t)}
  /\ UNCHANGED <<riderEvents, current, where, riderIsMain, deleted, commands>>

\* ----------------------------- ElevatorBank -------------------------------

Opened(l) == [l EXCEPT !.doorsOpen = TRUE]
Closed(l) == [l EXCEPT !.doorsOpen = FALSE]

\* MoveTo changes the destination of a moving elevator and starts one at rest.
Sent(l, floor) ==
  [l EXCEPT !.goingTo = floor, !.inMotion = TRUE,
            !.willArrive = IF l.inMotion THEN @ ELSE DelayPerFloor]

MoveSchedules(l, p) == IF l.inMotion THEN p ELSE Schedule(p, "ElevatorInt", DelayPerFloor)

\* The assertions of MoveTo, OpenDoors and CloseDoors.
MayMove(l, floor) == ~l.doorsOpen /\ (l.inMotion \/ l.lastFloor # floor)
MayOpen(l) == ~l.doorsOpen /\ ~l.inMotion

\* -------------------------- ElevatorSelfTest ------------------------------

Runs(t, label) == mode \in {"thread", "segment"} /\ current = t /\ where[t] = label
Goto(t, label) == where' = [where EXCEPT ![t] = label]

\* The calling thread goes on without a tick.
Continue(p) == pending' = p /\ mode' = "segment"

AssertFails == mode' = "aborted" /\ UNCHANGED <<pending, elevatorVars>>

RiderPresses ==
  /\ Runs("rider", "press")
  /\ controllerEvents' = Append(controllerEvents, Event("UpButtonPressed", 0, 0))
  /\ Goto("rider", "enter") /\ Continue(Post(pending))
  /\ UNCHANGED <<lift, riderEvents, riderWakeup, controllerWakeup, current, asleep, riderIsMain,
                 deleted, commands, faults>>

RiderEnters ==
  /\ Runs("rider", "enter") /\ riderEvents # <<>>
  /\ LET e == Head(riderEvents)  l == lift[e.elevator]
     IN  IF e.event = "DoorsOpened" /\ e.floor = 0 /\ l.display = "Up"
            /\ l.doorsOpen /\ l.lastFloor = e.floor /\ ~l.inMotion
         THEN /\ lift' = [lift EXCEPT ![e.elevator].riders = @ \union {"rider"}]
              /\ riderEvents' = Tail(riderEvents)
              /\ controllerEvents' = Append(controllerEvents, Event("FloorButtonPressed", 1, e.elevator))
              /\ Goto("rider", "exit") /\ Continue(Post(pending))
              /\ UNCHANGED <<riderWakeup, controllerWakeup, current, asleep, riderIsMain,
                             deleted, commands, faults>>
         ELSE AssertFails

\* The rider leaves and deletes the inspector.
RiderExits ==
  /\ Runs("rider", "exit") /\ riderEvents # <<>>
  /\ LET e == Head(riderEvents)  l == lift[e.elevator]
     IN  IF e.event = "DoorsOpened" /\ e.floor = 1 /\ l.doorsOpen /\ l.lastFloor = e.floor /\ ~l.inMotion
         THEN /\ lift' = [lift EXCEPT ![e.elevator].riders = @ \ {"rider"}]
              /\ riderEvents' = Tail(riderEvents)
              /\ deleted' = TRUE
              /\ Goto("rider", "done") /\ Continue(pending)
              /\ UNCHANGED <<controllerEvents, riderWakeup, controllerWakeup, current, asleep,
                             riderIsMain, commands, faults>>
         ELSE AssertFails

\* ControllerTest: the event expected at each place, and what it does then.
ControllerStep(label, event, floor, l, p, next) ==
  /\ Runs("controller", label) /\ controllerEvents # <<>>
  /\ IF Head(controllerEvents).event = event /\ Head(controllerEvents).floor = floor /\ ~deleted
     THEN /\ controllerEvents' = Tail(controllerEvents)
          /\ lift' = [lift EXCEPT ![0] = l]
          /\ riderEvents' = IF l.doorsOpen THEN Append(riderEvents, Event("DoorsOpened", l.lastFloor, 0))
                            ELSE riderEvents
          /\ Goto("controller", next) /\ Continue(p)
          /\ UNCHANGED <<riderWakeup, controllerWakeup, current, asleep, riderIsMain,
                         deleted, commands, faults>>
     ELSE AssertFails

ControllerOpens ==
  ControllerStep("open", "UpButtonPressed", 0, Opened([lift[0] EXCEPT !.display = "Up"]),
                 Post(pending), "move")
ControllerMoves ==
  ControllerStep("move", "FloorButtonPressed", 1, Sent(Closed(lift[0]), 1),
                 MoveSchedules(lift[0], pending), "arrive")
ControllerArrives ==
  ControllerStep("arrive", "ElevatorArrived", 1, Opened(lift[0]), Post(pending), "done")

NoEvent(t) ==
  \/ t = "rider" /\ where[t] \in {"enter", "exit"} /\ riderEvents = <<>>
  \/ t = "controller" /\ where[t] \in {"open", "move", "arrive"} /\ controllerEvents = <<>>

Wakeups(t) == IF t = "rider" THEN riderWakeup ELSE controllerWakeup

Blocked(t) == where[t] = "done" \/ t \in asleep

\* The loops of WaitForNextRiderEvent and WaitForNextControllerEvent: P, then
\* look again, or the queue of the semaphore.
WaitForNextEvent(t) ==
  /\ mode \in {"thread", "segment"} /\ current = t /\ ~Blocked(t) /\ NoEvent(t) /\ Wakeups(t) > 0
  /\ riderWakeup' = riderWakeup - (IF t = "rider" THEN 1 ELSE 0)
  /\ controllerWakeup' = controllerWakeup - (IF t = "rider" THEN 0 ELSE 1)
  /\ OneTick(pending) /\ lift' = Later(lift, SystemTick)
  /\ UNCHANGED <<riderEvents, controllerEvents, testerVars, deleted, commands, faults>>

FallsAsleep(t) ==
  /\ mode \in {"thread", "segment"} /\ current = t /\ ~Blocked(t) /\ NoEvent(t) /\ Wakeups(t) = 0
  /\ asleep' = asleep \union {t}
  /\ UNCHANGED <<interruptVars, lift, riderEvents, controllerEvents, riderWakeup,
                 controllerWakeup, current, where, riderIsMain, deleted, commands, faults>>

\* Scheduler::Run: at a tick, or because the running thread sleeps or is done.
Switch(t) ==
  /\ current # "free"
  /\ mode = "thread" \/ (mode = "segment" /\ Blocked(current))
  /\ t # current /\ ~Blocked(t) /\ (riderIsMain => t = "rider" \/ Blocked("rider"))
  /\ current' = t
  /\ OneTick(pending) /\ lift' = Later(lift, SystemTick)
  /\ UNCHANGED <<riderEvents, controllerEvents, riderWakeup, controllerWakeup, where, asleep,
                 riderIsMain, deleted, commands, faults>>

Rider == RiderPresses \/ RiderEnters \/ RiderExits \/ WaitForNextEvent("rider") \/ FallsAsleep("rider")
Controller ==
  \/ ControllerOpens \/ ControllerMoves \/ ControllerArrives
  \/ WaitForNextEvent("controller") \/ FallsAsleep("controller")

SelfTest == Rider \/ Controller \/ \E t \in Testers : Switch(t)

\* -------------------------- the free controller ---------------------------

Commands == current = "free" /\ mode = "thread" /\ commands < MaxCommands

FreeMove(e, floor) ==
  /\ Commands /\ MayMove(lift[e], floor)
  /\ pending' = MoveSchedules(lift[e], pending)
  /\ lift' = [lift EXCEPT ![e] = Sent(@, floor)]
  /\ commands' = commands + 1
  /\ faults' = faults \union (IF lift[e].lastFloor = floor THEN {"behind"} ELSE {})
  /\ UNCHANGED <<mode, riderEvents, controllerEvents, riderWakeup, controllerWakeup,
                 testerVars, deleted>>

FreeOpen(e) ==
  /\ Commands /\ MayOpen(lift[e])
  /\ pending' = Post(pending)
  /\ lift' = [lift EXCEPT ![e] = Opened(@)]
  /\ riderEvents' = Append(riderEvents, Event("DoorsOpened", lift[e].lastFloor, e))
  /\ commands' = commands + 1
  /\ UNCHANGED <<mode, controllerEvents, riderWakeup, controllerWakeup, testerVars,
                 deleted, faults>>

FreeClose(e) ==
  /\ Commands /\ lift[e].doorsOpen
  /\ lift' = [lift EXCEPT ![e] = Closed(@)]
  /\ commands' = commands + 1
  /\ UNCHANGED <<interruptVars, riderEvents, controllerEvents, riderWakeup, controllerWakeup,
                 testerVars, deleted, faults>>

\* Woken by a callback, it takes every event there is.
FreeTakesEvents ==
  /\ current = "free" /\ mode = "thread" /\ riderWakeup + controllerWakeup > 0
  /\ riderWakeup' = 0 /\ controllerWakeup' = 0
  /\ riderEvents' = <<>> /\ controllerEvents' = <<>>
  /\ OneTick(pending) /\ lift' = Later(lift, SystemTick)
  /\ UNCHANGED <<testerVars, deleted, commands, faults>>

\* It does something else for a while, as long as it has commands to give.
FreeWorks ==
  /\ Commands /\ riderWakeup + controllerWakeup = 0 /\ pending # <<>>
  /\ OneTick(pending) /\ lift' = Later(lift, SystemTick)
  /\ UNCHANGED <<riderEvents, controllerEvents, riderWakeup, controllerWakeup, testerVars,
                 deleted, commands, faults>>

FreeController ==
  \/ \E e \in Elevators : FreeOpen(e) \/ FreeClose(e) \/ \E floor \in Floors : FreeMove(e, floor)
  \/ FreeTakesEvents \/ FreeWorks

\* No thread can run: time goes on to the next interrupt.
ElevatorIdle ==
  /\ mode \in {"thread", "segment"}
  /\ IF current = "free" THEN commands = MaxCommands /\ riderWakeup + controllerWakeup = 0
     ELSE \A t \in Testers : Blocked(t)
  /\ LET ahead == IF pending # <<>> /\ pending[1].in > 0 THEN pending[1].in ELSE 0
     IN  IF pending = <<>> \/ OnlyTimerLeft(pending)
         THEN mode' = "halted" /\ UNCHANGED <<pending, lift>>
         ELSE mode' = "idle" /\ pending' = Elapse(pending, ahead) /\ lift' = Later(lift, ahead)
  /\ UNCHANGED <<riderEvents, controllerEvents, riderWakeup, controllerWakeup, testerVars,
                 deleted, commands, faults>>

\* The constructors; runner is "rider" for the self test, "free" for the free
\* controller, which is of nobody's priority.
ElevatorInit(runner) ==
  /\ lift = [e \in Elevators |-> AtRest]
  /\ riderEvents = <<>> /\ controllerEvents = <<>>
  /\ riderWakeup = 0 /\ controllerWakeup = 0
  /\ current = runner
  /\ where = [t \in Testers |-> IF t = "rider" THEN "press" ELSE "open"]
  /\ asleep = {} /\ riderIsMain \in (IF runner = "rider" THEN BOOLEAN ELSE {FALSE})
  /\ deleted = FALSE /\ commands = 0 /\ faults = {}

\* -------------------------------- properties -------------------------------

ElevatorTypeOK ==
  /\ \A e \in Elevators :
       /\ lift[e].lastFloor \in -1 .. numFloors /\ lift[e].goingTo \in Floors
       /\ lift[e].willArrive \in -(SystemTick + DelayPerFloor) .. DelayPerFloor
  /\ riderWakeup \in Nat /\ controllerWakeup \in Nat
  /\ current \in Testers \union {"free"}

\* An elevator on its way is never forgotten: some interrupt will look at it,
\* although HandleInterrupt schedules one for the first elevator only.
MovingIsWatched ==
  (\E e \in Elevators : lift[e].inMotion) => Pending("ElevatorInt") # {}

\* An elevator moves with its doors closed and people on board stay in the
\* shaft: between the floors of the building, unless it was sent to the floor it
\* is leaving while moving, when ReachedNextFloor counts the wrong way.
StaysInShaft ==
  \A e \in Elevators :
    /\ lift[e].inMotion => ~lift[e].doorsOpen
    /\ "behind" \in faults \/ lift[e].lastFloor \in Floors

\* The wake-up of a rider that is main was given before the increment: it
\* sleeps on although the semaphore has a unit.
Mislaid == riderIsMain /\ "rider" \in asleep /\ riderWakeup > 0

\* The event lists are never left to nobody: while there is an event, an
\* interrupt is on its way, or the thread that looks at the list is awake and
\* has its V, except for a wake-up lost to main's priority.
EventsAnnounced ==
  \/ Pending("ElevatorInt") # {} \/ mode = "aborted"
  \/ /\ riderEvents # <<>> => \/ "rider" \notin asleep /\ (riderWakeup > 0 \/ current = "rider")
                              \/ Mislaid
     /\ controllerEvents # <<>> => /\ "controller" \notin asleep
                                   /\ controllerWakeup > 0 \/ current = "controller"

\* Elevators stay in the shaft, and neither one of them nor an event is
\* forgotten.
ElevatorsSound == ElevatorTypeOK /\ MovingIsWatched /\ StaysInShaft /\ EventsAnnounced
=============================================================================
