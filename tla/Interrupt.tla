----------------------------- MODULE Interrupt ------------------------------
(***************************************************************************)
(* The simulated interrupt hardware (machine/interrupt.cc) and the timer   *)
(* (machine/timer.cc).  Times are kept relative to the present: a pending  *)
(* interrupt is due when "in" is 0 or less.  Simulated time advances when  *)
(* a thread turns interrupts on (OneTick) and when there is no thread to   *)
(* run (Idle); what a thread does between two such points is one step, and *)
(* the handlers that are due run before any thread does.  Which of the     *)
(* runnable threads of one priority goes on after a tick is left open, as  *)
(* the timer may cause a switch there.  A more urgent thread is switched   *)
(* to inside the handler's V (scheduler.cc): the clients whose threads     *)
(* differ in priority model that in the handler (HandleInterrupt).         *)
(***************************************************************************)
EXTENDS NachosList

CONSTANTS
  SystemTick,   \* time a thread's step takes
  TimerTicks    \* average time between two timer interrupts

ASSUME TickAssumption == SystemTick \in Nat \ {0} /\ TimerTicks \in Nat \ {0}

VARIABLES
  pending,   \* interrupts scheduled to occur, as [type, in], soonest first
  mode       \* "thread"; in OneTick's loop "tick", in Idle's "idle"; "halted", "aborted"

interruptVars == <<pending, mode>>

IntTypes == {"TimerInt", "ConsoleReadInt", "ConsoleWriteInt", "ElevatorInt", "DiskInt"}

\* Interrupt::Schedule on the list p.
Schedule(p, type, fromNow) ==
  LET toOccur == [type |-> type, in |-> fromNow]
      when == [i \in Items(p) \union {toOccur} |-> i.in]
  IN  SortedInsert(p, toOccur, when)

Elapse(p, ticks) == [i \in DOMAIN p |-> [p[i] EXCEPT !.in = @ - ticks]]

Pending(type) == {i \in DOMAIN pending : pending[i].type = type}

\* A step of a thread that ends with interrupts turned on, where p is what it
\* left of the pending interrupts.
OneTick(p) == pending' = Elapse(p, SystemTick) /\ mode' = "tick"

\* The test for the time-slice daemon at the end of CheckIfDue.
OnlyTimerLeft(p) == Len(p) = 1 /\ p[1].type = "TimerInt"

\* CheckIfDue finds an interrupt to handle.
IsDue ==
  /\ pending # <<>> /\ pending[1].in <= 0
  /\ ~(mode = "idle" /\ OnlyTimerLeft(pending))

\* It is of the given type: its handler runs, with Rest as the pending list.
CheckIfDue(type) == mode \in {"tick", "idle"} /\ IsDue /\ pending[1].type = type

Rest == Tail(pending)

\* CheckIfDue finds nothing: back to the threads.
NothingDue ==
  /\ mode \in {"tick", "idle"}
  /\ ~IsDue
  /\ mode' = "thread"
  /\ UNCHANGED pending

\* Interrupt::Idle, called when no thread can run.  The interrupt the clock is
\* moved to is handled next.
Idle ==
  /\ mode = "thread"
  /\ IF pending = <<>> \/ OnlyTimerLeft(pending)
     THEN mode' = "halted" /\ UNCHANGED pending
     ELSE /\ mode' = "idle"
          /\ pending' = IF pending[1].in > 0 THEN Elapse(pending, pending[1].in) ELSE pending

\* Timer::TimeOfNextInterrupt, with and without the -rs flag.
TimeOfNextInterrupt(randomize) == IF randomize THEN 1 .. 2 * TimerTicks ELSE {TimerTicks}

\* Timer::TimerExpired; the yield its handler asks for is a switch after the tick.
TimerExpired ==
  /\ CheckIfDue("TimerInt")
  /\ \E fromNow \in TimeOfNextInterrupt(TRUE) : pending' = Schedule(Rest, "TimerInt", fromNow)
  /\ UNCHANGED mode
=============================================================================
