------------------------------ MODULE Semaphore ------------------------------
(***************************************************************************)
(* One semaphore (threads/synch.cc) as its callers see it when the threads *)
(* have equal priorities: P and V run with interrupts off and nothing      *)
(* preempts them, so that they are atomic up to the Sleep inside P.  A     *)
(* thread V has woken tests the value again, and a newcomer may have taken *)
(* it in the meantime.                                                     *)
(***************************************************************************)
EXTENDS NachosList, FiniteSets

CONSTANTS
  Callers,
  InitialValue,
  MaxValue       \* bound on the value

ASSUME SemaphoreAssumption ==
  /\ IsFiniteSet(Callers)
  /\ InitialValue \in Nat
  /\ MaxValue \in Nat

VARIABLES
  value,
  queue,    \* the threads asleep in P
  phase     \* of each thread: "out" of P, about to test ("calling"), "asleep"

semaphoreVars == <<value, queue, phase>>

SemaphoreInit ==
  /\ value = InitialValue
  /\ queue = <<>>
  /\ phase = [t \in Callers |-> "out"]

Call(t) ==
  /\ phase[t] = "out"
  /\ phase' = [phase EXCEPT ![t] = "calling"]
  /\ UNCHANGED <<value, queue>>

\* Mutant: P sleeps although the value is positive, when others sleep.
BlockBehindQueue(t) ==
  /\ phase[t] = "calling"
  /\ value = 0 \/ queue # <<>>
  /\ queue' = Append(queue, t)
  /\ phase' = [phase EXCEPT ![t] = "asleep"]
  /\ UNCHANGED value

\* The body of the loop in P.
Block(t) ==
  /\ phase[t] = "calling"
  /\ value = 0
  /\ queue' = Append(queue, t)
  /\ phase' = [phase EXCEPT ![t] = "asleep"]
  /\ UNCHANGED value

\* Mutant: P tests the value with an if, not again after it was woken.
TakeUntested(t) ==
  /\ phase[t] = "calling"
  /\ value' = value - 1
  /\ phase' = [phase EXCEPT ![t] = "out"]
  /\ UNCHANGED queue

\* The rest of P.
Take(t) ==
  /\ phase[t] = "calling"
  /\ value > 0
  /\ value' = value - 1
  /\ phase' = [phase EXCEPT ![t] = "out"]
  /\ UNCHANGED queue

V ==
  /\ value < MaxValue
  /\ value' = value + 1
  /\ IF queue = <<>>
     THEN UNCHANGED <<queue, phase>>
     ELSE /\ queue' = Tail(queue)
          /\ phase' = [phase EXCEPT ![Head(queue)] = "calling"]

SemaphoreNext == V \/ \E t \in Callers : Call(t) \/ Block(t) \/ Take(t)

SemaphoreSpec == SemaphoreInit /\ [][SemaphoreNext]_semaphoreVars

\* A woken or entering thread is dispatched and tests the value.
Fairness == \A t \in Callers : WF_semaphoreVars(Block(t) \/ Take(t))

FairSpec == SemaphoreSpec /\ Fairness
-----------------------------------------------------------------------------
Calling == {t \in Callers : phase[t] = "calling"}

\* The type of the semaphore's state; its value is never negative (synch.h).
SemaphoreTypeOK ==
  /\ value \in Nat
  /\ queue \in Seq(Callers)
  /\ phase \in [Callers -> {"out", "calling", "asleep"}]

\* The queue holds the sleeping threads, each once.
QueueExact ==
  /\ NoDuplicates(queue)
  /\ Items(queue) = {t \in Callers : phase[t] = "asleep"}

\* While threads sleep, every unit of the value has a thread about to test
\* it: no V leaves a sleeper behind that it should have woken.
NoLostWakeup == queue # <<>> => Cardinality(Calling) >= value

\* The queue is exact and no V is lost.  NoLostWakeup counts threads, and needs
\* to know that the thread V wakes was not already counted.
SemInv == SemaphoreTypeOK /\ QueueExact /\ NoLostWakeup

Abstract ==
  INSTANCE SemaphoreAbs WITH
    Threads <- Callers, waiting <- {t \in Callers : phase[t] # "out"}

\* The semaphore keeps the promise of synch.h, liveness included.
ImplementsAbstract == Abstract!FairSpec
=============================================================================
