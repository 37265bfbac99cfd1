---------------------------- MODULE SemaphoreAbs ----------------------------
(***************************************************************************)
(* What class Semaphore promises (threads/synch.h): a value that is never  *)
(* negative, P that waits until it is positive and decrements it, V that   *)
(* increments it, both atomic.                                             *)
(***************************************************************************)
EXTENDS Integers

CONSTANTS
  Threads,
  InitialValue,
  MaxValue       \* bound on the value

VARIABLES
  value,
  waiting        \* threads that have called P and not returned

vars == <<value, waiting>>

Init ==
  /\ value = InitialValue
  /\ waiting = {}

\* A thread calls P.
Ask(t) ==
  /\ t \notin waiting
  /\ waiting' = waiting \cup {t}
  /\ UNCHANGED value

\* P returns.
Pass(t) ==
  /\ t \in waiting
  /\ value > 0
  /\ value' = value - 1
  /\ waiting' = waiting \ {t}

V ==
  /\ value < MaxValue
  /\ value' = value + 1
  /\ UNCHANGED waiting

Next == V \/ \E t \in Threads : Ask(t) \/ Pass(t)

Spec == Init /\ [][Next]_vars

\* A positive value and a waiting thread: some thread passes.
FairSpec == Spec /\ WF_vars(\E t \in Threads : Pass(t))
=============================================================================
