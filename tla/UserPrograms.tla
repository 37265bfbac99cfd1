--------------------------- MODULE UserPrograms -----------------------------
(***************************************************************************)
(* What runs user programs: the processes with their identifiers, or the   *)
(* simulated processor with one program.                                   *)
(***************************************************************************)
EXTENDS Processes, MCMips

VARIABLE layer

AnyStart == CHOOSE s \in Starts : TRUE

ProgramsInit ==
  /\ layer \in {"processes", "processor"}
  /\ ProcInit
  /\ IF layer = "processor" THEN MipsInit ELSE StartWith(AnyStart)

\* A program that has stopped leaves the processor alone.
Stopped == outcome # "running" /\ UNCHANGED mipsVars

ProgramsNext ==
  /\ UNCHANGED layer
  /\ \/ layer = "processes" /\ ProcNext /\ UNCHANGED mipsVars
     \/ layer = "processor" /\ (MipsNext \/ Stopped) /\ UNCHANGED processVars

\* The fairness of the processes, where they are at work.
ProgramsFairness ==
  /\ WF_processVars(layer = "processes" /\ Dispatch)
  /\ \A t \in Threads : SF_processVars(layer = "processes" /\ ProcessStep(t))

ProgramsSpec ==
  ProgramsInit /\ [][ProgramsNext]_<<layer, processVars, mipsVars>> /\ ProgramsFairness
=============================================================================
