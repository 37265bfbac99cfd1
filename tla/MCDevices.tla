----------------------------- MODULE MCDevices ------------------------------
(***************************************************************************)
(* Two console threads, two elevators in a building of three floors, and   *)
(* times scaled down so that a tick is longer than an event's interrupt    *)
(* and shorter than a device's.                                            *)
(***************************************************************************)
EXTENDS Devices, TLC

MCCalls ==
  [ConsoleTest |-> {("t1" :> <<"echo">>) @@ ("t2" :> <<>>)},
   SynchConsole |-> {("t1" :> <<"get", "put">>) @@ ("t2" :> <<"put">>),
                     ("t1" :> <<"get">>) @@ ("t2" :> <<"get">>)}]
=============================================================================
