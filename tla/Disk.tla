-------------------------------- MODULE Disk --------------------------------
(***************************************************************************)
(* The simulated disk (machine/disk.cc): how long a request takes, and the *)
(* interrupt that ends it.  The head passes one sector every RotationTime  *)
(* and every track begins under it at the same times, so that where it is  *)
(* follows from the time.  While the head stays on a track the disk reads  *)
(* what passes into the track buffer; bufferInit is when it began.  The    *)
(* client is a thread that waits for each request, as SynchDisk does.      *)
(***************************************************************************)
EXTENDS Interrupt, FiniteSets

CONSTANTS
  RotationTime, SeekTime, SectorsPerTrack, NumTracks,
  MaxSteps       \* bound on the client's requests and other steps

ASSUME DiskAssumption ==
  /\ RotationTime \in Nat \ {0} /\ SeekTime \in Nat \ {0}
  /\ SectorsPerTrack \in Nat \ {0} /\ NumTracks \in Nat \ {0}

VARIABLES
  totalTicks,
  active, lastSector, bufferInit,
  steps,        \* what the client has still to do
  request,      \* history: the last request, with the track and the time the
                \* head had come to it, and its latency
  arrived       \* history: when the head came to the track it is on

diskVars == <<totalTicks, active, lastSector, bufferInit, steps, request, arrived>>

NoRequest == [sector |-> -1]

Sectors == 0 .. SectorsPerTrack * NumTracks - 1
Track(sector) == sector \div SectorsPerTrack

\* The two results of Disk::TimeToSeek.
Seek(sector) ==
  LET tracks == Track(sector) - Track(lastSector)
  IN  (IF tracks < 0 THEN -tracks ELSE tracks) * SeekTime
RoundUp(sector) ==
  LET over == (totalTicks + Seek(sector)) % RotationTime
  IN  IF over > 0 THEN RotationTime - over ELSE 0

ModuloDiff(to, from) ==
  (((to % SectorsPerTrack) - (from % SectorsPerTrack)) + SectorsPerTrack) % SectorsPerTrack

TimeAfter(sector) == totalTicks + Seek(sector) + RoundUp(sector)

\* Mutant: a sector that begins to pass when the request is made counts.
BufferAppliesEarly(sector, writing) ==
  /\ ~writing /\ Seek(sector) = 0
  /\ (TimeAfter(sector) - bufferInit) \div RotationTime
       >= ModuloDiff(sector, bufferInit \div RotationTime)

\* The test for the track buffer in Disk::ComputeLatency.
BufferApplies(sector, writing) ==
  /\ ~writing /\ Seek(sector) = 0
  /\ (TimeAfter(sector) - bufferInit) \div RotationTime
       > ModuloDiff(sector, bufferInit \div RotationTime)

ComputeLatency(sector, writing) ==
  IF BufferApplies(sector, writing) THEN RotationTime
  ELSE Seek(sector) + RoundUp(sector)
         + ModuloDiff(sector, TimeAfter(sector) \div RotationTime) * RotationTime + RotationTime

UpdateLast(sector) ==
  /\ bufferInit' = IF Seek(sector) # 0 THEN TimeAfter(sector) ELSE bufferInit
  /\ lastSector' = sector

\* ReadRequest and WriteRequest; the thread then waits, which turns the
\* interrupts on again.
Request(sector, writing) ==
  /\ mode = "thread" /\ steps > 0 /\ ~active
  /\ LET ticks == ComputeLatency(sector, writing)
     IN  /\ OneTick(Schedule(pending, "DiskInt", ticks))
         /\ request' = [sector |-> sector, writing |-> writing, at |-> totalTicks,
                        seek |-> Seek(sector), arrived |-> arrived, latency |-> ticks]
  /\ UpdateLast(sector)
  /\ arrived' = IF Seek(sector) # 0 THEN totalTicks + Seek(sector) ELSE arrived
  /\ active' = TRUE /\ steps' = steps - 1
  /\ totalTicks' = totalTicks + SystemTick

\* The client does something else meanwhile.
Compute ==
  /\ mode = "thread" /\ steps > 0 /\ ~active
  /\ OneTick(pending)
  /\ totalTicks' = totalTicks + SystemTick /\ steps' = steps - 1
  /\ UNCHANGED <<active, lastSector, bufferInit, request, arrived>>

\* Disk::HandleInterrupt, and the V that wakes the client.
DiskDone ==
  /\ CheckIfDue("DiskInt") /\ pending' = Rest
  /\ active' = FALSE
  /\ UNCHANGED <<mode, totalTicks, lastSector, bufferInit, steps, request, arrived>>

\* No thread can run: the client waits, or is done.
DiskIdle ==
  /\ active \/ steps = 0
  /\ Idle
  /\ totalTicks' = IF mode' = "idle" /\ pending[1].in > 0 THEN totalTicks + pending[1].in ELSE totalTicks
  /\ UNCHANGED <<active, lastSector, bufferInit, steps, request, arrived>>

\* Disk::Disk.
DiskInit(n) ==
  /\ totalTicks = 0 /\ active = FALSE /\ lastSector = 0 /\ bufferInit = 0
  /\ steps = n /\ request = NoRequest /\ arrived = 0

DiskStep ==
  \/ \E sector \in Sectors, writing \in BOOLEAN : Request(sector, writing)
  \/ Compute \/ DiskDone \/ DiskIdle
  \/ (NothingDue \/ TimerExpired) /\ UNCHANGED diskVars

\* -------------------------------- properties -------------------------------

DiskTypeOK ==
  /\ totalTicks \in Nat /\ bufferInit \in Nat /\ active \in BOOLEAN
  /\ lastSector \in Sectors /\ steps \in 0 .. MaxSteps

\* The whole of the sector passes the head between two times.
Passes(sector, start, end) ==
  \E turn \in 0 .. end \div RotationTime :
    /\ turn % SectorsPerTrack = sector % SectorsPerTrack
    /\ start <= turn * RotationTime /\ (turn + 1) * RotationTime <= end

\* A read takes the transfer time alone exactly when all of the sector passed
\* the head since it came to the track (with the sector it is in the middle of
\* counted); any other request ends when the sector has first passed after the
\* seek.  "The contents of the track buffer are discarded after every seek".
LatencyExact ==
  request # NoRequest =>
    LET r == request
        buffered == /\ ~r.writing /\ r.seek = 0
                    /\ Passes(r.sector, r.arrived, r.at + ((-r.at) % RotationTime))
        end == r.at + r.latency
    IN  IF buffered THEN r.latency = RotationTime
        ELSE Passes(r.sector, r.at + r.seek, end) /\ ~Passes(r.sector, r.at + r.seek, end - 1)

\* A disk that is busy has its interrupt scheduled, for when the request ends.
BusyIsWatched ==
  /\ Cardinality(Pending("DiskInt")) = (IF active THEN 1 ELSE 0)
  /\ \A i \in Pending("DiskInt") : totalTicks + pending[i].in = request.at + request.latency

\* A request takes the time the geometry says and is completed at its end.
DiskSound == DiskTypeOK /\ LatencyExact /\ BusyIsWatched
=============================================================================
