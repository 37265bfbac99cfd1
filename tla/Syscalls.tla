------------------------------ MODULE Syscalls ------------------------------
(***************************************************************************)
(* The file system calls of user programs (userprog/exception.cc) in the   *)
(* filesys build.  An OpenFileId is the address of the OpenFile, which     *)
(* keeps its seekPosition; ConsoleInput and ConsoleOutput are the numbers  *)
(* 0 and 1, and 0 is also what a failed Open returns.  A program uses the  *)
(* ids it was given, until it closes them.                                 *)
(***************************************************************************)
EXTENDS FileSystem

CONSTANTS
  UserFileSize,    \* the size SC_Create asks for
  UserTransfers    \* sizes of the program's reads and writes

VARIABLES
  client,      \* who calls: "user", or kernel code (FileTests)
  seek,        \* seekPosition of each open file; 0 where there is none
  register2,   \* result of the last call that has one
  console      \* bytes the last call took from the keyboard or displayed

syscallVars == <<seek, register2, console>>

ConsoleInput == 0
ConsoleOutput == 1
IsOpen(id) == id \in Handles /\ handles[id] # NoFile
IsConsole(id) == id \in {ConsoleInput, ConsoleOutput}

\* OpenFile::Read and Write move seekPosition by what was transferred.
AdvanceFromStart(id, numBytes, result) == seek' = [seek EXCEPT ![id] = result]
Advance(id, numBytes, result) == seek' = [seek EXCEPT ![id] = @ + result]

\* A call through an id that is not the address of an OpenFile.
Undefined == Become(Stop(Machine, "undefined")) /\ UNCHANGED handles

SC_Create(name, garbage) ==
  Create(name, UserFileSize, garbage) /\ UNCHANGED <<seek, register2>> /\ console' = 0

SC_Open(id, name) ==
  /\ Open(id, name)
  /\ register2' = IF handles'[id] # NoFile THEN id ELSE 0
  /\ console' = 0 /\ UNCHANGED seek

\* Closing the 0 of a failed Open does nothing.
SC_Close(id) ==
  /\ \/ IsOpen(id) /\ Close(id) /\ seek' = [seek EXCEPT ![id] = 0]
     \/ id = ConsoleInput /\ UNCHANGED <<vars, seek>>
  /\ console' = 0 /\ UNCHANGED register2

SC_Write(id, size) ==
  /\ outcome = "ok"
  /\ UNCHANGED register2
  /\ \/ /\ IsOpen(id) /\ Write(id, size, seek[id])
        /\ IF outcome' = "ok" THEN Advance(id, size, ret'[2]) ELSE UNCHANGED seek
        /\ console' = 0
     \/ id = ConsoleOutput /\ console' = size /\ UNCHANGED <<vars, seek>>
     \/ id = ConsoleInput /\ Undefined /\ console' = 0 /\ UNCHANGED seek

SC_Read(id, size) ==
  /\ outcome = "ok"
  /\ \/ /\ IsOpen(id) /\ Read(id, size, seek[id])
        /\ IF outcome' = "ok" THEN Advance(id, size, ret'[2]) /\ register2' = ret'[2]
           ELSE UNCHANGED <<seek, register2>>
        /\ console' = 0
     \/ /\ id = ConsoleInput /\ console' = size /\ register2' = size
        /\ UNCHANGED <<vars, seek>>
     \/ id = ConsoleOutput /\ Undefined /\ UNCHANGED <<seek, register2>> /\ console' = 0

SC_Remove(name) == RemovePath(name) /\ UNCHANGED <<seek, register2>> /\ console' = 0

UserCall ==
  \/ \E name \in CallPaths : (\E g \in Garbage : SC_Create(name, g)) \/ SC_Remove(name)
  \/ \E id \in Handles, name \in CallPaths : SC_Open(id, name)
  \/ \E id \in Handles \cup {ConsoleInput, ConsoleOutput} :
       SC_Close(id) \/ \E size \in UserTransfers : SC_Write(id, size) \/ SC_Read(id, size)

SyscallInit == Init /\ seek = [h \in Handles |-> 0] /\ register2 = 0 /\ console = 0

\* -------------------------------- properties -------------------------------

\* However files grow, shrink their transfers at the end or fail to grow, a
\* program's position stays inside the file as its handle knows it: a position
\* past the end would make every further Read and Write of the handle fail.
SeekInFile ==
  outcome = "ok" =>
    \A h \in Handles : IsOpen(h) => seek[h] \in 0 .. handles[h].hdr.numBytes

\* A call on a file leaves the console alone and one on the console leaves the
\* disk alone; a Read returns what it took, at most what the file still held.
CallsReachTheirFile ==
  [][client = "user" /\ outcome' = "ok" =>
       /\ console' # 0 => disk' = disk /\ handles' = handles /\ seek' = seek
       /\ \A h \in Handles :
            IsOpen(h) /\ seek'[h] # seek[h] /\ ret'[1] = "Read" =>
              /\ seek'[h] = seek[h] + register2' /\ register2' > 0
              /\ seek'[h] <= handles[h].hdr.numBytes]_<<vars, syscallVars>>

\* The calls of a program go to the file or the console they name and leave
\* the position inside the file.
UserCallsExact == CallsReachTheirFile /\ []SeekInFile
=============================================================================
