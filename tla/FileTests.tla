------------------------------ MODULE FileTests ------------------------------
(***************************************************************************)
(* The clients of the file system: kernel code that makes any call, a user *)
(* program (Syscalls), and the tests of filesys/fstest.cc, each a sequence *)
(* of routines, a routine a sequence of calls.  What a call that fails     *)
(* does to its routine is part of the call.  The tests open one file at a  *)
(* time; sizes and names are scaled to the disk.                           *)
(***************************************************************************)
EXTENDS Syscalls

CONSTANTS
  CopySizes,      \* lengths of the UNIX file
  TransferSize    \* bytes per Read or Write, ContentSize as well

\* Routines the tests have still to run.  A client is "kernel", "user",
\* "tests", or "tidyTests", which remove what they create.
VARIABLE script

TestFile == <<"y">>   \* "TestFile", "/test.txt" and the target of Copy
TestDir == <<"d">>
OtherFile == <<"w">>

\* A call, and what follows when it fails: "goOn", "leave" the routine and
\* close its file, "abort" (an ASSERT) or "undefined".
Call(op, name, size, onFailure) ==
  [op |-> op, name |-> name, size |-> size, position |-> -1, onFailure |-> onFailure]
CreateCall(name, size, onFailure) == Call("Create", name, size, onFailure)
OpenCall(name, onFailure) == Call("Open", name, 0, onFailure)
WriteAtCall(size, position) == [Call("Write", TestFile, size, "goOn") EXCEPT !.position = position]
RemoveCall(name) == Call("Remove", name, 0, "goOn")
CloseCall(size) == Call("Close", TestFile, size, "goOn")
Repeat(n, call) == [i \in 1 .. n |-> call]

\* fread gives full chunks, and what is left at last.
Chunks(length) == Repeat(length \div TransferSize, TransferSize)
                  \o Repeat(Least({1, length % TransferSize}), length % TransferSize)

Copying(to, length, chunks) ==
  << <<CreateCall(to, length, "leave"), OpenCall(to, "abort")>>
     \o [i \in DOMAIN chunks |-> Call("Write", TestFile, chunks[i], "goOn")]
     \o <<CloseCall(length)>> >>
CopyFullChunks(to, length) == Copying(to, length, Repeat(length \div TransferSize, TransferSize))
Copy(to, length) == Copying(to, length, Chunks(length))

\* Read until nothing is left.
PrintTest ==
  << <<OpenCall(TestFile, "leave"), Call("ReadAll", TestFile, TransferSize, "goOn"),
       CloseCall(0)>> >>

FileWrite ==
  <<CreateCall(TestFile, 0, "leave"), OpenCall(TestFile, "leave")>>
  \o Repeat(2, Call("Write", TestFile, TransferSize, "leave")) \o <<CloseCall(0)>>
FileRead ==
  <<OpenCall(TestFile, "leave")>>
  \o Repeat(2, Call("Compare", TestFile, TransferSize, "leave")) \o <<CloseCall(0)>>
PerformanceTest == <<FileWrite, FileRead, <<RemoveCall(TestFile)>> >>

ex3_test == << <<CreateCall(TestFile, 4, "goOn"), RemoveCall(TestFile)>> >>

ex4_test ==
  << <<CreateCall(TestDir, -1, "goOn"), CreateCall(TestDir \o <<"x">>, 4, "goOn"),
       RemoveCall(TestDir \o <<"x">>), CreateCall(TestDir \o <<"x">>, 1, "goOn"),
       CreateCall(TestDir \o <<"z">>, 1, "goOn"), RemoveCall(TestDir)>> >>

\* OpenFile(-1) when the file could not be created.
ex5_test ==
  << <<CreateCall(TestFile, 2, "goOn"), OpenCall(TestFile, "undefined"), WriteAtCall(3, 1),
       CloseCall(0)>> >>

TidyTests == {PerformanceTest, ex3_test, ex4_test}
AllTests == TidyTests \cup {PrintTest, ex5_test} \cup {Copy(TestFile, length) : length \in CopySizes}
FullDirectory == Copy(TestDir, 1) \o Copy(OtherFile, 1)

\* ---------------------------------- steps ----------------------------------

Current == Head(Head(script))
Position(h) == IF Current.position < 0 THEN seek[h] ELSE Current.position

AfterCall(failed) ==
  LET routine == Tail(Head(script))
      others == Tail(script)
      next(r) == IF r = <<>> THEN others ELSE <<r>> \o others
      close == IF \E h \in Handles : handles'[h] # NoFile THEN <<CloseCall(0)>> ELSE <<>>
  IN  script' = CASE outcome' # "ok" -> <<>>
                  [] outcome' = "ok" /\ (~ failed \/ Current.onFailure = "goOn") -> next(routine)
                  [] OTHER -> IF Current.onFailure = "leave" THEN next(close)
                              ELSE << <<Call("Stop", TestFile, 0, Current.onFailure)>> >>

TestCreate ==
  /\ \E g \in Garbage : Create(Current.name, Current.size, g)
  /\ UNCHANGED seek /\ AfterCall(~ ret'[2])

TestOpen ==
  /\ \A h \in Handles : ~ IsOpen(h)
  /\ \E h \in Handles : Open(h, Current.name)
  /\ UNCHANGED seek /\ AfterCall(~ ret'[2])

TestWrite ==
  \E h \in Handles :
    /\ IsOpen(h) /\ Write(h, Current.size, Position(h))
    /\ IF outcome' = "ok" /\ Current.position < 0 THEN Advance(h, Current.size, ret'[2])
       ELSE UNCHANGED seek
    /\ AfterCall(ret'[2] < Current.size)

\* FileRead compares what it read with what FileWrite would have written.
TestRead ==
  \E h \in Handles :
    /\ IsOpen(h) /\ Read(h, Current.size, seek[h])
    /\ IF outcome' = "ok" THEN Advance(h, Current.size, ret'[2]) ELSE UNCHANGED seek
    /\ IF Current.op = "ReadAll" /\ outcome' = "ok" /\ ret'[2] > 0 THEN UNCHANGED script
       ELSE \E differs \in {FALSE, Current.op = "Compare"} :
              AfterCall(differs \/ ret'[2] < Current.size)

TestClose ==
  \E h \in Handles : IsOpen(h) /\ Close(h) /\ seek' = [seek EXCEPT ![h] = 0] /\ AfterCall(FALSE)

TestRemove == RemovePath(Current.name) /\ UNCHANGED seek /\ AfterCall(~ ret'[2])

TestStop ==
  Become(Stop(Machine, Current.onFailure)) /\ UNCHANGED <<handles, seek>> /\ script' = <<>>

TestCall ==
  /\ script # <<>> /\ UNCHANGED <<register2, console>>
  /\ \/ Current.op = "Create" /\ TestCreate
     \/ Current.op = "Open" /\ TestOpen
     \/ Current.op = "Write" /\ TestWrite
     \/ Current.op \in {"ReadAll", "Compare"} /\ TestRead
     \/ Current.op = "Close" /\ TestClose
     \/ Current.op = "Remove" /\ TestRemove
     \/ Current.op = "Stop" /\ TestStop

FilesInit ==
  /\ SyscallInit
  /\ \/ client \in {"kernel", "user"} /\ script = <<>>
     \/ client = "tests" /\ \E s \in AllTests \cup {FullDirectory}, t \in AllTests : script = s \o t
     \/ client = "tidyTests" /\ \E s, t \in TidyTests : script = s \o t

FilesNext ==
  /\ UNCHANGED client
  /\ \/ client = "kernel" /\ Next /\ UNCHANGED <<syscallVars, script>>
     \/ client = "user" /\ UserCall /\ UNCHANGED script
     \/ client \in {"tests", "tidyTests"} /\ TestCall

FilesSpec == FilesInit /\ [][FilesNext]_<<vars, syscallVars, client, script>>

\* -------------------------------- properties -------------------------------

\* When Copy closes its file, every byte of the UNIX file has been written and
\* the file on disk is as long as it, whatever the chunks and sectors.
CopyComplete ==
  [][script # <<>> /\ outcome' = "ok" /\ faults' = {} =>
       (Current.op = "Close" /\ Current.size > 0 =>
          \E h \in Handles :
            /\ IsOpen(h) /\ seek[h] = Current.size
            /\ HeaderIn(disk, handles[h].sector).numBytes = Current.size)]_<<vars, script>>

\* PerformanceTest, ex3_test and ex4_test leave an empty disk as they found it,
\* whichever of their calls fail: files are closed on every path, the tree of
\* /testdir goes with it, and every sector is free again.
TestsCleanUp ==
  client = "tidyTests" /\ script = <<>> /\ outcome = "ok" /\ Sound =>
    /\ FilesHere = {} /\ \A h \in Handles : handles[h] = NoFile
    /\ MapIn(disk) = UNION {HeldBy(s) : s \in SystemSectors}

\* The tests of fstest.cc copy whole files and leave nothing behind, whether
\* their own calls succeed or fail.
TestsTidy == CopyComplete /\ []TestsCleanUp
=============================================================================
