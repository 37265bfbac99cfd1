------------------------------ MODULE Console -------------------------------
(***************************************************************************)
(* The console device and SynchConsole (machine/console.cc), driven by     *)
(* ConsoleTest (userprog/progtest.cc), which main runs alone, or by        *)
(* threads of one priority that read and write characters through          *)
(* SynchConsole; no code of the repository uses that class yet (the system *)
(* calls go to the host's getchar and putchar).  EOF is the character      *)
(* 0xff: "incoming" is a char, so the two are one.                         *)
(***************************************************************************)
EXTENDS Interrupt, Functions, FiniteSets

CONSTANTS
  ConsoleTime,     \* time to read or write one character
  ConsoleThreads,  \* the threads that use the console
  Chars,           \* what can be typed
  MaxTyped         \* how many characters are typed at most

VARIABLES
  incoming, putBusy,        \* the device
  keyboard, display,        \* characters typed and not read yet, and shown
  readAvail, writeDone,     \* semaphore values
  readLock, writeLock,      \* holders, or NoThread
  todo,                     \* the calls each thread has still to make
  at, ch,                   \* where a thread is inside a call, and its character
  typed, got                \* history: everything typed, everything GetChar returned

deviceVars == <<incoming, putBusy, keyboard, display>>
synchVars == <<readAvail, writeDone, readLock, writeLock>>
threadVars == <<todo, at, ch>>
consoleVars == <<deviceVars, synchVars, threadVars, typed, got>>

EOF == "EOF"
NoThread == "none"

\* ------------------------------- the device -------------------------------

CheckCharAvailEager ==
  /\ CheckIfDue("ConsoleReadInt")
  /\ pending' = Schedule(Rest, "ConsoleReadInt", ConsoleTime)
  /\ IF keyboard = <<>> THEN UNCHANGED <<incoming, keyboard, readAvail>>
     ELSE /\ incoming' = Head(keyboard)
          /\ keyboard' = Tail(keyboard)
          /\ readAvail' = readAvail + 1
  /\ UNCHANGED <<mode, putBusy, display, writeDone, readLock, writeLock, threadVars, typed, got>>

\* Console::CheckCharAvail, and its handler's V.
CheckCharAvail ==
  /\ CheckIfDue("ConsoleReadInt")
  /\ pending' = Schedule(Rest, "ConsoleReadInt", ConsoleTime)
  /\ IF incoming # EOF \/ keyboard = <<>> THEN UNCHANGED <<incoming, keyboard, readAvail>>
     ELSE /\ incoming' = Head(keyboard)
          /\ keyboard' = Tail(keyboard)
          /\ readAvail' = readAvail + 1
  /\ UNCHANGED <<mode, putBusy, display, writeDone, readLock, writeLock, threadVars, typed, got>>

\* Console::WriteDone, and its handler's V.
WriteDone ==
  /\ CheckIfDue("ConsoleWriteInt")
  /\ pending' = Rest
  /\ putBusy' = FALSE
  /\ writeDone' = writeDone + 1
  /\ UNCHANGED <<mode, incoming, keyboard, display, readAvail, readLock, writeLock,
                 threadVars, typed, got>>

\* A key is pressed on the terminal that PollFile looks at.
Type ==
  /\ mode = "thread" /\ Len(typed) < MaxTyped
  /\ \E c \in Chars : keyboard' = Append(keyboard, c) /\ typed' = Append(typed, c)
  /\ UNCHANGED <<interruptVars, incoming, putBusy, display, synchVars, threadVars, got>>

\* Console::GetChar by thread t.
GetChar(t) ==
  /\ incoming' = EOF
  /\ ch' = [ch EXCEPT ![t] = incoming]
  /\ got' = Append(got, incoming)

\* Console::PutChar: asserts that no write is in progress.
PutChar(c) ==
  IF putBusy THEN mode' = "aborted" /\ UNCHANGED <<pending, putBusy, display>>
  ELSE /\ display' = Append(display, c)
       /\ putBusy' = TRUE
       /\ pending' = Schedule(pending, "ConsoleWriteInt", ConsoleTime)
       /\ UNCHANGED mode

\* ------------------------------- the threads ------------------------------

Calls(t, call, label) ==
  mode = "thread" /\ todo[t] # <<>> /\ todo[t][1] = call /\ at[t] = label

MoveOn(t, label) == at' = [at EXCEPT ![t] = label] /\ UNCHANGED todo
Finish(t) == at' = [at EXCEPT ![t] = "start"] /\ todo' = [todo EXCEPT ![t] = Tail(@)]

\* ConsoleTest: P(readAvail); GetChar, PutChar; P(writeDone); again unless 'q',
\* when it returns to main, which halts the machine.
EchoWait(t) ==
  /\ Calls(t, "echo", "start") /\ readAvail > 0
  /\ readAvail' = readAvail - 1
  /\ MoveOn(t, "put") /\ OneTick(pending)
  /\ UNCHANGED <<deviceVars, writeDone, readLock, writeLock, ch, typed, got>>

EchoPut(t) ==
  /\ Calls(t, "echo", "put")
  /\ GetChar(t) /\ PutChar(incoming)
  /\ MoveOn(t, "written")
  /\ UNCHANGED <<keyboard, synchVars, typed>>

EchoWrittenOnce(t) ==
  /\ Calls(t, "echo", "written") /\ writeDone > 0
  /\ writeDone' = writeDone - 1
  /\ Finish(t) /\ OneTick(pending)
  /\ UNCHANGED <<deviceVars, readAvail, readLock, writeLock, ch, typed, got>>

EchoWritten(t) ==
  /\ Calls(t, "echo", "written") /\ writeDone > 0
  /\ writeDone' = writeDone - 1
  /\ IF ch[t] = "q" THEN Finish(t) /\ mode' = "halted" /\ UNCHANGED pending
     ELSE MoveOn(t, "start") /\ OneTick(pending)
  /\ UNCHANGED <<deviceVars, readAvail, readLock, writeLock, ch, typed, got>>

\* SynchConsole::getChar.
LockRead(t) ==
  /\ Calls(t, "get", "start") /\ readLock = NoThread
  /\ readLock' = t
  /\ MoveOn(t, "wait") /\ OneTick(pending)
  /\ UNCHANGED <<deviceVars, readAvail, writeDone, writeLock, ch, typed, got>>

AwaitChar(t) ==
  /\ Calls(t, "get", "wait") /\ readAvail > 0
  /\ readAvail' = readAvail - 1
  /\ MoveOn(t, "take") /\ OneTick(pending)
  /\ UNCHANGED <<deviceVars, writeDone, readLock, writeLock, ch, typed, got>>

TakeChar(t) ==
  /\ Calls(t, "get", "take")
  /\ GetChar(t)
  /\ readLock' = NoThread
  /\ Finish(t) /\ OneTick(pending)
  /\ UNCHANGED <<putBusy, keyboard, display, readAvail, writeDone, writeLock, typed>>

\* SynchConsole::putChar.
LockWrite(t) ==
  /\ Calls(t, "put", "start") /\ writeLock = NoThread
  /\ writeLock' = t
  /\ MoveOn(t, "put") /\ OneTick(pending)
  /\ UNCHANGED <<deviceVars, readAvail, writeDone, readLock, ch, typed, got>>

ShowChar(t) ==
  /\ Calls(t, "put", "put")
  /\ PutChar(ch[t])
  /\ MoveOn(t, "written")
  /\ UNCHANGED <<incoming, keyboard, synchVars, ch, typed, got>>

AwaitWrite(t) ==
  /\ Calls(t, "put", "written") /\ writeDone > 0
  /\ writeDone' = writeDone - 1
  /\ MoveOn(t, "unlock") /\ OneTick(pending)
  /\ UNCHANGED <<deviceVars, readAvail, readLock, writeLock, ch, typed, got>>

UnlockWrite(t) ==
  /\ Calls(t, "put", "unlock")
  /\ writeLock' = NoThread
  /\ Finish(t) /\ OneTick(pending)
  /\ UNCHANGED <<deviceVars, readAvail, writeDone, readLock, ch, typed, got>>

ConsoleThread(t) ==
  \/ EchoWait(t) \/ EchoPut(t) \/ EchoWritten(t)
  \/ LockRead(t) \/ AwaitChar(t) \/ TakeChar(t)
  \/ LockWrite(t) \/ ShowChar(t) \/ AwaitWrite(t) \/ UnlockWrite(t)

ConsoleCanRun ==
  \E t \in ConsoleThreads :
    /\ todo[t] # <<>>
    /\ CASE at[t] = "start" -> \/ todo[t][1] = "echo" /\ readAvail > 0
                               \/ todo[t][1] = "get" /\ readLock = NoThread
                               \/ todo[t][1] = "put" /\ writeLock = NoThread
         [] at[t] = "wait" -> readAvail > 0
         [] at[t] = "written" -> writeDone > 0
         [] OTHER -> TRUE

\* The constructors of Console and SynchConsole; calls gives each thread's part.
ConsoleInit(calls) ==
  /\ incoming = EOF /\ putBusy = FALSE /\ keyboard = <<>> /\ display = <<>>
  /\ readAvail = 0 /\ writeDone = 0 /\ readLock = NoThread /\ writeLock = NoThread
  /\ todo = calls
  /\ at = [t \in ConsoleThreads |-> "start"] /\ ch = [t \in ConsoleThreads |-> "q"]
  /\ typed = <<>> /\ got = <<>>

\* -------------------------------- properties -------------------------------

ConsoleTypeOK ==
  /\ incoming \in Chars \union {EOF} /\ putBusy \in BOOLEAN
  /\ {keyboard, display, typed, got} \subseteq Seq(Chars \union {"q"})
  /\ readAvail \in 0 .. MaxTyped /\ writeDone \in 0 .. 1
  /\ {readLock, writeLock} \subseteq ConsoleThreads \union {NoThread}

\* GetChar hands out what was typed, in order, nothing lost and nothing twice,
\* as long as 0xff is not typed: that character reads as "no character" in
\* CheckCharAvail, and the next one is put in its place.
InputExact ==
  EOF \in Range(typed) \/
    typed = got \o (IF incoming = EOF THEN <<>> ELSE <<incoming>>) \o keyboard

\* A write is in progress exactly while one console interrupt will report it,
\* so a second PutChar never meets the ASSERT and no completion is lost.
WriteReported == Cardinality(Pending("ConsoleWriteInt")) = (IF putBusy THEN 1 ELSE 0)

\* Every character typed is handed out once and every write is completed once.
ConsoleSound == ConsoleTypeOK /\ InputExact /\ WriteReported
=============================================================================
