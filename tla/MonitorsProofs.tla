--------------------------- MODULE MonitorsProofs ---------------------------
(***************************************************************************)
(* Threads of equal priority, whatever programs they run: the scheduler    *)
(* loses nobody, no V or Signal is lost, a lock excludes, and the machine  *)
(* halts only when every thread waits for what is not there.               *)
(***************************************************************************)
EXTENDS Monitors, SynchProofs

\* A leaf that names no prover is first-order reasoning, which Zenon does.
USE Zenon

ProgramsTyped == program \in [Threads -> Seq(Calls)]

EqualInv == EqualPriorities => SynchInv /\ ProgramsTyped

\* ----------------------- the code between kernel calls -----------------------

\* A sequence of calls that begins with a call of the kernel.
IsCode(c) == c \in Seq(Calls) /\ c # <<>> /\ Head(c) \in KernelCalls

LEMMA CodeOf ==
  ASSUME NEW k \in KernelCalls
  PROVE  /\ IsCode(<<k>>) /\ \A c \in Calls : IsCode(<<k, c>>)
         /\ \A c, d \in Calls : IsCode(<<k, c, d>>)
<1>1. k \in Calls
  BY DEF Calls
<1> QED
  BY <1>1, SMT DEF IsCode

\* The code behind a label goes on with a call of the kernel.
LEMMA CodeIsCode ==
  ASSUME NEW l \in Labels, NEW sh
  PROVE  IsCode(Code(l, sh).code)
<1>1. ASSUME NEW x, NEW c, IsCode(c) PROVE IsCode(Does(x, c).code)
  BY <1>1 DEF Does
<1>2. ASSUME NEW x \in Locks
      PROVE  Call("Acquire", x) \in KernelCalls /\ Call("Release", x) \in KernelCalls
  BY DEF KernelCalls, Call
<1>3. ASSUME NEW x \in Conds
      PROVE  /\ Call("Wait", x) \in KernelCalls /\ Call("Signal", x) \in KernelCalls
             /\ Call("Broadcast", x) \in KernelCalls
  BY DEF KernelCalls, Call
<1>4. ASSUME NEW x \in Sems
      PROVE  Call("P", x) \in KernelCalls /\ Call("V", x) \in KernelCalls
  BY DEF KernelCalls, Call
<1>5. KernelCalls \subseteq Calls /\ \A x \in Labels : Label(x) \in Calls
  BY DEF Calls
<1>6. /\ CntLock \in Locks /\ listLock \in Locks /\ barLock \in Locks
      /\ ReadCV \in Conds /\ WriteCV \in Conds /\ listEmpty \in Conds /\ barCV \in Conds
      /\ mutex \in Sems /\ db \in Sems
  BY MonitorAssumption
<1>7. ASSUME NEW x PROVE IsCode(BarrierTest(x).code)
  <2>1. Label("BarrierTest") \in Calls
    BY <1>5 DEF Labels
  <2>2. /\ IsCode(<<Call("Wait", barCV), Label("BarrierTest")>>)
        /\ IsCode(<<Call("Broadcast", barCV), Call("Release", barLock)>>)
        /\ IsCode(<<Call("Release", barLock)>>)
    BY <1>2, <1>3, <1>5, <1>6, <2>1, CodeOf
  <2> QED
    BY <1>1, <2>2 DEF BarrierTest
<1>8. ASSUME NEW x PROVE IsCode(Arrive(x).code)
  BY <1>7 DEF Arrive
<1>9. ASSUME NEW x PROVE IsCode(Put(x).code)
  <2>1. IsCode(<<Call("Signal", listEmpty), Call("Release", listLock)>>)
    BY <1>2, <1>3, <1>5, <1>6, CodeOf
  <2> QED
    BY <1>1, <2>1 DEF Put
<1>10. ASSUME NEW x PROVE IsCode(TakeItem(x).code)
  <2>1. Label("TakeItem") \in Calls
    BY <1>5 DEF Labels
  <2>2. /\ IsCode(<<Call("Wait", listEmpty), Label("TakeItem")>>)
        /\ IsCode(<<Call("Release", listLock)>>)
    BY <1>2, <1>3, <1>5, <1>6, <2>1, CodeOf
  <2> QED
    BY <1>1, <2>2 DEF TakeItem
<1>11. ASSUME NEW x PROVE IsCode(CWriterTest(x).code)
  <2>1. Label("CWriterWoken") \in Calls /\ Label("CWriterDone") \in Calls
    BY <1>5 DEF Labels
  <2>2. /\ IsCode(<<Call("Wait", WriteCV), Label("CWriterWoken")>>)
        /\ IsCode(<<Call("Release", CntLock), Call("Acquire", CntLock), Label("CWriterDone")>>)
    BY <1>2, <1>3, <1>5, <1>6, <2>1, CodeOf
  <2> QED
    BY <1>1, <2>2 DEF CWriterTest
<1>12. ASSUME NEW x PROVE IsCode(CWriterWoken(x).code)
  BY <1>11 DEF CWriterWoken
<1>13. ASSUME NEW x PROVE IsCode(WakeNext(x).code)
  <2>1. /\ IsCode(<<Call("Broadcast", ReadCV), Call("Release", CntLock)>>)
        /\ IsCode(<<Call("Signal", WriteCV), Call("Release", CntLock)>>)
        /\ IsCode(<<Call("Release", CntLock)>>)
    BY <1>2, <1>3, <1>5, <1>6, CodeOf
  <2> QED
    BY <1>1, <2>1 DEF WakeNext
<1>14. ASSUME NEW x PROVE IsCode(CWriterDone(x).code) /\ IsCode(CReaderDone(x).code)
  BY <1>13 DEF CWriterDone, CReaderDone
<1>15. ASSUME NEW x PROVE IsCode(CReaderEnters(x).code)
  <2>1. Label("CReaderDone") \in Calls
    BY <1>5 DEF Labels
  <2>2. IsCode(<<Call("Release", CntLock), Call("Acquire", CntLock), Label("CReaderDone")>>)
    BY <1>2, <1>5, <1>6, <2>1, CodeOf
  <2> QED
    BY <1>1, <2>2 DEF CReaderEnters
<1>16. ASSUME NEW x PROVE IsCode(CReaderTest(x).code) /\ IsCode(CReaderWoken(x).code)
  <2>1. Label("CReaderWoken") \in Calls
    BY <1>5 DEF Labels
  <2>2. IsCode(<<Call("Wait", ReadCV), Label("CReaderWoken")>>)
    BY <1>3, <1>5, <1>6, <2>1, CodeOf
  <2> QED
    BY <1>1, <1>15, <2>2 DEF CReaderTest, CReaderWoken
<1>17. ASSUME NEW x
       PROVE  IsCode(ReaderIn(x).code) /\ IsCode(ReaderOut(x).code) /\ IsCode(Writes(x).code)
  <2>1. Label("ReaderOut") \in Calls
    BY <1>5 DEF Labels
  <2>2. /\ IsCode(Reads) /\ IsCode(<<Call("V", db), Call("V", mutex)>>)
        /\ IsCode(<<Call("V", mutex)>>) /\ IsCode(<<Call("V", db)>>)
    BY <1>4, <1>5, <1>6, <2>1, CodeOf DEF Reads
  <2>3. IsCode(<<Call("P", db)>> \o Reads)
    <3> HIDE DEF Reads
    <3>1. Reads \in Seq(Calls) /\ Call("P", db) \in KernelCalls /\ Call("P", db) \in Calls
      BY <1>4, <1>5, <1>6, <2>2 DEF IsCode
    <3> QED
      BY <3>1, SMT DEF IsCode
  <2> QED
    BY <1>1, <2>2, <2>3 DEF ReaderIn, ReaderOut, Writes
<1> QED
  BY <1>7, <1>8, <1>9, <1>10, <1>11, <1>12, <1>14, <1>16, <1>17 DEF Code, Labels

\* A thread goes on with its program.
LEMMA ThreadInv ==
  ASSUME CardinalityLaws, SynchInv, ProgramsTyped, outcome = "running", ThreadStep
  PROVE  Core' /\ ProgramsTyped'
<1> DEFINE rest == program[currentThread]
<1>1. program \in [Threads -> Seq(Calls)] /\ currentThread \in Threads
  BY DEF SynchInv, Core, ProgramsTyped, Executes
<1>2. rest \in Seq(Calls)
  BY <1>1
<1>3. ASSUME NEW g PROVE Push(<<g>>) = WithStack(<<g>> \o stack[currentThread])
  BY DEF Push, WithStack
<1>4. ASSUME NEW g, InterruptsOn PROVE Push(<<g>>) = WithStack(Cons(g, <<>>))
  BY <1>3, <1>4 DEF InterruptsOn, Cons
<1>5. CASE CodeStep
  <2> DEFINE code == Code(Head(rest)[1], shared).code
  <2>1. Head(rest)[1] \in Labels /\ rest # <<>> /\ InterruptsOn
    BY <1>5 DEF CodeStep, AtLabel
  <2>2. IsCode(code)
    BY <2>1, CodeIsCode
  <2>3. stack' = Push(<<Head(code)>>) /\ UNCHANGED ordinary
    BY <1>5 DEF CodeStep, Continue, Stay, ordinary
  <2>4. program' = [program EXCEPT ![currentThread] = Tail(code) \o Tail(rest)]
    BY <1>5 DEF CodeStep
  <2> HIDE DEF code, rest
  <2>5. Tail(code) \in Seq(Calls) /\ Tail(rest) \in Seq(Calls)
    BY <1>2, <2>1, <2>2, SMT DEF IsCode
  <2>6. Tail(code) \o Tail(rest) \in Seq(Calls)
    BY <2>5, SMT
  <2>7. Head(code) \in KernelCalls /\ stack' = WithStack(Cons(Head(code), <<>>))
    BY <1>4, <2>1, <2>2, <2>3 DEF IsCode
  <2>8. Core'
    BY <2>1, <2>3, <2>7, PushInv
  <2> QED
    BY <1>1, <2>4, <2>6, <2>8 DEF ProgramsTyped
<1>6. CASE ~AtLabel /\ CallStep
  <2>1. InterruptsOn
    BY <1>6 DEF CallStep
  <2>2. CASE rest = <<>>
    <3>1. /\ stack' = Push(<<<<"Finish", NoThread>>>>) /\ program' = program
          /\ UNCHANGED ordinary
      BY <1>6, <2>2 DEF CallStep, Continue, Stay, ordinary
    <3>2. Core'
      BY <1>4, <2>1, <3>1, PushInv
    <3> QED
      BY <1>1, <3>1, <3>2 DEF ProgramsTyped
  <2>3. CASE rest # <<>>
    <3>1. /\ stack' = Push(<<rest[1]>>) /\ UNCHANGED ordinary
          /\ program' = [program EXCEPT ![currentThread] = Tail(rest)]
      BY <1>6, <2>3 DEF CallStep, Continue, Stay, ordinary
    <3>2. Head(rest)[1] \notin Labels
      BY <1>6, <2>3 DEF AtLabel
    <3> HIDE DEF rest
    <3>3. Head(rest) = rest[1] /\ rest[1] \in Calls /\ Tail(rest) \in Seq(Calls)
      BY <1>2, <2>3, SMT
    <3>4. rest[1] \in KernelCalls
      BY <3>2, <3>3, SMTT(30) DEF Calls, Label
    <3>5. Core'
      BY <1>4, <2>1, <3>1, <3>4, PushInv
    <3> QED
      BY <1>1, <3>1, <3>3, <3>5 DEF ProgramsTyped
  <2> QED
    BY <2>2, <2>3
<1> QED
  BY <1>5, <1>6 DEF ThreadStep

LEMMA SynchNext == CardinalityLaws /\ NatWellOrdered /\ EqualInv /\ [Next]_allVars => EqualInv'
<1> SUFFICES ASSUME CardinalityLaws, NatWellOrdered, EqualInv, [Next]_allVars, EqualPriorities'
             PROVE  SynchInv' /\ ProgramsTyped'
  BY DEF EqualInv
<1>1. priority' = priority
  BY DEF Next, allVars
<1>2. EqualPriorities /\ SynchInv /\ ProgramsTyped
  BY <1>1 DEF EqualPriorities, EqualInv
<1>3. CASE outcome = "running" /\ ThreadStep
  <2>1. Core' /\ ProgramsTyped'
    BY <1>2, <1>3, ThreadInv
  <2>2. UNCHANGED <<inHandler, outcome, value, owner, active, holds>>
    BY <1>3 DEF ThreadStep, CodeStep, CallStep, Continue, Stay
  <2> QED
    BY <1>1, <1>2, <2>1, <2>2 DEF SynchInv, OtherTypes
<1>4. CASE outcome = "running" /\ KernelStep
  <2>1. Core' /\ Typed
    BY <1>2, <1>4, KernelInv, KernelTypes
  <2>2. OtherTypes
    BY <1>2 DEF SynchInv
  <2>3. OtherTypes'
    BY <2>1, <2>2 DEF OtherTypes, Typed
  <2>4. ProgramsTyped'
    BY <1>2, <2>1 DEF ProgramsTyped, Typed
  <2> QED
    BY <1>1, <1>2, <2>1, <2>3, <2>4 DEF SynchInv
<1>5. CASE UNCHANGED vars
  BY <1>1, <1>2, <1>5 DEF SynchInv, OtherTypes, Core, ProgramsTyped, vars, schedVars, synchVars
<1> QED
  BY <1>3, <1>4, <1>5 DEF Next, Ended, allVars

LEMMA SynchFirst == MonitorInit => SynchInv /\ ProgramsTyped
<1> SUFFICES ASSUME Init PROVE SynchInv /\ ProgramsTyped
  BY DEF MonitorInit
<1>1. ProgramsTyped /\ priority \in [Threads -> Int]
  BY ProgramAssumption DEF Init, ProgramsTyped
<1>2. OtherTypes
  BY <1>1, SynchAssumption DEF Init, SchedInit, OtherTypes
<1>3. Listed(readyList, status, queue, waiting)
  BY EmptyFacts, ThreadAssumption, SMT DEF Init, SchedInit, Listed, Statuses, NoDuplicates
<1>4. Placed(status, stack, queue, waiting, threadToBeDestroyed)
  BY EmptyFacts DEF Init, SchedInit, Placed, QueuesPlaced, WaitersPlaced, ThreadPlaced, CarcassPlaced
<1>5. Executes(currentThread, status, stack)
  BY EmptyFacts, ThreadAssumption DEF Init, SchedInit, Executes, IsStack, Parked
<1>6. ASSUME NEW x \in Sems \cup Locks PROVE WokenUp(x, value, stack, queue, stack[currentThread])
  BY DEF Init, WokenUp
<1>7. ASSUME NEW l \in Locks PROVE OneUnit(l, value, stack, owner, holds)
  <2>1. value[l] = 1 /\ owner[l] = NoThread /\ holds[l] = {}
    BY SynchAssumption DEF Init
  <2>2. \A t \in Threads : ~HasUnit(t, l, stack, holds) /\ ~Returns(l, stack[t])
    BY <2>1, EmptyFacts DEF Init, SchedInit, HasUnit, Enters, Returns
  <2> QED
    BY <2>1, <2>2 DEF OneUnit
<1> QED
  BY <1>1, <1>2, <1>3, <1>4, <1>5, <1>6, <1>7 DEF SynchInv, Core

\* ------------------------- what the invariant implies -------------------------

LEMMA FramesAreItems ==
  ASSUME NEW t, NEW f
  PROVE  HasFrame(t, f) <=> f \in Items(stack[t])
BY DEF HasFrame, Items

Operands == Threads \cup Sems \cup Locks \cup Conds \cup Devices \cup {NoThread}

Operated(u) == \A f \in Items(u) : f[2] \in Operands

LEMMA OperatedCall ==
  ASSUME NEW f, NEW u, IsSeq(u), Operated(u), f[2] \in Operands
  PROVE  Operated(Cons(f, u)) /\ IsSeq(Cons(f, u))
<1>1. IsSeq(Cons(f, u)) /\ Items(Cons(f, u)) = {f} \cup Items(u)
  BY ConsFacts
<1> QED
  BY <1>1 DEF Operated

LEMMA AsleepOperated ==
  ASSUME NEW u \in Asleep
  PROVE  Operated(u) /\ IsSeq(u)
<1>1. Operated(<<>>) /\ IsSeq(<<>>)
  BY EmptyFacts DEF Operated
<1>2. ASSUME NEW x \in Sems, u = Cons(<<"P", x>>, <<>>) PROVE Operated(u) /\ IsSeq(u)
  BY <1>1, <1>2, OperatedCall DEF Operands
<1>3. ASSUME NEW l \in Locks, u = Cons(<<"P", l>>, Cons(<<"SetOwner", l>>, <<>>))
      PROVE  Operated(u) /\ IsSeq(u)
  <2>1. <<"P", l>>[2] \in Operands /\ <<"SetOwner", l>>[2] \in Operands
    BY DEF Operands
  <2> QED
    BY <1>1, <1>3, <2>1, OperatedCall
<1>4. ASSUME NEW l \in Locks, u = Cons(<<"Acquire", l>>, <<>>) PROVE Operated(u) /\ IsSeq(u)
  BY <1>1, <1>4, OperatedCall DEF Operands
<1>5. u = Cons(Finished, <<>>) => Operated(u) /\ IsSeq(u)
  BY <1>1, OperatedCall DEF Operands, Finished
<1> QED
  BY <1>2, <1>3, <1>4, <1>5 DEF Asleep

LEMMA HandledOperated ==
  ASSUME NEW u \in Dozes \cup Idling \cup Handled
  PROVE  Operated(u) /\ IsSeq(u)
<1>1. Sleep[2] \in Operands /\ Idled[2] \in Operands /\ EndHandler[2] \in Operands
  BY DEF Sleep, Idled, EndHandler, Operands
<1>2. Operated(<<>>) /\ IsSeq(<<>>)
  BY EmptyFacts DEF Operated
<1>3. \A v \in Dozes : Operated(v) /\ IsSeq(v)
  BY <1>1, AsleepOperated, OperatedCall DEF Dozes
<1>4. \A v \in Idling : Operated(v) /\ IsSeq(v)
  BY <1>1, <1>3, OperatedCall DEF Idling
<1>5. \A v \in Handled : Operated(v) /\ IsSeq(v)
  <2>1. \A v \in {<<>>} \cup Idling : Operated(v) /\ IsSeq(v)
    BY <1>2, <1>4
  <2> QED
    BY <1>1, <2>1, OperatedCall DEF Handled
<1> QED
  BY <1>3, <1>4, <1>5

LEMMA StackOperated ==
  ASSUME NEW s, IsStack(s)
  PROVE  Operated(s)
<1>1. Operated(<<>>) /\ IsSeq(<<>>)
  BY EmptyFacts DEF Operated
<1>2. ASSUME NEW f, NEW u, Under(f, u) PROVE Operated(Cons(f, u))
  <2>1. Return[2] \in Operands /\ Idle[2] \in Operands /\ Idled[2] \in Operands
        /\ Sleep[2] \in Operands /\ EndHandler[2] \in Operands
    BY DEF Return, Idle, Idled, Sleep, EndHandler, Operands
  <2>2. CASE f \in Lone /\ u = <<>>
    <3>1. f[2] \in Operands
      BY <2>2, SMT DEF Lone, KernelCalls, Vs, Start, Return, EndHandler, Operands
    <3> QED
      BY <1>1, <2>2, <3>1, OperatedCall
  <2>3. ASSUME NEW v \in Owns \cup Waits PROVE Operated(v) /\ IsSeq(v)
    <3>1. PICK g : v = Cons(g, <<>>) /\ g[2] \in Operands
      <4>1. \A l \in Locks : <<"SetOwner", l>>[2] \in Operands
        BY DEF Operands
      <4>2. \A c \in Conds : <<"WaitSleep", c>>[2] \in Operands
        BY DEF Operands
      <4> QED
        BY <4>1, <4>2 DEF Owns, Waits
    <3> QED
      BY <1>1, <3>1, OperatedCall
  <2>4. ASSUME NEW l \in Locks, f = <<"P", l>>, u = Cons(<<"SetOwner", l>>, <<>>)
        PROVE  Operated(Cons(f, u))
    <3>1. f[2] \in Operands
      BY <2>4 DEF Operands
    <3> QED
      BY <2>3, <2>4, <3>1, OperatedCall DEF Owns
  <2>5. f \in {"Release"} \X Locks => f[2] \in Operands
    BY DEF Operands
  <2>6. f \in Vs => f[2] \in Operands
    BY DEF Vs, Operands
  <2> QED
    BY <1>2, <2>1, <2>2, <2>3, <2>4, <2>5, <2>6, AsleepOperated, HandledOperated, OperatedCall DEF Under
<1> QED
  BY <1>1, <1>2 DEF IsStack

LEMMA ParkedOperated ==
  ASSUME NEW u \in Parked
  PROVE  Operated(u)
<1>1. Operated(<<>>) /\ IsSeq(<<>>)
  BY EmptyFacts DEF Operated
<1>2. Start[2] \in Operands /\ Return[2] \in Operands
  BY DEF Start, Return, Operands
<1> QED
  BY <1>1, <1>2, AsleepOperated, OperatedCall DEF Parked

LEMMA SynchTyped == SynchInv => TypeOK
<1> SUFFICES ASSUME SynchInv PROVE TypeOK
  OBVIOUS
<1>1. /\ Listed(readyList, status, queue, waiting) /\ OtherTypes
      /\ Placed(status, stack, queue, waiting, threadToBeDestroyed)
      /\ Executes(currentThread, status, stack)
  BY DEF SynchInv, Core
<1>2. Items(readyList) \subseteq Threads
  BY <1>1 DEF Listed
<1>3. \A x \in Sems \cup Locks : Items(queue[x]) \subseteq Threads
  BY <1>1 DEF Placed, QueuesPlaced
<1>4. \A c \in Conds : Items(waiting[c]) \subseteq Threads
  BY <1>1 DEF Placed, WaitersPlaced
<1>5. ASSUME NEW t \in Threads, NEW i \in DOMAIN stack[t]
      PROVE  stack[t][i][2] \in Operands
  <2>1. Operated(stack[t])
    BY <1>1, StackOperated, ParkedOperated DEF Executes
  <2> QED
    BY <2>1 DEF Operated, Items
<1>6. threadToBeDestroyed \in Threads \cup {NoThread}
  BY <1>1 DEF Placed, CarcassPlaced
<1>7. status \in [Threads -> Statuses] /\ currentThread \in Threads
  BY <1>1 DEF Listed, Executes
<1> QED
  BY <1>1, <1>2, <1>3, <1>4, <1>5, <1>6, <1>7 DEF TypeOK, OtherTypes, Statuses, Operands

LEMMA OnlyOne ==
  ASSUME NEW S, S # {}, \A x, y \in S : x = y
  PROVE  \E x : S = {x}
<1>1. PICK x \in S : TRUE
  OBVIOUS
<1>2. S = {x}
  BY <1>1
<1> QED
  BY <1>2

LEMMA OneCause ==
  ASSUME NEW s, OneReason(s)
  PROVE  /\ \A x, y : <<"P", x>> \in Items(s) => <<"Acquire", y>> \notin Items(s)
         /\ \A x : <<"P", x>> \in Items(s) => Finished \notin Items(s)
         /\ \A y : <<"Acquire", y>> \in Items(s) => Finished \notin Items(s)
         /\ \A x, y : <<"P", x>> \in Items(s) /\ <<"P", y>> \in Items(s) => x = y
BY DEF OneReason, Reasons, Finished

LEMMA SynchQueued == CardinalityLaws /\ SynchInv => BlockedIsQueued
<1> SUFFICES ASSUME CardinalityLaws, SynchInv, NEW t \in Threads, status[t] = "BLOCKED"
             PROVE  Cardinality({s \in Sems \cup Locks : t \in Items(queue[s])}) +
                    Cardinality({c \in Conds : t \in Items(waiting[c])}) +
                    (IF HasFrame(t, Finished) THEN 1 ELSE 0) = 1
  BY DEF BlockedIsQueued
<1> DEFINE Q == {s \in Sems \cup Locks : t \in Items(queue[s])}
           W == {c \in Conds : t \in Items(waiting[c])}
           fin == HasFrame(t, Finished)
<1>1. Placed(status, stack, queue, waiting, threadToBeDestroyed) /\ OneReason(stack[t])
  BY OneReasonEach DEF SynchInv, Core
<1>2. \A s \in Q : <<"P", s>> \in Items(stack[t])
  BY <1>1 DEF Placed, QueuesPlaced
<1>3. \A c \in W : <<"Acquire", LockOf[c]>> \in Items(stack[t])
  BY <1>1 DEF Placed, WaitersPlaced
<1>4. fin <=> Finished \in Items(stack[t])
  BY FramesAreItems
<1>5. fin \/ Q # {} \/ W # {}
  BY <1>1, <1>4 DEF Placed, ThreadPlaced
<1>6. \A s, x \in Q : s = x
  BY <1>1, <1>2 DEF OneReason, Reasons
<1>7. \A c, d \in W : c = d
  BY <1>1 DEF Placed, WaitersPlaced
<1>8. /\ Q # {} => W = {} /\ ~fin
      /\ W # {} => ~fin
  <2> HIDE DEF Q, W, fin
  <2> QED
    BY <1>1, <1>2, <1>3, <1>4, OneCause
<1> HIDE DEF Q, W, fin
<1>9. Cardinality({}) = 0 /\ \A x : Cardinality({x}) = 1
  BY DEF CardinalityLaws, Laws, SmallSets
<1>10. CASE Q # {}
  <2>1. PICK s : Q = {s}
    BY <1>6, <1>10, OnlyOne
  <2>2. Cardinality(Q) = 1 /\ Cardinality(W) = 0 /\ ~fin
    BY <1>8, <1>9, <1>10, <2>1
  <2> QED
    BY <2>2, SMT DEF Q, W, fin
<1>11. CASE W # {}
  <2>1. PICK c : W = {c}
    BY <1>7, <1>11, OnlyOne
  <2>2. Cardinality(Q) = 0 /\ Cardinality(W) = 1 /\ ~fin
    BY <1>8, <1>9, <1>11, <2>1
  <2> QED
    BY <2>2, SMT DEF Q, W, fin
<1>12. CASE Q = {} /\ W = {}
  <2>1. Cardinality(Q) = 0 /\ Cardinality(W) = 0 /\ fin
    BY <1>5, <1>9, <1>12
  <2> QED
    BY <2>1, SMT DEF Q, W, fin
<1> QED
  BY <1>10, <1>11, <1>12

LEMMA SynchSound == CardinalityLaws /\ SynchInv /\ EqualPriorities => SchedulerSound /\ ThreadsPlaced
<1> SUFFICES ASSUME CardinalityLaws, SynchInv, EqualPriorities PROVE TypeOK /\ ThreadsPlaced
  BY DEF SchedulerSound
<1>1. /\ Listed(readyList, status, queue, waiting) /\ priority \in [Threads -> Int]
      /\ Executes(currentThread, status, stack)
  BY DEF SynchInv, Core
<1>2. /\ NoDuplicates(readyList) /\ readyList \in Seq(Threads)
      /\ Items(readyList) = {t \in Threads : status[t] = "READY"}
  BY <1>1 DEF Listed
<1>3. \A t, u \in Threads : priority[t] <= priority[u]
  BY <1>1, SMT DEF EqualPriorities
<1>4. IsSorted(readyList, priority)
  BY <1>2, <1>3, SMT DEF IsSorted
<1>5. {t \in Threads : status[t] = "RUNNING"} \subseteq {currentThread} /\ currentThread \in Threads
  BY <1>1 DEF Executes
<1>6. ReadyListExact
  BY <1>2, <1>4, <1>5 DEF ReadyListExact
<1>7. MostUrgentRuns
  BY <1>2, <1>3, <1>5 DEF MostUrgentRuns
<1> QED
  BY <1>6, <1>7, SynchTyped, SynchQueued DEF ThreadsPlaced

LEMMA SynchWakes == CardinalityLaws /\ SynchInv => NoSignalLost
<1> SUFFICES ASSUME CardinalityLaws, SynchInv PROVE NoSignalLost
  OBVIOUS
<1>1. ASSUME NEW s \in Sems \cup Locks, queue[s] # <<>>
      PROVE  Cardinality(InTransit(s)) >= value[s]
  <2>1. InTransit(s) = Transit(s, stack, queue)
    BY FramesAreItems DEF InTransit, Transit
  <2>2. /\ WokenUp(s, value, stack, queue, stack[currentThread]) /\ value[s] \in Nat
        /\ Cardinality(Transit(s, stack, queue)) \in Nat
    BY TransitFinite DEF SynchInv, Core, OtherTypes
  <2> QED
    BY <1>1, <2>1, <2>2, SMTT(30) DEF WokenUp, Coming
<1>2. ASSUME NEW t \in Threads, NEW c \in Conds, HasFrame(t, <<"WaitSleep", c>>)
      PROVE  t = currentThread
  <2> SUFFICES ASSUME t # currentThread PROVE FALSE
    OBVIOUS
  <2>1. stack[t] \in Parked
    BY DEF SynchInv, Core, Executes
  <2>2. <<"WaitSleep", c>> \in Items(stack[t])
    BY <1>2, FramesAreItems
  <2>3. <<"WaitSleep", c>>[1] \in {"P", "SetOwner", "Acquire", "Finished", "Start", "Return"}
    BY <2>1, <2>2, ParkedFacts DEF WellParked, Labelled
  <2> QED
    BY <2>3
<1> QED
  BY <1>1, <1>2 DEF NoSignalLost, NoLostWakeup, WaitAtomic

LEMMA SynchLocks == SynchInv /\ outcome # "aborted" => LockExclusion
<1> SUFFICES ASSUME SynchInv, outcome # "aborted", NEW l \in Locks, NEW t \in holds[l], NEW u \in holds[l]
             PROVE  t = u /\ owner[l] = t
  BY DEF LockExclusion
<1>1. holds[l] = {owner[l]} \ {NoThread}
  BY DEF SynchInv, Core, OneUnit
<1> QED
  BY <1>1

\* --------------------------- halting for lack of work ---------------------------

\* The machine idles with an empty ready list, and only a finished thread has
\* been deleted.
HaltInv ==
  /\ Idle \in Items(stack[currentThread]) => readyList = <<>>
  /\ outcome = "halted" => Idle \in Items(stack[currentThread])
  /\ \A t \in Threads : status[t] = "DELETED" => Finished \in Items(stack[t])

EqualHalts == EqualPriorities => HaltInv

Awake(stk) == \A t \in Threads : Idle \notin Items(stk[t])

\* Idle calls nothing that switches threads, and is called from Sleep.
LEMMA IdleOnTop ==
  ASSUME NEW f, NEW u, Under(f, u)
  PROVE  Idle \notin Items(u) /\ (u = <<>> => f # Idle)
<1>1. ASSUME NEW labels, Labelled(u, labels), "Idle" \notin labels PROVE Idle \notin Items(u)
  <2>1. Idle[1] = "Idle"
    BY DEF Idle
  <2> QED
    BY <1>1, <2>1 DEF Labelled
<1>2. u = <<>> => Idle \notin Items(u)
  BY EmptyFacts
<1>3. u \in Asleep => Idle \notin Items(u)
  BY <1>1, AsleepFacts
<1>4. u \in Dozes => Idle \notin Items(u)
  BY <1>1, DozeFacts
<1>5. u \in Idling => Idle \notin Items(u)
  BY <1>1, IdlingFacts
<1>6. u \in Handled => Idle \notin Items(u)
  BY <1>1, HandledFacts
<1>7. u \in Owns \cup Waits => Idle \notin Items(u)
  BY <1>1, LoneTailFacts
<1>8. Idle \notin Items(u)
  <2>1. f[1] = "P" /\ f[2] \in Locks /\ u = Cons(<<"SetOwner", f[2]>>, <<>>) => u \in Owns
    BY DEF Owns
  <2> QED
    BY <1>2, <1>3, <1>4, <1>5, <1>6, <1>7, <2>1, UnderCases
<1>9. u = <<>> => f # Idle
  <2> SUFFICES ASSUME u = <<>>, f = Idle PROVE FALSE
    OBVIOUS
  <2>1. Sleep \notin Items(u)
    BY EmptyFacts
  <2>2. u \notin Dozes
    BY <2>1, DozeFacts
  <2>3. f[1] = "Idle"
    BY DEF Idle
  <2>4. f \in Lone
    BY <2>2, <2>3, UnderCases
  <2> QED
    BY <2>3, <2>4, LoneLabels
<1> QED
  BY <1>8, <1>9

LEMMA NewStackAwake ==
  ASSUME SynchInv, NEW s, Idle \notin Items(s)
  PROVE  Awake(WithStack(s))
<1>1. \A t \in Threads \ {currentThread} : stack[t] \in Parked
  BY DEF SynchInv, Core, Executes
<1>2. \A u \in Parked : Idle \notin Items(u)
  BY ParkedFacts DEF WellParked, Labelled, Idle
<1> QED
  BY <1>1, <1>2, WithStackIs DEF Awake

LEMMA ReplacedAwake ==
  ASSUME SynchInv, NEW label, AtTop(label), NEW g, NEW h, g # Idle, h # Idle
  PROVE  /\ Awake(Replace(<<>>)) /\ Awake(Replace(<<g>>)) /\ Awake(Replace(<<g, h>>))
         /\ Awake(Replace(<<g>> \o <<h>>))
<1>1. PICK f, u : stack[currentThread] = Cons(f, u) /\ Under(f, u) /\ IsSeq(u)
  BY Innermost
<1>2. Idle \notin Items(u)
  BY <1>1, IdleOnTop
<1>3. IsSeq(Cons(h, u)) /\ Items(Cons(h, u)) = {h} \cup Items(u)
  BY <1>1, ConsFacts
<1>4. Items(Cons(g, u)) = {g} \cup Items(u) /\ Items(Cons(g, Cons(h, u))) = {g} \cup Items(Cons(h, u))
  BY <1>1, <1>3, ConsFacts
<1>5. Idle \notin Items(Cons(g, u)) /\ Idle \notin Items(Cons(g, Cons(h, u)))
  BY <1>2, <1>3, <1>4
<1>6. /\ Awake(WithStack(u)) /\ Awake(WithStack(Cons(g, u)))
      /\ Awake(WithStack(Cons(g, Cons(h, u))))
  BY <1>2, <1>5, NewStackAwake
<1>7. /\ Replace(<<>>) = WithStack(u) /\ Replace(<<g>>) = WithStack(Cons(g, u))
      /\ Replace(<<g, h>>) = WithStack(Cons(g, Cons(h, u)))
      /\ Replace(<<g>> \o <<h>>) = WithStack(Cons(g, Cons(h, u)))
  BY <1>1, ReplaceIs, SMT
<1> QED
  BY <1>6, <1>7

\* A step that neither idles nor deletes anybody.
LEMMA AwakeStep ==
  ASSUME SynchInv, HaltInv, outcome = "running", Core', outcome' \in {outcome, "aborted"},
         Awake(stack') \/ Idle \notin Items(stack'[currentThread']),
         \A t \in Threads : status'[t] = "DELETED" => status[t] = "DELETED",
         \A t \in Threads \ {currentThread} : status[t] = "NONE" \/ stack'[t] = stack[t]
  PROVE  HaltInv'
<1>1. currentThread' \in Threads
  BY DEF Core, Executes
<1>2. status[currentThread] # "DELETED"
  BY DEF SynchInv, Core, Executes
<1>3. \A t \in Threads : status'[t] = "DELETED" => Finished \in Items(stack'[t])
  BY <1>2 DEF HaltInv
<1>4. outcome' # "halted"
  OBVIOUS
<1> QED
  BY <1>1, <1>3, <1>4 DEF HaltInv, Awake

\* The innermost function calls or returns; at most one thread is blocked or
\* made ready.
Replaces(frames) ==
  /\ stack' = Replace(frames) /\ outcome' \in {outcome, "aborted"}
  /\ \/ status' = status
     \/ \E h : \/ status' = [status EXCEPT ![h] = "BLOCKED"]
               \/ status' = [status EXCEPT ![h] = "READY"]

LEMMA ReplaceHalts ==
  ASSUME SynchInv, HaltInv, outcome = "running", Core', NEW label, AtTop(label),
         NEW g, NEW h, g # Idle, h # Idle,
         Replaces(<<>>) \/ Replaces(<<g>>) \/ Replaces(<<g, h>>) \/ Replaces(<<g>> \o <<h>>)
  PROVE  HaltInv'
<1>1. PICK frames : Replaces(frames) /\ Awake(Replace(frames))
  BY ReplacedAwake
<1>2. status \in [Threads -> Statuses] /\ currentThread \in Threads /\ stack = [t \in Threads |-> stack[t]]
  BY DEF SynchInv, Core, Listed, Executes
<1>3. \A t \in Threads : status'[t] = "DELETED" => status[t] = "DELETED"
  BY <1>1, <1>2 DEF Replaces
<1>4. \A t \in Threads \ {currentThread} : stack'[t] = stack[t]
  <2>1. stack' = [stack EXCEPT ![currentThread] = frames \o Tail(@)]
    BY <1>1 DEF Replaces, Replace
  <2> QED
    BY <1>2, <2>1
<1>5. Awake(stack') /\ outcome' \in {outcome, "aborted"}
  BY <1>1 DEF Replaces
<1> QED
  BY <1>3, <1>4, <1>5, AwakeStep

\* Labels tell the other frames from Idle.
LEMMA NotIdle ==
  /\ \A x : <<"P", x>> # Idle /\ <<"VIncrement", x>> # Idle /\ <<"SetOwner", x>> # Idle
            /\ <<"V", x>> # Idle /\ <<"Release", x>> # Idle /\ <<"WaitSleep", x>> # Idle
            /\ <<"Acquire", x>> # Idle /\ <<"Broadcast", x>> # Idle
  /\ Return # Idle /\ Sleep # Idle /\ Finished # Idle /\ Start # Idle
BY DEF Idle, Return, Sleep, Finished, Start

LEMMA SchedulerHalts ==
  ASSUME SynchInv, HaltInv, outcome = "running", Core',
         ReturnStep \/ StartStep \/ FinishStep \/ EndHandlerStep
  PROVE  HaltInv'
<1>1. CASE ReturnStep \/ StartStep
  <2>1. Replaces(<<>>)
    BY <1>1 DEF ReturnStep, StartStep, SetLevelOn, Replaces
  <2> QED
    BY <1>1, <2>1, NotIdle, ReplaceHalts DEF ReturnStep, StartStep
<1>2. CASE FinishStep
  <2>1. Replaces(<<Sleep, Finished>>) /\ AtTop("Finish")
    BY <1>2 DEF FinishStep, Replaces
  <2> QED
    BY <2>1, NotIdle, ReplaceHalts
<1>3. CASE EndHandlerStep
  <2>1. Replaces(<<>>) /\ AtTop("EndHandler")
    BY <1>3 DEF EndHandlerStep, Continue, Stay, Replaces
  <2> QED
    BY <2>1, NotIdle, ReplaceHalts
<1> QED
  BY <1>1, <1>2, <1>3

LEMMA CallHalts ==
  ASSUME SynchInv, HaltInv, outcome = "running", Core',
         \/ PStep \/ VIncrementStep \/ AcquireStep \/ SetOwnerStep \/ ReleaseStep
         \/ WaitStep \/ WaitSleepStep \/ RequestStep
  PROVE  HaltInv'
<1> DEFINE x == Top[2]
<1>1. CASE PStep
  <2>1. AtTop("P") /\ (Replaces(<<Return>>) \/ Replaces(<<Sleep>> \o <<<<"P", x>>>>))
    BY <1>1 DEF PStep, GoToSleep, Continue, Stay, Replaces
  <2> QED
    BY <2>1, NotIdle, ReplaceHalts
<1>2. CASE VIncrementStep
  <2>1. AtTop("VIncrement") /\ Replaces(<<Return>>)
    BY <1>2 DEF VIncrementStep, Continue, Stay, Replaces
  <2> QED
    BY <2>1, NotIdle, ReplaceHalts
<1>3. CASE AcquireStep
  <2>1. AtTop("Acquire") /\ Replaces(<<<<"P", x>>, <<"SetOwner", x>>>>)
    BY <1>3 DEF AcquireStep, Continue, Stay, Replaces
  <2> QED
    BY <2>1, NotIdle, ReplaceHalts
<1>4. CASE SetOwnerStep
  <2>1. AtTop("SetOwner") /\ Replaces(<<Return>>)
    BY <1>4 DEF SetOwnerStep, Continue, Stay, Replaces
  <2> QED
    BY <2>1, NotIdle, ReplaceHalts
<1>5. CASE ReleaseStep
  <2>1. AtTop("Release") /\ Replaces(<<<<"V", x>>>>)
    BY <1>5 DEF ReleaseStep, Replaces
  <2> QED
    BY <2>1, NotIdle, ReplaceHalts
<1>6. CASE WaitStep
  <2>1. AtTop("Wait") /\ Replaces(<<<<"Release", LockOf[x]>>, <<"WaitSleep", x>>>>)
    BY <1>6 DEF WaitStep, Continue, Stay, Replaces
  <2> QED
    BY <2>1, NotIdle, ReplaceHalts
<1>7. CASE WaitSleepStep
  <2>1. AtTop("WaitSleep") /\ Replaces(<<Sleep>> \o <<<<"Acquire", LockOf[x]>>>>)
    BY <1>7 DEF WaitSleepStep, GoToSleep, Stay, Replaces
  <2> QED
    BY <2>1, NotIdle, ReplaceHalts
<1>8. CASE RequestStep
  <2>1. AtTop("Request") /\ Replaces(<<Return>>)
    BY <1>8 DEF RequestStep, Replaces
  <2> QED
    BY <2>1, NotIdle, ReplaceHalts
<1> QED
  BY <1>1, <1>2, <1>3, <1>4, <1>5, <1>6, <1>7, <1>8

LEMMA WakeHalts ==
  ASSUME SynchInv, HaltInv, EqualPriorities, outcome = "running", Core',
         VStep \/ SignalStep \/ BroadcastStep
  PROVE  HaltInv'
<1>1. ASSUME NEW h \in Threads, NEW frames, ReadyToRun(h, Replace(frames)) PROVE Replaces(frames)
  BY <1>1, WakesEqual DEF Replaces
<1>2. ASSUME NEW frames, Continue(Replace(frames)) PROVE Replaces(frames)
  BY <1>2 DEF Continue, Stay, Replaces
<1>3. /\ \A x \in Sems \cup Locks : queue[x] # <<>> => Head(queue[x]) \in Threads
      /\ \A c \in Conds : waiting[c] # <<>> => Head(waiting[c]) \in Threads
  <2>1. Placed(status, stack, queue, waiting, threadToBeDestroyed)
    BY DEF SynchInv, Core
  <2>2. \A x \in Sems \cup Locks : queue[x] # <<>> => Head(queue[x]) \in Items(queue[x])
    BY FirstLeaves
  <2>3. \A c \in Conds : waiting[c] # <<>> => Head(waiting[c]) \in Items(waiting[c])
    BY FirstLeaves
  <2> QED
    BY <2>1, <2>2, <2>3 DEF Placed, QueuesPlaced, WaitersPlaced
<1>4. CASE VStep
  <2>1. PICK f, u : /\ stack[currentThread] = Cons(f, u) /\ Under(f, u) /\ f = Top /\ f[1] = "V"
    BY <1>4, Innermost DEF VStep
  <2>2. Top[2] \in Sems \cup Locks
    BY <2>1, InV
  <2>3. queue[Top[2]] # <<>> => Head(queue[Top[2]]) \in Threads
    BY <1>3, <2>2
  <2>4. AtTop("V") /\ Replaces(<<<<"VIncrement", Top[2]>>>>)
    BY <1>1, <1>2, <1>4, <2>3 DEF VStep
  <2> QED
    BY <2>4, NotIdle, ReplaceHalts
<1>5. CASE SignalStep \/ BroadcastStep
  <2>1. PICK f, u : /\ stack[currentThread] = Cons(f, u) /\ Under(f, u) /\ f = Top
                    /\ f[1] \in {"Signal", "Broadcast"}
    BY <1>5, Innermost DEF SignalStep, BroadcastStep
  <2>2. Top[2] \in Conds
    BY <2>1, LoneCall
  <2>3. waiting[Top[2]] # <<>> => Head(waiting[Top[2]]) \in Threads
    BY <1>3, <2>2
  <2>4. AtTop(f[1]) /\ (Replaces(<<Return>>) \/ Replaces(<<<<"Broadcast", Top[2]>>>>))
    <3>1. CASE SignalStep
      BY <1>1, <1>2, <2>1, <2>3, <3>1 DEF SignalStep, AtTop
    <3>2. CASE BroadcastStep
      BY <1>1, <1>2, <2>1, <2>3, <3>2 DEF BroadcastStep, AtTop
    <3> QED
      BY <1>5, <3>1, <3>2
  <2> QED
    BY <2>4, NotIdle, ReplaceHalts
<1> QED
  BY <1>4, <1>5

LEMMA ForkHalts ==
  ASSUME SynchInv, HaltInv, EqualPriorities, outcome = "running", Core',
         NEW h \in Threads, ForkStep(h)
  PROVE  HaltInv'
<1> DEFINE mid == Replace(<<Return>>)
<1>1. /\ AtTop("Fork") /\ status[h] = "NONE" /\ status' = [status EXCEPT ![h] = "READY"]
      /\ stack' = [mid EXCEPT ![h] = <<Start>>] /\ outcome' = outcome
  BY WakesEqual DEF ForkStep, StackAllocate
<1>2. status \in [Threads -> Statuses] /\ currentThread \in Threads /\ stack = [t \in Threads |-> stack[t]]
  BY DEF SynchInv, Core, Listed, Executes
<1>3. Awake(mid)
  BY <1>1, NotIdle, ReplacedAwake
<1>4. mid = [t \in Threads |-> mid[t]] /\ \A t \in Threads \ {currentThread} : mid[t] = stack[t]
  BY <1>2 DEF Replace
<1> HIDE DEF mid
<1>5. Items(<<Start>>) = {Start}
  BY Single, ItemsOfOne
<1>6. Awake(stack')
  BY <1>1, <1>3, <1>4, <1>5, NotIdle DEF Awake
<1>7. \A t \in Threads : status'[t] = "DELETED" => status[t] = "DELETED"
  BY <1>1, <1>2
<1>8. \A t \in Threads \ {currentThread} : status[t] = "NONE" \/ stack'[t] = stack[t]
  BY <1>1, <1>4
<1> QED
  BY <1>1, <1>6, <1>7, <1>8, AwakeStep

\* Interrupt::Idle halts the machine, or goes back to the loop in Sleep.
LEMMA IdleHalts ==
  ASSUME SynchInv, HaltInv, outcome = "running", Core', IdleStep
  PROVE  HaltInv'
<1>1. CASE AtTop("Idle") /\ outcome' = "halted" /\ UNCHANGED <<stack, status, readyList, currentThread>>
  <2>1. PICK f, u : /\ stack[currentThread] = Cons(f, u) /\ Under(f, u) /\ f[1] = "Idle" /\ IsSeq(u)
    BY <1>1, Innermost
  <2>2. f = Idle
    <3>1. f \notin Lone
      BY <2>1, LoneLabels
    <3>2. ~(\E l \in Locks : f = <<"P", l>>) /\ f \notin {"Release"} \X Locks /\ f \notin Vs
      BY <2>1, SMT DEF Vs
    <3>3. f # Return /\ f # Idled /\ f # Sleep /\ f # EndHandler
      BY <2>1, SMTT(30) DEF Return, Idled, Sleep, EndHandler
    <3> QED
      BY <2>1, <3>1, <3>2, <3>3 DEF Under
  <2>3. Idle \in Items(stack[currentThread])
    BY <2>1, <2>2, ConsFacts
  <2> QED
    BY <1>1, <2>3 DEF HaltInv
<1>2. CASE AtTop("Idled") /\ Replaces(<<>>)
  BY <1>2, NotIdle, ReplaceHalts
<1> QED
  BY <1>1, <1>2 DEF IdleStep, Replaces


LEMMA DeviceHalts ==
  ASSUME SynchInv, HaltInv, outcome = "running", Core', NEW d \in Devices, DeviceInterrupt(d)
  PROVE  HaltInv'
<1> DEFINE g == <<"V", DoneSem[d]>>
<1>1. /\ status \in [Threads -> Statuses] /\ currentThread \in Threads
      /\ stack = [t \in Threads |-> stack[t]] /\ IsStack(stack[currentThread])
  BY DEF SynchInv, Core, Listed, Executes
<1>2. UNCHANGED <<currentThread, status, outcome>>
  BY DEF DeviceInterrupt, EnterHandler, Continue, Stay
<1>3. PICK v : IsSeq(v) /\ Idle \notin Items(v) /\ stack' = [stack EXCEPT ![currentThread] = <<g, EndHandler>> \o v]
  <2>1. CASE InterruptsOn /\ EnterHandler(DoneSem[d], <<>>)
    BY <2>1, EmptyFacts DEF EnterHandler, Continue, Stay
  <2>2. CASE /\ AtTop("Idle") \/ AtTop("Idled")
             /\ EnterHandler(DoneSem[d], <<Idled>> \o Tail(stack[currentThread]))
    <3> DEFINE v == <<Idled>> \o Tail(stack[currentThread])
    <3>1. PICK f, u : stack[currentThread] = Cons(f, u) /\ Under(f, u) /\ IsSeq(u)
      BY <2>2, Innermost
    <3>2. v = Cons(Idled, u)
      BY <3>1, ConsFacts, SMT DEF Cons
    <3>3. IsSeq(v) /\ Items(v) = {Idled} \cup Items(u)
      BY <3>1, <3>2, ConsFacts
    <3>4. Idle \notin Items(v)
      BY <3>1, <3>3, IdleOnTop DEF Idle, Idled
    <3> QED
      BY <2>2, <3>3, <3>4 DEF EnterHandler, Continue, Stay
  <2> QED
    BY <2>1, <2>2 DEF DeviceInterrupt
<1>4. Idle \notin Items(stack'[currentThread])
  <2>1. stack'[currentThread] = Cons(g, Cons(EndHandler, v))
    <3>1. stack'[currentThread] = <<g, EndHandler>> \o v
      BY <1>1, <1>3
    <3> HIDE DEF g
    <3>2. <<g, EndHandler>> \o v = <<g>> \o (<<EndHandler>> \o v)
      BY <1>3, PairOn, SMT
    <3>3. <<g, EndHandler>> \o v = Cons(g, Cons(EndHandler, v))
      BY <3>2 DEF Cons
    <3> QED
      BY <3>1, <3>3
  <2>2. IsSeq(Cons(EndHandler, v)) /\ Items(Cons(EndHandler, v)) = {EndHandler} \cup Items(v)
    BY <1>3, ConsFacts
  <2>3. Items(stack'[currentThread]) = {g} \cup Items(Cons(EndHandler, v))
    BY <2>1, <2>2, ConsFacts, SMTT(30)
  <2>4. g # Idle /\ EndHandler # Idle
    BY DEF Idle, EndHandler
  <2> HIDE DEF g
  <2> QED
    BY <1>3, <2>2, <2>3, <2>4
<1>5. \A t \in Threads \ {currentThread} : stack'[t] = stack[t]
  BY <1>1, <1>3
<1> QED
  BY <1>2, <1>4, <1>5, AwakeStep

LEMMA ThreadHalts ==
  ASSUME SynchInv, HaltInv, outcome = "running", Core', ThreadStep
  PROVE  HaltInv'
<1>1. /\ currentThread \in Threads /\ stack = [t \in Threads |-> stack[t]]
  BY DEF SynchInv, Core, Executes
<1>2. PICK g : /\ stack[currentThread] = <<>> /\ stack' = Push(<<g>>)
               /\ UNCHANGED <<currentThread, status, outcome>>
  <2>1. CASE CodeStep
    BY <2>1 DEF CodeStep, InterruptsOn, Continue, Stay
  <2>2. CASE CallStep
    BY <2>2 DEF CallStep, InterruptsOn, Continue, Stay
  <2> QED
    BY <2>1, <2>2 DEF ThreadStep
<1>3. /\ stack'[currentThread] = Cons(g, <<>>)
      /\ \A t \in Threads \ {currentThread} : stack'[t] = stack[t]
  BY <1>1, <1>2 DEF Push, Cons
<1>4. IsStack(Cons(g, <<>>))
  BY <1>2, <1>3 DEF Core, Executes
<1>5. Under(g, <<>>)
  BY <1>4, ConsFacts, EmptyFacts DEF IsStack
<1>6. g # Idle /\ Items(Cons(g, <<>>)) = {g}
  BY <1>5, IdleOnTop, ItemsOfOne
<1>7. Idle \notin Items(stack'[currentThread'])
  BY <1>2, <1>3, <1>6
<1> QED
  BY <1>2, <1>3, <1>7, AwakeStep

\* The thread that gets the processor deletes the finished one.
LEMMA RunHalts ==
  ASSUME SynchInv, HaltInv, outcome = "running", Core', NEW next, NEW ready, NEW stat, NEW stk,
         Run(next, ready, stat, stk) \/ Stay(ready, stat, stk), Awake(stk),
         \A t \in Threads : stat[t] = "DELETED" => status[t] = "DELETED",
         \A t \in Threads \ {currentThread} : stk[t] = stack[t],
         Finished \in Items(stack[currentThread]) => Finished \in Items(stk[currentThread])
  PROVE  HaltInv'
<1>1. currentThread' \in Threads
  BY DEF Core, Executes
<1>2. status[currentThread] # "DELETED" /\ CarcassPlaced(status, stack, threadToBeDestroyed)
  BY DEF SynchInv, Core, Executes, Placed
<1>3. stack' = stk /\ outcome' \in {outcome, "aborted"}
  BY DEF Run, Stay
<1>4. ASSUME NEW t \in Threads, status'[t] = "DELETED" PROVE Finished \in Items(stk[t])
  <2>1. stat[t] = "DELETED" \/ t = threadToBeDestroyed
    <3>1. CASE Run(next, ready, stat, stk)
      <4> DEFINE carcass == IF stk[next] = <<Start>> THEN NoThread ELSE threadToBeDestroyed
      <4>1. status' = [x \in Threads |-> IF x = carcass THEN "DELETED"
                                         ELSE IF x = next THEN "RUNNING" ELSE stat[x]]
        BY <3>1 DEF Run
      <4>2. carcass \in {NoThread, threadToBeDestroyed}
        OBVIOUS
      <4> HIDE DEF carcass
      <4> QED
        BY <1>4, <4>1, <4>2, ThreadAssumption
    <3>2. CASE Stay(ready, stat, stk)
      BY <1>4, <3>2 DEF Stay
    <3> QED
      BY <3>1, <3>2
  <2>2. CASE stat[t] = "DELETED"
    BY <1>2, <2>2 DEF HaltInv
  <2>3. CASE t = threadToBeDestroyed
    <3>1. Finished \in Items(stack[t])
      BY <1>2, <2>3, ThreadAssumption DEF CarcassPlaced
    <3> QED
      BY <3>1
  <2> QED
    BY <2>1, <2>2, <2>3
<1> QED
  BY <1>1, <1>3, <1>4 DEF HaltInv, Awake

LEMMA YieldHalts ==
  ASSUME SynchInv, HaltInv, outcome = "running", Core', YieldStep \/ TimerInterrupt
  PROVE  HaltInv'
<1>1. PICK stk : /\ Yield(readyList, status, stk) /\ Awake(stk)
                 /\ \A t \in Threads \ {currentThread} : stk[t] = stack[t]
                 /\ Finished \notin Items(stack[currentThread])
  <2>1. stack = [t \in Threads |-> stack[t]] /\ currentThread \in Threads
    BY DEF SynchInv, Core, Executes
  <2>2. CASE YieldStep
    <3>1. PICK f, u : stack[currentThread] = Cons(f, u) /\ Under(f, u) /\ IsSeq(u) /\ f[1] = "Yield"
      BY <2>2, Innermost DEF YieldStep
    <3>2. u = <<>>
      BY <3>1, UnderCases
    <3>3. Finished \notin Items(stack[currentThread])
      BY <3>1, <3>2, ItemsOfOne, SMT DEF Finished
    <3>4. Awake(Replace(<<Return>>))
      BY <2>2, NotIdle, ReplacedAwake DEF YieldStep
    <3>5. \A t \in Threads \ {currentThread} : Replace(<<Return>>)[t] = stack[t]
      BY <2>1 DEF Replace
    <3> QED
      BY <2>2, <3>3, <3>4, <3>5 DEF YieldStep
  <2>3. CASE TimerInterrupt
    <3>1. stack[currentThread] = <<>>
      BY <2>3 DEF TimerInterrupt, InterruptsOn
    <3>2. Finished \notin Items(stack[currentThread])
      BY <3>1, EmptyFacts
    <3>3. Push(<<Return>>) = WithStack(Cons(Return, <<>>))
      BY <3>1 DEF Push, WithStack, Cons
    <3>4. Awake(Push(<<Return>>))
      BY <3>3, ItemsOfOne, NotIdle, NewStackAwake, SMT
    <3>5. \A t \in Threads \ {currentThread} : Push(<<Return>>)[t] = stack[t]
      BY <2>1 DEF Push
    <3> QED
      BY <2>3, <3>2, <3>4, <3>5 DEF TimerInterrupt
  <2> QED
    BY <2>2, <2>3
<1> DEFINE yielded == [status EXCEPT ![currentThread] = "READY"]
<1>2. PICK next, ready : Run(next, ready, yielded, stk) \/ Stay(ready, yielded, stk)
  BY <1>1 DEF Yield
<1>3. \A t \in Threads : yielded[t] = "DELETED" => status[t] = "DELETED"
  <2>1. status \in [Threads -> Statuses]
    BY DEF SynchInv, Core, Listed
  <2> QED
    BY <2>1
<1> HIDE DEF yielded
<1> QED
  BY <1>1, <1>2, <1>3, RunHalts

\* Thread::Sleep idles only when nobody is ready.
LEMMA SleepHalts ==
  ASSUME SynchInv, HaltInv, EqualPriorities, outcome = "running", Core', SleepStep
  PROVE  HaltInv'
<1>1. PICK f, u : /\ stack[currentThread] = Cons(f, u) /\ Under(f, u) /\ IsSeq(u) /\ f[1] = "Sleep"
  BY Innermost DEF SleepStep
<1>2. /\ stack = [t \in Threads |-> stack[t]] /\ currentThread \in Threads
      /\ priority \in [Threads -> Int] /\ readyList \in Seq(Threads)
  BY DEF SynchInv, Core, Executes, Listed
<1> DEFINE found == FindNextToRun(readyList, status)
<1>3. IF found.next = NoThread THEN Stay(found.ready, status, Push(<<Idle>>))
                               ELSE Run(found.next, found.ready, status, Replace(<<>>))
  BY DEF SleepStep
<1>4. CASE readyList = <<>>
  <2>1. found.next = NoThread /\ found.ready = <<>>
    BY <1>4 DEF FindNextToRun
  <2>2. /\ readyList' = <<>> /\ stack' = Push(<<Idle>>)
        /\ UNCHANGED <<status, outcome, currentThread>>
    BY <1>3, <2>1 DEF Stay
  <2>3. ASSUME NEW t \in Threads, status'[t] = "DELETED" PROVE Finished \in Items(stack'[t])
    <3>1. status[t] = "DELETED" /\ t # currentThread
      BY <2>2, <2>3 DEF SynchInv, Core, Executes
    <3>2. stack'[t] = stack[t]
      BY <1>2, <2>2, <3>1 DEF Push
    <3> QED
      BY <3>1, <3>2 DEF HaltInv
  <2> QED
    BY <2>2, <2>3 DEF HaltInv
<1>5. CASE readyList # <<>>
  <2>1. Head(readyList) \in Threads /\ Head(readyList) # NoThread
    BY <1>2, <1>5, ThreadAssumption, SMTT(30)
  <2>2. priority[Head(readyList)] <= priority[currentThread]
    BY <1>2, <2>1, SMT DEF EqualPriorities
  <2>3. found.next = Head(readyList) /\ found.ready = Tail(readyList)
    BY <1>5, <2>2, FindsHead
  <2> HIDE DEF found
  <2>4. Run(found.next, found.ready, status, Replace(<<>>))
    BY <1>3, <2>1, <2>3
  <2>5. Awake(Replace(<<>>))
    BY NotIdle, ReplacedAwake DEF SleepStep
  <2>6. Replace(<<>>) = WithStack(u) /\ WithStack(u)[currentThread] = u
    BY <1>1, ReplaceIs, WithStackIs
  <2>7. \A t \in Threads \ {currentThread} : Replace(<<>>)[t] = stack[t]
    BY <1>2 DEF Replace
  <2>8. Finished \in Items(stack[currentThread]) => Finished \in Items(u)
    <3>1. Items(stack[currentThread]) = {f} \cup Items(u)
      BY <1>1, ConsFacts
    <3>2. f # Finished
      BY <1>1, SMT DEF Finished
    <3> QED
      BY <3>1, <3>2
  <2> QED
    BY <2>4, <2>5, <2>6, <2>7, <2>8, RunHalts
<1> QED
  BY <1>4, <1>5

LEMMA HaltNext == CardinalityLaws /\ NatWellOrdered /\ EqualInv /\ EqualHalts /\ [Next]_allVars => EqualHalts'
<1> SUFFICES ASSUME CardinalityLaws, NatWellOrdered, EqualInv, EqualHalts, [Next]_allVars, EqualPriorities'
             PROVE  HaltInv'
  BY DEF EqualHalts
<1>1. priority' = priority
  BY DEF Next, allVars
<1>2. EqualPriorities /\ SynchInv /\ ProgramsTyped /\ HaltInv
  BY <1>1 DEF EqualPriorities, EqualInv, EqualHalts
<1>3. CASE outcome = "running" /\ ThreadStep
  BY <1>2, <1>3, ThreadInv, ThreadHalts
<1>4. CASE outcome = "running" /\ KernelStep
  <2>1. Core'
    BY <1>2, <1>4, KernelInv
  <2>2. SchedulerStep \/ TimerStep => HaltInv'
    BY <1>2, <1>4, <2>1, SchedulerHalts, ForkHalts, SleepHalts, YieldHalts
       DEF SchedulerStep, TimerStep
  <2>3. SynchStep => HaltInv'
    BY <1>2, <1>4, <2>1, CallHalts, WakeHalts, IdleHalts DEF SynchStep
  <2> QED
    BY <1>2, <1>4, <2>1, <2>2, <2>3, DeviceHalts DEF KernelStep
<1>5. CASE UNCHANGED vars
  BY <1>2, <1>5 DEF HaltInv, vars, schedVars
<1> QED
  BY <1>3, <1>4, <1>5 DEF Next, Ended, allVars

LEMMA HaltFirst == MonitorInit => HaltInv
<1> SUFFICES ASSUME Init PROVE HaltInv
  BY DEF MonitorInit
<1>1. currentThread \in Threads /\ outcome = "running" /\ \A t \in Threads : stack[t] = <<>> /\ status[t] # "DELETED"
  BY ThreadAssumption DEF Init, SchedInit
<1> QED
  BY <1>1, EmptyFacts DEF HaltInv

\* A thread that is on its way to take a unit is ready or runs.
LEMMA HaltStuck == CardinalityLaws /\ SynchInv /\ HaltInv => HaltsOnlyWhenStuck
<1> SUFFICES ASSUME CardinalityLaws, SynchInv, HaltInv, outcome = "halted", NEW s \in Sems \cup Locks, value[s] > 0,
                    queue[s] # <<>>
             PROVE  FALSE
  BY DEF HaltsOnlyWhenStuck
<1>1. Idle \in Items(stack[currentThread]) /\ readyList = <<>>
  BY DEF HaltInv
<1>2. /\ Listed(readyList, status, queue, waiting)
      /\ Placed(status, stack, queue, waiting, threadToBeDestroyed)
      /\ Executes(currentThread, status, stack)
  BY DEF SynchInv, Core
<1>3. PICK t \in Threads : <<"P", s>> \in Items(stack[t]) /\ t \notin Items(queue[s])
  <2>1. /\ WokenUp(s, value, stack, queue, stack[currentThread]) /\ value[s] \in Nat
        /\ Cardinality(Transit(s, stack, queue)) \in Nat
    BY TransitFinite DEF SynchInv, Core, OtherTypes
  <2>2. Cardinality(Transit(s, stack, queue)) # 0
    BY <2>1, SMT DEF WokenUp, Coming
  <2>3. Transit(s, stack, queue) # {}
    BY <2>2 DEF CardinalityLaws, Laws, SmallSets
  <2> QED
    BY <2>3 DEF Transit
<1>4. status[t] # "READY" /\ status[t] \in Statuses
  BY <1>1, <1>2, EmptyFacts DEF Listed
<1>5. status[t] # "RUNNING"
  <2>1. CASE t # currentThread
    BY <1>2, <2>1 DEF Executes
  <2>2. CASE t = currentThread
    <3>1. Sleep \in Items(stack[currentThread])
      <4>1. PICK f, u : stack[currentThread] = Cons(f, u) /\ Under(f, u)
        BY <1>1, <1>2, EmptyFacts DEF Executes, IsStack
      <4>2. Items(Cons(f, u)) = {f} \cup Items(u)
        BY <4>1, Called
      <4>3. f = Idle
        BY <1>1, <4>1, <4>2, IdleOnTop
      <4>4. u \in Dozes
        <5>1. f[1] = "Idle" /\ f \notin Lone
          BY <4>3, LoneLabels DEF Idle
        <5> QED
          BY <4>1, <5>1, UnderCases
      <4> QED
        BY <4>1, <4>2, <4>4, DozeFacts
    <3> QED
      BY <1>2, <2>2, <3>1 DEF Executes
  <2> QED
    BY <2>1, <2>2
<1>6. OneReason(stack[t])
  BY OneReasonEach
<1>7. Finished \notin Items(stack[t]) /\ \A l : <<"Acquire", l>> \notin Items(stack[t])
  BY <1>3, <1>6, OneCause
<1>8. status[t] # "DELETED" /\ status[t] # "NONE"
  BY <1>2, <1>3, <1>7, EmptyFacts DEF HaltInv, Placed, ThreadPlaced
<1>9. status[t] = "BLOCKED"
  BY <1>4, <1>5, <1>8 DEF Statuses
<1>10. PICK x \in Sems \cup Locks : t \in Items(queue[x])
  <2>1. \A c \in Conds : t \notin Items(waiting[c])
    BY <1>2, <1>7 DEF Placed, WaitersPlaced
  <2> QED
    BY <1>2, <1>7, <1>9, <2>1 DEF Placed, ThreadPlaced
<1>11. x = s
  <2>1. <<"P", x>> \in Items(stack[t])
    BY <1>2, <1>10 DEF Placed, QueuesPlaced
  <2> QED
    BY <1>3, <1>6, <2>1, OneCause
<1> QED
  BY <1>3, <1>10, <1>11

-----------------------------------------------------------------------------
\* IsFiniteSet and Cardinality spelled out: FiniteSetTheorems, which is brought
\* in only here to keep the proofs above small, has copies of the two.
Enumerable(S) == \E seq \in Seq(S) : \A s \in S : \E n \in 1 .. Len(seq) : seq[n] = s
Size(S) ==
  LET CS[T \in SUBSET S] == IF T = {} THEN 0 ELSE 1 + CS[T \ {CHOOSE x : x \in T}]
  IN  CS[S]

LEMMA LawsOfSize == Laws(Enumerable, Size) => CardinalityLaws
<1>1. \A S : IsFiniteSet(S) <=> Enumerable(S)
  BY DEF IsFiniteSet, Enumerable
<1>2. \A S : Cardinality(S) = Size(S)
  BY DEF Cardinality, Size
<1>3. SmallSets(Size) => SmallSets(Cardinality)
  BY <1>2 DEF SmallSets
<1>4. FiniteSubsets(Enumerable, Size) => FiniteSubsets(IsFiniteSet, Cardinality)
  BY <1>1, <1>2 DEF FiniteSubsets
<1>5. OneMore(Enumerable, Size) => OneMore(IsFiniteSet, Cardinality)
  BY <1>1, <1>2 DEF OneMore
<1>6. OneLess(Enumerable, Size) => OneLess(IsFiniteSet, Cardinality)
  BY <1>1, <1>2 DEF OneLess
<1> QED
  BY <1>3, <1>4, <1>5, <1>6 DEF Laws, CardinalityLaws

LOCAL INSTANCE FiniteSetTheorems

LEMMA CardinalitiesObey == CardinalityLaws
<1>1. \A S : IsFiniteSet(S) <=> Enumerable(S)
  BY DEF IsFiniteSet, Enumerable
<1>2. \A S : Cardinality(S) = Size(S)
  BY DEF Cardinality, Size
<1>3. SmallSets(Size)
  BY <1>2, FS_EmptySet, FS_Singleton DEF SmallSets
<1>4. FiniteSubsets(Enumerable, Size)
  <2> SUFFICES ASSUME NEW S, Enumerable(S)
               PROVE  Size(S) \in Nat /\ \A T \in SUBSET S : Enumerable(T) /\ Size(T) <= Size(S)
    BY DEF FiniteSubsets
  <2>1. IsFiniteSet(S)
    BY <1>1
  <2>2. Cardinality(S) \in Nat
    BY <2>1, FS_CardinalityType
  <2>3. ASSUME NEW T \in SUBSET S PROVE IsFiniteSet(T) /\ Cardinality(T) <= Cardinality(S)
    BY <2>1, FS_Subset
  <2> QED
    BY <1>1, <1>2, <2>2, <2>3
<1>5. OneMore(Enumerable, Size)
  <2> SUFFICES ASSUME NEW S, NEW x, Enumerable(S), x \notin S
               PROVE  Size(S \cup {x}) = Size(S) + 1
    BY DEF OneMore
  <2>1. IsFiniteSet(S)
    BY <1>1
  <2>2. Cardinality(S \cup {x}) = Cardinality(S) + 1
    BY <2>1, FS_AddElement
  <2> QED
    BY <1>2, <2>2
<1>6. OneLess(Enumerable, Size)
  <2> SUFFICES ASSUME NEW S, NEW x, Enumerable(S), x \in S
               PROVE  Size(S \ {x}) = Size(S) - 1
    BY DEF OneLess
  <2>1. IsFiniteSet(S)
    BY <1>1
  <2>2. Cardinality(S \ {x}) = Cardinality(S) - 1
    BY <2>1, FS_RemoveElement
  <2> QED
    BY <1>2, <2>2
<1> QED
  BY <1>3, <1>4, <1>5, <1>6, LawsOfSize DEF Laws

LEMMA NatIsWellOrdered == NatWellOrdered
<1> SUFFICES ASSUME NEW T \in SUBSET Nat, T # {}
             PROVE  \E n \in T : \A k \in T : n <= k
  BY DEF NatWellOrdered
<1>1. PICK n \in T : \A k \in T : ~(<<k, n>> \in OpToRel(<, Nat))
  BY NatLessThanWellFounded, WFMin
<1>2. \A k \in T : n <= k
  <2> SUFFICES ASSUME NEW k \in T, ~(n <= k) PROVE FALSE
    OBVIOUS
  <2>1. k \in Nat /\ n \in Nat /\ k < n
    BY SMT
  <2>2. <<k, n>> \in OpToRel(<, Nat)
    BY <2>1 DEF OpToRel
  <2> QED
    BY <1>1, <2>2
<1> QED
  BY <1>2

\* The invariant of the thread system, for threads of equal priority.
LEMMA SynchInvariant == Spec => [](EqualInv /\ EqualHalts)
<1>1. MonitorInit => EqualInv /\ EqualHalts
  BY SynchFirst, HaltFirst DEF EqualInv, EqualHalts
<1>2. EqualInv /\ EqualHalts /\ [Next]_allVars => EqualInv' /\ EqualHalts'
  BY CardinalitiesObey, NatIsWellOrdered, SynchNext, HaltNext
<1> QED
  BY <1>1, <1>2, PTL DEF Spec

\* Semaphore::P and V, Condition::Wait and Signal lose no wakeup among threads of
\* equal priority, whatever programs they run and whenever the timer or a device
\* interrupts them: while a thread sleeps on a semaphore, every unit of its value
\* has a woken thread on its way to take it, and nobody runs between the Release
\* of a Wait and its sleep.
THEOREM NothingLost == Spec => []NoSignalLost
<1>1. EqualInv => NoSignalLost
  BY CardinalitiesObey, SynchWakes DEF EqualInv, NoSignalLost, NoLostWakeup, WaitAtomic
<1> QED
  BY <1>1, SynchInvariant, PTL

\* Threads of equal priority are always where the scheduler or a V will find
\* them: every variable has its type, the ready list is exact and sorted, and a
\* blocked thread is in exactly one queue or has finished.
THEOREM NobodyMislaid == Spec => [](EqualPriorities => SchedulerSound /\ ThreadsPlaced)
<1>1. EqualInv => (EqualPriorities => SchedulerSound /\ ThreadsPlaced)
  BY CardinalitiesObey, SynchSound DEF EqualInv
<1> QED
  BY <1>1, SynchInvariant, PTL

\* Among threads of equal priority one thread at most is between Acquire and
\* Release of a lock, and OwnerId names it, until an ASSERT fails (which Release
\* by a thread that is not the owner does).
THEOREM LocksExclude == Spec => [](EqualPriorities /\ outcome # "aborted" => LockExclusion)
<1>1. EqualInv => (EqualPriorities /\ outcome # "aborted" => LockExclusion)
  BY SynchLocks DEF EqualInv
<1> QED
  BY <1>1, SynchInvariant, PTL

\* When Interrupt::Idle halts the machine for lack of work, no thread of equal
\* priority sleeps in P on a semaphore that has a unit; with unequal priorities
\* one may.
THEOREM HaltsRightly == Spec => [](EqualPriorities => HaltsOnlyWhenStuck)
<1>1. EqualInv /\ EqualHalts => (EqualPriorities => HaltsOnlyWhenStuck)
  BY CardinalitiesObey, HaltStuck DEF EqualInv, EqualHalts
<1> QED
  BY <1>1, SynchInvariant, PTL
=============================================================================
