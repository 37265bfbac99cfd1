---------------------------- MODULE SynchProofs ----------------------------
(***************************************************************************)
(* Threads of equal priority, whatever programs they run: the scheduler    *)
(* loses nobody, no V or Signal is lost, and a lock excludes.              *)
(***************************************************************************)
EXTENDS Synch, NachosListProofs

\* A leaf that names no prover is first-order reasoning, which Zenon does.
USE Zenon

\* -------------------------- the shapes of a stack ---------------------------

\* The frame f called from the stack u.
Cons(f, u) == <<f>> \o u

\* What a thread goes on with after Sleep.
Asleep ==
  {Cons(<<"P", x>>, <<>>) : x \in Sems}
  \cup {Cons(<<"P", l>>, Cons(<<"SetOwner", l>>, <<>>)) : l \in Locks}
  \cup {Cons(<<"Acquire", l>>, <<>>) : l \in Locks}
  \cup {Cons(Finished, <<>>)}

\* A thread that is not dispatched gave the processor away in Sleep or in
\* Yield, or has never run.
Parked == Asleep \cup {<<>>, Cons(Start, <<>>), Cons(Return, <<>>)}

Owns == {Cons(<<"SetOwner", l>>, <<>>) : l \in Locks}
Waits == {Cons(<<"WaitSleep", c>>, <<>>) : c \in Conds}
Dozes == {Cons(Sleep, u) : u \in Asleep}
Idling == {Cons(Idled, u) : u \in Dozes}
Handled == {Cons(EndHandler, u) : u \in {<<>>} \cup Idling}

Vs == {"V", "VIncrement"} \X (Sems \cup Locks)

\* The frames that are called from code with interrupts on, or are what is left
\* of such a call.
Lone ==
  KernelCalls \cup Vs \cup {Start, Return, EndHandler, <<"Finish", NoThread>>}
  \cup ({"SetOwner"} \X Locks) \cup ({"WaitSleep"} \X Conds)

\* f may be called from the stack u.
Under(f, u) ==
  \/ f \in Lone /\ u = <<>>
  \/ \E l \in Locks : f = <<"P", l>> /\ u = Cons(<<"SetOwner", l>>, <<>>)
  \/ f \in {"Release"} \X Locks /\ u \in Waits
  \/ f \in Vs /\ u \in Waits \cup Handled
  \/ f = Return /\ u \in Owns \cup Waits \cup Handled
  \/ f \in {Idle, Idled} /\ u \in Dozes
  \/ f = Sleep /\ u \in Asleep
  \/ f = EndHandler /\ u \in Idling

\* A stack of the thread that runs.
IsStack(s) == s = <<>> \/ (s = Cons(s[1], Tail(s)) /\ Under(s[1], Tail(s)))

\* ------------------------------ facts of shapes -----------------------------

\* s is a sequence, of whatever items.
IsSeq(s) == s \in Seq(Items(s))

\* Frames are pairs.
LEMMA FrameFacts ==
  \A a, b, x, y : (<<a, x>> = <<b, y>> => a = b /\ x = y) /\ <<a, x>>[1] = a /\ <<a, x>>[2] = x
BY SMT

LEMMA ConsFacts ==
  ASSUME NEW f, NEW u, IsSeq(u)
  PROVE  /\ IsSeq(Cons(f, u)) /\ Cons(f, u) # <<>> /\ Cons(f, u)[1] = f
         /\ Tail(Cons(f, u)) = u /\ Items(Cons(f, u)) = {f} \cup Items(u)
         /\ Len(Cons(f, u)) = 1 + Len(u) /\ Len(u) \in Nat
<1> DEFINE T == {f} \cup Items(u)
<1>1. u \in Seq(T) /\ f \in T /\ Len(u) \in Nat /\ DOMAIN u = 1 .. Len(u)
  BY SMT DEF IsSeq
<1> DEFINE s == <<f>> \o u
<1>2. Items(u) = {u[i] : i \in 1 .. Len(u)}
  BY <1>1 DEF Items
<1>t. T = {f} \cup Items(u)
  OBVIOUS
<1> HIDE DEF T
<1>3. /\ s \in Seq(T) /\ Len(s) = 1 + Len(u) /\ s[1] = f
      /\ \A i \in 1 .. Len(u) : s[i + 1] = u[i]
  BY <1>1, SMT
<1>4. Tail(s) = u
  BY <1>1, SMT
<1> HIDE DEF s
<1>5. DOMAIN s = 1 .. Len(u) + 1 /\ s # <<>>
  BY <1>1, <1>3, SMT
<1>6. Items(s) = T
  <2>1. ASSUME NEW x \in T PROVE x \in Items(s)
    <3>1. CASE x = f
      BY <1>1, <1>3, <1>5, <3>1, SMT DEF Items
    <3>2. CASE x \in Items(u)
      <4>1. PICK i \in 1 .. Len(u) : x = u[i]
        BY <1>2, <3>2
      <4>2. i + 1 \in DOMAIN s /\ s[i + 1] = x
        BY <1>1, <1>3, <1>5, <4>1, SMT
      <4> QED
        BY <4>2 DEF Items
    <3> QED
      BY <1>t, <2>1, <3>1, <3>2
  <2>2. Items(s) \subseteq T
    BY <1>3, SMT DEF Items
  <2> QED
    BY <2>1, <2>2
<1>7. IsSeq(s)
  BY <1>3, <1>6 DEF IsSeq
<1> QED
  BY <1>1, <1>3, <1>4, <1>5, <1>6, <1>7, <1>t DEF Cons, s

LEMMA EmptyFacts == IsSeq(<<>>) /\ Items(<<>>) = {}
BY SMT DEF IsSeq, Items

LEMMA ItemsOfOne ==
  ASSUME NEW f
  PROVE  IsSeq(Cons(f, <<>>)) /\ Items(Cons(f, <<>>)) = {f} /\ Cons(f, <<>>)[1] = f
BY ConsFacts, EmptyFacts, SMT

\* The frames whose thread is about to sleep, asleep or woken.
Reasons == {"P", "Acquire", "Finished"}

OneReason(u) == \A f, g \in Items(u) : f[1] \in Reasons /\ g[1] \in Reasons => f = g

Labelled(u, labels) == IsSeq(u) /\ \A f \in Items(u) : f[1] \in labels

LEMMA AsleepFacts ==
  ASSUME NEW u \in Asleep
  PROVE  Labelled(u, {"P", "SetOwner", "Acquire", "Finished"}) /\ OneReason(u)
<1>1. ASSUME NEW f, u = Cons(f, <<>>), f[1] \in {"P", "Acquire", "Finished"}
      PROVE  Labelled(u, {"P", "SetOwner", "Acquire", "Finished"}) /\ OneReason(u)
  BY <1>1, ConsFacts, EmptyFacts, SMT DEF Labelled, OneReason
<1>2. ASSUME NEW l \in Locks, u = Cons(<<"P", l>>, Cons(<<"SetOwner", l>>, <<>>))
      PROVE  Labelled(u, {"P", "SetOwner", "Acquire", "Finished"}) /\ OneReason(u)
  <2>1. IsSeq(u) /\ Items(u) = {<<"P", l>>, <<"SetOwner", l>>}
    <3> DEFINE v == Cons(<<"SetOwner", l>>, <<>>)
    <3>1. IsSeq(<<>>) /\ Items(<<>>) = {}
      BY EmptyFacts
    <3>2. IsSeq(v) /\ Items(v) = {<<"SetOwner", l>>} \cup Items(<<>>)
      BY <3>1, ConsFacts
    <3>3. IsSeq(u) /\ Items(u) = {<<"P", l>>} \cup Items(v)
      BY <1>2, <3>2, ConsFacts
    <3> QED
      BY <3>1, <3>2, <3>3
  <2> QED
    BY <2>1, SMT DEF Labelled, OneReason, Reasons
<1> QED
  BY <1>1, <1>2 DEF Asleep, Finished

LEMMA DozeFacts ==
  ASSUME NEW u \in Dozes
  PROVE  /\ Labelled(u, {"P", "SetOwner", "Acquire", "Finished", "Sleep"}) /\ OneReason(u)
         /\ Sleep \in Items(u)
<1>1. PICK v \in Asleep : u = Cons(Sleep, v)
  BY DEF Dozes
<1>2. Labelled(v, {"P", "SetOwner", "Acquire", "Finished"}) /\ OneReason(v)
  BY AsleepFacts
<1>3. IsSeq(u) /\ Items(u) = {Sleep} \cup Items(v)
  BY <1>1, <1>2, ConsFacts DEF Labelled
<1> QED
  BY <1>2, <1>3, SMT DEF Labelled, OneReason, Sleep, Reasons

LEMMA IdlingFacts ==
  ASSUME NEW u \in Idling
  PROVE  /\ Labelled(u, {"P", "SetOwner", "Acquire", "Finished", "Sleep", "Idled"})
         /\ OneReason(u) /\ Sleep \in Items(u)
<1>1. PICK v \in Dozes : u = Cons(Idled, v)
  BY DEF Idling
<1>2. /\ Labelled(v, {"P", "SetOwner", "Acquire", "Finished", "Sleep"}) /\ OneReason(v)
      /\ Sleep \in Items(v)
  BY DozeFacts
<1>3. IsSeq(u) /\ Items(u) = {Idled} \cup Items(v)
  BY <1>1, <1>2, ConsFacts DEF Labelled
<1> QED
  BY <1>2, <1>3, SMT DEF Labelled, OneReason, Idled, Reasons

LEMMA HandledFacts ==
  ASSUME NEW u \in Handled
  PROVE  /\ Labelled(u, {"P", "SetOwner", "Acquire", "Finished", "Sleep", "Idled", "EndHandler"})
         /\ OneReason(u) /\ (Finished \in Items(u) => Sleep \in Items(u))
<1>1. PICK v \in {<<>>} \cup Idling : u = Cons(EndHandler, v)
  BY DEF Handled
<1>2. /\ Labelled(v, {"P", "SetOwner", "Acquire", "Finished", "Sleep", "Idled"}) /\ OneReason(v)
      /\ (Finished \in Items(v) => Sleep \in Items(v))
  BY IdlingFacts, EmptyFacts DEF Labelled, OneReason
<1>3. IsSeq(u) /\ Items(u) = {EndHandler} \cup Items(v)
  BY <1>1, <1>2, ConsFacts DEF Labelled
<1> QED
  BY <1>2, <1>3, SMT DEF Labelled, OneReason, EndHandler, Reasons, Finished

LEMMA LoneTailFacts ==
  ASSUME NEW u \in Owns \cup Waits
  PROVE  Labelled(u, {"SetOwner", "WaitSleep"})
<1>1. PICK f : u = Cons(f, <<>>) /\ f[1] \in {"SetOwner", "WaitSleep"}
  <2>1. CASE u \in Owns
    <3>1. PICK l \in Locks : u = Cons(<<"SetOwner", l>>, <<>>)
      BY <2>1 DEF Owns
    <3> QED
      BY <3>1, FrameFacts
  <2>2. CASE u \in Waits
    <3>1. PICK c \in Conds : u = Cons(<<"WaitSleep", c>>, <<>>)
      BY <2>2 DEF Waits
    <3> QED
      BY <3>1, FrameFacts
  <2> QED
    BY <2>1, <2>2
<1> QED
  BY <1>1, ConsFacts, EmptyFacts, SMT DEF Labelled

\* Only the innermost call is a V, a stack names one reason to sleep, and a
\* finished thread is in Sleep.
Sound(f, u) ==
  /\ IsSeq(u) /\ \A g \in Items(u) : g[1] \notin {"V", "VIncrement"}
  /\ OneReason(Cons(f, u))
  /\ Finished \in Items(Cons(f, u)) => Sleep \in Items(Cons(f, u))

LEMMA UnderFacts ==
  ASSUME NEW f, NEW u, Under(f, u)
  PROVE  Sound(f, u)
<1>1. ASSUME IsSeq(u), \A g \in Items(u) : g[1] \notin {"V", "VIncrement"},
             OneReason(u), f[1] \notin Reasons \/ \A g \in Items(u) : g[1] \notin Reasons,
             \/ f # Finished /\ Finished \notin Items(u)
             \/ f = Sleep \/ Sleep \in Items(u)
      PROVE  Sound(f, u)
  <2>1. Items(Cons(f, u)) = {f} \cup Items(u)
    BY <1>1, ConsFacts
  <2> QED
    BY <1>1, <2>1 DEF OneReason, Sound
<1>2. CASE f \in Lone /\ u = <<>>
  <2>1. f[1] # "Finished"
    BY <1>2, FrameFacts DEF Lone, KernelCalls, Vs, Start, Return, EndHandler
  <2> QED
    BY <1>1, <1>2, <2>1, EmptyFacts, FrameFacts DEF OneReason, Finished
<1>3. ASSUME NEW l \in Locks, f = <<"P", l>>, u = Cons(<<"SetOwner", l>>, <<>>)
      PROVE  Sound(f, u)
  <2>1. Labelled(u, {"SetOwner", "WaitSleep"})
    BY <1>3, LoneTailFacts DEF Owns
  <2> QED
    BY <1>1, <1>3, <2>1 DEF OneReason, Labelled, Finished, Reasons
<1>4. CASE f \in ({"Release"} \X Locks) \cup Vs \cup {Return} /\ u \in Owns \cup Waits
  <2>1. Labelled(u, {"SetOwner", "WaitSleep"}) /\ f[1] \notin Reasons
    BY <1>4, LoneTailFacts, FrameFacts DEF Vs, Return, Reasons
  <2> QED
    BY <1>1, <2>1, FrameFacts DEF OneReason, Labelled, Finished, Reasons
<1>5. CASE f \in Vs \cup {Return} /\ u \in Handled
  <2>1. f[1] \notin Reasons /\ f # Finished
    BY <1>5, FrameFacts DEF Vs, Return, Reasons, Finished
  <2> QED
    BY <1>1, <1>5, <2>1, HandledFacts DEF Labelled
<1>6. CASE f \in {Idle, Idled} /\ u \in Dozes
  BY <1>1, <1>6, DozeFacts, SMT DEF Labelled, Idle, Idled, Reasons
<1>7. CASE f = Sleep /\ u \in Asleep
  BY <1>1, <1>7, AsleepFacts DEF Labelled, Sleep, Reasons
<1>8. CASE f = EndHandler /\ u \in Idling
  BY <1>1, <1>8, IdlingFacts DEF Labelled, EndHandler, Reasons
<1> QED
  BY <1>2, <1>3, <1>4, <1>5, <1>6, <1>7, <1>8 DEF Under

LEMMA StackFacts ==
  ASSUME NEW s, IsStack(s)
  PROVE  IsSeq(s) /\ OneReason(s) /\ (Finished \in Items(s) => Sleep \in Items(s))
<1>1. CASE s = <<>>
  BY <1>1, EmptyFacts DEF OneReason
<1>2. CASE s = Cons(s[1], Tail(s)) /\ Under(s[1], Tail(s))
  <2>1. Sound(s[1], Tail(s))
    BY <1>2, UnderFacts
  <2> QED
    BY <1>2, <2>1, ConsFacts, SMT DEF Sound
<1> QED
  BY <1>1, <1>2 DEF IsStack

LEMMA Called ==
  ASSUME NEW f, NEW u, Under(f, u)
  PROVE  /\ IsStack(Cons(f, u)) /\ Cons(f, u) # <<>> /\ Cons(f, u)[1] = f
         /\ Items(Cons(f, u)) = {f} \cup Items(u) /\ IsSeq(u)
<1>1. IsSeq(u)
  BY UnderFacts DEF Sound
<1> QED
  BY <1>1, ConsFacts DEF IsStack

WellParked(u) ==
  /\ Labelled(u, {"P", "SetOwner", "Acquire", "Finished", "Start", "Return"}) /\ OneReason(u)
  /\ Finished \notin Items(u) => IsStack(u)
  /\ u # <<>> => u[1] \in Items(u)

LEMMA ParkedFacts ==
  ASSUME NEW u \in Parked
  PROVE  WellParked(u)
<1>1. CASE u = <<>>
  BY <1>1, EmptyFacts DEF Labelled, OneReason, IsStack, WellParked
<1>2. ASSUME NEW f, u = Cons(f, <<>>), f \in {Start, Return} \cup KernelCalls,
             f[1] \in {"P", "Acquire", "Start", "Return"}
      PROVE  WellParked(u)
  <2>1. Under(f, <<>>)
    BY <1>2 DEF Under, Lone
  <2>2. IsStack(u) /\ u[1] = f /\ Items(u) = {f} /\ IsSeq(u)
    BY <1>2, <2>1, Called, EmptyFacts, StackFacts, SMT
  <2> QED
    BY <1>2, <2>2 DEF WellParked, Labelled, OneReason
<1>3. ASSUME NEW l \in Locks, u = Cons(<<"P", l>>, Cons(<<"SetOwner", l>>, <<>>))
      PROVE  WellParked(u)
  <2>1. Under(<<"P", l>>, Cons(<<"SetOwner", l>>, <<>>))
    BY <1>3 DEF Under
  <2>2. IsStack(u) /\ u[1] = <<"P", l>> /\ <<"P", l>> \in Items(u)
    BY <1>3, <2>1, Called
  <2>3. Labelled(u, {"P", "SetOwner", "Acquire", "Finished"}) /\ OneReason(u)
    BY <1>3, AsleepFacts DEF Asleep
  <2> QED
    BY <2>2, <2>3 DEF WellParked, Labelled
<1>4. CASE u = Cons(Finished, <<>>)
  BY <1>4, ConsFacts, EmptyFacts, SMT DEF WellParked, Labelled, OneReason, Finished
<1>5. ASSUME NEW l \in Locks, u = Cons(<<"Acquire", l>>, <<>>)
      PROVE  WellParked(u)
  BY <1>2, <1>5 DEF KernelCalls
<1>6. ASSUME NEW x \in Sems, u = Cons(<<"P", x>>, <<>>)
      PROVE  WellParked(u)
  BY <1>2, <1>6 DEF KernelCalls
<1>7. CASE u \in {Cons(Start, <<>>), Cons(Return, <<>>)}
  BY <1>2, <1>7 DEF Start, Return
<1> QED
  BY <1>1, <1>3, <1>4, <1>5, <1>6, <1>7 DEF Parked, Asleep

LEMMA PairOn ==
  ASSUME NEW u, IsSeq(u), NEW g, NEW h
  PROVE  <<g, h>> \o u = <<g>> \o (<<h>> \o u) /\ <<g>> \o <<h>> = <<g, h>>
<1> DEFINE T == {g, h} \cup Items(u)
<1>1. u \in Seq(T) /\ g \in T /\ h \in T
  BY SMT DEF IsSeq
<1> DEFINE one == <<g, h>> \o u
           two == <<g>> \o (<<h>> \o u)
           n == Len(u) + 2
<1> HIDE DEF T
<1>2. one \in Seq(T) /\ two \in Seq(T) /\ Len(one) = n /\ Len(two) = n /\ n \in Nat
  BY <1>1, SMT
<1>3. one[1] = g /\ one[2] = h /\ \A i \in 3 .. n : one[i] = u[i - 2]
  BY <1>1, SMT
<1>4. two[1] = g /\ two[2] = h /\ \A i \in 3 .. n : two[i] = u[i - 2]
  BY <1>1, SMT
<1>5. one = two
  <2> HIDE DEF one, two, n
  <2>1. \A i \in 1 .. n : one[i] = two[i]
    BY <1>2, <1>3, <1>4, SMT
  <2> QED
    BY <1>2, <2>1, SMT
<1>6. <<g>> \o <<h>> = <<g, h>>
  <2> DEFINE both == <<g>> \o <<h>>
             pair == <<g, h>>
  <2>1. /\ both \in Seq(T) /\ Len(both) = 2 /\ both[1] = g /\ both[2] = h
        /\ pair \in Seq(T) /\ Len(pair) = 2 /\ pair[1] = g /\ pair[2] = h
    BY <1>1, SMT
  <2> HIDE DEF both, pair
  <2>2. \A i \in 1 .. 2 : both[i] = pair[i]
    BY <2>1, SMT
  <2>3. both = pair
    BY <2>1, <2>2, SMT
  <2> QED
    BY <2>3 DEF both, pair
<1> QED
  BY <1>5, <1>6

\* The current thread's stack is s.
WithStack(s) == [stack EXCEPT ![currentThread] = s]

LEMMA ReplaceIs ==
  ASSUME NEW f, NEW u, IsSeq(u), stack[currentThread] = Cons(f, u)
  PROVE  /\ Replace(<<>>) = WithStack(u)
         /\ \A g : Replace(<<g>>) = WithStack(Cons(g, u))
         /\ \A g, h : Replace(<<g, h>>) = WithStack(Cons(g, Cons(h, u)))
         /\ \A g, h : Replace(<<g>> \o <<h>>) = WithStack(Cons(g, Cons(h, u)))
<1>1. Tail(Cons(f, u)) = u
  BY ConsFacts
<1>2. <<>> \o u = u
  BY SMT DEF IsSeq
<1>3. ASSUME NEW g, NEW h PROVE <<g, h>> \o u = <<g>> \o (<<h>> \o u) /\ <<g>> \o <<h>> = <<g, h>>
  BY PairOn
<1> QED
  BY <1>1, <1>2, <1>3 DEF Replace, WithStack, Cons

\* ------------------------- the inductive invariant -------------------------

Statuses == {"NONE", "READY", "RUNNING", "BLOCKED", "DELETED"}

\* Lists are lists of threads, each thread once, and the ready list is exact.
Listed(ready, stat, q, w) ==
  /\ stat \in [Threads -> Statuses]
  /\ ready \in Seq(Threads) /\ NoDuplicates(ready)
  /\ Items(ready) = {t \in Threads : stat[t] = "READY"}
  /\ q \in [Sems \cup Locks -> Seq(Threads)] /\ \A x \in Sems \cup Locks : NoDuplicates(q[x])
  /\ w \in [Conds -> Seq(Threads)] /\ \A c \in Conds : NoDuplicates(w[c])

\* Who is in a queue sleeps in P, and who waits on a condition in Wait.
QueuesPlaced(stat, stk, q) ==
  \A x \in Sems \cup Locks : \A t \in Items(q[x]) :
    t \in Threads /\ stat[t] = "BLOCKED" /\ <<"P", x>> \in Items(stk[t])

WaitersPlaced(stat, stk, w) ==
  \A c \in Conds : \A t \in Items(w[c]) :
    /\ t \in Threads /\ stat[t] = "BLOCKED" /\ <<"Acquire", LockOf[c]>> \in Items(stk[t])
    /\ \A d \in Conds : t \in Items(w[d]) => d = c

\* A blocked thread is in a queue or has finished.
ThreadPlaced(t, stat, stk, q, w) ==
  /\ Finished \in Items(stk[t]) => stat[t] \in {"BLOCKED", "DELETED"}
  /\ stat[t] = "BLOCKED" => \/ Finished \in Items(stk[t])
                            \/ \E x \in Sems \cup Locks : t \in Items(q[x])
                            \/ \E c \in Conds : t \in Items(w[c])
  /\ stat[t] = "NONE" => stk[t] = <<>>

\* The thread to be destroyed has finished.
CarcassPlaced(stat, stk, dead) ==
  dead # NoThread => /\ dead \in Threads /\ stat[dead] = "BLOCKED"
                     /\ Finished \in Items(stk[dead])

Placed(stat, stk, q, w, dead) ==
  /\ QueuesPlaced(stat, stk, q) /\ WaitersPlaced(stat, stk, w)
  /\ \A t \in Threads : ThreadPlaced(t, stat, stk, q, w)
  /\ CarcassPlaced(stat, stk, dead)

\* Only thread c executes, and it is blocked or just woken if it is in Sleep.
Executes(c, stat, stk) ==
  /\ c \in Threads /\ stk = [t \in Threads |-> stk[t]] /\ IsStack(stk[c])
  /\ \A t \in Threads \ {c} : stk[t] \in Parked /\ stat[t] # "RUNNING"
  /\ IF Sleep \in Items(stk[c]) THEN stat[c] \in {"BLOCKED", "READY"} ELSE stat[c] = "RUNNING"

OtherTypes ==
  /\ inHandler \in BOOLEAN /\ outcome \in {"running", "halted", "aborted"}
  /\ value \in [Sems \cup Locks -> Nat] /\ owner \in [Locks -> Threads \cup {NoThread}]
  /\ active \in [Devices -> BOOLEAN]
  /\ holds \in [Locks -> SUBSET Threads]

\* The unit a V is about to add counts, too; s is the stack of the thread that
\* executes.
Coming(x, s) == IF s # <<>> /\ s[1] = <<"VIncrement", x>> THEN 1 ELSE 0

Transit(x, stk, q) == {t \in Threads : <<"P", x>> \in Items(stk[t]) /\ t \notin Items(q[x])}

\* No V is lost, in the middle of one either.
WokenUp(x, val, stk, q, s) ==
  q[x] # <<>> => Cardinality(Transit(x, stk, q)) >= val[x] + Coming(x, s)

\* The thread with stack s has the unit of lock l and is about to hold the lock,
\* or to give the unit back.
Enters(l, s) == <<"SetOwner", l>> \in Items(s) /\ <<"P", l>> \notin Items(s)
Returns(l, s) == <<"V", l>> \in Items(s) \/ <<"VIncrement", l>> \in Items(s)

HasUnit(t, l, stk, held) == t \in held[l] \/ Enters(l, stk[t]) \/ Returns(l, stk[t])

\* A lock has one unit, which the semaphore has or one thread.
OneUnit(l, val, stk, own, held) ==
  /\ held[l] = {own[l]} \ {NoThread}
  /\ \A t \in Threads : Returns(l, stk[t]) => t \notin held[l]
  /\ \/ val[l] = 1 /\ \A t \in Threads : ~HasUnit(t, l, stk, held)
     \/ /\ val[l] = 0
        /\ \E t \in Threads : /\ HasUnit(t, l, stk, held)
                              /\ \A u \in Threads : HasUnit(u, l, stk, held) => u = t

Core ==
  /\ Listed(readyList, status, queue, waiting)
  /\ Placed(status, stack, queue, waiting, threadToBeDestroyed)
  /\ Executes(currentThread, status, stack)
  /\ \A x \in Sems \cup Locks : WokenUp(x, value, stack, queue, stack[currentThread])
  /\ outcome # "aborted" => \A l \in Locks : OneUnit(l, value, stack, owner, holds)

SynchInv == priority \in [Threads -> Int] /\ OtherTypes /\ Core

\* ------------------------------ kinds of steps ------------------------------

LEMMA Single == ASSUME NEW f PROVE <<f>> = Cons(f, <<>>)
BY SMT DEF Cons

LEMMA LabelOf == Return[1] = "Return" /\ \A label, x : <<label, x>>[1] = label
BY DEF Return

LEMMA OtherLabel ==
  ASSUME NEW f, NEW label, f[1] # label
  PROVE  \A x : f # <<label, x>>
BY FrameFacts

\* A unit comes only from a thread in the middle of V.
LEMMA NoComing ==
  ASSUME NEW s, s # <<>> => s[1][1] # "VIncrement"
  PROVE  \A x : Coming(x, s) = 0
BY OtherLabel DEF Coming

LEMMA ComesNoMore ==
  ASSUME NEW n \in Nat, NEW x, NEW s, NEW r, Coming(x, s) = 0
  PROVE  n + Coming(x, s) <= n + Coming(x, r)
BY SMT DEF Coming

LEMMA NothingOwed ==
  ASSUME NEW n \in Nat, NEW v, v = 0, NEW k, k = 0
  PROVE  n >= v + k
BY SMT

\* The current thread's stack becomes s instead of r: it stays in Sleep, for the
\* same reason, or outside.
SameSleep(s, r) ==
  /\ Sleep \in Items(s) <=> Sleep \in Items(r)
  /\ Sleep \in Items(s) =>
       \A f : f[1] \in Reasons => (f \in Items(s) <=> f \in Items(r))

LEMMA SleepKept ==
  ASSUME NEW s, NEW r, \A g : g[1] \in Reasons \cup {"Sleep"} => (g \in Items(s) <=> g \in Items(r))
  PROVE  SameSleep(s, r)
<1>1. Sleep[1] = "Sleep"
  BY DEF Sleep
<1> QED
  BY <1>1 DEF SameSleep

LEMMA LocalStep ==
  ASSUME NEW c, NEW stat, NEW stk, NEW q, NEW w, NEW dead,
         Placed(stat, stk, q, w, dead), Executes(c, stat, stk),
         NEW s, IsStack(s), SameSleep(s, stk[c])
  PROVE  /\ Placed(stat, [stk EXCEPT ![c] = s], q, w, dead)
         /\ Executes(c, stat, [stk EXCEPT ![c] = s])
<1> DEFINE new == [stk EXCEPT ![c] = s]
<1>1. c \in Threads /\ stk = [t \in Threads |-> stk[t]]
  BY DEF Executes
<1>2. new = [t \in Threads |-> new[t]] /\ new[c] = s /\ \A t \in Threads \ {c} : new[t] = stk[t]
  BY <1>1
<1> HIDE DEF new
<1>3. Finished \in Items(s) => Sleep \in Items(s)
  BY StackFacts
<1>4. Executes(c, stat, new)
  BY <1>1, <1>2 DEF Executes, SameSleep
<1>5. \/ /\ stat[c] = "RUNNING" /\ Finished \notin Items(s)
      \/ /\ stat[c] \in {"BLOCKED", "READY"}
         /\ \A f : f[1] \in Reasons => (f \in Items(s) <=> f \in Items(stk[c]))
  BY <1>3 DEF Executes, SameSleep
<1>6. Placed(stat, new, q, w, dead)
  <2>1. QueuesPlaced(stat, new, q)
    <3> SUFFICES ASSUME NEW x \in Sems \cup Locks, NEW t \in Items(q[x])
                 PROVE  t \in Threads /\ stat[t] = "BLOCKED" /\ <<"P", x>> \in Items(new[t])
      BY DEF QueuesPlaced
    <3>1. t \in Threads /\ stat[t] = "BLOCKED" /\ <<"P", x>> \in Items(stk[t])
      BY DEF Placed, QueuesPlaced
    <3> QED
      BY <1>2, <1>5, <3>1, SMT DEF Reasons
  <2>2. WaitersPlaced(stat, new, w)
    BY <1>1, <1>2, <1>5, SMT DEF Placed, WaitersPlaced, Reasons
  <2>3. ASSUME NEW t \in Threads PROVE ThreadPlaced(t, stat, new, q, w)
    BY <1>1, <1>2, <1>5, SMT DEF Placed, ThreadPlaced, Reasons, Finished
  <2>4. CarcassPlaced(stat, new, dead)
    BY <1>1, <1>2, <1>5, SMT DEF Placed, CarcassPlaced, Reasons, Finished
  <2> QED
    BY <2>1, <2>2, <2>3, <2>4 DEF Placed
<1> QED
  BY <1>4, <1>6 DEF new

\* SortedInsert of a thread that is not on the list.
LEMMA ReadyGrows ==
  ASSUME NatWellOrdered, NEW list \in Seq(Threads), NoDuplicates(list), NEW t \in Threads,
         t \notin Items(list), NEW key \in [Threads -> Int]
  PROVE  /\ SortedInsert(list, t, key) \in Seq(Threads) /\ NoDuplicates(SortedInsert(list, t, key))
         /\ Items(SortedInsert(list, t, key)) = Items(list) \cup {t}
BY SortedInsertItems, SortedInsertOrder, SMT

\* Thread h leaves the queues and the conditions.
Leaves(h, q, q1, w, w1) ==
  /\ q1 \in [Sems \cup Locks -> Seq(Threads)] /\ w1 \in [Conds -> Seq(Threads)]
  /\ \A x \in Sems \cup Locks : NoDuplicates(q1[x]) /\ Items(q1[x]) = Items(q[x]) \ {h}
  /\ \A d \in Conds : NoDuplicates(w1[d]) /\ Items(w1[d]) = Items(w[d]) \ {h}

\* A blocked thread leaves its queue and is put on the ready list (ReadyToRun
\* in V, Signal and Broadcast, among equals).
LEMMA WakeStep ==
  ASSUME NatWellOrdered, NEW key \in [Threads -> Int],
         NEW c, NEW ready, NEW stat, NEW stk, NEW q, NEW w, NEW dead,
         Listed(ready, stat, q, w), Placed(stat, stk, q, w, dead), Executes(c, stat, stk),
         NEW h \in Threads, stat[h] = "BLOCKED", Finished \notin Items(stk[h]), NEW q1, NEW w1,
         Leaves(h, q, q1, w, w1)
  PROVE  /\ Listed(SortedInsert(ready, h, key), [stat EXCEPT ![h] = "READY"], q1, w1)
         /\ Placed([stat EXCEPT ![h] = "READY"], stk, q1, w1, dead)
         /\ Executes(c, [stat EXCEPT ![h] = "READY"], stk)
<1> DEFINE new == [stat EXCEPT ![h] = "READY"]
           list == SortedInsert(ready, h, key)
<1>1. /\ stat \in [Threads -> Statuses] /\ ready \in Seq(Threads) /\ NoDuplicates(ready)
      /\ Items(ready) = {t \in Threads : stat[t] = "READY"}
  BY DEF Listed
<1>2. /\ new \in [Threads -> Statuses] /\ new[h] = "READY"
      /\ \A t \in Threads \ {h} : new[t] = stat[t]
  BY <1>1 DEF Statuses
<1>3. h \notin Items(ready)
  BY <1>1
<1>4. list \in Seq(Threads) /\ NoDuplicates(list) /\ Items(list) = Items(ready) \cup {h}
  BY <1>1, <1>3, ReadyGrows
<1> HIDE DEF new, list
<1>5. Listed(list, new, q1, w1)
  BY <1>1, <1>2, <1>4, SMT DEF Listed, Leaves
<1>6. Executes(c, new, stk)
  BY <1>2 DEF Executes
<1>7. QueuesPlaced(new, stk, q1)
  <2> SUFFICES ASSUME NEW x \in Sems \cup Locks, NEW t \in Items(q1[x])
               PROVE  t \in Threads /\ new[t] = "BLOCKED" /\ <<"P", x>> \in Items(stk[t])
    BY DEF QueuesPlaced
  <2>1. t \in Items(q[x]) /\ t # h
    BY DEF Leaves
  <2>2. t \in Threads /\ stat[t] = "BLOCKED" /\ <<"P", x>> \in Items(stk[t])
    BY <2>1 DEF Placed, QueuesPlaced
  <2> QED
    BY <1>2, <2>1, <2>2
<1>8. WaitersPlaced(new, stk, w1)
  <2> SUFFICES ASSUME NEW d \in Conds, NEW t \in Items(w1[d])
               PROVE  /\ t \in Threads /\ new[t] = "BLOCKED"
                      /\ <<"Acquire", LockOf[d]>> \in Items(stk[t])
                      /\ \A e \in Conds : t \in Items(w1[e]) => e = d
    BY DEF WaitersPlaced
  <2>1. t \in Items(w[d]) /\ t # h /\ \A e \in Conds : t \in Items(w1[e]) => t \in Items(w[e])
    BY DEF Leaves
  <2>2. /\ t \in Threads /\ stat[t] = "BLOCKED" /\ <<"Acquire", LockOf[d]>> \in Items(stk[t])
        /\ \A e \in Conds : t \in Items(w[e]) => e = d
    BY <2>1 DEF Placed, WaitersPlaced
  <2> QED
    BY <1>2, <2>1, <2>2
<1>9. ASSUME NEW t \in Threads PROVE ThreadPlaced(t, new, stk, q1, w1)
  <2>1. ThreadPlaced(t, stat, stk, q, w)
    BY DEF Placed
  <2>2. CASE t = h
    BY <1>2, <2>2 DEF ThreadPlaced
  <2>3. CASE t # h
    BY <1>2, <2>1, <2>3 DEF ThreadPlaced, Leaves
  <2> QED
    BY <2>2, <2>3
<1>10. CarcassPlaced(new, stk, dead)
  BY <1>2 DEF Placed, CarcassPlaced
<1> QED
  BY <1>5, <1>6, <1>7, <1>8, <1>9, <1>10 DEF Placed, new, list

\* Thread c goes to sleep with u left to do: it joins the queues q, giving q1, of
\* the semaphores it is in P of, or the waiting threads w, giving w1, of one
\* condition.
JoinsQueue(c, u, q, q1) ==
  /\ q1 \in [Sems \cup Locks -> Seq(Threads)]
  /\ \A x \in Sems \cup Locks :
       /\ NoDuplicates(q1[x]) /\ Items(q[x]) \subseteq Items(q1[x])
       /\ \A t \in Items(q1[x]) : t \in Items(q[x]) \/ (t = c /\ <<"P", x>> \in Items(u))

JoinsWaiting(c, u, w, w1) ==
  /\ w1 \in [Conds -> Seq(Threads)]
  /\ \A d \in Conds :
       /\ NoDuplicates(w1[d]) /\ Items(w[d]) \subseteq Items(w1[d])
       /\ \A t \in Items(w1[d]) :
            \/ t \in Items(w[d]) /\ t # c
            \/ /\ t = c /\ <<"Acquire", LockOf[d]>> \in Items(u)
               /\ \A e \in Conds : c \in Items(w1[e]) => e = d

HasReason(c, u, q1, w1, dead, dead1) ==
  /\ \/ Finished \in Items(u) \/ \E x \in Sems \cup Locks : c \in Items(q1[x])
     \/ \E d \in Conds : c \in Items(w1[d])
  /\ dead1 = dead \/ (dead1 = c /\ Finished \in Items(u))

\* The current thread blocks: it joins the queue of what it waits for, or has
\* finished, and is in Sleep.
LEMMA BlockStep ==
  ASSUME NEW c, NEW ready, NEW stat, NEW stk, NEW q, NEW w, NEW dead,
         Listed(ready, stat, q, w), Placed(stat, stk, q, w, dead), Executes(c, stat, stk),
         stat[c] = "RUNNING", NEW u \in Asleep, NEW q1, NEW w1, NEW dead1,
         JoinsQueue(c, u, q, q1), JoinsWaiting(c, u, w, w1), HasReason(c, u, q1, w1, dead, dead1)
  PROVE  /\ Listed(ready, [stat EXCEPT ![c] = "BLOCKED"], q1, w1)
         /\ Placed([stat EXCEPT ![c] = "BLOCKED"], [stk EXCEPT ![c] = Cons(Sleep, u)], q1, w1, dead1)
         /\ Executes(c, [stat EXCEPT ![c] = "BLOCKED"], [stk EXCEPT ![c] = Cons(Sleep, u)])
<1> DEFINE new == [stat EXCEPT ![c] = "BLOCKED"]
           stk1 == [stk EXCEPT ![c] = Cons(Sleep, u)]
<1>1. /\ c \in Threads /\ stk = [t \in Threads |-> stk[t]] /\ stat \in [Threads -> Statuses]
      /\ \A t \in Threads \ {c} : stk[t] \in Parked /\ stat[t] # "RUNNING"
  BY DEF Listed, Executes
<1>2. /\ new \in [Threads -> Statuses] /\ new[c] = "BLOCKED"
      /\ \A t \in Threads \ {c} : new[t] = stat[t]
  BY <1>1 DEF Statuses
<1>3. /\ stk1 = [t \in Threads |-> stk1[t]] /\ stk1[c] = Cons(Sleep, u)
      /\ \A t \in Threads \ {c} : stk1[t] = stk[t]
  BY <1>1
<1>4. /\ IsStack(Cons(Sleep, u)) /\ Sleep \in Items(Cons(Sleep, u))
      /\ Items(u) \subseteq Items(Cons(Sleep, u))
  <2>1. Under(Sleep, u)
    BY DEF Under
  <2> QED
    BY <2>1, Called
<1> HIDE DEF new, stk1
<1>5. Listed(ready, new, q1, w1)
  <2>1. \A t \in Threads : stat[t] = "READY" <=> new[t] = "READY"
    BY <1>1, <1>2
  <2>2. {t \in Threads : new[t] = "READY"} = {t \in Threads : stat[t] = "READY"}
    BY <2>1
  <2> QED
    BY <1>2, <2>2 DEF Listed, JoinsQueue, JoinsWaiting
<1>6. Executes(c, new, stk1)
  <2>1. ASSUME NEW t \in Threads \ {c} PROVE stk1[t] \in Parked /\ new[t] # "RUNNING"
    BY <1>1, <1>2, <1>3
  <2>2. IsStack(stk1[c]) /\ Sleep \in Items(stk1[c])
    BY <1>3, <1>4
  <2> QED
    BY <1>1, <1>2, <1>3, <2>1, <2>2 DEF Executes
<1>7. QueuesPlaced(new, stk1, q1)
  <2> SUFFICES ASSUME NEW x \in Sems \cup Locks, NEW t \in Items(q1[x])
               PROVE  t \in Threads /\ new[t] = "BLOCKED" /\ <<"P", x>> \in Items(stk1[t])
    BY DEF QueuesPlaced
  <2>1. CASE t \in Items(q[x])
    <3>1. t \in Threads /\ stat[t] = "BLOCKED" /\ <<"P", x>> \in Items(stk[t])
      BY <2>1 DEF Placed, QueuesPlaced
    <3> QED
      BY <1>2, <1>3, <3>1
  <2>2. CASE t = c /\ <<"P", x>> \in Items(u)
    BY <1>1, <1>2, <1>3, <1>4, <2>2
  <2> QED
    BY <2>1, <2>2 DEF JoinsQueue
<1>8. WaitersPlaced(new, stk1, w1)
  <2> SUFFICES ASSUME NEW d \in Conds, NEW t \in Items(w1[d])
               PROVE  /\ t \in Threads /\ new[t] = "BLOCKED"
                      /\ <<"Acquire", LockOf[d]>> \in Items(stk1[t])
                      /\ \A e \in Conds : t \in Items(w1[e]) => e = d
    BY DEF WaitersPlaced
  <2>1. CASE t \in Items(w[d]) /\ t # c
    <3>1. /\ t \in Threads /\ stat[t] = "BLOCKED" /\ <<"Acquire", LockOf[d]>> \in Items(stk[t])
          /\ \A e \in Conds : t \in Items(w[e]) => e = d
      BY <2>1 DEF Placed, WaitersPlaced
    <3>2. \A e \in Conds : t \in Items(w1[e]) => t \in Items(w[e])
      BY <2>1 DEF JoinsWaiting
    <3> QED
      BY <1>2, <1>3, <2>1, <3>1, <3>2
  <2>2. CASE /\ t = c /\ <<"Acquire", LockOf[d]>> \in Items(u)
             /\ \A e \in Conds : c \in Items(w1[e]) => e = d
    BY <1>1, <1>2, <1>3, <1>4, <2>2
  <2> QED
    BY <2>1, <2>2 DEF JoinsWaiting
<1>9. ASSUME NEW t \in Threads PROVE ThreadPlaced(t, new, stk1, q1, w1)
  <2>1. ThreadPlaced(t, stat, stk, q, w)
    BY DEF Placed
  <2>2. CASE t = c
    <3>1. new[t] = "BLOCKED" /\ Items(u) \subseteq Items(stk1[t])
      BY <1>2, <1>3, <1>4, <2>2
    <3> QED
      BY <2>2, <3>1 DEF ThreadPlaced, HasReason
  <2>3. CASE t # c
    <3>1. new[t] = stat[t] /\ stk1[t] = stk[t]
      BY <1>2, <1>3, <2>3
    <3> QED
      BY <2>1, <3>1 DEF ThreadPlaced, JoinsQueue, JoinsWaiting
  <2> QED
    BY <2>2, <2>3
<1>10. CarcassPlaced(new, stk1, dead1)
  <2>1. CASE dead1 = c /\ Finished \in Items(u)
    BY <1>1, <1>2, <1>3, <1>4, <2>1 DEF CarcassPlaced
  <2>2. CASE dead1 = dead
    BY <1>2, <1>3, <2>2 DEF Placed, CarcassPlaced
  <2> QED
    BY <2>1, <2>2 DEF HasReason
<1> QED
  BY <1>5, <1>6, <1>7, <1>8, <1>9, <1>10 DEF Placed, new, stk1

\* A thread that was just constructed is forked (Thread::Fork).
LEMMA ForkOne ==
  ASSUME NatWellOrdered, NEW key \in [Threads -> Int],
         NEW c, NEW ready, NEW stat, NEW stk, NEW q, NEW w, NEW dead,
         Listed(ready, stat, q, w), Placed(stat, stk, q, w, dead), Executes(c, stat, stk),
         NEW h \in Threads, stat[h] = "NONE"
  PROVE  /\ Listed(SortedInsert(ready, h, key), [stat EXCEPT ![h] = "READY"], q, w)
         /\ Placed([stat EXCEPT ![h] = "READY"], [stk EXCEPT ![h] = <<Start>>], q, w, dead)
         /\ Executes(c, [stat EXCEPT ![h] = "READY"], [stk EXCEPT ![h] = <<Start>>]) /\ h # c
<1> DEFINE new == [stat EXCEPT ![h] = "READY"]
           list == SortedInsert(ready, h, key)
           stk1 == [stk EXCEPT ![h] = <<Start>>]
<1>1. /\ stat \in [Threads -> Statuses] /\ ready \in Seq(Threads) /\ NoDuplicates(ready)
      /\ Items(ready) = {t \in Threads : stat[t] = "READY"}
  BY DEF Listed
<1>2. /\ new \in [Threads -> Statuses] /\ new[h] = "READY"
      /\ \A t \in Threads \ {h} : new[t] = stat[t]
  BY <1>1 DEF Statuses
<1>3. h \notin Items(ready)
  BY <1>1
<1>4. list \in Seq(Threads) /\ NoDuplicates(list) /\ Items(list) = Items(ready) \cup {h}
  BY <1>1, <1>3, ReadyGrows
<1>5. /\ stk1 = [t \in Threads |-> stk1[t]] /\ stk1[h] = Cons(Start, <<>>)
      /\ \A t \in Threads \ {h} : stk1[t] = stk[t]
  BY Single DEF Executes
<1>6. h # c
  BY DEF Executes
<1>7. stk1[h] \in Parked /\ Items(stk1[h]) = {Start}
  BY <1>5, ConsFacts, EmptyFacts, SMT DEF Parked
<1> HIDE DEF new, list, stk1
<1>8. Listed(list, new, q, w)
  BY <1>1, <1>2, <1>4 DEF Listed
<1>9. Executes(c, new, stk1)
  BY <1>2, <1>5, <1>6, <1>7 DEF Executes
<1>10. QueuesPlaced(new, stk1, q)
  <2> SUFFICES ASSUME NEW x \in Sems \cup Locks, NEW t \in Items(q[x])
               PROVE  t \in Threads /\ new[t] = "BLOCKED" /\ <<"P", x>> \in Items(stk1[t])
    BY DEF QueuesPlaced
  <2>1. t \in Threads /\ stat[t] = "BLOCKED" /\ <<"P", x>> \in Items(stk[t])
    BY DEF Placed, QueuesPlaced
  <2> QED
    BY <1>2, <1>5, <2>1
<1>11. WaitersPlaced(new, stk1, w)
  <2> SUFFICES ASSUME NEW d \in Conds, NEW t \in Items(w[d])
               PROVE  /\ t \in Threads /\ new[t] = "BLOCKED"
                      /\ <<"Acquire", LockOf[d]>> \in Items(stk1[t])
                      /\ \A e \in Conds : t \in Items(w[e]) => e = d
    BY DEF WaitersPlaced
  <2>1. /\ t \in Threads /\ stat[t] = "BLOCKED" /\ <<"Acquire", LockOf[d]>> \in Items(stk[t])
        /\ \A e \in Conds : t \in Items(w[e]) => e = d
    BY DEF Placed, WaitersPlaced
  <2> QED
    BY <1>2, <1>5, <2>1
<1>12. ASSUME NEW t \in Threads PROVE ThreadPlaced(t, new, stk1, q, w)
  <2>1. ThreadPlaced(t, stat, stk, q, w)
    BY DEF Placed
  <2>2. CASE t = h
    BY <1>2, <1>7, <2>2 DEF ThreadPlaced, Start, Finished
  <2>3. CASE t # h
    <3>1. new[t] = stat[t] /\ stk1[t] = stk[t]
      BY <1>2, <1>5, <2>3
    <3> QED
      BY <2>1, <3>1 DEF ThreadPlaced
  <2> QED
    BY <2>2, <2>3
<1>13. CarcassPlaced(new, stk1, dead)
  BY <1>2, <1>5 DEF Placed, CarcassPlaced
<1> QED
  BY <1>6, <1>8, <1>9, <1>10, <1>11, <1>12, <1>13 DEF Placed, new, list, stk1

\* No thread executes: the one that did is in Scheduler::Run.
AtRest(stat, stk) ==
  /\ stk = [t \in Threads |-> stk[t]]
  /\ \A t \in Threads : stk[t] \in Parked /\ stat[t] # "RUNNING"

\* The head of the ready list is dispatched (Scheduler::Run) and deletes the
\* carcass, unless it starts in ThreadRoot; no ASSERT fails.
LEMMA DispatchStep ==
  ASSUME NEW ready, NEW stat, NEW stk,
         Listed(ready, stat, queue, waiting), Placed(stat, stk, queue, waiting, threadToBeDestroyed), AtRest(stat, stk),
         ready # <<>>, NEW carcass, carcass \in {NoThread, threadToBeDestroyed}, NEW stat1, NEW dead1,
         stat1 = [t \in Threads |-> IF t = carcass THEN "DELETED"
                                    ELSE IF t = Head(ready) THEN "RUNNING" ELSE stat[t]],
         dead1 = IF carcass = NoThread THEN threadToBeDestroyed ELSE NoThread
  PROVE  /\ Listed(Tail(ready), stat1, queue, waiting)
         /\ Placed(stat1, stk, queue, waiting, dead1)
         /\ Executes(Head(ready), stat1, stk)
         /\ carcass # Head(ready) /\ stat[Head(ready)] # "DELETED"
         /\ stk[Head(ready)] # <<Finished>>
<1> DEFINE n == Head(ready)
<1>1. /\ stat \in [Threads -> Statuses] /\ ready \in Seq(Threads) /\ NoDuplicates(ready)
      /\ Items(ready) = {t \in Threads : stat[t] = "READY"}
  BY DEF Listed
<1>2. /\ n \in Items(ready) /\ n \in Threads /\ Tail(ready) \in Seq(Threads)
      /\ NoDuplicates(Tail(ready)) /\ Items(Tail(ready)) = Items(ready) \ {n}
  BY <1>1, RemoveFirst
<1> HIDE DEF n
<1>3. stat[n] = "READY"
  BY <1>1, <1>2
<1>4. Finished \notin Items(stk[n])
  BY <1>2, <1>3 DEF Placed, ThreadPlaced
<1>5. carcass = NoThread \/ /\ carcass \in Threads /\ stat[carcass] = "BLOCKED"
                            /\ Finished \in Items(stk[carcass]) /\ carcass = threadToBeDestroyed
  BY DEF Placed, CarcassPlaced
<1>6. carcass # n
  BY <1>2, <1>3, <1>5, ThreadAssumption
<1>7. /\ stat1 \in [Threads -> Statuses] /\ stat1[n] = "RUNNING"
      /\ \A t \in Threads : t = carcass => stat1[t] = "DELETED"
      /\ \A t \in Threads \ {n, carcass} : stat1[t] = stat[t]
  BY <1>1, <1>2, <1>6 DEF Statuses, n
<1>8. stk[n] # <<Finished>>
  <2>1. <<Finished>> = Cons(Finished, <<>>) /\ Items(Cons(Finished, <<>>)) = {Finished}
    BY Single, ConsFacts, EmptyFacts, SMT
  <2> QED
    BY <1>4, <2>1
<1>9. Listed(Tail(ready), stat1, queue, waiting)
  <2>1. Items(Tail(ready)) = {t \in Threads : stat1[t] = "READY"}
    <3>1. ASSUME NEW t \in Threads
          PROVE  stat1[t] = "READY" <=> stat[t] = "READY" /\ t # n
      <4>1. CASE t = n
        BY <1>7, <4>1
      <4>2. CASE t = carcass
        <5>1. stat1[t] = "DELETED" /\ stat[t] = "BLOCKED"
          BY <1>5, <1>7, <4>2, ThreadAssumption
        <5> QED
          BY <5>1
      <4>3. CASE t \notin {n, carcass}
        BY <1>7, <4>3
      <4> QED
        BY <4>1, <4>2, <4>3
    <3> QED
      BY <1>1, <1>2, <3>1
  <2> QED
    BY <1>2, <1>7, <2>1 DEF Listed
<1>10. Executes(n, stat1, stk)
  <2>1. ASSUME NEW t \in Threads \ {n} PROVE stk[t] \in Parked /\ stat1[t] # "RUNNING"
    BY <1>7 DEF AtRest
  <2>2. stk[n] \in Parked
    BY <1>2 DEF AtRest
  <2>3. WellParked(stk[n])
    BY <2>2, ParkedFacts
  <2>4. IsStack(stk[n]) /\ Sleep \notin Items(stk[n])
    BY <1>4, <2>3 DEF WellParked, Labelled, Sleep
  <2> QED
    BY <1>2, <1>7, <2>1, <2>4 DEF Executes, AtRest
<1>11. ASSUME NEW t \in Threads, stat[t] = "BLOCKED", Finished \notin Items(stk[t])
       PROVE  stat1[t] = "BLOCKED"
  <2>1. t # n /\ t # carcass
    BY <1>3, <1>5, <1>11, ThreadAssumption
  <2> QED
    BY <1>7, <1>11, <2>1
<1>12. QueuesPlaced(stat1, stk, queue)
  <2> SUFFICES ASSUME NEW x \in Sems \cup Locks, NEW t \in Items(queue[x])
               PROVE  t \in Threads /\ stat1[t] = "BLOCKED" /\ <<"P", x>> \in Items(stk[t])
    BY DEF QueuesPlaced
  <2>1. t \in Threads /\ stat[t] = "BLOCKED" /\ <<"P", x>> \in Items(stk[t])
    BY DEF Placed, QueuesPlaced
  <2>2. WellParked(stk[t])
    BY <2>1, ParkedFacts DEF AtRest
  <2>3. Finished \notin Items(stk[t])
    BY <2>1, <2>2 DEF WellParked, OneReason, Reasons, Finished
  <2> QED
    BY <1>11, <2>1, <2>3
<1>13. WaitersPlaced(stat1, stk, waiting)
  <2> SUFFICES ASSUME NEW d \in Conds, NEW t \in Items(waiting[d])
               PROVE  /\ t \in Threads /\ stat1[t] = "BLOCKED"
                      /\ <<"Acquire", LockOf[d]>> \in Items(stk[t])
                      /\ \A e \in Conds : t \in Items(waiting[e]) => e = d
    BY DEF WaitersPlaced
  <2>1. /\ t \in Threads /\ stat[t] = "BLOCKED" /\ <<"Acquire", LockOf[d]>> \in Items(stk[t])
        /\ \A e \in Conds : t \in Items(waiting[e]) => e = d
    BY DEF Placed, WaitersPlaced
  <2>2. WellParked(stk[t])
    BY <2>1, ParkedFacts DEF AtRest
  <2>3. Finished \notin Items(stk[t])
    BY <2>1, <2>2 DEF WellParked, OneReason, Reasons, Finished
  <2> QED
    BY <1>11, <2>1, <2>3
<1>14. ASSUME NEW t \in Threads PROVE ThreadPlaced(t, stat1, stk, queue, waiting)
  <2>1. ThreadPlaced(t, stat, stk, queue, waiting)
    BY DEF Placed
  <2>2. \/ stat1[t] = "DELETED" \/ (stat1[t] = "RUNNING" /\ Finished \notin Items(stk[t]))
        \/ stat1[t] = stat[t]
    BY <1>4, <1>7
  <2> QED
    BY <2>1, <2>2 DEF ThreadPlaced
<1>15. CarcassPlaced(stat1, stk, dead1)
  <2>1. CASE dead1 = NoThread
    BY <2>1 DEF CarcassPlaced
  <2>2. CASE carcass = NoThread /\ dead1 = threadToBeDestroyed /\ threadToBeDestroyed # NoThread
    <3>1. threadToBeDestroyed \in Threads /\ stat[threadToBeDestroyed] = "BLOCKED" /\ Finished \in Items(stk[threadToBeDestroyed])
      BY <2>2 DEF Placed, CarcassPlaced
    <3>2. threadToBeDestroyed \notin {n, carcass}
      BY <1>3, <2>2, <3>1
    <3> QED
      BY <1>7, <2>2, <3>1, <3>2 DEF CarcassPlaced
  <2> QED
    BY <2>1, <2>2
<1> QED
  BY <1>3, <1>6, <1>8, <1>9, <1>10, <1>12, <1>13, <1>14, <1>15 DEF Placed, n

\* ------------------------- wakeups and units are kept ------------------------

\* What the counting below needs to know of a set's size; CardinalitiesObey
\* discharges it.
SmallSets(C(_)) == C({}) = 0 /\ \A x : C({x}) = 1
FiniteSubsets(F(_), C(_)) ==
  \A S : F(S) => C(S) \in Nat /\ \A T \in SUBSET S : F(T) /\ C(T) <= C(S)
OneMore(F(_), C(_)) == \A S, x : F(S) /\ x \notin S => C(S \cup {x}) = C(S) + 1
OneLess(F(_), C(_)) == \A S, x : F(S) /\ x \in S => C(S \ {x}) = C(S) - 1
Laws(F(_), C(_)) ==
  SmallSets(C) /\ FiniteSubsets(F, C) /\ OneMore(F, C) /\ OneLess(F, C)
CardinalityLaws == Laws(IsFiniteSet, Cardinality)

LEMMA TransitFinite ==
  ASSUME CardinalityLaws, NEW x, NEW stk, NEW q
  PROVE  IsFiniteSet(Transit(x, stk, q)) /\ Cardinality(Transit(x, stk, q)) \in Nat
<1>1. Transit(x, stk, q) \subseteq Threads
  BY DEF Transit
<1>2. IsFiniteSet(Transit(x, stk, q))
  BY <1>1, ThreadAssumption DEF CardinalityLaws, Laws, FiniteSubsets
<1> QED
  BY <1>2 DEF CardinalityLaws, Laws, FiniteSubsets

LEMMA WakeKept ==
  ASSUME CardinalityLaws, NEW x, NEW val, NEW stk, NEW q, NEW s, WokenUp(x, val, stk, q, s), val[x] \in Nat,
         NEW val1, NEW stk1, NEW q1, NEW s1, val1[x] \in Nat,
         q1[x] # <<>> => q[x] # <<>>, Transit(x, stk, q) \subseteq Transit(x, stk1, q1),
         val1[x] + Coming(x, s1) <= val[x] + Coming(x, s)
  PROVE  WokenUp(x, val1, stk1, q1, s1)
<1> DEFINE old == Transit(x, stk, q)
           new == Transit(x, stk1, q1)
<1>1. IsFiniteSet(new) /\ Cardinality(new) \in Nat /\ Cardinality(old) \in Nat
  BY TransitFinite
<1> HIDE DEF old, new
<1>2. Cardinality(old) <= Cardinality(new)
  BY <1>1 DEF CardinalityLaws, Laws, FiniteSubsets, old, new
<1>3. Coming(x, s) \in Int /\ Coming(x, s1) \in Int
  BY SMT DEF Coming
<1> QED
  BY <1>1, <1>2, <1>3, SMT DEF WokenUp, old, new

\* WakeKept for the semaphores of the state, when no unit comes.
LEMMA StillWoken ==
  ASSUME CardinalityLaws, SynchInv, NEW x \in Sems \cup Locks, NEW stk, NEW q, NEW s,
         q[x] # <<>> => queue[x] # <<>>, Transit(x, stack, queue) \subseteq Transit(x, stk, q),
         Coming(x, s) = 0
  PROVE  WokenUp(x, value, stk, q, s)
<1>1. WokenUp(x, value, stack, queue, stack[currentThread]) /\ value[x] \in Nat
  BY DEF SynchInv, Core, OtherTypes
<1>2. value[x] + Coming(x, s) <= value[x] + Coming(x, stack[currentThread])
  BY <1>1, ComesNoMore
<1> QED
  BY <1>1, <1>2, WakeKept

\* The unit of a lock is with the thread u, or with nobody.
LEMMA UnitWith ==
  ASSUME NEW l, NEW val, NEW stk, NEW own, NEW held, held[l] = {own[l]} \ {NoThread},
         \A t \in Threads : Returns(l, stk[t]) => t \notin held[l],
         val[l] = 0, NEW u \in Threads, HasUnit(u, l, stk, held),
         \A t \in Threads : HasUnit(t, l, stk, held) => t = u
  PROVE  OneUnit(l, val, stk, own, held)
BY DEF OneUnit

LEMMA UnitKept ==
  ASSUME NEW l, NEW val, NEW stk, NEW own, NEW held, OneUnit(l, val, stk, own, held),
         NEW val1, NEW stk1, NEW own1, NEW held1,
         val1[l] = val[l] /\ own1[l] = own[l] /\ held1[l] = held[l],
         \A t \in Threads : /\ Enters(l, stk1[t]) <=> Enters(l, stk[t])
                            /\ Returns(l, stk1[t]) <=> Returns(l, stk[t])
  PROVE  OneUnit(l, val1, stk1, own1, held1)
<1>1. ASSUME NEW t \in Threads PROVE HasUnit(t, l, stk1, held1) <=> HasUnit(t, l, stk, held)
  <2>1. Enters(l, stk1[t]) <=> Enters(l, stk[t])
    OBVIOUS
  <2>2. Returns(l, stk1[t]) <=> Returns(l, stk[t])
    OBVIOUS
  <2> QED
    BY <2>1, <2>2 DEF HasUnit, Enters, Returns
<1>2. \A t \in Threads : Returns(l, stk1[t]) => t \notin held1[l]
  BY DEF OneUnit, Returns
<1>3. CASE val[l] = 1 /\ \A t \in Threads : ~HasUnit(t, l, stk, held)
  BY <1>1, <1>2, <1>3 DEF OneUnit
<1>4. ASSUME NEW t \in Threads, HasUnit(t, l, stk, held), val[l] = 0,
             \A u \in Threads : HasUnit(u, l, stk, held) => u = t
      PROVE  OneUnit(l, val1, stk1, own1, held1)
  <2>1. HasUnit(t, l, stk1, held1) /\ \A u \in Threads : HasUnit(u, l, stk1, held1) => u = t
    BY <1>1, <1>4
  <2>2. held1[l] = {own1[l]} \ {NoThread}
    BY DEF OneUnit
  <2> QED
    BY <1>2, <1>4, <2>1, <2>2 DEF OneUnit
<1> QED
  BY <1>3, <1>4 DEF OneUnit

\* The current thread's stack becomes s1 instead of s, and neither P's nor the
\* units of locks are lost or gained.
SameDuties(s1, s) ==
  /\ \A x \in Sems \cup Locks : <<"P", x>> \in Items(s) => <<"P", x>> \in Items(s1)
  /\ \A l \in Locks : (Enters(l, s1) <=> Enters(l, s)) /\ (Returns(l, s1) <=> Returns(l, s))

\* A step of the current thread that touches only its stack.
LEMMA OrdinaryStep ==
  ASSUME CardinalityLaws, SynchInv, outcome = "running",
         NEW s, IsStack(s), SameSleep(s, stack[currentThread]), SameDuties(s, stack[currentThread]),
         s = <<>> \/ s[1][1] # "VIncrement", stack' = WithStack(s),
         UNCHANGED <<currentThread, status, readyList, threadToBeDestroyed,
                     value, queue, owner, waiting, holds>>
  PROVE  Core'
<1> DEFINE new == WithStack(s)
<1>1. /\ Listed(readyList, status, queue, waiting)
      /\ Placed(status, stack, queue, waiting, threadToBeDestroyed)
      /\ Executes(currentThread, status, stack)
      /\ \A x \in Sems \cup Locks : WokenUp(x, value, stack, queue, stack[currentThread])
      /\ \A l \in Locks : OneUnit(l, value, stack, owner, holds)
      /\ value \in [Sems \cup Locks -> Nat]
  BY DEF SynchInv, Core, OtherTypes
<1>2. /\ Placed(status, new, queue, waiting, threadToBeDestroyed)
      /\ Executes(currentThread, status, new)
  BY <1>1, LocalStep DEF WithStack
<1>3. /\ currentThread \in Threads /\ new[currentThread] = s
      /\ \A t \in Threads \ {currentThread} : new[t] = stack[t]
  BY <1>1 DEF Executes, WithStack
<1> HIDE DEF new
<1>4. ASSUME NEW x \in Sems \cup Locks PROVE WokenUp(x, value, new, queue, new[currentThread])
  <2>1. Transit(x, stack, queue) \subseteq Transit(x, new, queue)
    BY <1>3, FrameFacts DEF Transit, SameDuties
  <2>2. value[x] \in Nat
    BY <1>1
  <2>3. value[x] + Coming(x, s) <= value[x] + Coming(x, stack[currentThread])
    BY <2>2, SMT DEF Coming
  <2>4. WokenUp(x, value, stack, queue, stack[currentThread])
    BY <1>1
  <2>5. WokenUp(x, value, new, queue, s)
    BY <2>1, <2>2, <2>3, <2>4, WakeKept
  <2> QED
    BY <1>3, <2>5
<1>5. ASSUME NEW l \in Locks PROVE OneUnit(l, value, new, owner, holds)
  <2>1. ASSUME NEW t \in Threads
        PROVE  /\ Enters(l, new[t]) <=> Enters(l, stack[t])
               /\ Returns(l, new[t]) <=> Returns(l, stack[t])
    BY <1>3 DEF SameDuties
  <2> QED
    BY <1>1, <2>1, UnitKept
<1> QED
  BY <1>1, <1>2, <1>4, <1>5 DEF Core, new

\* ---------------------------- steps of one frame ----------------------------

\* The frames the invariant is about.
Marked(f) ==
  \/ f[1] \in {"P", "Acquire", "Finished", "Sleep", "SetOwner"}
  \/ f[1] \in {"V", "VIncrement"} /\ f[2] \in Locks

SameMarks(s1, s) == \A f : Marked(f) => (f \in Items(s1) <=> f \in Items(s))

LEMMA MarksSuffice ==
  ASSUME NEW s1, NEW s, SameMarks(s1, s)
  PROVE  SameSleep(s1, s) /\ SameDuties(s1, s)
<1>1. SameSleep(s1, s)
  <2>1. Marked(Sleep) /\ \A f : f[1] \in Reasons => Marked(f)
    BY DEF Marked, Sleep, Reasons
  <2> QED
    BY <2>1 DEF SameSleep, SameMarks
<1>2. /\ \A x : Marked(<<"P", x>>) /\ Marked(<<"SetOwner", x>>)
      /\ \A l \in Locks : Marked(<<"V", l>>) /\ Marked(<<"VIncrement", l>>)
  BY DEF Marked
<1> QED
  BY <1>1, <1>2 DEF SameDuties, SameMarks, Enters, Returns

\* Calls and returns of functions that do not concern it.
LEMMA UnmarkedCall ==
  ASSUME NEW f, NEW u, IsSeq(u), ~Marked(f)
  PROVE  SameMarks(Cons(f, u), u) /\ SameMarks(u, Cons(f, u))
<1>1. Items(Cons(f, u)) = {f} \cup Items(u)
  BY ConsFacts
<1> QED
  BY <1>1 DEF SameMarks

LEMMA MarksCompose ==
  ASSUME NEW s, NEW s1, NEW s2, SameMarks(s2, s1), SameMarks(s1, s)
  PROVE  SameMarks(s2, s)
BY DEF SameMarks

\* What is below the innermost frame is a stack, too.
LEMMA TailIsStack ==
  ASSUME NEW u \in {<<>>} \cup Owns \cup Waits \cup Handled \cup Dozes \cup Idling
  PROVE  IsStack(u) /\ (u = <<>> \/ u[1][1] \notin {"V", "VIncrement"})
<1>1. ASSUME NEW f, NEW v, u = Cons(f, v), Under(f, v), f[1] \notin {"V", "VIncrement"}
      PROVE  IsStack(u) /\ (u = <<>> \/ u[1][1] \notin {"V", "VIncrement"})
  BY <1>1, Called
<1>2. CASE u \in Owns
  <2>1. PICK l \in Locks : u = Cons(<<"SetOwner", l>>, <<>>)
    BY <1>2 DEF Owns
  <2>2. Under(<<"SetOwner", l>>, <<>>)
    BY DEF Under, Lone
  <2> QED
    BY <1>1, <2>1, <2>2
<1>3. CASE u \in Waits
  <2>1. PICK c \in Conds : u = Cons(<<"WaitSleep", c>>, <<>>)
    BY <1>3 DEF Waits
  <2>2. Under(<<"WaitSleep", c>>, <<>>)
    BY DEF Under, Lone
  <2> QED
    BY <1>1, <2>1, <2>2
<1>4. CASE u \in Handled
  <2>1. PICK v \in {<<>>} \cup Idling : u = Cons(EndHandler, v)
    BY <1>4 DEF Handled
  <2>2. Under(EndHandler, v)
    BY <2>1 DEF Under, Lone
  <2> QED
    BY <1>1, <2>1, <2>2 DEF EndHandler
<1>5. CASE u \in Dozes
  <2>1. PICK v \in Asleep : u = Cons(Sleep, v)
    BY <1>5 DEF Dozes
  <2>2. Under(Sleep, v)
    BY <2>1 DEF Under
  <2> QED
    BY <1>1, <2>1, <2>2 DEF Sleep
<1>6. CASE u \in Idling
  <2>1. PICK v \in Dozes : u = Cons(Idled, v)
    BY <1>6 DEF Idling
  <2>2. Under(Idled, v)
    BY <2>1 DEF Under
  <2> QED
    BY <1>1, <2>1, <2>2 DEF Idled
<1>7. CASE u = <<>>
  BY <1>7 DEF IsStack
<1> QED
  BY <1>2, <1>3, <1>4, <1>5, <1>6, <1>7

\* The innermost frame f of the current thread and the stack u it returns to.
LEMMA Innermost ==
  ASSUME SynchInv, NEW label, AtTop(label)
  PROVE  \E f, u : /\ stack[currentThread] = Cons(f, u) /\ Under(f, u) /\ IsSeq(u)
                  /\ f = Top /\ f[1] = label
<1>1. IsStack(stack[currentThread]) /\ stack[currentThread] # <<>> /\ Top[1] = label
  BY DEF SynchInv, Core, Executes, AtTop
<1>2. Under(Top, Tail(stack[currentThread])) /\ stack[currentThread] = Cons(Top, Tail(stack[currentThread]))
  BY <1>1 DEF IsStack, Top
<1>3. IsSeq(Tail(stack[currentThread]))
  BY <1>2, UnderFacts DEF Sound
<1> QED
  BY <1>1, <1>2, <1>3

\* Under, by the label of the innermost frame.
LEMMA UnderCases ==
  ASSUME NEW f, NEW u, Under(f, u)
  PROVE  \/ f \in Lone /\ u = <<>>
         \/ f[1] = "P" /\ f[2] \in Locks /\ f = <<"P", f[2]>> /\ u = Cons(<<"SetOwner", f[2]>>, <<>>)
         \/ f[1] = "Release" /\ f[2] \in Locks /\ f = <<"Release", f[2]>> /\ u \in Waits
         \/ /\ f[1] \in {"V", "VIncrement"} /\ f[2] \in Sems \cup Locks
            /\ f = <<f[1], f[2]>> /\ u \in Waits \cup Handled
         \/ f[1] = "Return" /\ u \in Owns \cup Waits \cup Handled
         \/ f[1] \in {"Idle", "Idled"} /\ u \in Dozes
         \/ f[1] = "Sleep" /\ u \in Asleep
         \/ f[1] = "EndHandler" /\ u \in Idling
<1>1. ASSUME NEW l \in Locks, f = <<"P", l>>
      PROVE  f[1] = "P" /\ f[2] = l
  BY <1>1
<1>2. f \in {"Release"} \X Locks => f[1] = "Release" /\ f[2] \in Locks /\ f = <<"Release", f[2]>>
  BY SMT
<1>3. f \in Vs => f[1] \in {"V", "VIncrement"} /\ f[2] \in Sems \cup Locks /\ f = <<f[1], f[2]>>
  BY SMT DEF Vs
<1>4. /\ Return[1] = "Return" /\ Idle[1] = "Idle" /\ Idled[1] = "Idled" /\ Sleep[1] = "Sleep"
      /\ EndHandler[1] = "EndHandler"
  BY DEF Return, Idle, Idled, Sleep, EndHandler
<1> QED
  BY <1>1, <1>2, <1>3, <1>4 DEF Under

\* What an ordinary step leaves alone.
ordinary == <<currentThread, status, readyList, threadToBeDestroyed,
              value, queue, owner, waiting, holds>>

\* A function that does not concern the invariant returns ...
LEMMA ReturnsTo ==
  ASSUME CardinalityLaws, SynchInv, outcome = "running", NEW f, NEW u, stack[currentThread] = Cons(f, u),
         ~Marked(f), u \in {<<>>} \cup Owns \cup Waits \cup Handled \cup Dozes \cup Idling,
         stack' = WithStack(u), UNCHANGED ordinary
  PROVE  Core'
<1>1. IsStack(u) /\ (u = <<>> \/ u[1][1] # "VIncrement")
  BY TailIsStack
<1>2. IsSeq(u)
  BY <1>1, StackFacts
<1>3. SameMarks(u, stack[currentThread])
  BY <1>2, UnmarkedCall
<1> QED
  BY <1>1, <1>3, MarksSuffice, OrdinaryStep DEF ordinary

\* ... or is called, instead of or on top of another one.
LEMMA CallsInstead ==
  ASSUME CardinalityLaws, SynchInv, outcome = "running", NEW f, NEW u, stack[currentThread] = Cons(f, u),
         ~Marked(f), NEW g, Under(g, u), ~Marked(g), g[1] # "VIncrement",
         stack' = WithStack(Cons(g, u)), UNCHANGED ordinary
  PROVE  Core'
<1>1. /\ IsStack(Cons(g, u)) /\ Cons(g, u)[1] = g /\ IsSeq(u)
  BY Called
<1>2. SameMarks(Cons(g, u), Cons(f, u))
  BY <1>1, UnmarkedCall, MarksCompose
<1> QED
  BY <1>1, <1>2, MarksSuffice, OrdinaryStep DEF ordinary

LEMMA CallsOn ==
  ASSUME CardinalityLaws, SynchInv, outcome = "running", NEW g, Under(g, stack[currentThread]), ~Marked(g),
         g[1] # "VIncrement", stack' = WithStack(Cons(g, stack[currentThread])), UNCHANGED ordinary
  PROVE  Core'
<1> DEFINE u == stack[currentThread]
<1>1. /\ IsStack(Cons(g, u)) /\ Cons(g, u)[1] = g /\ IsSeq(u)
  BY Called
<1>2. SameMarks(Cons(g, u), u)
  BY <1>1, UnmarkedCall
<1> QED
  BY <1>1, <1>2, MarksSuffice, OrdinaryStep DEF ordinary

LEMMA ReturnInv ==
  ASSUME CardinalityLaws, SynchInv, outcome = "running", ReturnStep, UNCHANGED synchVars
  PROVE  Core'
<1>1. PICK f, u : /\ stack[currentThread] = Cons(f, u) /\ Under(f, u) /\ IsSeq(u)
                  /\ f = Top /\ f[1] = "Return"
  BY Innermost DEF ReturnStep
<1>2. u \in {<<>>} \cup Owns \cup Waits \cup Handled /\ ~Marked(f)
  BY <1>1, UnderCases DEF Marked
<1>3. stack' = WithStack(u)
  BY <1>1, ReplaceIs DEF ReturnStep
<1> QED
  BY <1>1, <1>2, <1>3, ReturnsTo DEF ReturnStep, synchVars, ordinary

LEMMA StartInv ==
  ASSUME CardinalityLaws, SynchInv, outcome = "running", StartStep, UNCHANGED synchVars
  PROVE  Core'
<1>1. PICK f, u : /\ stack[currentThread] = Cons(f, u) /\ Under(f, u) /\ IsSeq(u)
                  /\ f = Top /\ f[1] = "Start"
  BY Innermost DEF StartStep
<1>2. u = <<>> /\ ~Marked(f)
  BY <1>1, UnderCases DEF Marked
<1>3. stack' = WithStack(u)
  BY <1>1, ReplaceIs DEF StartStep
<1> QED
  BY <1>1, <1>2, <1>3, ReturnsTo DEF StartStep, synchVars, ordinary

LEMMA EndHandlerInv ==
  ASSUME CardinalityLaws, SynchInv, outcome = "running", EndHandlerStep, UNCHANGED synchVars
  PROVE  Core'
<1>1. PICK f, u : /\ stack[currentThread] = Cons(f, u) /\ Under(f, u) /\ IsSeq(u)
                  /\ f = Top /\ f[1] = "EndHandler"
  BY Innermost DEF EndHandlerStep
<1>2. u \in {<<>>} \cup Idling /\ ~Marked(f)
  BY <1>1, UnderCases DEF Marked
<1>3. stack' = WithStack(u)
  BY <1>1, ReplaceIs DEF EndHandlerStep, Continue, Stay
<1> QED
  BY <1>1, <1>2, <1>3, ReturnsTo DEF EndHandlerStep, Continue, Stay, synchVars, ordinary

LEMMA LoneLabels ==
  ASSUME NEW f \in Lone
  PROVE  f[1] \notin {"Idle", "Idled", "Sleep", "Finished"}
BY FrameFacts DEF Lone, KernelCalls, Vs, Start, Return, EndHandler

LEMMA IdledInv ==
  ASSUME CardinalityLaws, SynchInv, outcome = "running", IdleStep
  PROVE  Core'
<1>1. CASE AtTop("Idle") /\ UNCHANGED <<ordinary, stack>> /\ outcome' # "aborted"
  BY <1>1 DEF SynchInv, Core, ordinary
<1>2. CASE AtTop("Idled") /\ stack' = Replace(<<>>) /\ UNCHANGED ordinary
  <2>1. PICK f, u : /\ stack[currentThread] = Cons(f, u) /\ Under(f, u) /\ IsSeq(u)
                    /\ f = Top /\ f[1] = "Idled"
    BY <1>2, Innermost
  <2>2. u \in Dozes /\ ~Marked(f)
    <3>1. f \notin Lone
      BY <2>1, LoneLabels
    <3> QED
      BY <2>1, <3>1, UnderCases DEF Marked
  <2>3. stack' = WithStack(u)
    BY <1>2, <2>1, ReplaceIs
  <2> QED
    BY <1>2, <2>1, <2>2, <2>3, ReturnsTo
<1> QED
  BY <1>1, <1>2 DEF IdleStep, synchVars, ordinary

\* A call from code with interrupts on, and the frames that are called only so.
LEMMA LoneCall ==
  ASSUME NEW f, NEW u, Under(f, u),
         f[1] \in {"Acquire", "Wait", "Signal", "Broadcast", "Request", "Fork", "Yield", "Finish",
                   "SetOwner", "WaitSleep", "Start"}
  PROVE  /\ u = <<>> /\ f = <<f[1], f[2]>>
         /\ f[1] \in {"Acquire", "SetOwner"} => f[2] \in Locks
         /\ f[1] \in {"Wait", "Signal", "Broadcast", "WaitSleep"} => f[2] \in Conds
         /\ f[1] = "Request" => f[2] \in Devices
         /\ f[1] = "Fork" => f[2] \in Threads
<1>1. f \in Lone /\ u = <<>>
  BY UnderCases
<1>2. f \in KernelCalls => f = <<f[1], f[2]>>
  BY SMT DEF KernelCalls
<1>3. f = <<f[1], f[2]>>
  BY <1>1, <1>2, SMT DEF Lone, Vs, Start, Return, EndHandler
<1>4. f[1] \in {"Acquire", "SetOwner"} => f[2] \in Locks
  BY <1>1, FrameFacts DEF Lone, KernelCalls, Vs, Start, Return, EndHandler
<1>5. f[1] \in {"Wait", "Signal", "Broadcast", "WaitSleep"} => f[2] \in Conds
  BY <1>1, FrameFacts DEF Lone, KernelCalls, Vs, Start, Return, EndHandler
<1>6. f[1] = "Request" => f[2] \in Devices
  BY <1>1, FrameFacts DEF Lone, KernelCalls, Vs, Start, Return, EndHandler
<1>7. f[1] = "Fork" => f[2] \in Threads
  BY <1>1, FrameFacts DEF Lone, KernelCalls, Vs, Start, Return, EndHandler
<1> QED
  BY <1>1, <1>3, <1>4, <1>5, <1>6, <1>7

LEMMA UnderReturn == Under(Return, <<>>) /\ ~Marked(Return) /\ Return[1] # "VIncrement"
BY DEF Under, Lone, Marked, Return

LEMMA RequestInv ==
  ASSUME CardinalityLaws, SynchInv, outcome = "running", RequestStep
  PROVE  Core'
<1>1. PICK f, u : /\ stack[currentThread] = Cons(f, u) /\ Under(f, u) /\ IsSeq(u)
                  /\ f = Top /\ f[1] = "Request"
  BY Innermost DEF RequestStep
<1>2. u = <<>> /\ ~Marked(f)
  BY <1>1, LoneCall DEF Marked
<1>3. stack' = WithStack(Cons(Return, u))
  BY <1>1, ReplaceIs DEF RequestStep
<1>4. UNCHANGED ordinary
  BY DEF RequestStep, ordinary
<1> QED
  BY <1>1, <1>2, <1>3, <1>4, UnderReturn, CallsInstead

LEMMA WaitInv ==
  ASSUME CardinalityLaws, SynchInv, outcome = "running", WaitStep
  PROVE  Core'
<1>1. PICK f, u : /\ stack[currentThread] = Cons(f, u) /\ Under(f, u) /\ IsSeq(u)
                  /\ f = Top /\ f[1] = "Wait"
  BY Innermost DEF WaitStep
<1>2. u = <<>> /\ ~Marked(f) /\ f[2] \in Conds
  BY <1>1, LoneCall DEF Marked
<1> DEFINE g == <<"Release", LockOf[f[2]]>>
           v == Cons(<<"WaitSleep", f[2]>>, <<>>)
<1>3. LockOf[f[2]] \in Locks
  BY <1>2, SynchAssumption
<1>4. Under(g, v)
  BY <1>2, <1>3 DEF Under, Waits
<1>5. IsStack(Cons(g, v)) /\ Cons(g, v)[1] = g /\ IsSeq(v)
  BY <1>4, Called
<1>6. SameMarks(Cons(g, v), Cons(f, <<>>))
  <2>1. ~Marked(g) /\ ~Marked(<<"WaitSleep", f[2]>>)
    BY DEF Marked
  <2>2. SameMarks(Cons(g, v), v) /\ SameMarks(v, <<>>) /\ SameMarks(<<>>, Cons(f, <<>>))
    BY <1>2, <1>5, <2>1, EmptyFacts, UnmarkedCall
  <2> QED
    BY <2>2, MarksCompose
<1>7. stack' = WithStack(Cons(g, v))
  BY <1>1, <1>2, ReplaceIs, SMTT(30) DEF WaitStep, Continue, Stay
<1>8. UNCHANGED ordinary
  BY DEF WaitStep, Continue, Stay, synchVars, ordinary
<1> HIDE DEF v
<1> QED
  BY <1>1, <1>2, <1>5, <1>6, <1>7, <1>8, MarksSuffice, OrdinaryStep, SMTT(30) DEF ordinary

LEMMA AcquireInv ==
  ASSUME CardinalityLaws, SynchInv, outcome = "running", AcquireStep
  PROVE  Core'
<1>1. PICK f, u : /\ stack[currentThread] = Cons(f, u) /\ Under(f, u) /\ IsSeq(u)
                  /\ f = Top /\ f[1] = "Acquire"
  BY Innermost DEF AcquireStep
<1>2. u = <<>> /\ f[2] \in Locks
  BY <1>1, LoneCall
<1> DEFINE g == <<"P", f[2]>>
           v == Cons(<<"SetOwner", f[2]>>, <<>>)
<1>4. Under(g, v)
  BY <1>2 DEF Under
<1>3. Items(v) = {<<"SetOwner", f[2]>>} /\ Items(Cons(f, <<>>)) = {f}
  BY ItemsOfOne
<1>5. IsStack(Cons(g, v)) /\ Cons(g, v)[1] = g /\ Items(Cons(g, v)) = {g} \cup Items(v)
  BY <1>4, Called
<1>7. SameSleep(Cons(g, v), Cons(f, <<>>)) /\ SameDuties(Cons(g, v), Cons(f, <<>>))
  <2>1. Sleep \notin Items(Cons(g, v)) /\ Sleep \notin Items(Cons(f, <<>>))
    BY <1>1, <1>3, <1>5, SMT DEF Sleep
  <2>2. \A x : <<"P", x>> \notin Items(Cons(f, <<>>))
    BY <1>1, <1>3, FrameFacts
  <2>3. ASSUME NEW l \in Locks
        PROVE  ~Enters(l, Cons(f, <<>>)) /\ ~Returns(l, Cons(f, <<>>))
    BY <1>1, <1>3, FrameFacts DEF Enters, Returns
  <2>4. ASSUME NEW l \in Locks
        PROVE  ~Enters(l, Cons(g, v)) /\ ~Returns(l, Cons(g, v))
    BY <1>3, <1>5 DEF Enters, Returns
  <2> QED
    BY <2>1, <2>2, <2>3, <2>4 DEF SameSleep, SameDuties
<1>8. stack' = WithStack(Cons(g, v))
  BY <1>1, <1>2, ReplaceIs, SMT DEF AcquireStep, Continue, Stay
<1>9. UNCHANGED ordinary
  BY DEF AcquireStep, Continue, Stay, synchVars, ordinary
<1> HIDE DEF v
<1> QED
  BY <1>1, <1>2, <1>5, <1>7, <1>8, <1>9, OrdinaryStep, SMTT(30) DEF ordinary

\* A call of the kernel from code that runs with interrupts on.
LEMMA PushInv ==
  ASSUME CardinalityLaws, SynchInv, outcome = "running", InterruptsOn,
         NEW g \in KernelCalls \cup {<<"Finish", NoThread>>},
         stack' = WithStack(Cons(g, <<>>)), UNCHANGED ordinary
  PROVE  Core'
<1>1. /\ g[1] \notin {"Sleep", "SetOwner", "VIncrement"}
      /\ g[1] = "V" => g[2] \notin Locks
  BY SynchAssumption, FrameFacts DEF KernelCalls
<1>2. Under(g, <<>>)
  BY DEF Under, Lone
<1>3. IsStack(Cons(g, <<>>)) /\ Cons(g, <<>>)[1] = g /\ Items(Cons(g, <<>>)) = {g}
  BY <1>2, Called, ItemsOfOne
<1>4. stack[currentThread] = <<>> /\ Items(<<>>) = {}
  BY EmptyFacts DEF InterruptsOn
<1>5. SameSleep(Cons(g, <<>>), <<>>)
  BY <1>1, <1>3, <1>4, SMT DEF SameSleep, Sleep
<1>6. SameDuties(Cons(g, <<>>), <<>>)
  <2>1. ASSUME NEW l \in Locks
        PROVE  ~Enters(l, Cons(g, <<>>)) /\ ~Returns(l, Cons(g, <<>>))
    BY <1>1, <1>3, SMT DEF Enters, Returns
  <2>2. ASSUME NEW l \in Locks
        PROVE  ~Enters(l, <<>>) /\ ~Returns(l, <<>>)
    BY <1>4 DEF Enters, Returns
  <2> QED
    BY <1>4, <2>1, <2>2 DEF SameDuties
<1>7. /\ currentThread' = currentThread /\ status' = status /\ readyList' = readyList
      /\ threadToBeDestroyed' = threadToBeDestroyed /\ value' = value /\ queue' = queue
      /\ owner' = owner /\ waiting' = waiting /\ holds' = holds
  BY DEF ordinary
<1>8. Cons(g, <<>>)[1][1] # "VIncrement"
  BY <1>1, <1>3
<1> QED
  BY <1>3, <1>4, <1>5, <1>6, <1>7, <1>8, OrdinaryStep

\* A device interrupts: the handler's V is called from EndHandler, with interrupts
\* on or out of Idle.
LEMMA DeviceInv ==
  ASSUME CardinalityLaws, SynchInv, outcome = "running", NEW d \in Devices, DeviceInterrupt(d)
  PROVE  Core'
<1> DEFINE x == DoneSem[d]
           g == <<"V", x>>
<1>1. x \in Sems /\ x \notin Locks
  BY SynchAssumption
<1>2. UNCHANGED ordinary
  BY DEF DeviceInterrupt, EnterHandler, Continue, Stay, ordinary
<1> HIDE DEF x
<1>3. ~Marked(g) /\ ~Marked(EndHandler) /\ ~Marked(Idled) /\ ~Marked(Idle)
  BY <1>1 DEF Marked, EndHandler, Idled, Idle
<1>4. ASSUME NEW v \in {<<>>} \cup Idling, IsSeq(v), SameMarks(v, stack[currentThread]),
             stack' = WithStack(Cons(g, Cons(EndHandler, v)))
      PROVE  Core'
  <2> DEFINE w == Cons(EndHandler, v)
  <2>1. Under(g, w)
    BY <1>1, <1>4 DEF Under, Vs, Handled
  <2>2. IsStack(Cons(g, w)) /\ Cons(g, w)[1] = g /\ IsSeq(w)
    BY <2>1, Called
  <2>3. SameMarks(Cons(g, w), w) /\ SameMarks(w, v)
    BY <1>3, <1>4, <2>2, UnmarkedCall
  <2>4. SameMarks(Cons(g, w), stack[currentThread])
    BY <1>4, <2>3, MarksCompose
  <2>5. Cons(g, w)[1][1] # "VIncrement"
    BY <2>2, FrameFacts
  <2>6. stack' = WithStack(Cons(g, w))
    BY <1>4
  <2> HIDE DEF w, g
  <2> QED
    <3>1. SameSleep(Cons(g, w), stack[currentThread]) /\ SameDuties(Cons(g, w), stack[currentThread])
      BY <2>4, MarksSuffice
    <3> QED
      BY <1>2, <2>2, <2>5, <2>6, <3>1, OrdinaryStep DEF ordinary
<1>5. ASSUME NEW v, IsSeq(v)
      PROVE  <<g, EndHandler>> \o v = Cons(g, Cons(EndHandler, v))
  <2> HIDE DEF g
  <2>1. <<g, EndHandler>> \o v = <<g>> \o (<<EndHandler>> \o v) /\ <<g>> \o <<EndHandler>> = <<g, EndHandler>>
    BY <1>5, PairOn
  <2> QED
    BY <2>1 DEF Cons
<1>6. CASE InterruptsOn /\ EnterHandler(x, <<>>)
  <2>1. stack[currentThread] = <<>> /\ SameMarks(<<>>, <<>>)
    BY <1>6 DEF InterruptsOn, SameMarks
  <2>2. stack' = WithStack(Cons(g, Cons(EndHandler, <<>>)))
    BY <1>5, <1>6, EmptyFacts DEF EnterHandler, Continue, Stay, WithStack
  <2> QED
    BY <1>4, <2>1, <2>2, EmptyFacts
<1>7. CASE /\ AtTop("Idle") \/ AtTop("Idled")
           /\ EnterHandler(x, <<Idled>> \o Tail(stack[currentThread]))
  <2>1. PICK f, u : /\ stack[currentThread] = Cons(f, u) /\ Under(f, u) /\ IsSeq(u)
                    /\ f = Top /\ f[1] \in {"Idle", "Idled"}
    BY <1>7, Innermost
  <2>2. u \in Dozes /\ ~Marked(f)
    <3>1. f \notin Lone
      BY <2>1, LoneLabels
    <3> QED
      BY <2>1, <3>1, UnderCases DEF Marked
  <2>3. Tail(stack[currentThread]) = u
    BY <2>1, ConsFacts
  <2> DEFINE v == Cons(Idled, u)
  <2>4. v \in Idling /\ IsSeq(v)
    BY <2>1, <2>2, ConsFacts DEF Idling
  <2>5. SameMarks(v, u) /\ SameMarks(u, Cons(f, u))
    BY <1>3, <2>1, <2>2, UnmarkedCall
  <2>6. SameMarks(v, stack[currentThread])
    BY <2>1, <2>5, MarksCompose
  <2>7. stack' = WithStack(Cons(g, Cons(EndHandler, v)))
    <3>1. stack' = WithStack(<<g, EndHandler>> \o v)
      BY <1>7, <2>3 DEF EnterHandler, Continue, Stay, WithStack, Cons
    <3> QED
      BY <1>5, <2>4, <3>1
  <2> HIDE DEF v, g
  <2> QED
    BY <1>4, <2>4, <2>6, <2>7
<1> QED
  BY <1>6, <1>7 DEF DeviceInterrupt, x

\* ------------------------- semaphores change hands -------------------------

\* A step of the current thread that touches its stack, semaphores and locks.
LEMMA LocalInv ==
  ASSUME SynchInv, NEW s, IsStack(s), SameSleep(s, stack[currentThread]),
         stack' = WithStack(s),
         UNCHANGED <<currentThread, status, readyList, threadToBeDestroyed, queue, waiting>>,
         \A x \in Sems \cup Locks : WokenUp(x, value', WithStack(s), queue, s),
         outcome' # "aborted" =>
           \A l \in Locks : OneUnit(l, value', WithStack(s), owner', holds')
  PROVE  Core'
<1> DEFINE new == WithStack(s)
<1>1. /\ Listed(readyList, status, queue, waiting)
      /\ Placed(status, stack, queue, waiting, threadToBeDestroyed)
      /\ Executes(currentThread, status, stack)
  BY DEF SynchInv, Core
<1>2. /\ Placed(status, new, queue, waiting, threadToBeDestroyed)
      /\ Executes(currentThread, status, new)
  BY <1>1, LocalStep DEF WithStack
<1>3. new[currentThread] = s
  BY <1>1 DEF Executes, WithStack
<1> HIDE DEF new
<1> QED
  BY <1>1, <1>2, <1>3 DEF Core, new

\* A thread in P.
LEMMA InP ==
  ASSUME NEW f, NEW u, Under(f, u), f[1] = "P"
  PROVE  /\ f = <<"P", f[2]>>
         /\ \/ f[2] \in Sems /\ u = <<>>
            \/ f[2] \in Locks /\ u = Cons(<<"SetOwner", f[2]>>, <<>>)
<1>1. f \in Lone => f = <<"P", f[2]>> /\ f[2] \in Sems
  BY SMT DEF Lone, KernelCalls, Vs, Start, Return, EndHandler
<1> QED
  BY <1>1, UnderCases

\* The thread that runs outside Sleep is in no queue.
LEMMA RunnerIsOut ==
  ASSUME SynchInv, Sleep \notin Items(stack[currentThread])
  PROVE  /\ currentThread \in Threads /\ status[currentThread] = "RUNNING"
         /\ \A x \in Sems \cup Locks : currentThread \notin Items(queue[x])
         /\ \A c \in Conds : currentThread \notin Items(waiting[c])
<1>1. currentThread \in Threads /\ status[currentThread] = "RUNNING"
  BY DEF SynchInv, Core, Executes
<1>2. QueuesPlaced(status, stack, queue) /\ WaitersPlaced(status, stack, waiting)
  BY DEF SynchInv, Core, Placed
<1> QED
  BY <1>1, <1>2 DEF QueuesPlaced, WaitersPlaced

\* What the current thread's stack becomes, seen from all threads.
LEMMA WithStackIs ==
  ASSUME SynchInv, NEW s
  PROVE  /\ currentThread \in Threads /\ WithStack(s)[currentThread] = s
         /\ \A t \in Threads \ {currentThread} : WithStack(s)[t] = stack[t]
BY DEF SynchInv, Core, Executes, WithStack

\* P finds a unit and takes it.
LEMMA TakeInv ==
  ASSUME CardinalityLaws, SynchInv, outcome = "running", PStep, value[Top[2]] # 0
  PROVE  Core'
<1>1. PICK f, u : /\ stack[currentThread] = Cons(f, u) /\ Under(f, u) /\ IsSeq(u)
                  /\ f = Top /\ f[1] = "P"
  BY Innermost DEF PStep
<1> DEFINE x == f[2]
           s == Cons(Return, u)
           new == WithStack(s)
<1>2. /\ f = <<"P", x>> /\ x \in Sems \cup Locks
      /\ x \in Locks => u = Cons(<<"SetOwner", x>>, <<>>)
      /\ x \notin Locks => u = <<>>
  BY <1>1, InP, SynchAssumption
<1>3. /\ value' = [value EXCEPT ![x] = @ - 1] /\ stack' = Replace(<<Return>>)
      /\ UNCHANGED <<currentThread, status, readyList, threadToBeDestroyed, outcome,
                     queue, owner, waiting, holds>>
  BY <1>1 DEF PStep, Continue, Stay
<1>4. stack' = new
  BY <1>1, <1>3, ReplaceIs
<1>5. Under(Return, u)
  BY <1>2 DEF Under, Owns, Lone
<1>6. IsStack(s) /\ s # <<>> /\ s[1] = Return /\ Items(s) = {Return} \cup Items(u)
  BY <1>5, Called
<1>7. Items(Cons(f, u)) = {f} \cup Items(u)
  BY <1>1, Called
<1>8. Items(u) = IF x \in Locks THEN {<<"SetOwner", x>>} ELSE {}
  BY <1>2, ItemsOfOne, EmptyFacts
<1>9. Sleep \notin Items(Cons(f, u)) /\ Sleep \notin Items(s)
  BY <1>2, <1>6, <1>7, <1>8, SMT DEF Sleep, Return
<1>10. SameSleep(s, stack[currentThread])
  BY <1>1, <1>9 DEF SameSleep
<1>11. /\ currentThread \in Threads /\ currentThread \notin Items(queue[x])
  BY <1>1, <1>2, <1>9, RunnerIsOut
<1>12. /\ new[currentThread] = s /\ \A t \in Threads \ {currentThread} : new[t] = stack[t]
  BY WithStackIs
<1>13. value \in [Sems \cup Locks -> Nat]
  BY DEF SynchInv, OtherTypes
<1> HIDE DEF s, new, x
<1>14. /\ value' \in [Sems \cup Locks -> Nat] /\ value'[x] = value[x] - 1
       /\ \A y \in Sems \cup Locks : y # x => value'[y] = value[y]
  <2>1. value[x] # 0
    BY <1>1 DEF x
  <2> QED
    BY <1>2, <1>3, <1>13, <2>1, SMT
<1>15. \A y : Coming(y, s) = 0 /\ Coming(y, stack[currentThread]) = 0
  <2>1. Cons(f, u)[1] = f
    BY <1>1, ConsFacts
  <2> QED
    BY <1>1, <1>6, <2>1, LabelOf, NoComing
<1>16. ASSUME NEW y \in Sems \cup Locks PROVE WokenUp(y, value', new, queue, s)
  <2> DEFINE old == Transit(y, stack, queue)
  <2>1. WokenUp(y, value, stack, queue, stack[currentThread])
    BY DEF SynchInv, Core
  <2>2. CASE y # x
    <3>1. old \subseteq Transit(y, new, queue)
      BY <1>1, <1>2, <1>6, <1>7, <1>8, <1>12, <2>2, SMT DEF Transit
    <3>2. value[y] \in Nat /\ value'[y] = value[y]
      BY <1>13, <1>14, <2>2
    <3> QED
      BY <1>15, <2>1, <3>1, <3>2, WakeKept, SMT
  <2>3. CASE y = x
    <3>1. Transit(x, new, queue) = old \ {currentThread} /\ currentThread \in old
      <4>1. <<"P", x>> \in Items(Cons(f, u)) /\ <<"P", x>> \notin Items(s)
        BY <1>2, <1>6, <1>7, <1>8, SMT DEF Return
      <4> QED
        BY <1>1, <1>11, <1>12, <2>3, <4>1 DEF Transit
    <3>2. IsFiniteSet(old) /\ Cardinality(old) \in Nat
      BY TransitFinite
    <3> HIDE DEF old
    <3>3. Cardinality(old \ {currentThread}) = Cardinality(old) - 1
      BY <3>1, <3>2 DEF CardinalityLaws, Laws, OneLess
    <3> QED
      BY <1>13, <1>14, <1>15, <2>1, <2>3, <3>1, <3>2, <3>3, SMT DEF WokenUp, old
  <2> QED
    BY <2>2, <2>3
<1>17. ASSUME NEW l \in Locks PROVE OneUnit(l, value', new, owner, holds)
  <2>1. OneUnit(l, value, stack, owner, holds)
    BY DEF SynchInv, Core
  <2>2. CASE l # x
    <3>1. ASSUME NEW t \in Threads
          PROVE  /\ Enters(l, new[t]) <=> Enters(l, stack[t])
                 /\ Returns(l, new[t]) <=> Returns(l, stack[t])
      <4>1. CASE t = currentThread
        BY <1>1, <1>2, <1>6, <1>7, <1>8, <1>12, <2>2, <4>1, SMT DEF Enters, Returns, Return
      <4>2. CASE t # currentThread
        BY <1>12, <4>2
      <4> QED
        BY <4>1, <4>2
    <3> QED
      BY <1>14, <2>1, <2>2, <3>1, UnitKept
  <2>3. CASE l = x
    <3>1. value[x] = 1 /\ \A t \in Threads : ~HasUnit(t, x, stack, holds)
      BY <1>1, <2>1, <2>3 DEF OneUnit, x
    <3>2. value'[x] = 0 /\ holds[x] \cap Threads = {} /\ \A t \in Threads : t \notin holds[x]
      BY <1>14, <3>1, SMT DEF HasUnit
    <3>3. Enters(x, s) /\ ~Returns(x, s)
      BY <1>6, <1>8, <2>3, SMT DEF Enters, Returns, Return
    <3>4. HasUnit(currentThread, x, new, holds)
      BY <1>12, <3>3 DEF HasUnit
    <3>5. ASSUME NEW t \in Threads, t # currentThread PROVE ~HasUnit(t, x, new, holds)
      BY <1>12, <3>1, <3>5 DEF HasUnit
    <3>6. holds[x] = {owner[x]} \ {NoThread} /\ \A t \in Threads : Returns(x, new[t]) => t \notin holds[x]
      BY <2>1, <2>3, <3>2 DEF OneUnit
    <3> QED
      BY <1>11, <2>3, <3>2, <3>4, <3>5, <3>6 DEF OneUnit
  <2> QED
    BY <2>2, <2>3
<1> QED
  BY <1>3, <1>4, <1>6, <1>10, <1>16, <1>17, LocalInv DEF new

\* Semaphores and locks the step has nothing to do with.
LEMMA OtherWake ==
  ASSUME CardinalityLaws, SynchInv, NEW x \in Sems \cup Locks, NEW s,
         <<"P", x>> \in Items(stack[currentThread]) => <<"P", x>> \in Items(s),
         NEW val1, val1[x] \in Nat,
         val1[x] + Coming(x, s) <= value[x] + Coming(x, stack[currentThread])
  PROVE  WokenUp(x, val1, WithStack(s), queue, s)
<1> DEFINE new == WithStack(s)
<1>1. WokenUp(x, value, stack, queue, stack[currentThread]) /\ value[x] \in Nat
  BY DEF SynchInv, Core, OtherTypes
<1>2. /\ currentThread \in Threads /\ new[currentThread] = s
      /\ \A t \in Threads \ {currentThread} : new[t] = stack[t]
  BY WithStackIs
<1> HIDE DEF new
<1>3. Transit(x, stack, queue) \subseteq Transit(x, new, queue)
  BY <1>2 DEF Transit
<1> QED
  BY <1>1, <1>3, WakeKept DEF new

LEMMA OtherUnit ==
  ASSUME SynchInv, outcome # "aborted", NEW l \in Locks, NEW s,
         Enters(l, s) <=> Enters(l, stack[currentThread]),
         Returns(l, s) <=> Returns(l, stack[currentThread]),
         NEW val1, NEW own1, NEW held1,
         val1[l] = value[l] /\ own1[l] = owner[l] /\ held1[l] = holds[l]
  PROVE  OneUnit(l, val1, WithStack(s), own1, held1)
<1> DEFINE new == WithStack(s)
<1>1. OneUnit(l, value, stack, owner, holds)
  BY DEF SynchInv, Core
<1>2. new[currentThread] = s /\ \A t \in Threads \ {currentThread} : new[t] = stack[t]
  BY WithStackIs
<1> HIDE DEF new
<1>3. ASSUME NEW t \in Threads
      PROVE  /\ Enters(l, new[t]) <=> Enters(l, stack[t])
             /\ Returns(l, new[t]) <=> Returns(l, stack[t])
  BY <1>2
<1> QED
  BY <1>1, <1>3, UnitKept DEF new

\* Below a V there is no thread about to hold a lock.
NoEntry(u) == \A l : ~Enters(l, u)

LEMMA NoEntryBelow ==
  ASSUME NEW u \in {<<>>} \cup Waits \cup Handled \cup Dozes
  PROVE  NoEntry(u) /\ IsSeq(u) /\ \A f \in Items(u) : f[1] \notin {"V", "VIncrement"}
<1>1. ASSUME NEW f, NEW v, IsSeq(v), NoEntry(v), f[1] # "SetOwner", f[1] # "P"
      PROVE  NoEntry(Cons(f, v))
  <2>1. Items(Cons(f, v)) = {f} \cup Items(v)
    BY <1>1, ConsFacts
  <2> QED
    <3>1. ASSUME NEW l PROVE f # <<"SetOwner", l>> /\ f # <<"P", l>>
      BY <1>1, SMT
    <3> QED
      BY <1>1, <2>1, <3>1 DEF NoEntry, Enters
<1>2. NoEntry(<<>>) /\ IsSeq(<<>>)
  BY EmptyFacts DEF NoEntry, Enters
<1>3. ASSUME NEW v \in Asleep PROVE NoEntry(v) /\ IsSeq(v)
  <2>1. ASSUME NEW f, v = Cons(f, <<>>), f[1] # "SetOwner" PROVE NoEntry(v)
    BY <2>1, ItemsOfOne, SMT DEF NoEntry, Enters
  <2>2. ASSUME NEW l \in Locks, v = Cons(<<"P", l>>, Cons(<<"SetOwner", l>>, <<>>)) PROVE NoEntry(v)
    <3> DEFINE w == Cons(<<"SetOwner", l>>, <<>>)
    <3>0. IsSeq(w) /\ Items(w) = {<<"SetOwner", l>>}
      BY ItemsOfOne
    <3>1. Items(v) = {<<"P", l>>} \cup Items(w)
      BY <2>2, <3>0, ConsFacts
    <3> HIDE DEF w
    <3>2. ASSUME NEW k, <<"SetOwner", k>> \in Items(v) PROVE <<"P", k>> \in Items(v)
      <4>1. <<"SetOwner", k>> = <<"SetOwner", l>>
        BY <3>0, <3>1, <3>2
      <4>2. k = l
        BY <4>1
      <4> QED
        BY <3>1, <4>2
    <3> QED
      BY <3>2 DEF NoEntry, Enters
  <2>3. IsSeq(v)
    BY AsleepFacts DEF Labelled
  <2> QED
    BY <2>1, <2>2, <2>3 DEF Asleep, Finished
<1>4. ASSUME NEW v \in Dozes PROVE NoEntry(v) /\ IsSeq(v)
  BY <1>1, <1>3, DozeFacts DEF Dozes, Labelled, Sleep
<1>5. ASSUME NEW v \in Idling PROVE NoEntry(v) /\ IsSeq(v)
  BY <1>1, <1>4, IdlingFacts DEF Idling, Labelled, Idled
<1>6. CASE u \in Handled
  <2>1. NoEntry(u)
    BY <1>1, <1>2, <1>5, <1>6 DEF Handled, EndHandler
  <2> QED
    BY <1>6, <2>1, HandledFacts DEF Labelled
<1>7. CASE u \in Waits
  <2>1. NoEntry(u)
    BY <1>1, <1>2, <1>7 DEF Waits
  <2> QED
    BY <1>7, <2>1, LoneTailFacts DEF Labelled
<1>8. CASE u \in Dozes
  BY <1>4, <1>8, DozeFacts DEF Labelled
<1> QED
  BY <1>2, <1>6, <1>7, <1>8, EmptyFacts

\* A thread in V.
LEMMA InV ==
  ASSUME NEW f, NEW u, Under(f, u), f[1] \in {"V", "VIncrement"}
  PROVE  /\ f = <<f[1], f[2]>> /\ f[2] \in Sems \cup Locks
         /\ u \in {<<>>} \cup Waits \cup Handled
         /\ Under(<<"VIncrement", f[2]>>, u) /\ Under(Return, u)
<1>1. f \in Lone => f = <<f[1], f[2]>> /\ f[2] \in Sems \cup Locks
  BY SMT DEF Lone, KernelCalls, Vs, Start, Return, EndHandler
<1>2. f = <<f[1], f[2]>> /\ f[2] \in Sems \cup Locks /\ u \in {<<>>} \cup Waits \cup Handled
  BY <1>1, UnderCases
<1>3. <<"VIncrement", f[2]>> \in Vs
  BY <1>2 DEF Vs
<1>4. Return \in Lone /\ Vs \subseteq Lone
  BY DEF Lone
<1>5. Under(<<"VIncrement", f[2]>>, u)
  BY <1>2, <1>3, <1>4 DEF Under
<1>6. Under(Return, u)
  BY <1>2, <1>4 DEF Under
<1> QED
  BY <1>2, <1>5, <1>6

\* V goes on to add the unit: what the current thread's stack becomes.
VMoved(x, s) ==
  /\ IsStack(s) /\ SameSleep(s, stack[currentThread])
  /\ \A y : <<"P", y>> \in Items(stack[currentThread]) => <<"P", y>> \in Items(s)
  /\ \A y : /\ Coming(y, stack[currentThread]) = 0
            /\ Coming(y, s) = IF y = x THEN 1 ELSE 0
  /\ \A l \in Locks : OneUnit(l, value, WithStack(s), owner, holds)

LEMMA VMoves ==
  ASSUME SynchInv, outcome = "running", NEW x, NEW u, stack[currentThread] = Cons(<<"V", x>>, u),
         Under(<<"V", x>>, u), Under(<<"VIncrement", x>>, u)
  PROVE  VMoved(x, Cons(<<"VIncrement", x>>, u))
<1> DEFINE f == <<"V", x>>
           s == Cons(<<"VIncrement", x>>, u)
<1>1. IsStack(s) /\ s # <<>> /\ s[1] = <<"VIncrement", x>> /\ Items(s) = {<<"VIncrement", x>>} \cup Items(u)
  BY Called
<1>2. /\ Items(stack[currentThread]) = {f} \cup Items(u)
      /\ stack[currentThread] # <<>> /\ stack[currentThread][1] = f
  BY Called
<1> HIDE DEF s
<1>3. SameSleep(s, stack[currentThread])
  <2>1. ASSUME NEW g, g[1] \in Reasons \cup {"Sleep"}
        PROVE  g \in Items(s) <=> g \in Items(stack[currentThread])
    BY <1>1, <1>2, <2>1, SMTT(30) DEF Reasons
  <2> QED
    BY <2>1, SleepKept
<1>4. ASSUME NEW y
      PROVE  <<"P", y>> \in Items(stack[currentThread]) => <<"P", y>> \in Items(s)
  BY <1>1, <1>2
<1>5. ASSUME NEW y
      PROVE  Coming(y, stack[currentThread]) = 0 /\ Coming(y, s) = IF y = x THEN 1 ELSE 0
  BY <1>1, <1>2, SMTT(30) DEF Coming
<1>6. ASSUME NEW l \in Locks PROVE OneUnit(l, value, WithStack(s), owner, holds)
  <2>1. Enters(l, s) <=> Enters(l, stack[currentThread])
    BY <1>1, <1>2 DEF Enters
  <2>2. Returns(l, s) <=> Returns(l, stack[currentThread])
    <3>1. \A g \in Items(u) : g[1] \notin {"V", "VIncrement"}
      BY UnderFacts DEF Sound
    <3> QED
      BY <1>1, <1>2, <3>1 DEF Returns
  <2> QED
    BY <2>1, <2>2, OtherUnit
<1> QED
  BY <1>1, <1>3, <1>4, <1>5, <1>6 DEF VMoved, s

\* V finds nobody asleep.
LEMMA VEmptyInv ==
  ASSUME CardinalityLaws, SynchInv, outcome = "running", VStep, queue[Top[2]] = <<>>
  PROVE  Core'
<1>1. PICK f, u : /\ stack[currentThread] = Cons(f, u) /\ Under(f, u) /\ IsSeq(u)
                  /\ f = Top /\ f[1] = "V"
  BY Innermost DEF VStep
<1> DEFINE x == f[2]
           s == Cons(<<"VIncrement", x>>, u)
<1>2. /\ f = <<"V", x>> /\ x \in Sems \cup Locks /\ Under(<<"VIncrement", x>>, u)
  BY <1>1, InV
<1>3. /\ stack' = Replace(<<<<"VIncrement", x>>>>) /\ queue[x] = <<>>
      /\ UNCHANGED <<currentThread, status, readyList, threadToBeDestroyed, outcome,
                     queue, value, owner, waiting, holds>>
  BY <1>1 DEF VStep, Continue, Stay
<1>4. stack' = WithStack(s)
  BY <1>1, <1>3, ReplaceIs
<1>5. VMoved(x, s)
  BY <1>1, <1>2, VMoves
<1> HIDE DEF s, x
<1>6. ASSUME NEW y \in Sems \cup Locks PROVE WokenUp(y, value, WithStack(s), queue, s)
  <2>1. CASE y = x
    BY <1>3, <2>1 DEF WokenUp
  <2>2. CASE y # x
    <3>1. <<"P", y>> \in Items(stack[currentThread]) => <<"P", y>> \in Items(s)
      BY <1>5 DEF VMoved
    <3>2. Coming(y, s) = 0 /\ Coming(y, stack[currentThread]) = 0
      BY <1>5, <2>2 DEF VMoved
    <3>3. value[y] \in Nat
      BY DEF SynchInv, OtherTypes
    <3> QED
      BY <3>1, <3>2, <3>3, OtherWake, SMT
  <2> QED
    BY <2>1, <2>2
<1>7. /\ IsStack(s) /\ SameSleep(s, stack[currentThread])
      /\ \A l \in Locks : OneUnit(l, value, WithStack(s), owner, holds)
  BY <1>5 DEF VMoved
<1> QED
  BY <1>3, <1>4, <1>6, <1>7, LocalInv

\* V adds the unit.
LEMMA VIncrementInv ==
  ASSUME CardinalityLaws, SynchInv, outcome = "running", VIncrementStep
  PROVE  Core'
<1>1. PICK f, u : /\ stack[currentThread] = Cons(f, u) /\ Under(f, u) /\ IsSeq(u)
                  /\ f = Top /\ f[1] = "VIncrement"
  BY Innermost DEF VIncrementStep
<1> DEFINE x == f[2]
           s == Cons(Return, u)
<1>2. /\ f = <<"VIncrement", x>> /\ x \in Sems \cup Locks /\ Under(Return, u)
      /\ u \in {<<>>} \cup Waits \cup Handled
  BY <1>1, InV
<1>3. /\ stack' = Replace(<<Return>>) /\ value' = [value EXCEPT ![x] = @ + 1]
      /\ UNCHANGED <<currentThread, status, readyList, threadToBeDestroyed, outcome,
                     queue, owner, waiting, holds>>
  BY <1>1 DEF VIncrementStep, Continue, Stay
<1>4. stack' = WithStack(s)
  BY <1>1, <1>3, ReplaceIs
<1>5. IsStack(s) /\ s # <<>> /\ s[1] = Return /\ Items(s) = {Return} \cup Items(u)
  BY <1>2, Called
<1>6. /\ Items(stack[currentThread]) = {f} \cup Items(u)
      /\ stack[currentThread] # <<>> /\ stack[currentThread][1] = f
  BY <1>1, Called
<1>7. NoEntry(u) /\ \A g \in Items(u) : g[1] \notin {"V", "VIncrement"}
  BY <1>2, NoEntryBelow
<1>8. value \in [Sems \cup Locks -> Nat] /\ holds \in [Locks -> SUBSET Threads]
  BY DEF SynchInv, OtherTypes
<1> HIDE DEF s, x
<1>9. /\ value'[x] = value[x] + 1 /\ value' \in [Sems \cup Locks -> Nat]
      /\ \A y \in Sems \cup Locks : y # x => value'[y] = value[y]
  BY <1>2, <1>3, <1>8, SMT
<1>10. SameSleep(s, stack[currentThread])
  <2>1. ASSUME NEW g, g[1] \in Reasons \cup {"Sleep"}
        PROVE  g \in Items(s) <=> g \in Items(stack[currentThread])
    BY <1>2, <1>5, <1>6, <2>1, SMT DEF Reasons, Return
  <2> QED
    BY <2>1, SleepKept
<1>11. ASSUME NEW y \in Sems \cup Locks PROVE WokenUp(y, value', WithStack(s), queue, s)
  <2>1. <<"P", y>> \in Items(stack[currentThread]) => <<"P", y>> \in Items(s)
    BY <1>2, <1>5, <1>6, SMT DEF Return
  <2>2. Coming(y, s) = 0 /\ Coming(y, stack[currentThread]) = IF y = x THEN 1 ELSE 0
    BY <1>2, <1>5, <1>6, SMTT(30) DEF Coming, Return
  <2>3. value'[y] \in Nat /\ value'[y] + Coming(y, s) <= value[y] + Coming(y, stack[currentThread])
    BY <1>8, <1>9, <2>2, SMT
  <2> QED
    BY <2>1, <2>3, OtherWake
<1>12. ASSUME NEW l \in Locks PROVE OneUnit(l, value', WithStack(s), owner, holds)
  <2>1. ~Enters(l, s) /\ ~Returns(l, s)
    <3>1. <<"SetOwner", l>> \in Items(s) => <<"SetOwner", l>> \in Items(u)
      BY <1>5 DEF Return
    <3>2. <<"SetOwner", l>> \in Items(s) => <<"P", l>> \in Items(s)
      BY <1>5, <1>7, <3>1 DEF NoEntry, Enters
    <3> QED
      BY <1>5, <1>7, <3>2 DEF Enters, Returns, Return
  <2>2. ~Enters(l, stack[currentThread])
    BY <1>2, <1>6, <1>7, SMT DEF NoEntry, Enters
  <2>3. CASE l # x
    <3>1. ~Returns(l, stack[currentThread])
      BY <1>2, <1>6, <1>7, <2>3, SMTT(30) DEF Returns
    <3> QED
      BY <1>9, <2>1, <2>2, <2>3, <3>1, OtherUnit
  <2>4. CASE l = x
    <3> DEFINE new == WithStack(s)
    <3>1. OneUnit(l, value, stack, owner, holds)
      BY DEF SynchInv, Core
    <3>2. new[currentThread] = s /\ \A t \in Threads \ {currentThread} : new[t] = stack[t]
      BY WithStackIs
    <3> HIDE DEF new
    <3>3. Returns(l, stack[currentThread]) /\ currentThread \in Threads
      BY <1>2, <1>6, <2>4, WithStackIs DEF Returns
    <3>4. HasUnit(currentThread, l, stack, holds) /\ currentThread \notin holds[l]
      BY <3>1, <3>3 DEF OneUnit, HasUnit
    <3>5. value[l] = 0 /\ \A t \in Threads : HasUnit(t, l, stack, holds) => t = currentThread
      BY <3>1, <3>3, <3>4 DEF OneUnit
    <3>6. ASSUME NEW t \in Threads PROVE ~HasUnit(t, l, new, holds)
      BY <2>1, <3>2, <3>4, <3>5 DEF HasUnit
    <3>7. ASSUME NEW t \in Threads PROVE ~Returns(l, new[t])
      BY <3>6 DEF HasUnit
    <3>8. value'[l] = 1
      BY <1>9, <2>4, <3>5, SMT
    <3>9. holds[l] = {owner[l]} \ {NoThread}
      BY <3>1 DEF OneUnit
    <3> QED
      BY <3>6, <3>7, <3>8, <3>9 DEF OneUnit, new
  <2> QED
    BY <2>3, <2>4
<1> QED
  BY <1>3, <1>4, <1>5, <1>10, <1>11, <1>12, LocalInv

\* Acquire ends: the unit P took makes the thread the owner.
LEMMA SetOwnerInv ==
  ASSUME CardinalityLaws, SynchInv, outcome = "running", SetOwnerStep
  PROVE  Core'
<1>1. PICK f, u : /\ stack[currentThread] = Cons(f, u) /\ Under(f, u) /\ IsSeq(u)
                  /\ f = Top /\ f[1] = "SetOwner"
  BY Innermost DEF SetOwnerStep
<1> DEFINE k == f[2]
           s == Cons(Return, <<>>)
<1>2. u = <<>> /\ f = <<"SetOwner", k>> /\ k \in Locks
  BY <1>1, LoneCall
<1>3. /\ stack' = Replace(<<Return>>)
      /\ owner' = [owner EXCEPT ![k] = currentThread]
      /\ holds' = [holds EXCEPT ![k] = @ \cup {currentThread}]
      /\ UNCHANGED <<currentThread, status, readyList, threadToBeDestroyed, outcome,
                     queue, value, waiting>>
  BY <1>1 DEF SetOwnerStep, Continue, Stay
<1>4. stack' = WithStack(s)
  BY <1>1, <1>2, <1>3, ReplaceIs
<1>5. IsStack(s) /\ s # <<>> /\ s[1] = Return /\ Items(s) = {Return}
  BY UnderReturn, Called, ItemsOfOne
<1>6. /\ Items(stack[currentThread]) = {f} /\ stack[currentThread] # <<>> /\ stack[currentThread][1] = f
  BY <1>1, <1>2, Called, ItemsOfOne
<1>7. /\ owner \in [Locks -> Threads \cup {NoThread}] /\ holds \in [Locks -> SUBSET Threads]
      /\ value \in [Sems \cup Locks -> Nat]
  BY DEF SynchInv, OtherTypes
<1> HIDE DEF s, k
<1>8. SameSleep(s, stack[currentThread])
  BY <1>2, <1>5, <1>6, SMTT(30) DEF SameSleep, Sleep, Return
<1>9. ASSUME NEW y \in Sems \cup Locks PROVE WokenUp(y, value, WithStack(s), queue, s)
  <2>1. <<"P", y>> \notin Items(stack[currentThread])
    BY <1>2, <1>6, SMT
  <2>2. Coming(y, s) = 0 /\ Coming(y, stack[currentThread]) = 0
    BY <1>1, <1>5, <1>6, LabelOf, NoComing
  <2>3. value[y] \in Nat
    BY <1>7
  <2> QED
    BY <2>1, <2>2, <2>3, OtherWake, SMT
<1>10. ASSUME NEW l \in Locks PROVE OneUnit(l, value, WithStack(s), owner', holds')
  <2>1. ~Enters(l, s) /\ ~Returns(l, s)
    BY <1>5 DEF Enters, Returns, Return
  <2>2. CASE l # k
    <3>1. ~Enters(l, stack[currentThread]) /\ ~Returns(l, stack[currentThread])
      BY <1>2, <1>6, <2>2, SMTT(30) DEF Enters, Returns
    <3>2. owner'[l] = owner[l] /\ holds'[l] = holds[l]
      BY <1>3, <1>7, <2>2
    <3> QED
      BY <2>1, <3>1, <3>2, OtherUnit
  <2>3. CASE l = k
    <3> DEFINE new == WithStack(s)
               held == holds'
               own == owner'
    <3>1. OneUnit(l, value, stack, owner, holds)
      BY DEF SynchInv, Core
    <3>2. /\ currentThread \in Threads /\ currentThread # NoThread
          /\ new[currentThread] = s /\ \A t \in Threads \ {currentThread} : new[t] = stack[t]
      BY WithStackIs, ThreadAssumption
    <3>3. own[l] = currentThread /\ held[l] = holds[l] \cup {currentThread}
      BY <1>3, <1>7, <2>3
    <3> HIDE DEF new, own, held
    <3>4. HasUnit(currentThread, l, stack, holds)
      BY <1>2, <1>6, <2>3, <3>2, SMT DEF HasUnit, Enters
    <3>5. value[l] = 0 /\ \A t \in Threads : HasUnit(t, l, stack, holds) => t = currentThread
      BY <3>1, <3>2, <3>4 DEF OneUnit
    <3>6. holds[l] \subseteq {currentThread}
      BY <1>7, <3>5 DEF HasUnit
    <3>7. held[l] = {own[l]} \ {NoThread} /\ held[l] = {currentThread}
      BY <3>2, <3>3, <3>6
    <3>8. ASSUME NEW t \in Threads, HasUnit(t, l, new, held) PROVE t = currentThread
      BY <3>2, <3>5, <3>7, <3>8 DEF HasUnit
    <3>9. ASSUME NEW t \in Threads, Returns(l, new[t]) PROVE t \notin held[l]
      <4>1. t = currentThread
        BY <3>8, <3>9 DEF HasUnit
      <4> QED
        BY <2>1, <3>2, <3>9, <4>1
    <3>10. HasUnit(currentThread, l, new, held)
      BY <3>7 DEF HasUnit
    <3>11. OneUnit(l, value, new, own, held)
      BY <3>2, <3>5, <3>7, <3>8, <3>9, <3>10, UnitWith
    <3> QED
      BY <3>11 DEF new, own, held
  <2> QED
    BY <2>2, <2>3
<1> QED
  BY <1>3, <1>4, <1>5, <1>8, <1>9, <1>10, LocalInv

\* Release gives up the lock, to V.  Who does not hold it fails an assertion.
LEMMA ReleaseInv ==
  ASSUME CardinalityLaws, SynchInv, outcome = "running", ReleaseStep
  PROVE  Core'
<1>1. PICK f, u : /\ stack[currentThread] = Cons(f, u) /\ Under(f, u) /\ IsSeq(u)
                  /\ f = Top /\ f[1] = "Release"
  BY Innermost DEF ReleaseStep
<1> DEFINE k == f[2]
           s == Cons(<<"V", k>>, u)
<1>2. f = <<"Release", k>> /\ k \in Locks /\ u \in {<<>>} \cup Waits
  <2>1. f \in Lone => f = <<f[1], f[2]>> /\ f[2] \in Locks
    BY <1>1, SMT DEF Lone, KernelCalls, Vs, Start, Return, EndHandler
  <2> QED
    BY <1>1, <2>1, UnderCases
<1>3. /\ stack' = Replace(<<<<"V", k>>>>)
      /\ owner' = [owner EXCEPT ![k] = NoThread]
      /\ holds' = [holds EXCEPT ![k] = @ \ {currentThread}]
      /\ outcome' # "aborted" => owner[k] = currentThread
      /\ UNCHANGED <<currentThread, status, readyList, threadToBeDestroyed,
                     queue, value, waiting>>
  BY <1>1 DEF ReleaseStep, isHeldByCurrentThread
<1>4. stack' = WithStack(s)
  BY <1>1, <1>3, ReplaceIs
<1>5. Under(<<"V", k>>, u)
  BY <1>2 DEF Under, Lone, Vs
<1>6. IsStack(s) /\ s # <<>> /\ s[1] = <<"V", k>> /\ Items(s) = {<<"V", k>>} \cup Items(u)
  BY <1>5, Called
<1>7. /\ Items(stack[currentThread]) = {f} \cup Items(u)
      /\ stack[currentThread] # <<>> /\ stack[currentThread][1] = f
  BY <1>1, Called
<1>8. /\ owner \in [Locks -> Threads \cup {NoThread}] /\ holds \in [Locks -> SUBSET Threads]
      /\ value \in [Sems \cup Locks -> Nat]
  BY DEF SynchInv, OtherTypes
<1>9. \A g \in Items(u) : g[1] \notin {"V", "VIncrement"}
  BY <1>2, NoEntryBelow
<1> HIDE DEF s, k
<1>10. SameSleep(s, stack[currentThread])
  <2>1. ASSUME NEW g, g[1] \in Reasons \cup {"Sleep"}
        PROVE  g \in Items(s) <=> g \in Items(stack[currentThread])
    BY <1>2, <1>6, <1>7, <2>1, SMTT(30) DEF Reasons
  <2> QED
    BY <2>1, SleepKept
<1>11. ASSUME NEW y \in Sems \cup Locks PROVE WokenUp(y, value, WithStack(s), queue, s)
  <2>1. <<"P", y>> \in Items(stack[currentThread]) => <<"P", y>> \in Items(s)
    <3>1. f # <<"P", y>>
      BY <1>1, OtherLabel
    <3> QED
      BY <1>6, <1>7, <3>1
  <2>2. Coming(y, s) = 0 /\ Coming(y, stack[currentThread]) = 0
    <3>1. s[1][1] = "V" /\ stack[currentThread][1][1] = "Release"
      BY <1>1, <1>6, <1>7, LabelOf
    <3> QED
      BY <3>1, NoComing
  <2>3. value[y] \in Nat
    BY <1>8
  <2> QED
    BY <2>1, <2>2, <2>3, OtherWake, SMTT(30)
<1>12. ASSUME NEW l \in Locks, owner[k] = currentThread
       PROVE  OneUnit(l, value, WithStack(s), owner', holds')
  <2>1. Enters(l, s) <=> Enters(l, stack[currentThread])
    BY <1>2, <1>6, <1>7, SMTT(30) DEF Enters
  <2>2. CASE l # k
    <3>1. ~Returns(l, s) /\ ~Returns(l, stack[currentThread])
      BY <1>2, <1>6, <1>7, <1>9, <2>2, SMTT(30) DEF Returns
    <3>2. owner'[l] = owner[l] /\ holds'[l] = holds[l]
      BY <1>3, <1>8, <2>2
    <3> QED
      BY <2>1, <3>1, <3>2, OtherUnit
  <2>3. CASE l = k
    <3> DEFINE new == WithStack(s)
               held == holds'
               own == owner'
    <3>1. OneUnit(l, value, stack, owner, holds)
      BY DEF SynchInv, Core
    <3>2. /\ currentThread \in Threads /\ currentThread # NoThread
          /\ new[currentThread] = s /\ \A t \in Threads \ {currentThread} : new[t] = stack[t]
      BY WithStackIs, ThreadAssumption
    <3>3. holds[l] = {currentThread}
      BY <1>12, <2>3, <3>1, <3>2 DEF OneUnit
    <3>4. own[l] = NoThread /\ held[l] = {}
      BY <1>3, <1>8, <2>3, <3>3
    <3> HIDE DEF new, own, held
    <3>5. value[l] = 0 /\ \A t \in Threads : HasUnit(t, l, stack, holds) => t = currentThread
      BY <3>1, <3>2, <3>3 DEF OneUnit, HasUnit
    <3>6. HasUnit(currentThread, l, new, held)
      BY <1>6, <2>3, <3>2 DEF HasUnit, Returns
    <3>7. ASSUME NEW t \in Threads, HasUnit(t, l, new, held) PROVE t = currentThread
      BY <3>2, <3>4, <3>5, <3>7 DEF HasUnit
    <3>8. held[l] = {own[l]} \ {NoThread}
      BY <3>4
    <3>9. OneUnit(l, value, new, own, held)
      BY <3>2, <3>4, <3>5, <3>6, <3>7, <3>8, UnitWith
    <3> QED
      BY <3>9 DEF new, own, held
  <2> QED
    BY <2>2, <2>3
<1>13. outcome' # "aborted" => \A l \in Locks : OneUnit(l, value, WithStack(s), owner', holds')
  BY <1>3, <1>12
<1> QED
  BY <1>3, <1>4, <1>6, <1>10, <1>11, <1>13, LocalInv

\* ---------------------------- going to sleep ----------------------------

\* The current thread goes to sleep; it has no unit of a lock, and is in P only of
\* semaphores without units.
LEMMA SleepInv ==
  ASSUME CardinalityLaws, SynchInv, outcome = "running", Sleep \notin Items(stack[currentThread]),
         NEW v \in Asleep, stack' = WithStack(Cons(Sleep, v)),
         status' = [status EXCEPT ![currentThread] = "BLOCKED"],
         UNCHANGED <<currentThread, readyList, outcome, value, owner, holds>>,
         JoinsQueue(currentThread, v, queue, queue'),
         JoinsWaiting(currentThread, v, waiting, waiting'),
         HasReason(currentThread, v, queue', waiting', threadToBeDestroyed, threadToBeDestroyed'),
         \A x \in Sems \cup Locks : queue'[x] = queue[x] \/ value[x] = 0,
         \A x \in Sems \cup Locks : <<"P", x>> \in Items(stack[currentThread]) => value[x] = 0,
         NoEntry(stack[currentThread]), \A l \in Locks : ~Returns(l, stack[currentThread])
  PROVE  Core'
<1> DEFINE s == Cons(Sleep, v)
           new == WithStack(s)
           stat == [status EXCEPT ![currentThread] = "BLOCKED"]
<1>1. /\ Listed(readyList, status, queue, waiting)
      /\ Placed(status, stack, queue, waiting, threadToBeDestroyed)
      /\ Executes(currentThread, status, stack)
  BY DEF SynchInv, Core
<1>2. /\ currentThread \in Threads /\ status[currentThread] = "RUNNING"
  BY RunnerIsOut
<1>5. /\ Listed(readyList, stat, queue', waiting')
      /\ Placed(stat, new, queue', waiting', threadToBeDestroyed')
      /\ Executes(currentThread, stat, new)
  BY <1>1, <1>2, BlockStep DEF WithStack
<1>6. new[currentThread] = s /\ \A t \in Threads \ {currentThread} : new[t] = stack[t]
  BY WithStackIs
<1>7. s \in Dozes
  BY DEF Dozes
<1>8. /\ NoEntry(s) /\ IsSeq(s) /\ Items(s) = {Sleep} \cup Items(v)
      /\ \A f \in Items(s) : f[1] \notin {"V", "VIncrement"}
      /\ s[1] = Sleep
  <2>1. IsSeq(v)
    BY AsleepFacts DEF Labelled
  <2> QED
    BY <1>7, <2>1, NoEntryBelow, ConsFacts
<1> HIDE DEF s, new, stat
<1>9. ASSUME NEW x \in Sems \cup Locks PROVE WokenUp(x, value, new, queue', s)
  <2>1. Coming(x, s) = 0 /\ Coming(x, stack[currentThread]) \in {0, 1}
    BY <1>8, SMTT(30) DEF Coming, Sleep
  <2>2. value[x] \in Nat /\ WokenUp(x, value, stack, queue, stack[currentThread])
    BY DEF SynchInv, OtherTypes, Core
  <2>3. CASE value[x] = 0
    <3>1. Cardinality(Transit(x, new, queue')) \in Nat
      BY TransitFinite
    <3> QED
      <4>1. Cardinality(Transit(x, new, queue')) >= value[x] + Coming(x, s)
        BY <2>1, <2>3, <3>1, NothingOwed
      <4> QED
        BY <4>1 DEF WokenUp
  <2>4. CASE value[x] # 0
    <3>1. queue'[x] = queue[x]
      BY <2>4
    <3>2. Transit(x, stack, queue) \subseteq Transit(x, new, queue')
      BY <1>6, <2>4, <3>1 DEF Transit
    <3> QED
      BY <2>1, <3>1, <3>2, StillWoken
  <2> QED
    BY <2>3, <2>4
<1>10. ASSUME NEW l \in Locks PROVE OneUnit(l, value, new, owner, holds)
  <2>1. ~Enters(l, s) /\ ~Enters(l, stack[currentThread])
    BY <1>8 DEF NoEntry
  <2>2. ~Returns(l, s) /\ ~Returns(l, stack[currentThread])
    BY <1>8 DEF Returns
  <2> QED
    BY <2>1, <2>2, OtherUnit DEF new
<1> QED
  BY <1>5, <1>6, <1>9, <1>10 DEF Core, new, stat, s

\* The queues and conditions the current thread does not join, and the one it joins.
LEMMA StaysOut ==
  ASSUME SynchInv, Sleep \notin Items(stack[currentThread]), NEW v
  PROVE  /\ JoinsQueue(currentThread, v, queue, queue)
         /\ JoinsWaiting(currentThread, v, waiting, waiting)
<1>1. Listed(readyList, status, queue, waiting)
  BY DEF SynchInv, Core
<1>2. \A c \in Conds : currentThread \notin Items(waiting[c])
  BY RunnerIsOut
<1>3. JoinsQueue(currentThread, v, queue, queue)
  BY <1>1 DEF Listed, JoinsQueue
<1>4. JoinsWaiting(currentThread, v, waiting, waiting)
  BY <1>1, <1>2 DEF Listed, JoinsWaiting
<1> QED
  BY <1>3, <1>4

\* A thread finishes.
LEMMA FinishInv ==
  ASSUME CardinalityLaws, SynchInv, outcome = "running", FinishStep, UNCHANGED synchVars
  PROVE  Core'
<1>1. PICK f, u : /\ stack[currentThread] = Cons(f, u) /\ Under(f, u) /\ IsSeq(u)
                  /\ f = Top /\ f[1] = "Finish"
  BY Innermost DEF FinishStep
<1> DEFINE v == Cons(Finished, <<>>)
<1>2. u = <<>>
  BY <1>1, LoneCall
<1>3. /\ stack' = Replace(<<Sleep, Finished>>) /\ threadToBeDestroyed' = currentThread
      /\ status' = [status EXCEPT ![currentThread] = "BLOCKED"]
      /\ UNCHANGED <<currentThread, readyList, outcome, value, owner, holds, queue, waiting>>
  BY DEF FinishStep, synchVars
<1>4. stack' = WithStack(Cons(Sleep, v))
  BY <1>1, <1>2, <1>3, ReplaceIs, SMT
<1>5. v \in Asleep /\ Finished \in Items(v)
  <2>1. Items(v) = {Finished}
    BY ItemsOfOne
  <2> QED
    BY <2>1 DEF Asleep
<1>6. Items(stack[currentThread]) = {f}
  BY <1>1, <1>2, ItemsOfOne
<1>7. /\ Sleep \notin Items(stack[currentThread]) /\ NoEntry(stack[currentThread])
      /\ \A x : <<"P", x>> \notin Items(stack[currentThread])
      /\ \A l \in Locks : ~Returns(l, stack[currentThread])
  BY <1>1, <1>6, FrameFacts DEF Sleep, NoEntry, Enters, Returns
<1>8. JoinsQueue(currentThread, v, queue, queue) /\ JoinsWaiting(currentThread, v, waiting, waiting)
  BY <1>7, StaysOut
<1>9. HasReason(currentThread, v, queue, waiting, threadToBeDestroyed, currentThread)
  BY <1>5 DEF HasReason
<1> HIDE DEF v
<1> QED
  BY <1>3, <1>4, <1>5, <1>7, <1>8, <1>9, SleepInv

LEMMA JoinsOne ==
  ASSUME SynchInv, Sleep \notin Items(stack[currentThread]), NEW v
  PROVE  /\ \A x \in Sems \cup Locks :
              LET q1 == [queue EXCEPT ![x] = Append(@, currentThread)]
              IN  <<"P", x>> \in Items(v) =>
                    /\ JoinsQueue(currentThread, v, queue, q1) /\ currentThread \in Items(q1[x])
                    /\ \A y \in Sems \cup Locks : y # x => q1[y] = queue[y]
         /\ \A c \in Conds :
              LET w1 == [waiting EXCEPT ![c] = Append(@, currentThread)]
              IN  <<"Acquire", LockOf[c]>> \in Items(v) =>
                    JoinsWaiting(currentThread, v, waiting, w1) /\ currentThread \in Items(w1[c])
<1>1. /\ queue \in [Sems \cup Locks -> Seq(Threads)] /\ \A x \in Sems \cup Locks : NoDuplicates(queue[x])
      /\ waiting \in [Conds -> Seq(Threads)] /\ \A c \in Conds : NoDuplicates(waiting[c])
  BY DEF SynchInv, Core, Listed
<1>2. /\ currentThread \in Threads
      /\ \A x \in Sems \cup Locks : currentThread \notin Items(queue[x])
      /\ \A c \in Conds : currentThread \notin Items(waiting[c])
  BY RunnerIsOut
<1>3. ASSUME NEW x \in Sems \cup Locks, <<"P", x>> \in Items(v), NEW q1,
             q1 = [queue EXCEPT ![x] = Append(@, currentThread)]
      PROVE  /\ JoinsQueue(currentThread, v, queue, q1) /\ currentThread \in Items(q1[x])
             /\ \A y \in Sems \cup Locks : y # x => q1[y] = queue[y]
  <2> DEFINE long == Append(queue[x], currentThread)
  <2>1. /\ long \in Seq(Threads) /\ NoDuplicates(long)
        /\ Items(long) = Items(queue[x]) \cup {currentThread}
    BY <1>1, <1>2, AppendNew, SMT
  <2>2. q1 = [queue EXCEPT ![x] = long]
    BY <1>3
  <2> HIDE DEF long
  <2>3. /\ q1 \in [Sems \cup Locks -> Seq(Threads)] /\ q1[x] = long
        /\ \A y \in Sems \cup Locks : y # x => q1[y] = queue[y]
    BY <1>1, <2>1, <2>2
  <2>4. ASSUME NEW y \in Sems \cup Locks
        PROVE  /\ NoDuplicates(q1[y]) /\ Items(queue[y]) \subseteq Items(q1[y])
               /\ \A t \in Items(q1[y]) :
                    t \in Items(queue[y]) \/ (t = currentThread /\ <<"P", y>> \in Items(v))
    BY <1>1, <1>3, <2>1, <2>3
  <2> QED
    BY <2>1, <2>3, <2>4 DEF JoinsQueue
<1>4. ASSUME NEW c \in Conds, <<"Acquire", LockOf[c]>> \in Items(v), NEW w1,
             w1 = [waiting EXCEPT ![c] = Append(@, currentThread)]
      PROVE  JoinsWaiting(currentThread, v, waiting, w1) /\ currentThread \in Items(w1[c])
  <2> DEFINE long == Append(waiting[c], currentThread)
  <2>1. /\ long \in Seq(Threads) /\ NoDuplicates(long)
        /\ Items(long) = Items(waiting[c]) \cup {currentThread}
    BY <1>1, <1>2, AppendNew, SMT
  <2>2. w1 = [waiting EXCEPT ![c] = long]
    BY <1>4
  <2> HIDE DEF long
  <2>3. /\ w1 \in [Conds -> Seq(Threads)] /\ w1[c] = long
        /\ \A d \in Conds : d # c => w1[d] = waiting[d]
    BY <1>1, <2>1, <2>2
  <2>4. \A d \in Conds : currentThread \in Items(w1[d]) => d = c
    BY <1>2, <2>3
  <2>5. ASSUME NEW d \in Conds
        PROVE  /\ NoDuplicates(w1[d]) /\ Items(waiting[d]) \subseteq Items(w1[d])
               /\ \A t \in Items(w1[d]) :
                    \/ t \in Items(waiting[d]) /\ t # currentThread
                    \/ /\ t = currentThread /\ <<"Acquire", LockOf[d]>> \in Items(v)
                       /\ \A e \in Conds : currentThread \in Items(w1[e]) => e = d
    BY <1>1, <1>2, <1>4, <2>1, <2>3, <2>4
  <2> QED
    BY <2>1, <2>3, <2>5 DEF JoinsWaiting
<1> QED
  BY <1>3, <1>4

\* P finds no unit.
LEMMA PBlockInv ==
  ASSUME CardinalityLaws, SynchInv, outcome = "running", PStep, value[Top[2]] = 0
  PROVE  Core'
<1>1. PICK f, u : /\ stack[currentThread] = Cons(f, u) /\ Under(f, u) /\ IsSeq(u)
                  /\ f = Top /\ f[1] = "P"
  BY Innermost DEF PStep
<1> DEFINE x == f[2]
<1>2. /\ f = <<"P", x>> /\ x \in Sems \cup Locks
      /\ x \in Locks => u = Cons(<<"SetOwner", x>>, <<>>)
      /\ x \notin Locks => u = <<>>
  BY <1>1, InP, SynchAssumption
<1>3. /\ value[x] = 0 /\ stack' = Replace(<<Sleep>> \o <<<<"P", x>>>>)
      /\ status' = [status EXCEPT ![currentThread] = "BLOCKED"]
      /\ queue' = [queue EXCEPT ![x] = Append(@, currentThread)]
      /\ UNCHANGED <<currentThread, readyList, threadToBeDestroyed, outcome,
                     value, owner, waiting, holds>>
  BY <1>1 DEF PStep, GoToSleep, Stay
<1> DEFINE v == Cons(<<"P", x>>, u)
<1>4. stack' = WithStack(Cons(Sleep, v))
  BY <1>1, <1>3, ReplaceIs, SMT
<1>5. v \in Asleep
  BY <1>2 DEF Asleep
<1>6. stack[currentThread] = v /\ Items(v) = {<<"P", x>>} \cup Items(u)
  BY <1>1, <1>2, Called
<1>7. Items(u) = IF x \in Locks THEN {<<"SetOwner", x>>} ELSE {}
  BY <1>2, ItemsOfOne, EmptyFacts
<1> HIDE DEF v, x
<1>8. /\ \A g \in Items(v) : g[1] \in {"P", "SetOwner"}
      /\ Sleep \notin Items(v)
  <2>1. \A g \in Items(v) : g[1] \in {"P", "SetOwner"}
    <3>1. <<"P", x>>[1] = "P" /\ <<"SetOwner", x>>[1] = "SetOwner"
      BY FrameFacts
    <3>2. \A g \in Items(v) : g = <<"P", x>> \/ g = <<"SetOwner", x>>
      BY <1>6, <1>7
    <3> QED
      BY <3>1, <3>2
  <2> QED
    BY <2>1 DEF Sleep
<1>9. NoEntry(v)
  <2>1. ASSUME NEW l, <<"SetOwner", l>> \in Items(v) PROVE <<"P", l>> \in Items(v)
    <3>1. <<"SetOwner", l>> = <<"SetOwner", x>>
      BY <1>6, <1>7, <2>1, FrameFacts
    <3>2. l = x
      BY <3>1
    <3> QED
      BY <1>6, <3>2
  <2> QED
    BY <2>1 DEF NoEntry, Enters
<1>10. \A l \in Locks : ~Returns(l, v)
  BY <1>8, FrameFacts DEF Returns
<1>11. /\ JoinsQueue(currentThread, v, queue, queue') /\ currentThread \in Items(queue'[x])
       /\ \A y \in Sems \cup Locks : y # x => queue'[y] = queue[y]
  BY <1>2, <1>3, <1>6, <1>8, JoinsOne
<1>12. JoinsWaiting(currentThread, v, waiting, waiting')
  BY <1>3, <1>6, <1>8, StaysOut
<1>13. HasReason(currentThread, v, queue', waiting', threadToBeDestroyed, threadToBeDestroyed')
  BY <1>2, <1>3, <1>11 DEF HasReason
<1>14. \A y \in Sems \cup Locks : queue'[y] = queue[y] \/ value[y] = 0
  BY <1>3, <1>11
<1>15. \A y \in Sems \cup Locks : <<"P", y>> \in Items(v) => value[y] = 0
  BY <1>3, <1>6, <1>7, SMT
<1> QED
  BY <1>3, <1>4, <1>5, <1>6, <1>8, <1>9, <1>10, <1>11, <1>12, <1>13, <1>14, <1>15, SleepInv

\* Wait, its lock released, puts the thread to sleep.
LEMMA WaitSleepInv ==
  ASSUME CardinalityLaws, SynchInv, outcome = "running", WaitSleepStep
  PROVE  Core'
<1>1. PICK f, u : /\ stack[currentThread] = Cons(f, u) /\ Under(f, u) /\ IsSeq(u)
                  /\ f = Top /\ f[1] = "WaitSleep"
  BY Innermost DEF WaitSleepStep
<1> DEFINE c == f[2]
           v == Cons(<<"Acquire", LockOf[c]>>, <<>>)
<1>2. u = <<>> /\ c \in Conds /\ LockOf[c] \in Locks
  BY <1>1, LoneCall, SynchAssumption
<1>3. /\ stack' = Replace(<<Sleep>> \o <<<<"Acquire", LockOf[c]>>>>)
      /\ status' = [status EXCEPT ![currentThread] = "BLOCKED"]
      /\ waiting' = [waiting EXCEPT ![c] = Append(@, currentThread)]
      /\ UNCHANGED <<currentThread, readyList, threadToBeDestroyed, outcome,
                     value, owner, queue, holds>>
  BY <1>1 DEF WaitSleepStep, GoToSleep, Stay
<1>4. stack' = WithStack(Cons(Sleep, v))
  BY <1>1, <1>2, <1>3, ReplaceIs, SMT
<1>5. v \in Asleep
  BY <1>2 DEF Asleep
<1>6. Items(v) = {<<"Acquire", LockOf[c]>>} /\ Items(stack[currentThread]) = {f}
  BY <1>1, <1>2, ItemsOfOne
<1> HIDE DEF v, c
<1>7. /\ Sleep \notin Items(stack[currentThread]) /\ NoEntry(stack[currentThread])
      /\ \A x : <<"P", x>> \notin Items(stack[currentThread])
      /\ \A l \in Locks : ~Returns(l, stack[currentThread])
  BY <1>1, <1>6, FrameFacts DEF Sleep, NoEntry, Enters, Returns
<1>8. JoinsWaiting(currentThread, v, waiting, waiting') /\ currentThread \in Items(waiting'[c])
  BY <1>2, <1>3, <1>6, <1>7, JoinsOne
<1>9. JoinsQueue(currentThread, v, queue, queue')
  BY <1>3, <1>7, StaysOut
<1>10. HasReason(currentThread, v, queue', waiting', threadToBeDestroyed, threadToBeDestroyed')
  BY <1>2, <1>3, <1>8 DEF HasReason
<1> QED
  BY <1>3, <1>4, <1>5, <1>7, <1>8, <1>9, <1>10, SleepInv

\* ------------------------------- waking up -------------------------------

\* ReadyToRun among equals puts the thread on the ready list and goes on.
LEMMA WakesEqual ==
  ASSUME SynchInv, EqualPriorities, NEW h \in Threads, NEW stk, ReadyToRun(h, stk)
  PROVE  /\ readyList' = SortedInsert(readyList, h, priority)
         /\ status' = [status EXCEPT ![h] = "READY"] /\ stack' = stk
         /\ UNCHANGED <<currentThread, threadToBeDestroyed, outcome>>
<1>1. currentThread \in Threads /\ priority \in [Threads -> Int]
  BY DEF SynchInv, Core, Executes
<1>2. ~(priority[h] < priority[currentThread])
  BY <1>1, SMT DEF EqualPriorities
<1> QED
  BY <1>2 DEF ReadyToRun, Stay

\* A thread sleeps for one reason.
LEMMA OneReasonEach ==
  ASSUME SynchInv, NEW t \in Threads
  PROVE  OneReason(stack[t])
<1>1. Executes(currentThread, status, stack)
  BY DEF SynchInv, Core
<1>2. CASE t = currentThread
  BY <1>1, <1>2, StackFacts DEF Executes
<1>3. CASE t # currentThread
  <2>1. stack[t] \in Parked
    BY <1>1, <1>3 DEF Executes
  <2> QED
    BY <2>1, ParkedFacts DEF WellParked
<1> QED
  BY <1>2, <1>3

LEMMA Sleeper ==
  ASSUME SynchInv, NEW x \in Sems \cup Locks, NEW h \in Items(queue[x])
  PROVE  /\ h \in Threads /\ status[h] = "BLOCKED" /\ Finished \notin Items(stack[h])
         /\ <<"P", x>> \in Items(stack[h])
         /\ \A y \in Sems \cup Locks : h \in Items(queue[y]) => y = x
         /\ \A c \in Conds : h \notin Items(waiting[c])
<1>1. QueuesPlaced(status, stack, queue) /\ WaitersPlaced(status, stack, waiting)
  BY DEF SynchInv, Core, Placed
<1>2. h \in Threads /\ status[h] = "BLOCKED" /\ <<"P", x>> \in Items(stack[h])
  BY <1>1 DEF QueuesPlaced
<1>3. OneReason(stack[h])
  BY <1>2, OneReasonEach
<1>4. ASSUME NEW y \in Sems \cup Locks, h \in Items(queue[y]) PROVE y = x
  <2>1. <<"P", y>> \in Items(stack[h])
    BY <1>1, <1>4 DEF QueuesPlaced
  <2>2. <<"P", y>> = <<"P", x>>
    BY <1>2, <1>3, <2>1 DEF OneReason, Reasons
  <2> QED
    BY <2>2
<1>5. ASSUME NEW c \in Conds, h \in Items(waiting[c]) PROVE FALSE
  <2>1. <<"Acquire", LockOf[c]>> \in Items(stack[h])
    BY <1>1, <1>5 DEF WaitersPlaced
  <2>2. <<"Acquire", LockOf[c]>> = <<"P", x>>
    BY <1>2, <1>3, <2>1 DEF OneReason, Reasons
  <2> QED
    BY <2>2
<1>6. Finished \notin Items(stack[h])
  BY <1>2, <1>3 DEF OneReason, Reasons, Finished
<1> QED
  BY <1>2, <1>4, <1>5, <1>6

LEMMA Waiter ==
  ASSUME SynchInv, NEW c \in Conds, NEW h \in Items(waiting[c])
  PROVE  /\ h \in Threads /\ status[h] = "BLOCKED" /\ Finished \notin Items(stack[h])
         /\ \A d \in Conds : h \in Items(waiting[d]) => d = c
         /\ \A x \in Sems \cup Locks : h \notin Items(queue[x])
<1>1. WaitersPlaced(status, stack, waiting)
  BY DEF SynchInv, Core, Placed
<1>2. /\ h \in Threads /\ status[h] = "BLOCKED" /\ <<"Acquire", LockOf[c]>> \in Items(stack[h])
      /\ \A d \in Conds : h \in Items(waiting[d]) => d = c
  BY <1>1 DEF WaitersPlaced
<1>3. OneReason(stack[h])
  BY <1>2, OneReasonEach
<1>4. Finished \notin Items(stack[h])
  BY <1>2, <1>3 DEF OneReason, Reasons, Finished
<1> QED
  BY <1>2, <1>4, Sleeper

LEMMA WakeInv ==
  ASSUME NatWellOrdered, SynchInv, NEW h \in Threads, status[h] = "BLOCKED",
         Finished \notin Items(stack[h]), Leaves(h, queue, queue', waiting, waiting'),
         readyList' = SortedInsert(readyList, h, priority),
         status' = [status EXCEPT ![h] = "READY"],
         NEW s, IsStack(s), SameSleep(s, stack[currentThread]), stack' = WithStack(s),
         UNCHANGED <<currentThread, threadToBeDestroyed, outcome, value, owner, holds>>,
         \A x \in Sems \cup Locks : WokenUp(x, value, WithStack(s), queue', s),
         \A l \in Locks : OneUnit(l, value, WithStack(s), owner, holds)
  PROVE  Core'
<1> DEFINE new == WithStack(s)
           stat == [status EXCEPT ![h] = "READY"]
           ready == SortedInsert(readyList, h, priority)
           q1 == queue'
           w1 == waiting'
<1>1. /\ Listed(readyList, status, queue, waiting)
      /\ Placed(status, stack, queue, waiting, threadToBeDestroyed)
      /\ Executes(currentThread, status, stack) /\ priority \in [Threads -> Int]
  BY DEF SynchInv, Core
<1>2. Leaves(h, queue, q1, waiting, w1)
  OBVIOUS
<1> HIDE DEF q1, w1
<1>3. /\ Listed(ready, stat, q1, w1)
      /\ Placed(stat, stack, q1, w1, threadToBeDestroyed)
      /\ Executes(currentThread, stat, stack)
  BY <1>1, <1>2, WakeStep
<1> HIDE DEF stat, ready
<1>4. /\ Placed(stat, new, q1, w1, threadToBeDestroyed)
      /\ Executes(currentThread, stat, new)
  BY <1>3, LocalStep DEF WithStack
<1>5. new[currentThread] = s
  BY WithStackIs
<1> QED
  BY <1>3, <1>4, <1>5 DEF Core, new, stat, ready, q1, w1

\* The first of a queue, or of a condition's waiting threads, leaves.
LEMMA FirstLeaves ==
  ASSUME SynchInv
  PROVE  /\ \A x \in Sems \cup Locks :
              queue[x] # <<>> =>
                /\ Head(queue[x]) \in Items(queue[x])
                /\ Leaves(Head(queue[x]), queue, [queue EXCEPT ![x] = Tail(@)], waiting, waiting)
         /\ \A c \in Conds :
              waiting[c] # <<>> =>
                /\ Head(waiting[c]) \in Items(waiting[c])
                /\ Leaves(Head(waiting[c]), queue, queue, waiting, [waiting EXCEPT ![c] = Tail(@)])
<1>1. /\ queue \in [Sems \cup Locks -> Seq(Threads)] /\ \A x \in Sems \cup Locks : NoDuplicates(queue[x])
      /\ waiting \in [Conds -> Seq(Threads)] /\ \A c \in Conds : NoDuplicates(waiting[c])
  BY DEF SynchInv, Core, Listed
<1>2. ASSUME NEW x \in Sems \cup Locks, queue[x] # <<>>
      PROVE  /\ Head(queue[x]) \in Items(queue[x])
             /\ Leaves(Head(queue[x]), queue, [queue EXCEPT ![x] = Tail(@)], waiting, waiting)
  <2> DEFINE h == Head(queue[x])
             rest == Tail(queue[x])
             q1 == [queue EXCEPT ![x] = rest]
  <2>1. /\ h \in Items(queue[x]) /\ rest \in Seq(Threads) /\ NoDuplicates(rest)
        /\ Items(rest) = Items(queue[x]) \ {h}
    BY <1>1, <1>2, RemoveFirst
  <2> HIDE DEF h, rest
  <2>2. /\ q1 \in [Sems \cup Locks -> Seq(Threads)] /\ q1[x] = rest
        /\ \A y \in Sems \cup Locks : y # x => q1[y] = queue[y]
    BY <1>1, <2>1
  <2> HIDE DEF q1
  <2>3. /\ \A y \in Sems \cup Locks : h \in Items(queue[y]) => y = x
        /\ \A c \in Conds : h \notin Items(waiting[c])
    BY <2>1, Sleeper
  <2>4. ASSUME NEW y \in Sems \cup Locks
        PROVE  NoDuplicates(q1[y]) /\ Items(q1[y]) = Items(queue[y]) \ {h}
    BY <1>1, <2>1, <2>2, <2>3
  <2>5. ASSUME NEW c \in Conds PROVE Items(waiting[c]) = Items(waiting[c]) \ {h}
    BY <2>3
  <2>6. Leaves(h, queue, q1, waiting, waiting)
    BY <1>1, <2>2, <2>4, <2>5 DEF Leaves
  <2> QED
    BY <2>1, <2>6 DEF h, q1, rest
<1>3. ASSUME NEW c \in Conds, waiting[c] # <<>>
      PROVE  /\ Head(waiting[c]) \in Items(waiting[c])
             /\ Leaves(Head(waiting[c]), queue, queue, waiting, [waiting EXCEPT ![c] = Tail(@)])
  <2> DEFINE h == Head(waiting[c])
             rest == Tail(waiting[c])
             w1 == [waiting EXCEPT ![c] = rest]
  <2>1. /\ h \in Items(waiting[c]) /\ rest \in Seq(Threads) /\ NoDuplicates(rest)
        /\ Items(rest) = Items(waiting[c]) \ {h}
    BY <1>1, <1>3, RemoveFirst
  <2> HIDE DEF h, rest
  <2>2. /\ w1 \in [Conds -> Seq(Threads)] /\ w1[c] = rest
        /\ \A d \in Conds : d # c => w1[d] = waiting[d]
    BY <1>1, <2>1
  <2> HIDE DEF w1
  <2>3. /\ \A d \in Conds : h \in Items(waiting[d]) => d = c
        /\ \A x \in Sems \cup Locks : h \notin Items(queue[x])
    BY <2>1, Waiter
  <2>4. ASSUME NEW d \in Conds
        PROVE  NoDuplicates(w1[d]) /\ Items(w1[d]) = Items(waiting[d]) \ {h}
    BY <1>1, <2>1, <2>2, <2>3
  <2>5. ASSUME NEW x \in Sems \cup Locks PROVE Items(queue[x]) = Items(queue[x]) \ {h}
    BY <2>3
  <2>6. Leaves(h, queue, queue, waiting, w1)
    BY <1>1, <2>2, <2>4, <2>5 DEF Leaves
  <2> QED
    BY <2>1, <2>6 DEF h, w1, rest
<1> QED
  BY <1>2, <1>3

\* V wakes a thread.
LEMMA VWakeInv ==
  ASSUME CardinalityLaws, NatWellOrdered, SynchInv, EqualPriorities, outcome = "running", VStep,
         queue[Top[2]] # <<>>
  PROVE  Core'
<1>1. PICK f, u : /\ stack[currentThread] = Cons(f, u) /\ Under(f, u) /\ IsSeq(u)
                  /\ f = Top /\ f[1] = "V"
  BY Innermost DEF VStep
<1> DEFINE x == f[2]
           h == Head(queue[x])
           s == Cons(<<"VIncrement", x>>, u)
           new == WithStack(s)
<1>2. /\ f = <<"V", x>> /\ x \in Sems \cup Locks /\ Under(<<"VIncrement", x>>, u)
  BY <1>1, InV
<1>3. /\ queue[x] # <<>> /\ queue' = [queue EXCEPT ![x] = Tail(@)]
      /\ ReadyToRun(h, Replace(<<<<"VIncrement", x>>>>))
      /\ UNCHANGED <<value, owner, waiting, holds>>
  BY <1>1 DEF VStep
<1>4. h \in Items(queue[x]) /\ Leaves(h, queue, queue', waiting, waiting')
  BY <1>2, <1>3, FirstLeaves
<1> HIDE DEF x, h
<1>5. /\ h \in Threads /\ status[h] = "BLOCKED" /\ Finished \notin Items(stack[h])
      /\ <<"P", x>> \in Items(stack[h])
  BY <1>2, <1>4, Sleeper
<1>6. /\ readyList' = SortedInsert(readyList, h, priority)
      /\ status' = [status EXCEPT ![h] = "READY"] /\ stack' = Replace(<<<<"VIncrement", x>>>>)
      /\ UNCHANGED <<currentThread, threadToBeDestroyed, outcome>>
  BY <1>3, <1>5, WakesEqual
<1>7. stack' = new
  BY <1>1, <1>6, ReplaceIs
<1>8. VMoved(x, s)
  BY <1>1, <1>2, VMoves
<1>9. /\ currentThread \in Threads /\ new[currentThread] = s
      /\ \A t \in Threads \ {currentThread} : new[t] = stack[t]
  BY WithStackIs
<1> HIDE DEF s, new
<1>10. ASSUME NEW t \in Threads, NEW y, <<"P", y>> \in Items(stack[t])
       PROVE  <<"P", y>> \in Items(new[t])
  <2>1. <<"P", y>> \in Items(stack[currentThread]) => <<"P", y>> \in Items(s)
    BY <1>8 DEF VMoved
  <2> QED
    BY <1>9, <1>10, <2>1
<1>11. ASSUME NEW y \in Sems \cup Locks PROVE WokenUp(y, value, new, queue', s)
  <2> DEFINE old == Transit(y, stack, queue)
             next == Transit(y, new, queue')
  <2>1. /\ WokenUp(y, value, stack, queue, stack[currentThread]) /\ value[y] \in Nat
    BY DEF SynchInv, Core, OtherTypes
  <2>2. Coming(y, stack[currentThread]) = 0 /\ Coming(y, s) = IF y = x THEN 1 ELSE 0
    BY <1>8 DEF VMoved
  <2>3. Items(queue'[y]) = Items(queue[y]) \ {h}
    BY <1>4 DEF Leaves
  <2>4. old \subseteq next
    BY <1>10, <2>3 DEF Transit
  <2>5. CASE y # x
    <3>1. queue'[y] = queue[y]
      <4>1. queue \in [Sems \cup Locks -> Seq(Threads)]
        BY DEF SynchInv, Core, Listed
      <4> QED
        BY <1>3, <2>5, <4>1
    <3> QED
      BY <2>2, <2>4, <2>5, <3>1, StillWoken
  <2>6. CASE y = x
    <3>1. h \in next /\ h \notin old
      BY <1>4, <1>5, <1>10, <2>3, <2>6, FrameFacts DEF Transit
    <3>2. /\ IsFiniteSet(old) /\ IsFiniteSet(next)
          /\ Cardinality(old) \in Nat /\ Cardinality(next) \in Nat
      BY TransitFinite
    <3> HIDE DEF old, next
    <3>3. Cardinality(old \cup {h}) = Cardinality(old) + 1 /\ old \cup {h} \subseteq next
      BY <2>4, <3>1, <3>2 DEF CardinalityLaws, Laws, OneMore
    <3>4. Cardinality(old \cup {h}) <= Cardinality(next)
      BY <3>2, <3>3 DEF CardinalityLaws, Laws, FiniteSubsets
    <3>5. Cardinality(next) >= Cardinality(old) + 1 /\ Cardinality(old) >= value[y]
      <4>1. Cardinality(old) >= value[y] + Coming(y, stack[currentThread])
        BY <1>3, <2>1, <2>6 DEF WokenUp, old
      <4> QED
        BY <2>1, <2>2, <3>2, <3>3, <3>4, <4>1, SMT
    <3>6. Cardinality(next) >= value[y] + Coming(y, s)
      BY <2>1, <2>2, <2>6, <3>2, <3>5, SMT
    <3> QED
      BY <3>6 DEF WokenUp, next
  <2> QED
    BY <2>5, <2>6
<1>12. /\ IsStack(s) /\ SameSleep(s, stack[currentThread])
       /\ \A l \in Locks : OneUnit(l, value, new, owner, holds)
  BY <1>8 DEF VMoved, new
<1> QED
  BY <1>3, <1>4, <1>5, <1>6, <1>7, <1>11, <1>12, WakeInv DEF new

\* Signal, or a turn of Broadcast, wakes a thread.
LEMMA SignalWakeInv ==
  ASSUME CardinalityLaws, NatWellOrdered, SynchInv, EqualPriorities, outcome = "running",
         NEW c \in Conds, waiting[c] # <<>>, waiting' = [waiting EXCEPT ![c] = Tail(@)],
         NEW f, ~Marked(f), stack[currentThread] = Cons(f, <<>>),
         NEW g, ~Marked(g), g[1] # "VIncrement", Under(g, <<>>),
         ReadyToRun(Head(waiting[c]), WithStack(Cons(g, <<>>))),
         UNCHANGED <<value, queue, owner, holds>>
  PROVE  Core'
<1> DEFINE h == Head(waiting[c])
           s == Cons(g, <<>>)
<1>1. h \in Items(waiting[c]) /\ Leaves(h, queue, queue', waiting, waiting')
  BY FirstLeaves
<1> HIDE DEF h
<1>2. h \in Threads /\ status[h] = "BLOCKED" /\ Finished \notin Items(stack[h])
  BY <1>1, Waiter
<1>3. /\ readyList' = SortedInsert(readyList, h, priority)
      /\ status' = [status EXCEPT ![h] = "READY"] /\ stack' = WithStack(s)
      /\ UNCHANGED <<currentThread, threadToBeDestroyed, outcome>>
  BY <1>2, WakesEqual DEF h
<1>4. IsStack(s) /\ s[1] = g
  BY Called
<1>5. SameMarks(s, stack[currentThread])
  <2>1. SameMarks(s, <<>>) /\ SameMarks(<<>>, Cons(f, <<>>))
    BY EmptyFacts, UnmarkedCall
  <2> QED
    BY <2>1, MarksCompose
<1>6. SameSleep(s, stack[currentThread]) /\ SameDuties(s, stack[currentThread])
  BY <1>5, MarksSuffice
<1> HIDE DEF s
<1>7. ASSUME NEW x \in Sems \cup Locks PROVE WokenUp(x, value, WithStack(s), queue', s)
  <2>1. <<"P", x>> \in Items(stack[currentThread]) => <<"P", x>> \in Items(s)
    BY <1>6 DEF SameDuties
  <2>2. value[x] \in Nat
    BY DEF SynchInv, OtherTypes
  <2>3. value[x] + Coming(x, s) <= value[x] + Coming(x, stack[currentThread])
    BY <1>4, <2>2, NoComing, ComesNoMore
  <2> QED
    BY <2>1, <2>2, <2>3, OtherWake
<1>8. ASSUME NEW l \in Locks PROVE OneUnit(l, value, WithStack(s), owner, holds)
  <2>1. /\ Enters(l, s) <=> Enters(l, stack[currentThread])
        /\ Returns(l, s) <=> Returns(l, stack[currentThread])
    BY <1>6 DEF SameDuties
  <2> QED
    BY <2>1, OtherUnit
<1> QED
  BY <1>1, <1>2, <1>3, <1>4, <1>6, <1>7, <1>8, WakeInv

LEMMA SignalInv ==
  ASSUME CardinalityLaws, NatWellOrdered, SynchInv, EqualPriorities, outcome = "running",
         SignalStep \/ BroadcastStep
  PROVE  Core'
<1>1. PICK f, u : /\ stack[currentThread] = Cons(f, u) /\ Under(f, u) /\ IsSeq(u)
                  /\ f = Top /\ f[1] \in {"Signal", "Broadcast"}
                  /\ f[1] = "Signal" => SignalStep
                  /\ f[1] = "Broadcast" => BroadcastStep
  <2>1. CASE SignalStep
    BY <2>1, Innermost DEF SignalStep
  <2>2. CASE BroadcastStep
    BY <2>2, Innermost, SMTT(30) DEF BroadcastStep
  <2> QED
    BY <2>1, <2>2
<1> DEFINE c == f[2]
           g == IF f[1] = "Signal" THEN Return ELSE <<"Broadcast", c>>
<1>2. u = <<>> /\ c \in Conds /\ ~Marked(f)
  BY <1>1, LoneCall DEF Marked
<1>3. /\ Replace(<<Return>>) = WithStack(Cons(Return, <<>>))
      /\ Replace(<<g>>) = WithStack(Cons(g, <<>>))
  BY <1>1, <1>2, ReplaceIs
<1>4. Under(g, <<>>) /\ ~Marked(g) /\ g[1] # "VIncrement"
  BY <1>2, UnderReturn DEF Under, Lone, KernelCalls, Marked
<1> HIDE DEF g, c
<1>5. CASE isHeldByCurrentThread(LockOf[c]) /\ waiting[c] # <<>>
  <2>1. /\ waiting' = [waiting EXCEPT ![c] = Tail(@)]
        /\ ReadyToRun(Head(waiting[c]), Replace(<<g>>))
        /\ UNCHANGED <<value, queue, owner, holds>>
    BY <1>1, <1>5 DEF SignalStep, BroadcastStep, c, g
  <2> QED
    BY <1>1, <1>2, <1>3, <1>4, <1>5, <2>1, SignalWakeInv
<1>6. CASE ~(isHeldByCurrentThread(LockOf[c]) /\ waiting[c] # <<>>)
  <2>1. stack' = Replace(<<Return>>) /\ UNCHANGED ordinary
    BY <1>1, <1>6 DEF SignalStep, BroadcastStep, c, Continue, Stay, ordinary
  <2> QED
    <3>1. stack[currentThread] = Cons(f, <<>>) /\ stack' = WithStack(Cons(Return, <<>>))
      BY <1>1, <1>2, <1>3, <2>1
    <3> QED
      BY <1>2, <2>1, <3>1, UnderReturn, CallsInstead
<1> QED
  BY <1>5, <1>6

\* Thread::Fork makes a thread ready.
LEMMA ForkInv ==
  ASSUME CardinalityLaws, NatWellOrdered, SynchInv, EqualPriorities, outcome = "running",
         NEW h \in Threads, ForkStep(h), UNCHANGED synchVars
  PROVE  Core'
<1>1. PICK f, u : /\ stack[currentThread] = Cons(f, u) /\ Under(f, u) /\ IsSeq(u)
                  /\ f = Top /\ f[1] = "Fork"
  BY Innermost DEF ForkStep
<1> DEFINE s == Cons(Return, <<>>)
           mid == WithStack(s)
           new == [mid EXCEPT ![h] = <<Start>>]
           stat == [status EXCEPT ![h] = "READY"]
           ready == SortedInsert(readyList, h, priority)
<1>2. u = <<>> /\ ~Marked(f)
  BY <1>1, LoneCall DEF Marked
<1>3. status[h] = "NONE" /\ ReadyToRun(h, [mid EXCEPT ![h] = <<Start>>])
  <2>1. Replace(<<Return>>) = mid
    BY <1>1, <1>2, ReplaceIs
  <2> QED
    BY <2>1 DEF ForkStep, StackAllocate
<1>4. /\ readyList' = ready /\ status' = stat /\ stack' = new
      /\ UNCHANGED <<currentThread, threadToBeDestroyed, outcome>>
  BY <1>3, WakesEqual
<1>5. /\ Listed(readyList, status, queue, waiting)
      /\ Placed(status, stack, queue, waiting, threadToBeDestroyed)
      /\ Executes(currentThread, status, stack) /\ priority \in [Threads -> Int]
  BY DEF SynchInv, Core
<1>6. IsStack(s) /\ s[1] = Return
  BY UnderReturn, Called
<1>7. SameMarks(s, stack[currentThread])
  <2>1. SameMarks(s, <<>>) /\ SameMarks(<<>>, Cons(f, <<>>))
    BY <1>2, EmptyFacts, UnmarkedCall, UnderReturn
  <2> QED
    BY <1>1, <1>2, <2>1, MarksCompose
<1>8. SameSleep(s, stack[currentThread]) /\ SameDuties(s, stack[currentThread])
  BY <1>7, MarksSuffice
<1>9. Placed(status, mid, queue, waiting, threadToBeDestroyed) /\ Executes(currentThread, status, mid)
  BY <1>5, <1>6, <1>8, LocalStep DEF WithStack
<1>10. /\ currentThread \in Threads /\ mid[currentThread] = s /\ mid = [t \in Threads |-> mid[t]]
       /\ \A t \in Threads \ {currentThread} : mid[t] = stack[t]
  BY <1>9, WithStackIs DEF Executes
<1> HIDE DEF s, mid
<1>11. /\ Listed(ready, stat, queue, waiting)
       /\ Placed(stat, new, queue, waiting, threadToBeDestroyed)
       /\ Executes(currentThread, stat, new) /\ h # currentThread
  BY <1>3, <1>5, <1>9, ForkOne
<1>12. /\ new[currentThread] = s /\ new[h] = <<Start>>
       /\ \A t \in Threads \ {currentThread, h} : new[t] = stack[t]
  BY <1>10, <1>11
<1>13. Items(stack[h]) = {} /\ Items(<<Start>>) = {Start}
  <2>1. stack[h] = <<>>
    BY <1>3, <1>5 DEF Placed, ThreadPlaced
  <2> QED
    BY <2>1, EmptyFacts, ItemsOfOne, Single
<1> HIDE DEF new, stat, ready
<1>14. ASSUME NEW x \in Sems \cup Locks PROVE WokenUp(x, value, new, queue, s)
  <2>1. ASSUME NEW t \in Threads, <<"P", x>> \in Items(stack[t]) PROVE <<"P", x>> \in Items(new[t])
    <3>1. t # h
      BY <1>13, <2>1
    <3>2. <<"P", x>> \in Items(stack[currentThread]) => <<"P", x>> \in Items(s)
      BY <1>8 DEF SameDuties
    <3> QED
      BY <1>12, <2>1, <3>1, <3>2
  <2>2. Transit(x, stack, queue) \subseteq Transit(x, new, queue)
    BY <2>1 DEF Transit
  <2>3. Coming(x, s) = 0
    BY <1>6, LabelOf, NoComing
  <2> QED
    BY <2>2, <2>3, StillWoken
<1>15. ASSUME NEW l \in Locks PROVE OneUnit(l, value, new, owner, holds)
  <2>1. OneUnit(l, value, stack, owner, holds)
    BY DEF SynchInv, Core
  <2>2. ~Enters(l, stack[h]) /\ ~Returns(l, stack[h]) /\ ~Enters(l, new[h]) /\ ~Returns(l, new[h])
    BY <1>12, <1>13, SMT DEF Enters, Returns, Start
  <2>3. /\ Enters(l, s) <=> Enters(l, stack[currentThread])
        /\ Returns(l, s) <=> Returns(l, stack[currentThread])
    BY <1>8 DEF SameDuties
  <2>4. ASSUME NEW t \in Threads
        PROVE  /\ Enters(l, new[t]) <=> Enters(l, stack[t])
               /\ Returns(l, new[t]) <=> Returns(l, stack[t])
    BY <1>12, <2>2, <2>3
  <2> QED
    BY <2>1, <2>4, UnitKept
<1>16. UNCHANGED <<value, queue, owner, waiting, holds>> /\ stack'[currentThread'] = s
  BY <1>4, <1>12 DEF synchVars
<1> QED
  BY <1>4, <1>11, <1>14, <1>15, <1>16 DEF Core

\* ------------------------------- dispatching -------------------------------

\* Scheduler::Run takes the head of the ready list.
LEMMA RunInv ==
  ASSUME NEW ready, NEW stat, NEW stk,
         Listed(ready, stat, queue, waiting), AtRest(stat, stk),
         Placed(stat, stk, queue, waiting, threadToBeDestroyed), ready # <<>>,
         \A x \in Sems \cup Locks : WokenUp(x, value, stk, queue, <<>>),
         \A l \in Locks : OneUnit(l, value, stk, owner, holds),
         Run(Head(ready), Tail(ready), stat, stk), UNCHANGED synchVars
  PROVE  Core' /\ outcome' = outcome
<1> DEFINE next == Head(ready)
           carcass == IF stk[next] = <<Start>> THEN NoThread ELSE threadToBeDestroyed
           stat1 == [t \in Threads |-> IF t = carcass THEN "DELETED"
                                       ELSE IF t = next THEN "RUNNING" ELSE stat[t]]
           dead1 == IF carcass = NoThread THEN threadToBeDestroyed ELSE NoThread
<1>1. carcass \in {NoThread, threadToBeDestroyed}
  OBVIOUS
<1>2. /\ currentThread' = next /\ readyList' = Tail(ready) /\ stack' = stk
      /\ status' = stat1 /\ threadToBeDestroyed' = dead1
      /\ outcome' = IF \/ carcass = next \/ stat[next] = "DELETED" \/ stk[next] = <<Finished>>
                    THEN "aborted" ELSE outcome
      /\ UNCHANGED <<value, queue, owner, waiting, holds>>
  BY DEF Run, synchVars
<1> HIDE DEF carcass
<1>3. /\ Listed(Tail(ready), stat1, queue, waiting)
      /\ Placed(stat1, stk, queue, waiting, dead1)
      /\ Executes(next, stat1, stk)
      /\ carcass # next /\ stat[next] # "DELETED" /\ stk[next] # <<Finished>>
  <2>1. /\ stat1 = [t \in Threads |-> IF t = carcass THEN "DELETED"
                                      ELSE IF t = Head(ready) THEN "RUNNING" ELSE stat[t]]
        /\ dead1 = IF carcass = NoThread THEN threadToBeDestroyed ELSE NoThread
        /\ next = Head(ready)
    OBVIOUS
  <2> HIDE DEF stat1, dead1, next
  <2> QED
    BY <1>1, <2>1, DispatchStep
<1> HIDE DEF stat1, dead1, next
<1>4. outcome' = outcome
  BY <1>2, <1>3
<1>5. \A x : Coming(x, stk[next]) = 0 /\ Coming(x, <<>>) = 0
  <2>1. stk[next] \in Parked
    BY <1>3 DEF Executes, AtRest
  <2>2. stk[next] # <<>> => stk[next][1][1] # "VIncrement"
    BY <2>1, ParkedFacts DEF WellParked, Labelled
  <2> QED
    BY <2>2, NoComing
<1>6. \A x \in Sems \cup Locks : WokenUp(x, value, stk, queue, stk[next])
  BY <1>5 DEF WokenUp
<1> QED
  BY <1>2, <1>3, <1>4, <1>6 DEF Core

\* A thread in Sleep is switched away from.
LEMMA SleepRunInv ==
  ASSUME CardinalityLaws, SynchInv, EqualPriorities, outcome = "running", SleepStep, UNCHANGED synchVars,
         readyList # <<>>
  PROVE  Core'
<1>1. PICK f, u : /\ stack[currentThread] = Cons(f, u) /\ Under(f, u) /\ IsSeq(u)
                  /\ f = Top /\ f[1] = "Sleep"
  BY Innermost DEF SleepStep
<1> DEFINE new == WithStack(u)
<1>2. u \in Asleep
  <2>1. f \notin Lone
    BY <1>1, LoneLabels
  <2> QED
    BY <1>1, <2>1, UnderCases
<1>3. /\ Listed(readyList, status, queue, waiting)
      /\ Placed(status, stack, queue, waiting, threadToBeDestroyed)
      /\ Executes(currentThread, status, stack) /\ priority \in [Threads -> Int]
  BY DEF SynchInv, Core
<1>4. Head(readyList) \in Threads /\ Head(readyList) # NoThread
  BY <1>3, RemoveFirst, ThreadAssumption DEF Listed
<1>5. FindNextToRun(readyList, status) = [next |-> Head(readyList), ready |-> Tail(readyList)]
  <2>1. currentThread \in Threads
    BY <1>3 DEF Executes
  <2>2. priority[Head(readyList)] <= priority[currentThread]
    BY <1>3, <1>4, <2>1, SMT DEF EqualPriorities
  <2> QED
    BY <2>2 DEF FindNextToRun
<1>6. Run(Head(readyList), Tail(readyList), status, new)
  <2>1. Replace(<<>>) = new
    BY <1>1, ReplaceIs
  <2> QED
    BY <1>4, <1>5, <2>1, SMT DEF SleepStep
<1>7. /\ currentThread \in Threads /\ new[currentThread] = u
      /\ \A t \in Threads \ {currentThread} : new[t] = stack[t]
  BY WithStackIs
<1>8. /\ Items(stack[currentThread]) = {f} \cup Items(u) /\ stack[currentThread][1] = f
      /\ Sleep \in Items(stack[currentThread])
  <2>1. Items(stack[currentThread]) = {f} \cup Items(u) /\ stack[currentThread][1] = f
    BY <1>1, Called
  <2>2. Sleep \in Items(Cons(f, u))
    <3>1. f \notin Lone
      BY <1>1, LoneLabels
    <3>2. ~(\E l \in Locks : f = <<"P", l>>)
      BY <1>1, FrameFacts
    <3>3. f \notin {"Release"} \X Locks /\ f \notin Vs
      BY <1>1 DEF Vs
    <3>4. f # Return /\ f \notin {Idle, Idled} /\ f # EndHandler
      BY <1>1, FrameFacts DEF Return, Idle, Idled, EndHandler
    <3>5. f = Sleep
      BY <1>1, <3>1, <3>2, <3>3, <3>4 DEF Under
    <3> QED
      BY <1>1, <2>1, <3>5
  <2> QED
    BY <1>1, <2>1, <2>2
<1>9. status[currentThread] \in {"BLOCKED", "READY"}
  BY <1>3, <1>8 DEF Executes
<1>10. AtRest(status, new)
  <2>1. u \in Parked
    BY <1>2 DEF Parked
  <2>2. new = [t \in Threads |-> new[t]]
    BY <1>3 DEF Executes, WithStack
  <2> QED
    BY <1>3, <1>7, <1>9, <2>1, <2>2 DEF AtRest, Executes
<1> HIDE DEF new
<1>11. \A g : g # f => (g \in Items(u) <=> g \in Items(stack[currentThread]))
  BY <1>8
<1>12. Placed(status, new, queue, waiting, threadToBeDestroyed)
  <2>1. ASSUME NEW t \in Threads, NEW g, g[1] \in Reasons
        PROVE  g \in Items(new[t]) <=> g \in Items(stack[t])
    BY <1>1, <1>7, <1>11, <2>1 DEF Reasons
  <2>2. /\ \A x : <<"P", x>>[1] \in Reasons /\ <<"Acquire", x>>[1] \in Reasons
        /\ Finished[1] \in Reasons
    BY DEF Reasons, Finished
  <2>3. QueuesPlaced(status, new, queue)
    BY <1>3, <2>1, <2>2 DEF Placed, QueuesPlaced
  <2>4. WaitersPlaced(status, new, waiting)
    BY <1>3, <2>1, <2>2 DEF Placed, WaitersPlaced
  <2>5. ASSUME NEW t \in Threads PROVE ThreadPlaced(t, status, new, queue, waiting)
    <3>1. ThreadPlaced(t, status, stack, queue, waiting)
      BY <1>3 DEF Placed
    <3>2. Finished \in Items(new[t]) <=> Finished \in Items(stack[t])
      BY <2>1, <2>2
    <3>3. status[t] = "NONE" => new[t] = stack[t]
      BY <1>7, <1>9
    <3> QED
      BY <3>1, <3>2, <3>3 DEF ThreadPlaced
  <2>6. CarcassPlaced(status, new, threadToBeDestroyed)
    BY <1>3, <2>1, <2>2 DEF Placed, CarcassPlaced
  <2> QED
    BY <2>3, <2>4, <2>5, <2>6 DEF Placed
<1>13. ASSUME NEW x \in Sems \cup Locks PROVE WokenUp(x, value, new, queue, <<>>)
  <2>1. f # <<"P", x>>
    BY <1>1, OtherLabel
  <2>2. Transit(x, stack, queue) \subseteq Transit(x, new, queue)
    BY <1>7, <1>11, <2>1 DEF Transit
  <2> QED
    BY <2>2, NoComing, StillWoken
<1>14. ASSUME NEW l \in Locks PROVE OneUnit(l, value, new, owner, holds)
  <2>1. /\ Enters(l, u) <=> Enters(l, stack[currentThread])
        /\ Returns(l, u) <=> Returns(l, stack[currentThread])
    BY <1>1, <1>11, SMT DEF Enters, Returns
  <2> QED
    BY <2>1, OtherUnit DEF new
<1> QED
  BY <1>3, <1>6, <1>10, <1>12, <1>13, <1>14, RunInv

LEMMA SleepIdleInv ==
  ASSUME CardinalityLaws, SynchInv, outcome = "running", SleepStep, UNCHANGED synchVars, readyList = <<>>
  PROVE  Core'
<1>1. PICK f, u : /\ stack[currentThread] = Cons(f, u) /\ Under(f, u) /\ IsSeq(u)
                  /\ f = Top /\ f[1] = "Sleep"
  BY Innermost DEF SleepStep
<1>2. f = Sleep /\ u \in Asleep
  <2>1. f \notin Lone
    BY <1>1, LoneLabels
  <2>2. ~(\E l \in Locks : f = <<"P", l>>)
    BY <1>1, FrameFacts
  <2>3. f \notin {"Release"} \X Locks /\ f \notin Vs
    BY <1>1 DEF Vs
  <2>4. f # Return /\ f \notin {Idle, Idled} /\ f # EndHandler
    BY <1>1, FrameFacts DEF Return, Idle, Idled, EndHandler
  <2> QED
    BY <1>1, <2>1, <2>2, <2>3, <2>4 DEF Under
<1>3. Under(Idle, stack[currentThread])
  BY <1>1, <1>2 DEF Under, Dozes
<1>4. stack' = WithStack(Cons(Idle, stack[currentThread])) /\ UNCHANGED ordinary
  BY DEF SleepStep, FindNextToRun, Stay, Push, WithStack, Cons, ordinary, synchVars
<1>5. ~Marked(Idle) /\ Idle[1] # "VIncrement"
  BY DEF Marked, Reasons, Idle, Sleep
<1> QED
  BY <1>3, <1>4, <1>5, CallsOn

LEMMA FindsHead ==
  ASSUME NEW ready, NEW stat, ready # <<>>, priority[Head(ready)] <= priority[currentThread]
  PROVE  /\ FindNextToRun(ready, stat).next = Head(ready)
         /\ FindNextToRun(ready, stat).ready = Tail(ready)
BY DEF FindNextToRun

\* Thread::Yield, called by the thread or for the timer: among equals the thread
\* is queued and the head of the ready list dispatched.
LEMMA YieldInv ==
  ASSUME CardinalityLaws, NatWellOrdered, SynchInv, EqualPriorities, outcome = "running",
         \A g \in Items(stack[currentThread]) : g[1] = "Yield",
         Yield(readyList, status, WithStack(Cons(Return, <<>>))), UNCHANGED synchVars
  PROVE  Core' /\ outcome' = outcome
<1> DEFINE c == currentThread
           new == WithStack(Cons(Return, <<>>))
           queued == SortedInsert(readyList, c, priority)
           yielded == [status EXCEPT ![c] = "READY"]
<1>1. /\ Listed(readyList, status, queue, waiting)
      /\ Placed(status, stack, queue, waiting, threadToBeDestroyed)
      /\ Executes(c, status, stack) /\ priority \in [Threads -> Int]
  BY DEF SynchInv, Core
<1>2. /\ c \in Threads /\ new[c] = Cons(Return, <<>>)
      /\ \A t \in Threads \ {c} : new[t] = stack[t]
  BY WithStackIs
<1>3. /\ status[c] = "RUNNING"
      /\ \A x \in Sems \cup Locks : c \notin Items(queue[x])
      /\ \A d \in Conds : c \notin Items(waiting[d])
  BY RunnerIsOut DEF Sleep
<1>4. /\ status \in [Threads -> Statuses] /\ readyList \in Seq(Threads) /\ NoDuplicates(readyList)
      /\ Items(readyList) = {t \in Threads : status[t] = "READY"}
  BY <1>1 DEF Listed
<1>5. /\ yielded \in [Threads -> Statuses] /\ yielded[c] = "READY"
      /\ \A t \in Threads \ {c} : yielded[t] = status[t]
  BY <1>2, <1>4 DEF Statuses
<1>6. queued \in Seq(Threads) /\ NoDuplicates(queued) /\ Items(queued) = Items(readyList) \cup {c}
  <2>1. c \notin Items(readyList)
    BY <1>3, <1>4
  <2> QED
    BY <1>1, <1>2, <1>4, <2>1, ReadyGrows
<1>7. Items(new[c]) = {Return}
  BY <1>2, ItemsOfOne
<1>8. new = [t \in Threads |-> new[t]]
  BY <1>1 DEF Executes, WithStack
<1>9. Yield(readyList, status, new) /\ UNCHANGED synchVars
  OBVIOUS
<1>10. queued # <<>> /\ Head(queued) \in Threads
  <2>1. queued # <<>>
    BY <1>6, EmptyFacts
  <2> QED
    BY <1>6, <2>1, SMTT(30)
<1>11. Run(Head(queued), Tail(queued), yielded, new)
  <2>1. Head(queued) # NoThread
    BY <1>10, ThreadAssumption
  <2>2. priority[Head(queued)] <= priority[currentThread]
    <3>1. priority[Head(queued)] = priority[currentThread] /\ priority[currentThread] \in Int
      BY <1>1, <1>2, <1>10 DEF EqualPriorities
    <3> QED
      BY <3>1, SMT
  <2> DEFINE found == FindNextToRun(queued, yielded)
  <2>3. found.next = Head(queued) /\ found.ready = Tail(queued)
    BY <1>10, <2>2, FindsHead
  <2>4. IF found.next = NoThread THEN Stay(found.ready, yielded, new)
                                 ELSE Run(found.next, found.ready, yielded, new)
    BY <1>9 DEF Yield
  <2> HIDE DEF found, queued, yielded, new
  <2> QED
    BY <2>1, <2>3, <2>4
<1> HIDE DEF c, new, queued, yielded
<1>12. Listed(queued, yielded, queue, waiting)
  <2>1. Items(queued) = {t \in Threads : yielded[t] = "READY"}
    BY <1>2, <1>4, <1>5, <1>6
  <2> QED
    BY <1>1, <1>5, <1>6, <2>1 DEF Listed
<1>13. AtRest(yielded, new)
  <2>1. new[c] \in Parked
    BY <1>2 DEF Parked
  <2>2. \A t \in Threads \ {c} : stack[t] \in Parked /\ status[t] # "RUNNING"
    BY <1>1 DEF Executes
  <2> QED
    BY <1>2, <1>5, <1>8, <2>1, <2>2 DEF AtRest
<1>14. Placed(yielded, new, queue, waiting, threadToBeDestroyed)
  <2>1. QueuesPlaced(yielded, new, queue)
    <3> SUFFICES ASSUME NEW x \in Sems \cup Locks, NEW t \in Items(queue[x])
                 PROVE  t \in Threads /\ yielded[t] = "BLOCKED" /\ <<"P", x>> \in Items(new[t])
      BY DEF QueuesPlaced
    <3>1. t \in Threads /\ status[t] = "BLOCKED" /\ <<"P", x>> \in Items(stack[t]) /\ t # c
      BY <1>1, <1>3 DEF Placed, QueuesPlaced
    <3> QED
      BY <1>2, <1>5, <3>1
  <2>2. WaitersPlaced(yielded, new, waiting)
    <3> SUFFICES ASSUME NEW d \in Conds, NEW t \in Items(waiting[d])
                 PROVE  /\ t \in Threads /\ yielded[t] = "BLOCKED"
                        /\ <<"Acquire", LockOf[d]>> \in Items(new[t])
                        /\ \A e \in Conds : t \in Items(waiting[e]) => e = d
      BY DEF WaitersPlaced
    <3>1. /\ t \in Threads /\ status[t] = "BLOCKED" /\ <<"Acquire", LockOf[d]>> \in Items(stack[t])
          /\ \A e \in Conds : t \in Items(waiting[e]) => e = d
          /\ t # c
      BY <1>1, <1>3 DEF Placed, WaitersPlaced
    <3> QED
      BY <1>2, <1>5, <3>1
  <2>3. ASSUME NEW t \in Threads PROVE ThreadPlaced(t, yielded, new, queue, waiting)
    <3>1. ThreadPlaced(t, status, stack, queue, waiting)
      BY <1>1 DEF Placed
    <3>2. CASE t = c
      BY <1>5, <1>7, <3>2 DEF ThreadPlaced, Return, Finished
    <3>3. CASE t # c
      <4>1. yielded[t] = status[t] /\ new[t] = stack[t]
        BY <1>2, <1>5, <3>3
      <4> QED
        BY <3>1, <4>1 DEF ThreadPlaced
    <3> QED
      BY <3>2, <3>3
  <2>4. CarcassPlaced(yielded, new, threadToBeDestroyed)
    <3>1. CarcassPlaced(status, stack, threadToBeDestroyed)
      BY <1>1 DEF Placed
    <3>2. status[c] # "BLOCKED"
      BY <1>3
    <3> QED
      BY <1>2, <1>5, <3>1, <3>2 DEF CarcassPlaced
  <2> QED
    BY <2>1, <2>2, <2>3, <2>4 DEF Placed
<1>15. ASSUME NEW x \in Sems \cup Locks PROVE WokenUp(x, value, new, queue, <<>>)
  <2>1. <<"P", x>> \notin Items(stack[c])
    BY DEF c
  <2>2. Transit(x, stack, queue) \subseteq Transit(x, new, queue)
    BY <1>2, <2>1 DEF Transit
  <2> QED
    BY <2>2, NoComing, StillWoken
<1>16. ASSUME NEW l \in Locks PROVE OneUnit(l, value, new, owner, holds)
  <2>1. /\ ~Enters(l, Cons(Return, <<>>)) /\ ~Returns(l, Cons(Return, <<>>))
    BY <1>2, <1>7, SMT DEF Enters, Returns, Return
  <2>2. ~Enters(l, stack[currentThread]) /\ ~Returns(l, stack[currentThread])
    BY DEF Enters, Returns
  <2> QED
    BY <2>1, <2>2, OtherUnit DEF new
<1> QED
  BY <1>9, <1>10, <1>11, <1>12, <1>13, <1>14, <1>15, <1>16, RunInv

LEMMA YieldsInv ==
  ASSUME CardinalityLaws, NatWellOrdered, SynchInv, EqualPriorities, outcome = "running",
         YieldStep \/ TimerInterrupt, UNCHANGED synchVars
  PROVE  Core' /\ outcome' = outcome
<1>1. CASE YieldStep
  <2>1. PICK f, u : /\ stack[currentThread] = Cons(f, u) /\ Under(f, u) /\ IsSeq(u)
                    /\ f = Top /\ f[1] = "Yield"
    BY <1>1, Innermost DEF YieldStep
  <2>2. u = <<>>
    BY <2>1, UnderCases
  <2>3. \A g \in Items(stack[currentThread]) : g[1] = "Yield"
    BY <2>1, <2>2, ItemsOfOne, SMT
  <2>4. Replace(<<Return>>) = WithStack(Cons(Return, <<>>))
    BY <2>1, <2>2, ReplaceIs, Single, EmptyFacts
  <2> QED
    BY <1>1, <2>3, <2>4, YieldInv DEF YieldStep
<1>2. CASE TimerInterrupt
  <2>1. stack[currentThread] = <<>>
    BY <1>2 DEF TimerInterrupt, InterruptsOn
  <2>2. \A g \in Items(stack[currentThread]) : g[1] = "Yield"
    BY <2>1, EmptyFacts
  <2>3. Push(<<Return>>) = WithStack(Cons(Return, <<>>))
    BY <2>1 DEF Push, WithStack, Cons
  <2> QED
    BY <1>2, <2>2, <2>3, YieldInv DEF TimerInterrupt
<1> QED
  BY <1>1, <1>2

\* ------------------------------ the other types ------------------------------

LEMMA SwitchOutcome ==
  ASSUME NEW t, NEW ready, NEW stat, NEW stk,
         Run(t, ready, stat, stk) \/ Stay(ready, stat, stk) \/ Yield(ready, stat, stk)
           \/ ReadyToRun(t, stk) \/ Continue(stk)
  PROVE  outcome' \in {outcome, "aborted"}
<1>1. ASSUME NEW n, NEW r, NEW a, NEW k, Run(n, r, a, k) PROVE outcome' \in {outcome, "aborted"}
  BY <1>1 DEF Run
<1>2. ASSUME NEW r, NEW a, NEW k, Stay(r, a, k) PROVE outcome' \in {outcome, "aborted"}
  BY <1>2 DEF Stay
<1>3. ASSUME NEW r, NEW a, NEW k, Yield(r, a, k) PROVE outcome' \in {outcome, "aborted"}
  BY <1>1, <1>2, <1>3 DEF Yield
<1> QED
  BY <1>1, <1>2, <1>3 DEF ReadyToRun, Continue

\* What the types rest on: who changes what.
Typed ==
  /\ inHandler' \in BOOLEAN /\ outcome' \in {outcome, "halted", "aborted"}
  /\ value' \in [Sems \cup Locks -> Nat] /\ owner' \in [Locks -> Threads \cup {NoThread}]
  /\ active' \in [Devices -> BOOLEAN]
  /\ UNCHANGED program
  /\ holds' \in [Locks -> SUBSET Threads]

LEMMA SchedulerTypes ==
  ASSUME SynchInv, SchedulerStep \/ TimerStep
  PROVE  Typed
<1>1. OtherTypes
  BY DEF SynchInv
<1>2. UNCHANGED <<value, owner, active, program, holds>>
  BY DEF SchedulerStep, TimerStep, synchVars
<1>3. inHandler' \in BOOLEAN
  BY <1>1 DEF OtherTypes, SchedulerStep, TimerStep, ReturnStep, StartStep, SleepStep, YieldStep,
              FinishStep, EndHandlerStep, ForkStep, TimerInterrupt
<1>4. outcome' \in {outcome, "aborted"}
  <2>1. ReturnStep \/ StartStep \/ FinishStep => outcome' \in {outcome, "aborted"}
    BY DEF ReturnStep, StartStep, FinishStep, SetLevelOn
  <2>2. SleepStep => outcome' \in {outcome, "aborted"}
    BY SwitchOutcome DEF SleepStep
  <2>3. YieldStep \/ EndHandlerStep \/ TimerInterrupt => outcome' \in {outcome, "aborted"}
    BY SwitchOutcome DEF YieldStep, EndHandlerStep, TimerInterrupt
  <2>4. \A t \in Threads : ForkStep(t) => outcome' \in {outcome, "aborted"}
    BY SwitchOutcome DEF ForkStep
  <2> QED
    BY <2>1, <2>2, <2>3, <2>4 DEF SchedulerStep, TimerStep
<1> QED
  BY <1>1, <1>2, <1>3, <1>4 DEF OtherTypes, Typed

LEMMA NatUpdate ==
  ASSUME NEW S, NEW f \in [S -> Nat], NEW x, NEW n, x \in S => n \in Nat
  PROVE  [f EXCEPT ![x] = n] \in [S -> Nat]
OBVIOUS

LEMMA SynchTypes ==
  ASSUME SynchInv, SynchStep
  PROVE  Typed
<1>1. OtherTypes /\ currentThread \in Threads
  BY DEF SynchInv, Core, Executes
<1>2. UNCHANGED <<inHandler, program>>
  BY DEF SynchStep, PStep, VStep, VIncrementStep, AcquireStep, SetOwnerStep, ReleaseStep,
         WaitStep, WaitSleepStep, SignalStep, BroadcastStep, RequestStep, IdleStep, synchVars
<1>3. CASE PStep
  <2>1. outcome' = outcome
    BY <1>3 DEF PStep, GoToSleep, Continue, Stay
  <2>2. value' \in [Sems \cup Locks -> Nat]
    <3>1. CASE value[Top[2]] = 0
      BY <1>1, <1>3, <3>1 DEF PStep, OtherTypes
    <3>2. CASE value[Top[2]] # 0
      <4>1. value' = [value EXCEPT ![Top[2]] = @ - 1]
        BY <1>3, <3>2 DEF PStep
      <4>2. value \in [Sems \cup Locks -> Nat]
        BY <1>1 DEF OtherTypes
      <4>3. Top[2] \in Sems \cup Locks => value[Top[2]] - 1 \in Nat
        BY <3>2, <4>2, SMT
      <4> DEFINE s == Top[2]
                 n == value[s] - 1
      <4>4. s \in Sems \cup Locks => n \in Nat
        BY <4>3
      <4>5. value' = [value EXCEPT ![s] = n]
        BY <4>1
      <4> HIDE DEF s, n
      <4> QED
        BY <4>2, <4>4, <4>5, NatUpdate
    <3> QED
      BY <3>1, <3>2
  <2> QED
    BY <1>1, <1>2, <1>3, <2>1, <2>2 DEF PStep, OtherTypes, Typed
<1>4. CASE VStep \/ SignalStep \/ BroadcastStep
  <2>1. UNCHANGED <<value, owner, active, holds>>
    BY <1>4 DEF VStep, SignalStep, BroadcastStep
  <2>2. outcome' \in {outcome, "aborted"}
    BY <1>4, SwitchOutcome DEF VStep, SignalStep, BroadcastStep
  <2> QED
    BY <1>1, <1>2, <2>1, <2>2 DEF OtherTypes, Typed
<1>5. CASE VIncrementStep
  <2>1. value' = [value EXCEPT ![Top[2]] = @ + 1] /\ UNCHANGED <<owner, active, holds, outcome>>
    BY <1>5 DEF VIncrementStep, Continue, Stay
  <2>2. value \in [Sems \cup Locks -> Nat]
    BY <1>1 DEF OtherTypes
  <2>3. Top[2] \in Sems \cup Locks => value[Top[2]] + 1 \in Nat
    BY <2>2, SMT
  <2>4. value' \in [Sems \cup Locks -> Nat]
    BY <2>1, <2>2, <2>3, NatUpdate
  <2> QED
    BY <1>1, <1>2, <2>1, <2>4 DEF OtherTypes, Typed
<1>6. CASE AcquireStep \/ WaitStep \/ WaitSleepStep
  <2>1. UNCHANGED <<value, owner, active, holds, outcome>>
    BY <1>6 DEF AcquireStep, WaitStep, WaitSleepStep, GoToSleep, Continue, Stay, synchVars
  <2> QED
    BY <1>1, <1>2, <2>1 DEF OtherTypes, Typed
<1>7. CASE SetOwnerStep
  <2>1. /\ owner' = [owner EXCEPT ![Top[2]] = currentThread]
        /\ holds' = [holds EXCEPT ![Top[2]] = @ \cup {currentThread}]
        /\ UNCHANGED <<value, active, outcome>>
    BY <1>7 DEF SetOwnerStep, Continue, Stay
  <2> QED
    BY <1>1, <1>2, <2>1 DEF OtherTypes, Typed
<1>8. CASE ReleaseStep
  <2>1. /\ owner' = [owner EXCEPT ![Top[2]] = NoThread]
        /\ holds' = [holds EXCEPT ![Top[2]] = @ \ {currentThread}]
        /\ UNCHANGED <<value, active>> /\ outcome' \in {outcome, "aborted"}
    BY <1>8 DEF ReleaseStep
  <2> QED
    BY <1>1, <1>2, <2>1 DEF OtherTypes, Typed
<1>9. CASE RequestStep
  <2>1. /\ active' = [active EXCEPT ![Top[2]] = TRUE]
        /\ UNCHANGED <<value, owner, holds>> /\ outcome' \in {outcome, "aborted"}
    BY <1>9 DEF RequestStep
  <2> QED
    BY <1>1, <1>2, <2>1 DEF OtherTypes, Typed
<1>10. CASE IdleStep
  <2>1. UNCHANGED <<value, owner, active, holds>> /\ outcome' \in {outcome, "halted"}
    BY <1>10 DEF IdleStep, synchVars
  <2> QED
    BY <1>1, <1>2, <2>1 DEF OtherTypes, Typed
<1> QED
  BY <1>3, <1>4, <1>5, <1>6, <1>7, <1>8, <1>9, <1>10 DEF SynchStep

LEMMA KernelTypes ==
  ASSUME SynchInv, KernelStep
  PROVE  Typed
<1>1. ASSUME NEW d \in Devices, DeviceInterrupt(d) PROVE Typed
  <2>1. /\ active' = [active EXCEPT ![d] = FALSE] /\ UNCHANGED <<value, owner, program, holds>>
        /\ inHandler' = TRUE /\ outcome' = outcome
    BY <1>1 DEF DeviceInterrupt, EnterHandler, Continue, Stay
  <2> QED
    BY <2>1 DEF SynchInv, OtherTypes, Typed
<1> QED
  BY <1>1, SchedulerTypes, SynchTypes DEF KernelStep

\* --------------------------- the inductive invariant ---------------------------

LEMMA KernelInv ==
  ASSUME CardinalityLaws, NatWellOrdered, SynchInv, EqualPriorities, outcome = "running", KernelStep
  PROVE  Core'
<1>1. ASSUME SchedulerStep PROVE Core'
  <2>1. UNCHANGED synchVars
    BY <1>1 DEF SchedulerStep
  <2>2. SleepStep => Core'
    BY <2>1, SleepRunInv, SleepIdleInv
  <2>3. \A t \in Threads : ForkStep(t) => Core'
    BY <2>1, ForkInv
  <2>4. ReturnStep \/ StartStep \/ FinishStep \/ EndHandlerStep => Core'
    BY <2>1, ReturnInv, StartInv, FinishInv, EndHandlerInv
  <2>5. YieldStep => Core'
    BY <2>1, YieldsInv
  <2> QED
    BY <1>1, <2>2, <2>3, <2>4, <2>5 DEF SchedulerStep
<1>2. ASSUME SynchStep PROVE Core'
  <2>1. PStep \/ VStep => Core'
    BY TakeInv, PBlockInv, VEmptyInv, VWakeInv
  <2>2. VIncrementStep \/ AcquireStep \/ SetOwnerStep \/ ReleaseStep => Core'
    BY VIncrementInv, AcquireInv, SetOwnerInv, ReleaseInv
  <2>3. WaitStep \/ WaitSleepStep \/ SignalStep \/ BroadcastStep => Core'
    BY WaitInv, WaitSleepInv, SignalInv
  <2>4. RequestStep \/ IdleStep => Core'
    BY RequestInv, IdledInv
  <2> QED
    BY <1>2, <2>1, <2>2, <2>3, <2>4 DEF SynchStep
<1>3. TimerStep => Core'
  BY YieldsInv DEF TimerStep
<1> QED
  BY <1>1, <1>2, <1>3, DeviceInv DEF KernelStep
=============================================================================
