------------------------- MODULE SupervisionProofs -------------------------
(***************************************************************************)
(* Proofs about Project1 that rest on Project1Proofs: the rounds of the    *)
(* climate logic neither overlap nor end, its supervision implements       *)
(* Supervisor, and a confirmation is fresh.                                *)
(***************************************************************************)
EXTENDS Project1Proofs

USE DEF MAIN, LIGHT, TEMP, LOG

-----------------------------------------------------------------------------
(* The rounds of the climate logic.                                        *)

InR(s) == \E i \in 1 .. Len(s) : s[i] \in RoundOps

LEMMA RoundScripts ==
  ASSUME TypeOK
  PROVE  \A a \in Thread : InRound(a) <=> InR(todo[a])
BY DEF TypeOK, InRound, InR, RoundOps

LEMMA AsideInR == \A s \in Seq(Aside) : ~InR(s)
BY DEF Aside, InR

LEMMA OwnAside == \A t \in Tasks : \A s \in Seq(Own(t)) : ~InR(s)
<1>1. \A t \in Tasks : Own(t) \cap RoundOps = {}
  BY Operations, OtherPackets DEF Own, Reply, Sampler
<1>2. QED BY <1>1 DEF InR

\* Doing what is next, other than setting the timer of the logic, does not
\* end a round.
LEMMA RoundGoes ==
  ASSUME NEW s, Rounding(s), s # <<>>, NEW u, Continues(Head(s), u),
         Head(s) # Arm("logic")
  PROVE  InR(u \o Tail(s)) <=> InR(s)
<1>1. s \in Seq(Op) /\ Head(s) \in Op /\ Rounding(Tail(s))
  <2>1. s \in Seq(Op) BY DEF Rounding
  <2>2. QED BY <2>1, RoundTail
<1>2. u \in Seq(Aside) BY <1>1, ContinuesAside
<1>3. InR(u \o Tail(s)) <=> InR(Tail(s)) BY <1>1, <1>2, RoundConcat DEF InR
<1>4. InR(s) => InR(Tail(s)) BY RoundTail DEF InR
<1>5. InR(Tail(s)) => InR(s)
  <2>1. \A i \in 1 .. Len(Tail(s)) : i + 1 \in 1 .. Len(s) /\ Tail(s)[i] = s[i + 1]
    BY <1>1
  <2>2. QED BY <2>1 DEF InR
<1>6. QED BY <1>3, <1>4, <1>5

LEMMA RoundMoves ==
  ASSUME Inv, InOrder, [Next]_vars, up[MAIN], up'[MAIN], NEW b \in Thread
  PROVE  \/ InR(todo'[b]) <=> InR(todo[b])
         \/ Step(b) /\ todo[b] # <<>> /\ Head(todo[b]) = Arm("logic")
         \/ b \in Spare /\ Expire("logic")
<1>1. Proceeds(b) BY Moves DEF Relaunch
<1>2. Rounding(todo[b]) BY DEF InOrder
<1>3. Idle(b) => ~InR(todo[b]) BY DEF Idle, InR
<1>4. CASE Step(b) /\ todo[b] # <<>> /\ \E u : /\ Continues(Head(todo[b]), u)
                                               /\ todo'[b] = u \o Tail(todo[b])
  BY <1>2, <1>4, RoundGoes
<1>5. CASE Begins(b, todo'[b]) /\ b \in Tasks
  <2>1. ~InR(todo[b])
    <3>1. todo[b] \in Seq(Own(b)) BY <1>5 DEF InOrder
    <3>2. QED BY <1>5, <3>1, OwnAside
  <2>2. ~InR(todo'[b])
    <3>1. todo'[b] \in Seq(Own(b)) BY <1>5, BeginsInOrder
    <3>2. QED BY <1>5, <3>1, OwnAside
  <2>3. QED BY <2>1, <2>2
<1>6. CASE Begins(b, todo'[b]) /\ b = MAIN /\ Idle(b)
  <2>1. todo'[b] = <<>> \/ \E m \in Packet : todo'[b] = MainHandler(m)
    BY <1>6, Threads DEF Begins
  <2>2. ~InR(<<>>) BY DEF InR
  <2>3. ~InR(todo'[b]) BY <2>1, <2>2, MainBegins, AsideInR
  <2>4. QED BY <1>3, <1>6, <2>3
<1>7. ASSUME b \in Spare, Idle(b), NEW t \in Timer, Expire(t), todo'[b] \in Callback(t),
             t # "logic"
      PROVE  InR(todo'[b]) <=> InR(todo[b])
  BY <1>3, <1>7, CallbackBegins, AsideInR
<1>8. QED BY <1>1, <1>4, <1>5, <1>6, <1>7 DEF Proceeds

LEMMA OneRoundKept ==
  ASSUME "timer" \notin MayFail
  PROVE  Inv /\ InOrder /\ OneRound /\ [Next]_vars => OneRound'
<1> SUFFICES ASSUME Inv, InOrder, OneRound, [Next]_vars, up'[MAIN]
             PROVE  OneRound'
  BY DEF OneRound
<1> DEFINE R(b) == InR(todo[b])
           Q(b) == InR(todo'[b])
<1>1. Inv' /\ TypeOK BY Inductive DEF Inv
<1>2. \A b \in Thread : InRound(b) <=> R(b) BY <1>1, RoundScripts
<1>3. \A b \in Thread : InRound(b)' <=> Q(b)
  <2>1. todo' \in [Thread -> Seq(Op)] BY <1>1 DEF Inv, TypeOK
  <2>2. QED BY <2>1 DEF InRound, InR, RoundOps
<1>4. SUFFICES \/ armed'["logic"] = 1 /\ \A a \in Thread : ~Q(a)
               \/ armed'["logic"] = 0 /\ \E a \in Thread :
                    \A b \in Thread : Q(b) <=> b = a
  BY <1>3 DEF OneRound
<1>5. CASE Relaunch
  <2>1. armed'["logic"] = 0 BY <1>5 DEF Relaunch, Inv, Ended, Timer
  <2>2. /\ todo'[MAIN] = Startup
        /\ \A t \in Tasks : todo'[t] = TaskStart(t)
        /\ \A x \in Spare : todo'[x] = <<>>
    BY <1>5, Threads DEF Relaunch, FirstSteps, Owner
  <2>3. Q(MAIN)
    <3>1. InR(Startup) BY StartupBegins DEF Has, InR, RoundOps
    <3>2. QED BY <2>2, <3>1
  <2>4. \A t \in Tasks : ~Q(t) BY <2>2, TaskBegins, AsideInR
  <2>5. \A x \in Spare : ~Q(x) BY <2>2 DEF InR
  <2>6. \A b \in Thread : Q(b) <=> b = MAIN
    BY <2>3, <2>4, <2>5 DEF Thread, Owner
  <2>7. QED BY <2>1, <2>6, Threads
<1>6. CASE ~Relaunch
  <2>1. up[MAIN]
    <3>1. ASSUME ~up[MAIN] PROVE ~up'[MAIN] \/ Relaunch
      <4>1. \A a \in Thread : todo[a] = <<>> BY <3>1 DEF Inv, Ended
      <4>2. \A a \in Thread : ~Step(a)
        BY <4>1
        DEF Step, DoSend, DoArm, ArmFails, DoCheck, DoReset, DoRestart,
            RestartFails, DoCancel, DoExit, Doing
      <4>3. \A t \in Tasks : ~up[t] BY <3>1, Threads DEF Inv, Ended
      <4>4. QED
        BY <3>1, <4>2, <4>3
        DEF Next, TaskReceive, TaskKill, MainReceive, Expire, LastRecord,
            ClientSend, Crash, vars
    <3>2. QED BY <1>6, <3>1
  <2>2. \/ armed["logic"] = 1 /\ \A a \in Thread : ~R(a)
        \/ armed["logic"] = 0 /\ \E a \in Thread : \A b \in Thread : R(b) <=> b = a
    BY <1>2, <2>1 DEF OneRound
  <2>3. \A b \in Thread :
          \/ Q(b) <=> R(b)
          \/ Step(b) /\ todo[b] # <<>> /\ Head(todo[b]) = Arm("logic")
          \/ b \in Spare /\ Expire("logic")
    BY <2>1, RoundMoves
  <2>4. ASSUME NEW a \in Thread, Step(a), todo[a] # <<>>, Head(todo[a]) = Arm("logic")
        PROVE  DoArm(a) /\ R(a) /\ ~Q(a)
    <3>1. DoArm(a)
      <4>1. Head(todo[a]).op = "arm" BY <2>4 DEF Arm
      <4>2. QED
        BY <2>4, <4>1
        DEF Step, DoSend, ArmFails, DoCheck, DoReset, DoRestart, RestartFails,
            DoCancel, DoExit, Doing
    <3>2. todo'[a] = Tail(todo[a]) BY <1>1, <3>1 DEF DoArm, Advance, TypeOK
    <3>3. ~Q(a) BY <2>4, <3>2, RoundTail DEF InOrder, InR
    <3>4. R(a)
      <4>1. Has(todo[a], Arm("logic")) BY <1>1, <2>4, HasHead DEF TypeOK
      <4>2. QED BY <4>1 DEF Has, InR, RoundOps
    <3>5. QED BY <3>1, <3>3, <3>4
  <2>5. CASE Expire("logic")
    <3>1. armed["logic"] = 1 /\ armed'["logic"] = 0 /\ \A a \in Thread : ~R(a)
      <4>1. /\ armed' = [armed EXCEPT !["logic"] = @ - 1] /\ armed["logic"] > 0
            /\ armed \in [Timer -> 0 .. MaxArmed] /\ "logic" \in Timer
        BY <1>1, <2>5 DEF Expire, TypeOK, Timer
      <4>2. armed["logic"] = 1 /\ \A a \in Thread : ~R(a) BY <2>2, <4>1
      <4>3. QED BY <4>1, <4>2
    <3>2. PICK x \in Spare, s \in LogicScripts : todo' = [todo EXCEPT ![x] = s]
      BY <2>5 DEF Expire, Callback
    <3>3. x \in Thread /\ todo'[x] = s /\ \A b \in Thread \ {x} : todo'[b] = todo[b]
      BY <1>1, <3>2, Threads DEF TypeOK
    <3>4. Q(x)
      <4>1. InR(s) BY LogicRounding DEF Has, InR, RoundOps
      <4>2. QED BY <3>3, <4>1
    <3>5. \A b \in Thread : Q(b) <=> b = x BY <3>1, <3>3, <3>4
    <3>6. QED BY <3>1, <3>3, <3>5
  <2>6. CASE \E a \in Thread : DoArm(a) /\ Head(todo[a]) = Arm("logic")
    <3>1. PICK a \in Thread : DoArm(a) /\ Head(todo[a]) = Arm("logic") BY <2>6
    <3>2. R(a) /\ ~Q(a)
      BY <2>4, <3>1 DEF Step, DoArm, Doing
    <3>3. armed["logic"] = 0 /\ \A b \in Thread : R(b) => b = a
      BY <2>2, <3>2
    <3>4. armed'["logic"] = 1 BY <3>1, <3>3, ArmSets DEF Timer
    <3>5. \A b \in Thread : ~Q(b)
      BY <2>3, <2>4, <3>2, <3>3 DEF Expire
    <3>6. QED BY <3>4, <3>5
  <2>7. CASE ~Expire("logic") /\ ~\E a \in Thread : DoArm(a) /\ Head(todo[a]) = Arm("logic")
    <3>1. armed'["logic"] = armed["logic"]
      BY <2>7, ArmedMoves DEF Timer
    <3>2. \A b \in Thread : Q(b) <=> R(b) BY <2>3, <2>4, <2>7
    <3>3. QED BY <2>2, <3>1, <3>2
  <2>8. QED BY <2>5, <2>6, <2>7
<1>7. QED BY <1>5, <1>6

LEMMA InitOneRound == Init => OneRound
<1> SUFFICES ASSUME Init PROVE OneRound OBVIOUS
<1>1. TypeOK BY Initially DEF Inv
<1>2. /\ todo[MAIN] = Startup
      /\ \A t \in Tasks : todo[t] = TaskStart(t)
      /\ \A x \in Spare : todo[x] = <<>>
  BY Threads DEF Init, FirstSteps, Owner
<1>3. InR(todo[MAIN])
  <2>1. InR(Startup) BY StartupBegins DEF Has, InR, RoundOps
  <2>2. QED BY <1>2, <2>1
<1>4. \A t \in Tasks : ~InR(todo[t]) BY <1>2, TaskBegins, AsideInR
<1>5. \A x \in Spare : ~InR(todo[x]) BY <1>2 DEF InR
<1>6. \A b \in Thread : InRound(b) <=> b = MAIN
  BY <1>1, <1>3, <1>4, <1>5, RoundScripts DEF Thread, Owner
<1>7. armed["logic"] = 0 BY DEF Init, NothingArmed, Timer
<1>8. QED BY <1>6, <1>7, Threads DEF OneRound

\* As long as timers can be set, the rounds of the climate logic follow one
\* another without an overlap and without an end: either its timer is set
\* once and no thread is in a round, or it is not set and exactly one is,
\* however long that waits for room in the queue of a dead task.
THEOREM OneRoundOnly ==
  ASSUME "timer" \notin MayFail
  PROVE  Spec => []OneRound
<1> DEFINE IInv == Inv /\ InOrder /\ OneRound
<1>1. Init => IInv BY Initially, InitInOrder, InitOneRound
<1>2. IInv /\ [Next]_vars => IInv' BY Inductive, InOrderKept, OneRoundKept
<1>3. IInv => OneRound OBVIOUS
<1>4. QED BY <1>1, <1>2, <1>3, PTL DEF Spec

-----------------------------------------------------------------------------
(* Supervision implements Supervisor.                                      *)

\* An operation of the heartbeat on task t.
On(x, t) == [op |-> x, task |-> t]

Kinds == {"check", "reset", "restart"}

LEMMA OnKinds ==
  /\ \A t : Check(t) = On("check", t) /\ Reset(t) = On("reset", t)
            /\ Restart(t) = On("restart", t)
  /\ \A x \in Kinds : \A t : Examines(On(x, t)) /\ On(x, t).op = x /\ On(x, t).task = t
  /\ \A x, y, t, q : On(x, t) = On(y, q) <=> x = y /\ t = q
  /\ \A o \in Op : Examines(o) => o = On(o.op, o.task) /\ o.op \in Kinds /\ o.task \in Tasks
<1>1. \A x, y, t, q : On(x, t) = On(y, q) <=> x = y /\ t = q
  <2>1. \A x, t : On(x, t).op = x /\ On(x, t).task = t BY DEF On
  <2>2. QED BY <2>1
<1>2. \A o \in Op : Examines(o) => o = On(o.op, o.task) /\ o.op \in Kinds /\ o.task \in Tasks
  BY DEF On, Op, Examines, Kinds
<1>3. QED BY <1>1, <1>2 DEF Check, Reset, Restart, On, Examines, Kinds

\* The tasks for which an operation is pending.
LEMMA PendingHas ==
  ASSUME TypeOK, NEW x \in Kinds, NEW t \in Tasks
  PROVE  t \in Pending(x) <=> \E a \in Spare : Has(todo[a], On(x, t))
<1>1. ASSUME NEW a \in Spare
      PROVE  (\E i \in DOMAIN todo[a] : todo[a][i].op = x /\ todo[a][i].task = t)
               <=> Has(todo[a], On(x, t))
  <2>1. todo[a] \in Seq(Op) BY Threads DEF TypeOK
  <2>2. DOMAIN todo[a] = 1 .. Len(todo[a])
        /\ \A i \in 1 .. Len(todo[a]) : todo[a][i] \in Op
    BY <2>1
  <2>3. \A o \in Op : o.op = x => Examines(o) BY DEF Kinds, Examines
  <2>4. \A o \in Op : o.op = x /\ o.task = t <=> o = On(x, t)
    BY <2>3, OnKinds
  <2>5. QED BY <2>2, <2>4 DEF Has
<1>2. QED BY <1>1 DEF Pending

\* Only one thread has anything to do with the loop over the tasks, and only
\* while the timer is not set.
LEMMA Alone ==
  ASSUME Inv, HeartbeatKept, NEW a \in Thread, NEW o, Examines(o), Has(todo[a], o)
  PROVE  /\ armed["heartbeat"] = 0 /\ up[MAIN]
         /\ \A b \in Thread : \A p : Examines(p) /\ Has(todo[b], p) => b = a
<1>1. ASSUME NEW b \in Thread, NEW p, Examines(p), Has(todo[b], p)
      PROVE  Rearming(b) /\ todo[b] # <<>>
  <2>1. ~Harmless(todo[b]) BY <1>1 DEF Harmless, Has
  <2>2. Guarded(todo[b]) BY <2>1 DEF Inv, Disciplined
  <2>3. QED BY <1>1, <2>2, Roles, HasFew
<1>2. Rearming(a) /\ up[MAIN] BY <1>1, Busy
<1>3. QED BY <1>1, <1>2 DEF HeartbeatKept

\* What the head of a script leaves to be examined.
LEMMA HeadExamines ==
  ASSUME Inv, InOrder, NEW a \in Thread, todo[a] # <<>>,
         NEW x \in Kinds, NEW t \in Tasks, Head(todo[a]) = On(x, t)
  PROVE  \A y \in Kinds, q \in Tasks :
           /\ Has(Tail(todo[a]), On(y, q)) => y = "check" /\ q # t
           /\ Has(todo[a], On(y, q)) <=> (y = x /\ q = t) \/ Has(Tail(todo[a]), On(y, q))
<1> DEFINE s == todo[a]
<1>1. s \in Seq(Op) /\ Watch(s) BY DEF Inv, TypeOK, InOrder
<1>2. Examines(Head(s)) BY OnKinds
<1>3. ASSUME NEW y \in Kinds, NEW q \in Tasks, Has(Tail(s), On(y, q))
      PROVE  y = "check" /\ q # t /\ Has(s, On(y, q))
  <2>1. PICK j \in 1 .. Len(Tail(s)) : Tail(s)[j] = On(y, q) BY <1>3 DEF Has
  <2>2. Tail(s)[j].op = "check" /\ Tail(s)[j].task # Head(s).task
    BY <1>1, <1>2, <2>1, WatchHead, OnKinds
  <2>3. j + 1 \in 1 .. Len(s) /\ Tail(s)[j] = s[j + 1] BY <1>1
  <2>4. QED BY <2>1, <2>2, <2>3, OnKinds DEF Has
<1>4. \A o : Has(s, o) => o = Head(s) \/ Has(Tail(s), o) BY <1>1, HasTail
<1>5. Has(s, On(x, t)) BY <1>1, HasHead
<1>6. QED BY <1>3, <1>4, <1>5, OnKinds

\* What is pending stays pending unless the heartbeat itself is at work.
LEMMA PendingMoves ==
  ASSUME Inv, [Next]_vars, up[MAIN], up'[MAIN], NEW b \in Spare,
         NEW o, Examines(o),
         ~(Step(b) /\ todo[b] # <<>> /\ Examines(Head(todo[b]))),
         ~Expire("heartbeat")
  PROVE  Has(todo'[b], o) <=> Has(todo[b], o)
<1>1. Proceeds(b) /\ b \notin Tasks /\ b # MAIN /\ b \in Thread
  BY Moves, Threads DEF Relaunch
<1>2. \A s : Unwatchful(s) => ~Has(s, o) BY DEF Unwatchful, Has
<1>3. ASSUME NEW u, Step(b), todo[b] # <<>>, Continues(Head(todo[b]), u),
             todo'[b] = u \o Tail(todo[b])
      PROVE  Has(todo'[b], o) <=> Has(todo[b], o)
  <2>1. ~Examines(Head(todo[b])) BY <1>3
  <2>2. Unwatchful(u) /\ u \in Seq(Op)
    BY <1>3, <2>1, LogUnwatchful DEF Continues, Examines, Unwatchful
  <2>3. todo[b] \in Seq(Op) /\ Tail(todo[b]) \in Seq(Op)
    BY <1>1, <1>3, Heads DEF Inv, TypeOK
  <2>4. Has(u \o Tail(todo[b]), o) <=> Has(Tail(todo[b]), o)
    BY <1>2, <2>2, <2>3, HasConcat
  <2>5. Has(todo[b], o) => Has(Tail(todo[b]), o)
    BY <2>1, <2>3, HasTail
  <2>6. Has(Tail(todo[b]), o) => Has(todo[b], o)
    <3>1. \A i \in 1 .. Len(Tail(todo[b])) :
            i + 1 \in 1 .. Len(todo[b]) /\ Tail(todo[b])[i] = todo[b][i + 1]
      BY <1>3, <2>3
    <3>2. QED BY <3>1 DEF Has
  <2>7. QED BY <1>3, <2>4, <2>5, <2>6
<1>4. ASSUME Idle(b), NEW t \in Timer, Expire(t), todo'[b] \in Callback(t)
      PROVE  Has(todo'[b], o) <=> Has(todo[b], o)
  <2>1. Unwatchful(todo'[b]) BY <1>4, CallbackBegins
  <2>2. ~Has(todo[b], o) BY <1>4, HasFew DEF Idle
  <2>3. QED BY <1>2, <2>1, <2>2
<1>5. QED BY <1>1, <1>3, <1>4 DEF Proceeds

\* The variables of Supervisor that Project1 does not have.
Due       == Pending("check")
Resetting == Pending("reset")
Condemned == Pending("restart")
Confirmed == {t \in Tasks : up[MAIN] /\ main_alive[t] /\ t \notin Resetting}
Alive     == {t \in Tasks : up[t]}

LEMMA PendingHasNext ==
  ASSUME TypeOK', NEW x \in Kinds, NEW t \in Tasks
  PROVE  t \in Pending(x)' <=> \E a \in Spare : Has(todo'[a], On(x, t))
<1>1. ASSUME NEW a \in Spare
      PROVE  (\E i \in DOMAIN todo'[a] : todo'[a][i].op = x /\ todo'[a][i].task = t)
               <=> Has(todo'[a], On(x, t))
  <2>1. todo'[a] \in Seq(Op) BY Threads DEF TypeOK
  <2>2. DOMAIN todo'[a] = 1 .. Len(todo'[a])
        /\ \A i \in 1 .. Len(todo'[a]) : todo'[a][i] \in Op
    BY <2>1
  <2>3. \A o \in Op : o.op = x => Examines(o) BY DEF Kinds, Examines
  <2>4. \A o \in Op : o.op = x /\ o.task = t <=> o = On(x, t)
    BY <2>3, OnKinds
  <2>5. QED BY <2>2, <2>4 DEF Has
<1>2. QED BY <1>1 DEF Pending

LEMMA PendingStays ==
  ASSUME Inv, TypeOK', [Next]_vars, up[MAIN], up'[MAIN], ~Expire("heartbeat"),
         \A b \in Spare : ~(Step(b) /\ todo[b] # <<>> /\ Examines(Head(todo[b])))
  PROVE  Due' = Due /\ Resetting' = Resetting /\ Condemned' = Condemned
<1>1. \A x \in Kinds, t \in Tasks : t \in Pending(x)' <=> t \in Pending(x)
  <2>1. \A x \in Kinds, t \in Tasks : Examines(On(x, t)) BY OnKinds
  <2>2. TypeOK BY DEF Inv
  <2>3. \A b \in Spare, x \in Kinds, t \in Tasks :
          Has(todo'[b], On(x, t)) <=> Has(todo[b], On(x, t))
    BY <2>1, PendingMoves
  <2>4. QED BY <2>2, <2>3, PendingHas, PendingHasNext
<1>2. \A x : Pending(x) \subseteq Tasks /\ Pending(x)' \subseteq Tasks BY DEF Pending
<1>3. QED BY <1>1, <1>2 DEF Due, Resetting, Condemned, Kinds

\* The heartbeat does the operation x on task t that is next, and goes on
\* with u before the rest of its script.
LEMMA ExamineMoves ==
  ASSUME Inv, TypeOK', InOrder, HeartbeatKept, NEW a \in Thread, todo[a] # <<>>,
         NEW x \in Kinds, NEW t \in Tasks, Head(todo[a]) = On(x, t),
         NEW u \in Seq(Op), todo'[a] = u \o Tail(todo[a]),
         \A b \in Spare \ {a} : todo'[b] = todo[b]
  PROVE  \A y \in Kinds, q \in Tasks :
           /\ Has(Tail(todo[a]), On(y, q)) => y = "check" /\ q # t
           /\ q \in Pending(y) <=> (y = x /\ q = t) \/ Has(Tail(todo[a]), On(y, q))
           /\ q \in Pending(y)' <=> Has(u, On(y, q)) \/ Has(Tail(todo[a]), On(y, q))
<1> TAKE y \in Kinds, q \in Tasks
<1> DEFINE o == On(y, q)
<1>0. TypeOK /\ Examines(o) /\ Examines(Head(todo[a])) /\ todo[a] \in Seq(Op)
  BY OnKinds DEF Inv, TypeOK
<1>1. a \in Spare
  <2>1. Has(todo[a], Head(todo[a])) BY <1>0, HasHead
  <2>2. ~Unwatchful(todo[a]) BY <1>0, <2>1 DEF Has, Unwatchful
  <2>3. QED BY <2>2 DEF InOrder, Thread
<1>2. /\ Has(Tail(todo[a]), o) => y = "check" /\ q # t
      /\ Has(todo[a], o) <=> (y = x /\ q = t) \/ Has(Tail(todo[a]), o)
  BY HeadExamines
<1>3. \A b \in Spare \ {a} : ~Has(todo[b], o)
  <2>1. Has(todo[a], Head(todo[a])) BY <1>0, HasHead
  <2>2. QED BY <1>0, <2>1, Alone, Threads
<1>4. Has(todo'[a], o) <=> Has(u, o) \/ Has(Tail(todo[a]), o)
  <2>1. Tail(todo[a]) \in Seq(Op) BY <1>0
  <2>2. Has(u \o Tail(todo[a]), o) <=> Has(u, o) \/ Has(Tail(todo[a]), o)
    BY <2>1, HasConcat
  <2>3. todo'[a] = u \o Tail(todo[a]) OBVIOUS
  <2>4. QED BY <2>2, <2>3
<1>5. q \in Pending(y) <=> Has(todo[a], o)
  BY <1>0, <1>1, <1>3, PendingHas
<1>6. q \in Pending(y)' <=> Has(todo'[a], o)
  BY <1>1, <1>3, PendingHasNext
<1>7. QED BY <1>2, <1>4, <1>5, <1>6

\* A check examines a task.
LEMMA CheckMonitors ==
  ASSUME Inv, TypeOK', InOrder, HeartbeatKept, NEW a \in Thread, DoCheck(a)
  PROVE  \E t \in Tasks :
           /\ t \in Due /\ Condemned = {} /\ Due' = Due \ {t}
           /\ Confirmed' = Confirmed \ {t}
           /\ Condemned' = (IF t \in Confirmed THEN {} ELSE {t})
           /\ UNCHANGED <<up, armed>>
<1>1. PICK t \in Tasks : Head(todo[a]) = On("check", t) /\ todo[a] # <<>>
  <2>1. Head(todo[a]) \in Op /\ Head(todo[a]).op = "check" /\ todo[a] # <<>>
    BY Heads DEF DoCheck, Doing, Inv
  <2>2. QED BY <2>1, OnKinds DEF Examines
<1>2. Head(todo[a]).task = t BY <1>1 DEF On
<1> DEFINE u == IF main_alive[t] THEN <<Reset(t)>> ELSE Log \o <<Restart(t)>>
<1>3. /\ u \in Seq(Op)
      /\ \A y \in Kinds, q \in Tasks :
           Has(u, On(y, q)) <=> q = t /\ y = (IF main_alive[t] THEN "reset" ELSE "restart")
  <2>1. <<Reset(t)>> \in Seq(Op) /\ <<Restart(t)>> \in Seq(Op) /\ Log \in Seq(Op)
    BY OpTypes, LogUnwatchful DEF Unwatchful
  <2>2. \A y \in Kinds, q \in Tasks : ~Has(Log, On(y, q))
    BY OnKinds, LogUnwatchful DEF Has, Unwatchful
  <2>3. Reset(t) = On("reset", t) /\ Restart(t) = On("restart", t) BY OnKinds
  <2>4. "reset" \in Kinds /\ "restart" \in Kinds BY DEF Kinds
  <2>5. \A y \in Kinds, q \in Tasks :
          /\ Has(<<Reset(t)>>, On(y, q)) <=> y = "reset" /\ q = t
          /\ Has(<<Restart(t)>>, On(y, q)) <=> y = "restart" /\ q = t
    BY <2>3, HasFew DEF On
  <2>6. /\ Log \o <<Restart(t)>> \in Seq(Op)
        /\ \A o : Has(Log \o <<Restart(t)>>, o) <=> Has(Log, o) \/ Has(<<Restart(t)>>, o)
    <3>1. Log \o <<Restart(t)>> \in Seq(Op) BY <2>1
    <3>2. \A o : Has(Log \o <<Restart(t)>>, o) <=> Has(Log, o) \/ Has(<<Restart(t)>>, o)
      BY <2>1, HasConcat
    <3>3. QED BY <3>1, <3>2
  <2>7. CASE main_alive[t] BY <2>1, <2>5, <2>7
  <2>8. CASE ~main_alive[t] BY <2>2, <2>5, <2>6, <2>8
  <2>9. QED BY <2>7, <2>8
<1>4. todo' = [todo EXCEPT ![a] = u \o Tail(todo[a])]
  BY <1>1, <1>2 DEF DoCheck, Instead
<1> HIDE DEF u
<1>5. todo'[a] = u \o Tail(todo[a]) /\ \A b \in Spare \ {a} : todo'[b] = todo[b]
  BY <1>4, Threads DEF Inv, TypeOK
<1>6. "check" \in Kinds /\ "reset" \in Kinds /\ "restart" \in Kinds BY DEF Kinds
<1>7. \A y \in Kinds, q \in Tasks :
        /\ Has(Tail(todo[a]), On(y, q)) => y = "check" /\ q # t
        /\ q \in Pending(y) <=> (y = "check" /\ q = t) \/ Has(Tail(todo[a]), On(y, q))
        /\ q \in Pending(y)' <=> Has(u, On(y, q)) \/ Has(Tail(todo[a]), On(y, q))
  BY <1>1, <1>3, <1>5, <1>6, ExamineMoves
<1>8. \A x : Pending(x) \subseteq Tasks /\ Pending(x)' \subseteq Tasks BY DEF Pending
<1>9. t \in Due /\ Condemned = {} /\ Resetting = {}
  BY <1>6, <1>7, <1>8 DEF Due, Condemned, Resetting
<1>10. Due' = Due \ {t}
  BY <1>3, <1>6, <1>7, <1>8 DEF Due
<1>11. /\ Resetting' = (IF main_alive[t] THEN {t} ELSE {})
       /\ Condemned' = (IF main_alive[t] THEN {} ELSE {t})
  BY <1>3, <1>6, <1>7, <1>8 DEF Resetting, Condemned
<1>12. up[MAIN] /\ UNCHANGED <<up, armed, main_alive>>
  BY <1>1, Busy DEF DoCheck
<1>13. Confirmed' = Confirmed \ {t}
  BY <1>9, <1>11, <1>12 DEF Confirmed
<1>14. t \in Confirmed <=> main_alive[t]
  BY <1>9, <1>12 DEF Confirmed
<1>15. QED BY <1>9, <1>10, <1>11, <1>12, <1>13, <1>14

\* Clearing the flag changes nothing for the monitor: the confirmation has
\* been used up.
LEMMA ResetMonitors ==
  ASSUME Inv, TypeOK', InOrder, HeartbeatKept, NEW a \in Thread, DoReset(a)
  PROVE  Due' = Due /\ Condemned' = Condemned /\ Confirmed' = Confirmed
         /\ UNCHANGED <<up, armed>>
<1>1. PICK t \in Tasks : Head(todo[a]) = On("reset", t) /\ todo[a] # <<>>
  <2>1. Head(todo[a]) \in Op /\ Head(todo[a]).op = "reset" /\ todo[a] # <<>>
    BY Heads DEF DoReset, Doing, Inv
  <2>2. QED BY <2>1, OnKinds DEF Examines
<1>2. Head(todo[a]).task = t BY <1>1 DEF On
<1>3. todo' = [todo EXCEPT ![a] = Tail(todo[a])]
  BY <1>1 DEF DoReset, Advance
<1>4. Tail(todo[a]) = <<>> \o Tail(todo[a])
  BY <1>1, Heads, EmptyFirst DEF Inv
<1>5. todo'[a] = <<>> \o Tail(todo[a]) /\ \A b \in Spare \ {a} : todo'[b] = todo[b]
  BY <1>3, <1>4, Threads DEF Inv, TypeOK
<1>6. "check" \in Kinds /\ "reset" \in Kinds /\ "restart" \in Kinds BY DEF Kinds
<1>7. \A y \in Kinds, q \in Tasks :
        /\ Has(Tail(todo[a]), On(y, q)) => y = "check" /\ q # t
        /\ q \in Pending(y) <=> (y = "reset" /\ q = t) \/ Has(Tail(todo[a]), On(y, q))
        /\ q \in Pending(y)' <=> Has(<<>>, On(y, q)) \/ Has(Tail(todo[a]), On(y, q))
  <2>1. <<>> \in Seq(Op) OBVIOUS
  <2>2. QED BY <1>1, <1>5, <1>6, <2>1, ExamineMoves
<1>8. \A x : Pending(x) \subseteq Tasks /\ Pending(x)' \subseteq Tasks BY DEF Pending
<1>9. \A y \in Kinds, q \in Tasks :
        q \in Pending(y)' <=> Has(Tail(todo[a]), On(y, q))
  BY <1>7, HasFew
<1>10. Due' = Due BY <1>6, <1>7, <1>8, <1>9 DEF Due
<1>11. Condemned = {} /\ Condemned' = {}
  BY <1>6, <1>7, <1>8, <1>9 DEF Condemned
<1>12. Resetting = {t} /\ Resetting' = {}
  BY <1>6, <1>7, <1>8, <1>9 DEF Resetting
<1>13. up[MAIN] /\ UNCHANGED <<up, armed>> /\ main_alive' = [main_alive EXCEPT ![t] = FALSE]
  BY <1>1, <1>2, Busy DEF DoReset
<1>14. Confirmed' = Confirmed
  BY <1>12, <1>13 DEF Confirmed, Inv, TypeOK
<1>15. QED BY <1>10, <1>11, <1>13, <1>14

\* A restart starts the condemned task, or fails to.
LEMMA RestartMonitors ==
  ASSUME Inv, TypeOK', InOrder, HeartbeatKept, NEW a \in Thread,
         DoRestart(a) \/ RestartFails(a)
  PROVE  \E t \in Tasks :
           /\ t \in Condemned /\ Condemned' = Condemned \ {t}
           /\ Alive' \in {Alive \cup {t}, Alive \ {t}}
           /\ Due' = Due /\ Confirmed' = Confirmed
           /\ up'[MAIN] = up[MAIN] /\ armed' = armed
<1>1. PICK t \in Tasks : Head(todo[a]) = On("restart", t) /\ todo[a] # <<>>
  <2>1. Head(todo[a]) \in Op /\ Head(todo[a]).op = "restart" /\ todo[a] # <<>>
    BY Heads DEF DoRestart, RestartFails, Doing, Inv
  <2>2. QED BY <2>1, OnKinds DEF Examines
<1>2. Head(todo[a]).task = t BY <1>1 DEF On
<1>3. PICK u \in {AfterCreate(t), Log}, s \in {<<>>, TaskStart(t)} :
        todo' = [todo EXCEPT ![a] = u \o Tail(@), ![t] = s]
  BY <1>2 DEF DoRestart, RestartFails
<1>4. Unwatchful(u) /\ u \in Seq(Op)
  BY AfterCreateAside, LogUnwatchful DEF Unwatchful
<1>5. a \notin Tasks
  <2>1. Examines(Head(todo[a])) BY <1>1, OnKinds DEF Kinds
  <2>2. QED BY <1>1, <2>1, Examiner DEF Inv
<1>6. todo'[a] = u \o Tail(todo[a]) /\ \A b \in Spare \ {a} : todo'[b] = todo[b]
  BY <1>3, <1>5, Threads DEF Inv, TypeOK
<1>7. "check" \in Kinds /\ "reset" \in Kinds /\ "restart" \in Kinds BY DEF Kinds
<1>8. \A y \in Kinds, q \in Tasks :
        /\ Has(Tail(todo[a]), On(y, q)) => y = "check" /\ q # t
        /\ q \in Pending(y) <=> (y = "restart" /\ q = t) \/ Has(Tail(todo[a]), On(y, q))
        /\ q \in Pending(y)' <=> Has(u, On(y, q)) \/ Has(Tail(todo[a]), On(y, q))
  BY <1>1, <1>4, <1>6, <1>7, ExamineMoves
<1>9. \A y \in Kinds, q \in Tasks :
        q \in Pending(y)' <=> Has(Tail(todo[a]), On(y, q))
  <2>1. \A y \in Kinds, q \in Tasks : ~Has(u, On(y, q))
    BY <1>4, OnKinds DEF Has, Unwatchful
  <2>2. QED BY <1>8, <2>1
<1>10. \A x : Pending(x) \subseteq Tasks /\ Pending(x)' \subseteq Tasks BY DEF Pending
<1>11. Due' = Due BY <1>7, <1>8, <1>9, <1>10 DEF Due
<1>12. Resetting = {} /\ Resetting' = {}
  BY <1>7, <1>8, <1>9, <1>10 DEF Resetting
<1>13. Condemned = {t} /\ Condemned' = {}
  BY <1>7, <1>8, <1>9, <1>10 DEF Condemned
<1>14. PICK v \in BOOLEAN : up' = [up EXCEPT ![t] = v]
  BY <1>2 DEF DoRestart, RestartFails
<1>15. Alive' \in {Alive \cup {t}, Alive \ {t}} /\ up'[MAIN] = up[MAIN]
  <2>1. \A q \in Tasks : up'[q] = IF q = t THEN v ELSE up[q]
    BY <1>14, Threads DEF Inv, TypeOK
  <2>2. up'[MAIN] = up[MAIN] BY <1>14, Threads DEF Inv, TypeOK
  <2>3. CASE v BY <2>1, <2>2, <2>3 DEF Alive
  <2>4. CASE ~v BY <2>1, <2>2, <2>4 DEF Alive
  <2>5. QED BY <2>3, <2>4
<1>16. main_alive' = main_alive /\ armed' = armed
  BY DEF DoRestart, RestartFails
<1>17. Confirmed' = Confirmed
  BY <1>12, <1>15, <1>16 DEF Confirmed
<1>18. QED BY <1>11, <1>13, <1>15, <1>16, <1>17

\* The loop of a heartbeat checks every task, and nothing else in its script
\* examines one.
LEMMA LoopExamines == \A t \in Tasks : Has(EachTask(Check), Check(t))
<1> DEFINE A(q) == Only(q, <<Check(q)>>)
<1>1. \A q \in Tasks : <<Check(q)>> \in Seq(Op) BY OpTypes
<1>2. \A q : A(q) \in Seq(Op) BY <1>1 DEF Only
<1>3. \A q \in Tasks : Has(A(q), Check(q)) BY HasFew DEF Only
<1>4. EachTask(Check) = A(LIGHT) \o A(TEMP) \o A(LOG) BY DEF EachTask
<1> HIDE DEF A
<1>5. A(LIGHT) \o A(TEMP) \in Seq(Op) BY <1>2
<1>6. ASSUME NEW t \in Tasks PROVE Has(EachTask(Check), Check(t))
  <2>1. t \in {LIGHT, TEMP, LOG} BY Project1Assumption
  <2> DEFINE o == Check(t)
  <2>2. Has(A(t), o) BY <1>3
  <2>3. Has(A(LIGHT) \o A(TEMP), o) <=> Has(A(LIGHT), o) \/ Has(A(TEMP), o)
    BY <1>2, HasConcat
  <2>4. Has((A(LIGHT) \o A(TEMP)) \o A(LOG), o)
          <=> Has(A(LIGHT) \o A(TEMP), o) \/ Has(A(LOG), o)
    BY <1>2, <1>5, HasConcat
  <2>5. QED BY <1>4, <2>1, <2>2, <2>3, <2>4
<1>7. QED BY <1>6

LEMMA HeartbeatExamines ==
  \A y \in Kinds, q \in Tasks : Has(HeartbeatScript, On(y, q)) <=> y = "check"
<1> TAKE y \in Kinds, q \in Tasks
<1> DEFINE o == On(y, q)
<1>1. /\ Log \in Seq(Op) /\ ~Has(Log, o)
      /\ HeartbeatInit \in Seq(Op) /\ ~Has(HeartbeatInit, o)
  <2>1. Unwatchful(EachTask(Ask)) BY Loops, HarmlessUnwatchful
  <2>2. Unwatchful(<<Arm("heartbeat")>>)
    BY Operations, OpTypes DEF Unwatchful, Timer
  <2>3. Unwatchful(HeartbeatInit) BY <2>1, <2>2, WatchConcat DEF HeartbeatInit
  <2>4. QED BY <2>3, LogUnwatchful, OnKinds DEF Unwatchful, Has
<1>2. EachTask(Check) \in Seq(Op) /\ (Has(EachTask(Check), o) => y = "check")
  <2>1. \A i \in 1 .. Len(EachTask(Check)) :
          Examines(EachTask(Check)[i]) => EachTask(Check)[i].op = "check"
    BY LoopChecks DEF Checks
  <2>2. Has(EachTask(Check), o) => y = "check" BY <2>1, OnKinds DEF Has
  <2>3. QED BY <2>2, LoopChecks DEF Checks
<1>3. y = "check" => Has(EachTask(Check), o)
  BY LoopExamines, OnKinds
<1>4. Has(Log \o EachTask(Check), o) <=> Has(Log, o) \/ Has(EachTask(Check), o)
  BY <1>1, <1>2, HasConcat
<1>5. Log \o EachTask(Check) \in Seq(Op) BY <1>1, <1>2
<1>6. Has((Log \o EachTask(Check)) \o HeartbeatInit, o)
        <=> Has(Log \o EachTask(Check), o) \/ Has(HeartbeatInit, o)
  BY <1>1, <1>5, HasConcat
<1>7. QED BY <1>1, <1>2, <1>3, <1>4, <1>6 DEF HeartbeatScript

\* Nothing is pending while the timer is set, and when it is about to be.
LEMMA NothingPending ==
  ASSUME Inv, HeartbeatKept,
         \/ armed["heartbeat"] # 0
         \/ ~up[MAIN]
         \/ \E a \in Thread : todo[a] # <<>> /\ Head(todo[a]) = Beat
  PROVE  /\ \A b \in Thread : \A o : Examines(o) => ~Has(todo[b], o)
         /\ Due = {} /\ Resetting = {} /\ Condemned = {}
<1>1. ASSUME NEW b \in Thread, NEW o, Examines(o), Has(todo[b], o) PROVE FALSE
  <2>1. armed["heartbeat"] = 0 /\ up[MAIN] BY <1>1, Alone
  <2>2. PICK a \in Thread : todo[a] # <<>> /\ Head(todo[a]) = Beat BY <2>1
  <2>3. todo[a] \in Seq(Op) /\ Has(todo[a], Beat)
    <3>1. todo[a] \in Seq(Op) BY DEF Inv, TypeOK
    <3>2. QED BY <2>2, <3>1, HasHead
  <2>4. ~Harmless(todo[a]) /\ Guarded(todo[a])
    <3>1. ~Harmless(todo[a]) BY <2>3 DEF Has, Harmless, Quiet
    <3>2. QED BY <3>1 DEF Inv, Disciplined
  <2>5. ~Harmless(todo[b]) BY <1>1 DEF Has, Harmless
  <2>6. Rearming(a) /\ Rearming(b) BY <2>4, <2>5, Roles DEF Inv, Disciplined
  <2>7. a = b BY <2>1, <2>6 DEF HeartbeatKept
  <2>8. Harmless(Tail(todo[a])) BY <2>2, <2>4, Tails
  <2>9. o = Head(todo[a]) \/ Has(Tail(todo[a]), o) BY <1>1, <2>3, <2>7, HasTail
  <2>10. ~Has(Tail(todo[a]), o) BY <1>1, <2>8 DEF Has, Harmless
  <2>11. QED BY <1>1, <2>2, <2>9, <2>10 DEF Beat, Arm, Examines
<1>2. \A x \in Kinds, t \in Tasks : t \notin Pending(x)
  BY <1>1, PendingHas, OnKinds, Threads DEF Inv
<1>3. \A x : Pending(x) \subseteq Tasks BY DEF Pending
<1>4. QED BY <1>1, <1>2, <1>3 DEF Due, Resetting, Condemned, Kinds

\* Nothing is pending when all scripts are those of threads that wait.
LEMMA NothingLeft ==
  ASSUME \A a \in Spare : todo'[a] = <<>>
  PROVE  Due' = {} /\ Resetting' = {} /\ Condemned' = {}
<1>1. \A x : Pending(x)' = {} BY DEF Pending
<1>2. QED BY <1>1 DEF Due, Resetting, Condemned

-----------------------------------------------------------------------------
(* Each step of Project1 is one of Supervisor, or changes nothing of it.   *)

Monitored == <<up[MAIN], armed["heartbeat"] > 0, Due, Condemned, Confirmed, Alive>>

LEMMA SameMonitor == Monitored = Monitor!vars /\ (UNCHANGED Monitored <=> UNCHANGED Monitor!vars)
BY DEF Monitored, Monitor!vars, Due, Condemned, Confirmed, Alive, Resetting

\* The program ends.
LEMMA EndMonitors ==
  ASSUME Inv', up[MAIN], ~up'[MAIN]
  PROVE  Monitor!End
<1>1. /\ \A a \in Thread : todo'[a] = <<>>
      /\ \A a \in Owner : ~up'[a]
      /\ armed'["heartbeat"] = 0
  BY DEF Inv, Ended, Timer
<1>2. Due' = {} /\ Resetting' = {} /\ Condemned' = {}
  BY <1>1, Threads, NothingLeft
<1>3. Confirmed' = {} /\ Alive' = {}
  BY <1>1, Threads DEF Confirmed, Alive
<1>4. up'[MAIN] = FALSE
  BY Threads DEF Inv, TypeOK
<1>5. (armed["heartbeat"] > 0)' = FALSE BY <1>1
<1>6. {Due', Condemned', Confirmed', Alive'} = {{}} BY <1>2, <1>3
<1>7. QED
  BY <1>4, <1>5, <1>6 DEF Monitor!End, Due, Condemned, Confirmed, Alive, Resetting

\* The program is started again.
LEMMA LaunchMonitors ==
  ASSUME Inv, Inv', Relaunch
  PROVE  Monitor!Launch
<1>1. /\ ~up[MAIN] /\ up'[MAIN] = TRUE /\ \A t \in Tasks : up'[t]
      /\ armed'["heartbeat"] = 0 /\ \A t \in Tasks : ~main_alive'[t]
      /\ \A a \in Spare : todo'[a] = <<>>
  BY Threads DEF Relaunch, Inv, Ended, Timer, FirstSteps, Owner
<1>2. Due' = {} /\ Resetting' = {} /\ Condemned' = {}
  BY <1>1, NothingLeft
<1>3. Confirmed' = {} /\ Alive' = Tasks
  BY <1>1 DEF Confirmed, Alive
<1>4. (armed["heartbeat"] > 0)' = FALSE BY <1>1
<1>5. QED
  BY <1>1, <1>2, <1>3, <1>4
  DEF Monitor!Launch, Monitor!Launched, Due, Condemned, Confirmed, Alive, Resetting

\* Nothing happens to a program that does not run.
LEMMA GoneMonitors ==
  ASSUME Inv, Inv', HeartbeatKept, ~up[MAIN], ~up'[MAIN]
  PROVE  UNCHANGED Monitored
<1>1. /\ \A a \in Thread : todo[a] = <<>> /\ todo'[a] = <<>>
      /\ \A a \in Owner : ~up[a] /\ ~up'[a]
      /\ armed["heartbeat"] = 0 /\ armed'["heartbeat"] = 0
  BY DEF Inv, Ended, Timer
<1>2. Due' = {} /\ Resetting' = {} /\ Condemned' = {}
  BY <1>1, Threads, NothingLeft
<1>3. Due = {} /\ Condemned = {} BY NothingPending
<1>4. Confirmed = {} /\ Confirmed' = {} /\ Alive = {} /\ Alive' = {}
  BY <1>1, Threads DEF Confirmed, Alive
<1>5. up'[MAIN] = up[MAIN] BY <1>1, Threads DEF Inv, TypeOK
<1>6. (armed["heartbeat"] > 0)' = (armed["heartbeat"] > 0) BY <1>1
<1>7. QED BY <1>2, <1>3, <1>4, <1>5, <1>6 DEF Monitored

\* Only a relaunch starts the main thread.
LEMMA MainStarts ==
  ASSUME Inv, [Next]_vars, ~up[MAIN], up'[MAIN]
  PROVE  Relaunch
<1>1. \A a \in Thread : todo[a] = <<>> BY DEF Inv, Ended
<1>2. \A a \in Thread : ~Step(a)
  BY <1>1 DEF Step, DoSend, DoArm, ArmFails, DoCheck, DoReset, DoRestart,
              RestartFails, DoCancel, DoExit, Doing
<1>3. \A t \in Tasks : ~TaskReceive(t) /\ ~TaskKill(t)
  BY Threads DEF Inv, Ended, TaskReceive, TaskKill
<1>4. QED
  BY <1>2, <1>3 DEF Next, MainReceive, Expire, LastRecord, ClientSend, Crash, vars

\* The heartbeat timer expires.
LEMMA BeginMonitors ==
  ASSUME Inv, Inv', HeartbeatKept, Expire("heartbeat")
  PROVE  Monitor!Begin
<1>1. PICK x \in Spare : Idle(x) /\ todo' = [todo EXCEPT ![x] = HeartbeatScript]
  BY DEF Expire, Callback
<1>2. armed["heartbeat"] \in 0 .. MaxArmed /\ armed["heartbeat"] > 0 /\ MaxArmed \in Nat
      /\ armed'["heartbeat"] = armed["heartbeat"] - 1 /\ up' = up /\ main_alive' = main_alive
  BY Project1Assumption DEF Expire, Inv, TypeOK, Timer
<1>3. up[MAIN] BY <1>2 DEF Inv, Ended, Timer
<1>4. armed["heartbeat"] = 1 BY <1>2, <1>3 DEF HeartbeatKept
<1>5. /\ \A b \in Thread : \A o : Examines(o) => ~Has(todo[b], o)
      /\ Due = {} /\ Resetting = {} /\ Condemned = {}
  BY <1>4, NothingPending
<1>6. todo'[x] = HeartbeatScript /\ \A b \in Spare \ {x} : todo'[b] = todo[b]
  BY <1>1, Threads DEF Inv, TypeOK
<1>7. \A y \in Kinds, q \in Tasks : q \in Pending(y)' <=> y = "check"
  <2> TAKE y \in Kinds, q \in Tasks
  <2>1. TypeOK' BY DEF Inv
  <2>2. \A b \in Spare \ {x} : ~Has(todo'[b], On(y, q))
    BY <1>5, <1>6, OnKinds, Threads
  <2>3. Has(todo'[x], On(y, q)) <=> y = "check" BY <1>6, HeartbeatExamines
  <2>4. QED BY <2>1, <2>2, <2>3, PendingHasNext
<1>8. \A y : Pending(y)' \subseteq Tasks BY DEF Pending
<1>9. Due' = Tasks /\ Resetting' = {} /\ Condemned' = {}
  BY <1>7, <1>8 DEF Due, Resetting, Condemned, Kinds
<1>10. Confirmed' = Confirmed /\ Alive' = Alive
  BY <1>2, <1>5, <1>9 DEF Confirmed, Alive
<1>11. (armed["heartbeat"] > 0) = TRUE /\ (armed["heartbeat"] > 0)' = FALSE
  BY <1>2, <1>4
<1>12. QED
  BY <1>2, <1>3, <1>5, <1>9, <1>10, <1>11
  DEF Monitor!Begin, Due, Condemned, Confirmed, Alive, Resetting

\* A thread of a callback examines a task.
LEMMA ExaminingMonitors ==
  ASSUME Inv, Inv', InOrder, HeartbeatKept, NEW a \in Thread, Step(a),
         todo[a] # <<>>, Examines(Head(todo[a]))
  PROVE  \/ UNCHANGED Monitored
         \/ \E t \in Tasks : Monitor!Examine(t) \/ Monitor!StartAgain(t)
<1>0. TypeOK' BY DEF Inv
<1>1. CASE DoCheck(a)
  <2>1. PICK t \in Tasks :
          /\ t \in Due /\ Condemned = {} /\ Due' = Due \ {t}
          /\ Confirmed' = Confirmed \ {t}
          /\ Condemned' = (IF t \in Confirmed THEN {} ELSE {t})
          /\ UNCHANGED <<up, armed>>
    BY <1>0, <1>1, CheckMonitors
  <2>2. /\ up'[MAIN] = up[MAIN] /\ (armed["heartbeat"] > 0)' = (armed["heartbeat"] > 0)
        /\ Alive' = Alive
    BY <2>1 DEF Alive
  <2>3. Monitor!Examine(t)
    BY <2>1, <2>2 DEF Monitor!Examine, Due, Condemned, Confirmed, Alive, Resetting
  <2>4. QED BY <2>3
<1>2. CASE DoReset(a)
  <2>1. Due' = Due /\ Condemned' = Condemned /\ Confirmed' = Confirmed
        /\ UNCHANGED <<up, armed>>
    BY <1>0, <1>2, ResetMonitors
  <2>2. UNCHANGED Monitored BY <2>1 DEF Monitored, Alive
  <2>3. QED BY <2>2
<1>3. CASE DoRestart(a) \/ RestartFails(a)
  <2>1. PICK t \in Tasks :
          /\ t \in Condemned /\ Condemned' = Condemned \ {t}
          /\ Alive' \in {Alive \cup {t}, Alive \ {t}}
          /\ Due' = Due /\ Confirmed' = Confirmed
          /\ up'[MAIN] = up[MAIN] /\ armed' = armed
    BY <1>0, <1>3, RestartMonitors
  <2>2. (armed["heartbeat"] > 0)' = (armed["heartbeat"] > 0) BY <2>1
  <2>3. Monitor!StartAgain(t)
    BY <2>1, <2>2 DEF Monitor!StartAgain, Due, Condemned, Confirmed, Alive, Resetting
  <2>4. QED BY <2>3
<1>4. QED
  BY <1>1, <1>2, <1>3
  DEF Step, Examines, Doing, DoSend, DoArm, ArmFails, DoCancel, DoExit

\* A step that examines nothing, of a program that runs and goes on running,
\* may only set the heartbeat timer, confirm a task, or end one.
LEMMA OtherMonitors ==
  ASSUME Inv, Inv', InOrder, HeartbeatKept, "timer" \notin MayFail, [Next]_vars,
         up[MAIN], up'[MAIN], ~Expire("heartbeat"),
         \A a \in Thread : ~(Step(a) /\ todo[a] # <<>> /\ Examines(Head(todo[a])))
  PROVE  \/ UNCHANGED Monitored
         \/ Monitor!Wait
         \/ \E t \in Tasks : Monitor!Confirm(t) \/ Monitor!Leave(t)
<1>1. Due' = Due /\ Resetting' = Resetting /\ Condemned' = Condemned
  BY Threads, PendingStays DEF Inv
<1>2. up'[MAIN] = up[MAIN] BY Threads DEF Inv, TypeOK
<1>3. ASSUME UNCHANGED <<up, armed, main_alive>> PROVE UNCHANGED Monitored
  BY <1>1, <1>3 DEF Monitored, Confirmed, Alive
<1>4. ASSUME NEW a \in Thread, DoArm(a)
      PROVE  UNCHANGED Monitored \/ Monitor!Wait
  <2>0. todo[a] # <<>> /\ Head(todo[a]) \in Op /\ Head(todo[a]).op = "arm"
    BY <1>4, Heads DEF DoArm, Doing, Inv
  <2>1. Confirmed' = Confirmed /\ Alive' = Alive
    BY <1>1, <1>4 DEF DoArm, Confirmed, Alive
  <2>2. CASE Head(todo[a]) = Beat
    <3>1. Due = {} /\ Condemned = {} BY <2>0, <2>2, NothingPending
    <3>2. todo[a] \in Seq(Op) /\ Has(todo[a], Beat)
      <4>1. todo[a] \in Seq(Op) BY DEF Inv, TypeOK
      <4>2. QED BY <2>0, <2>2, <4>1, HasHead
    <3>3. Rearming(a) BY <3>2 DEF Rearming, Has, Beat
    <3>4. armed["heartbeat"] = 0 BY <3>3 DEF HeartbeatKept
    <3>5. armed'["heartbeat"] > 0
      BY <1>4, <2>2, ArmSets DEF Beat, Timer
    <3>6. (armed["heartbeat"] > 0) = FALSE /\ (armed["heartbeat"] > 0)' = TRUE
      BY <3>4, <3>5
    <3>7. Monitor!Wait
      BY <1>1, <1>2, <2>1, <3>1, <3>6
      DEF Monitor!Wait, Due, Condemned, Confirmed, Alive, Resetting
    <3>8. QED BY <3>7
  <2>3. CASE Head(todo[a]) # Beat
    <3>1. Head(todo[a]) = Arm(Head(todo[a]).timer) BY <2>0 DEF Op, Arm
    <3>2. Head(todo[a]).timer # "heartbeat" BY <2>3, <3>1 DEF Beat
    <3>3. armed'["heartbeat"] = armed["heartbeat"]
      BY <1>4, <3>2 DEF DoArm, WithTimer, Inv, TypeOK, Timer
    <3>4. (armed["heartbeat"] > 0)' = (armed["heartbeat"] > 0) BY <3>3
    <3>5. QED BY <1>1, <1>2, <2>1, <3>4 DEF Monitored
  <2>4. QED BY <2>2, <2>3
<1>5. ASSUME NEW t \in Tasks, up' = [up EXCEPT ![t] = FALSE],
             UNCHANGED <<armed, main_alive>>
      PROVE  UNCHANGED Monitored \/ Monitor!Leave(t)
  <2>1. Alive' = Alive \ {t} BY <1>5, Threads DEF Alive, Inv, TypeOK
  <2>2. Confirmed' = Confirmed /\ (armed["heartbeat"] > 0)' = (armed["heartbeat"] > 0)
    BY <1>1, <1>2, <1>5 DEF Confirmed
  <2>3. CASE t \in Alive
    <3>1. Monitor!Leave(t)
      BY <1>1, <1>2, <2>1, <2>2, <2>3
      DEF Monitor!Leave, Due, Condemned, Confirmed, Alive, Resetting
    <3>2. QED BY <3>1
  <2>4. CASE t \notin Alive
    <3>1. Alive' = Alive BY <2>1, <2>4
    <3>2. QED BY <1>1, <1>2, <2>2, <3>1 DEF Monitored
  <2>5. QED BY <2>3, <2>4
<1>6. ASSUME NEW a \in Thread, Step(a)
      PROVE  \/ UNCHANGED Monitored
             \/ Monitor!Wait
             \/ \E t \in Tasks : Monitor!Confirm(t) \/ Monitor!Leave(t)
  <2>1. CASE DoSend(a) BY <1>3, <2>1 DEF DoSend
  <2>2. CASE DoArm(a) BY <1>4, <2>2
  <2>3. CASE DoCancel(a)
    <3>1. Head(todo[a]).task \in Tasks BY <2>3, Heads DEF DoCancel, Doing, Inv
    <3>2. QED BY <1>5, <2>3, <3>1 DEF DoCancel
  <2>4. CASE DoExit(a) BY <2>4, Threads DEF DoExit, ProcessEnds
  <2>5. QED
    BY <1>6, <2>1, <2>2, <2>3, <2>4
    DEF Step, ArmFails, DoCheck, DoReset, DoRestart, RestartFails, Doing, Examines
<1>7. CASE MainReceive
  <2> DEFINE m == Head(queue[MAIN])
  <2>1. UNCHANGED <<up, armed>> /\ Alive' = Alive BY <1>7 DEF MainReceive, Alive
  <2>2. CASE m.rsp /\ m.cmd = "ALIVE" /\ m.from \in Tasks
    <3>1. PICK t \in Tasks : main_alive' = [main_alive EXCEPT ![t] = TRUE]
      BY <1>7, <2>2 DEF MainReceive
    <3>2. CASE t \in Resetting \/ t \in Confirmed
      <4>1. Confirmed' = Confirmed
        BY <1>1, <1>2, <3>1, <3>2 DEF Confirmed, Inv, TypeOK
      <4>2. QED BY <1>1, <2>1, <4>1 DEF Monitored
    <3>3. CASE t \notin Resetting /\ t \notin Confirmed
      <4>1. Confirmed' = Confirmed \cup {t}
        BY <1>1, <1>2, <3>1, <3>3 DEF Confirmed, Inv, TypeOK
      <4>2. Monitor!Confirm(t)
        BY <1>1, <1>2, <2>1, <3>3, <4>1
        DEF Monitor!Confirm, Due, Condemned, Confirmed, Alive, Resetting
      <4>3. QED BY <4>2
    <3>4. QED BY <3>2, <3>3
  <2>3. CASE ~(m.rsp /\ m.cmd = "ALIVE" /\ m.from \in Tasks)
    BY <1>3, <1>7, <2>1, <2>3 DEF MainReceive
  <2>4. QED BY <2>2, <2>3
<1>8. ASSUME NEW t \in Tasks, TaskReceive(t) \/ TaskKill(t)
      PROVE  UNCHANGED Monitored \/ Monitor!Leave(t)
  BY <1>3, <1>5, <1>8 DEF TaskReceive, TaskKill
<1>9. ASSUME NEW k \in Timer, Expire(k) PROVE UNCHANGED Monitored
  <2>1. k # "heartbeat" BY <1>9
  <2>2. armed'["heartbeat"] = armed["heartbeat"] /\ UNCHANGED <<up, main_alive>>
    BY <1>9, <2>1 DEF Expire, Inv, TypeOK, Timer
  <2>3. QED BY <1>1, <2>2 DEF Monitored, Confirmed, Alive
<1>10. CASE LastRecord BY <1>3, <1>10 DEF LastRecord
<1>11. ASSUME NEW q \in Owner, NEW c \in Cmd, ClientSend(q, c) PROVE UNCHANGED Monitored
  BY <1>3, <1>11 DEF ClientSend
<1>12. ~Crash /\ ~Relaunch BY Threads DEF Crash, ProcessEnds, Relaunch
<1>13. CASE UNCHANGED vars BY <1>3, <1>13 DEF vars
<1>14. QED
  BY <1>6, <1>7, <1>8, <1>9, <1>10, <1>11, <1>12, <1>13 DEF Next

LEMMA StepMonitors ==
  ASSUME Inv, Inv', InOrder, HeartbeatKept, "timer" \notin MayFail, [Next]_vars
  PROVE  [Monitor!Next]_(Monitor!vars)
<1>1. CASE ~up[MAIN] /\ ~up'[MAIN] BY <1>1, GoneMonitors, SameMonitor
<1>2. CASE ~up[MAIN] /\ up'[MAIN]
  BY <1>2, MainStarts, LaunchMonitors DEF Monitor!Next
<1>3. CASE up[MAIN] /\ ~up'[MAIN] BY <1>3, EndMonitors DEF Monitor!Next
<1>4. CASE up[MAIN] /\ up'[MAIN]
  <2>1. CASE Expire("heartbeat") BY <2>1, BeginMonitors DEF Monitor!Next
  <2>2. CASE \E a \in Thread : Step(a) /\ todo[a] # <<>> /\ Examines(Head(todo[a]))
    BY <2>2, ExaminingMonitors, SameMonitor DEF Monitor!Next
  <2>3. CASE /\ ~Expire("heartbeat")
             /\ \A a \in Thread : ~(Step(a) /\ todo[a] # <<>> /\ Examines(Head(todo[a])))
    BY <1>4, <2>3, OtherMonitors, SameMonitor DEF Monitor!Next
  <2>4. QED BY <2>1, <2>2, <2>3
<1>5. QED BY <1>1, <1>2, <1>3, <1>4

LEMMA InitMonitors == Init => Monitor!Init
<1> SUFFICES ASSUME Init PROVE Monitor!Init
  OBVIOUS
<1>1. /\ up[MAIN] = TRUE /\ \A t \in Tasks : up[t] /\ ~main_alive[t]
      /\ armed["heartbeat"] = 0
      /\ \A a \in Spare : todo[a] = <<>>
  BY Threads DEF Init, NothingArmed, Timer, FirstSteps, Owner
<1>2. \A x : Pending(x) = {} BY <1>1 DEF Pending
<1>3. Due = {} /\ Condemned = {} /\ Confirmed = {} /\ Alive = Tasks
  BY <1>1, <1>2 DEF Due, Condemned, Confirmed, Alive
<1>4. (armed["heartbeat"] > 0) = FALSE BY <1>1
<1>5. QED
  BY <1>1, <1>3, <1>4
  DEF Monitor!Init, Monitor!Launched, Due, Condemned, Confirmed, Alive, Resetting

\* As long as timers can be set, the timers, callback threads, flags and
\* queues of main.c implement one monitor, for any tasks, queue capacity and
\* number of callback threads, over crashes and relaunches, whatever other
\* processes send: __main_heartbeat examines every task once in each period,
\* its unlocked read and clearing of main_alive are as good as one step, and
\* only it starts a task again, one that had not confirmed.
THEOREM SupervisionImplements ==
  ASSUME "timer" \notin MayFail
  PROVE  Spec => Supervises
<1> DEFINE IInv == Inv /\ InOrder /\ HeartbeatKept
<1>1. Init => IInv BY Initially, InitInOrder
<1>2. IInv /\ [Next]_vars => IInv' BY Inductive, InOrderKept
<1>3. Init => Monitor!Init BY InitMonitors
<1>4. IInv /\ IInv' /\ [Next]_vars => [Monitor!Next]_(Monitor!vars) BY StepMonitors
<1>5. QED BY <1>1, <1>2, <1>3, <1>4, PTL DEF Spec, Supervises, Monitor!Spec

-----------------------------------------------------------------------------
(* How often an operation or a packet occurs in a sequence, and how often  *)
(* an operation still has to be done by all threads.                       *)

Cnt(s, o) == Cardinality({i \in 1 .. Len(s) : s[i] = o})

LEMMA CntNat ==
  ASSUME NEW S, NEW s \in Seq(S), NEW o
  PROVE  /\ IsFiniteSet({i \in 1 .. Len(s) : s[i] = o})
         /\ Cnt(s, o) \in Nat /\ (Cnt(s, o) = 0 <=> ~Has(s, o))
<1> DEFINE D == {i \in 1 .. Len(s) : s[i] = o}
<1>1. IsFiniteSet(1 .. Len(s))
  <2>1. 1 \in Int /\ Len(s) \in Int OBVIOUS
  <2>2. QED BY <2>1, FS_Interval
<1>2. IsFiniteSet(D) BY <1>1, FS_Subset
<1>3. Cardinality(D) \in Nat /\ (Cardinality(D) = 0 <=> D = {})
  BY <1>2, FS_CardinalityType, FS_EmptySet
<1>4. D = {} <=> ~Has(s, o) BY DEF Has
<1>5. QED BY <1>2, <1>3, <1>4 DEF Cnt

LEMMA CntFew ==
  /\ \A o : Cnt(<<>>, o) = 0
  /\ \A p, o : Cnt(<<p>>, o) = IF p = o THEN 1 ELSE 0
<1>1. ASSUME NEW o PROVE Cnt(<<>>, o) = 0
  <2>1. {i \in 1 .. Len(<<>>) : <<>>[i] = o} = {} OBVIOUS
  <2>2. QED BY <2>1, FS_EmptySet DEF Cnt
<1>2. ASSUME NEW p, NEW o PROVE Cnt(<<p>>, o) = IF p = o THEN 1 ELSE 0
  <2>1. {i \in 1 .. Len(<<p>>) : <<p>>[i] = o} = IF p = o THEN {1} ELSE {} OBVIOUS
  <2>2. Cardinality({1}) = 1 /\ Cardinality({}) = 0 BY FS_Singleton, FS_EmptySet
  <2>3. QED BY <2>1, <2>2 DEF Cnt
<1>3. QED BY <1>1, <1>2

\* Two disjoint finite sets together have as many elements as each of them.
LEMMA Together ==
  ASSUME NEW S, NEW T, IsFiniteSet(S), IsFiniteSet(T), S \cap T = {}
  PROVE  /\ IsFiniteSet(S \cup T)
         /\ Cardinality(S \cup T) = Cardinality(S) + Cardinality(T)
         /\ Cardinality(S) \in Nat /\ Cardinality(T) \in Nat
<1>1. Cardinality(S) \in Nat /\ Cardinality(T) \in Nat BY FS_CardinalityType
<1>2. Cardinality(S \cap T) = 0 BY FS_EmptySet
<1>3. /\ IsFiniteSet(S \cup T)
      /\ Cardinality(S \cup T) = Cardinality(S) + Cardinality(T) - Cardinality(S \cap T)
  BY FS_Union
<1>4. ASSUME NEW x \in Nat, NEW y \in Nat PROVE x + y - 0 = x + y OBVIOUS
<1>5. QED BY <1>1, <1>2, <1>3, <1>4

LEMMA CntConcat ==
  ASSUME NEW S, NEW u \in Seq(S), NEW v \in Seq(S), NEW o
  PROVE  Cnt(u \o v, o) = Cnt(u, o) + Cnt(v, o)
<1> DEFINE n == Len(u)
           D == {i \in 1 .. Len(u) : u[i] = o}
           E == {i \in 1 .. Len(v) : v[i] = o}
           F == {n + i : i \in E}
           W == {i \in 1 .. Len(u \o v) : (u \o v)[i] = o}
<1>1. /\ Len(u \o v) = n + Len(v) /\ n \in Nat /\ Len(v) \in Nat
      /\ \A i \in 1 .. n : (u \o v)[i] = u[i]
      /\ \A i \in 1 .. Len(v) : (u \o v)[n + i] = v[i]
  OBVIOUS
<1>2. IsFiniteSet(D) /\ IsFiniteSet(E) BY CntNat
<1>3. IsFiniteSet(F) /\ Cardinality(F) = Cardinality(E)
  <2> DEFINE f == [i \in E |-> n + i]
  <2>1. f \in Bijection(E, F)
    <3>1. f \in [E -> F] /\ \A y \in F : \E x \in E : f[x] = y OBVIOUS
    <3>2. \A x, y \in E : f[x] = f[y] => x = y BY <1>1
    <3> HIDE DEF f, F, E
    <3>3. QED BY <3>1, <3>2 DEF Bijection, Injection, Surjection, IsInjective
  <2>2. ExistsBijection(E, F) BY <2>1 DEF ExistsBijection
  <2>3. QED BY <1>2, <2>2, FS_Bijection
<1>4. W = D \cup F
  <2>1. ASSUME NEW i \in W PROVE i \in D \cup F
    <3>1. CASE i <= n BY <1>1, <3>1
    <3>2. CASE i > n
      <4>1. i - n \in 1 .. Len(v) /\ i = n + (i - n) BY <1>1, <3>2
      <4>2. i - n \in E BY <1>1, <4>1
      <4>3. QED BY <4>1, <4>2
    <3>3. QED BY <1>1, <3>1, <3>2
  <2>2. D \subseteq W BY <1>1
  <2>3. F \subseteq W BY <1>1
  <2>4. QED BY <2>1, <2>2, <2>3
<1>5. D \cap F = {} BY <1>1
<1> HIDE DEF D, E, F, W
<1>6. Cardinality(W) = Cardinality(D) + Cardinality(F)
  BY <1>2, <1>3, <1>4, <1>5, Together
<1>7. QED BY <1>3, <1>6 DEF Cnt, W, D, E

\* What is first, and the rest.
LEMMA CntHead ==
  ASSUME NEW S, NEW s \in Seq(S), s # <<>>, NEW o
  PROVE  /\ Cnt(s, o) = (IF Head(s) = o THEN 1 ELSE 0) + Cnt(Tail(s), o)
         /\ Cnt(Tail(s), o) \in Nat /\ Cnt(s, o) \in Nat
<1>1. Head(s) \in S /\ Tail(s) \in Seq(S) /\ s = <<Head(s)>> \o Tail(s) OBVIOUS
<1>2. PICK h, r : h = Head(s) /\ r = Tail(s) OBVIOUS
<1>3. <<h>> \in Seq(S) /\ r \in Seq(S) /\ s = <<h>> \o r BY <1>1, <1>2
<1>4. Cnt(<<h>> \o r, o) = Cnt(<<h>>, o) + Cnt(r, o) BY <1>3, CntConcat
<1>5. QED BY <1>2, <1>3, <1>4, CntFew, CntNat

LEMMA CntAppend ==
  ASSUME NEW S, NEW s \in Seq(S), NEW p \in S, NEW o
  PROVE  Cnt(Append(s, p), o) = Cnt(s, o) + (IF p = o THEN 1 ELSE 0)
<1>1. Append(s, p) = s \o <<p>> /\ <<p>> \in Seq(S) OBVIOUS
<1>2. Cnt(s \o <<p>>, o) = Cnt(s, o) + Cnt(<<p>>, o) BY <1>1, CntConcat
<1>3. QED BY <1>1, <1>2, CntFew

\* The places of operation o in script s of thread a, and in all scripts f.
PlacesIn(s, a, o) == {<<a, i>> : i \in {j \in DOMAIN s : s[j] = o}}
PlacesOf(f, o) == UNION {PlacesIn(f[a], a, o) : a \in Thread}

LEMMA FiniteThreads == IsFiniteSet(Thread)
<1>1. \A q : IsFiniteSet({q}) BY FS_Singleton
<1>2. IsFiniteSet({LIGHT} \cup {TEMP}) BY <1>1, FS_Union
<1>3. IsFiniteSet({LIGHT} \cup {TEMP} \cup {LOG}) BY <1>1, <1>2, FS_Union
<1>4. {LIGHT} \cup {TEMP} \cup {LOG} = {LIGHT, TEMP, LOG} OBVIOUS
<1>5. IsFiniteSet(Tasks) BY <1>3, <1>4, FS_Subset, Project1Assumption
<1>6. IsFiniteSet(Owner) BY <1>1, <1>5, FS_Union DEF Owner
<1>7. QED BY <1>6, FS_Union, Project1Assumption DEF Thread

LEMMA PlacesInOne ==
  ASSUME NEW S, NEW s \in Seq(S), NEW a, NEW o
  PROVE  IsFiniteSet(PlacesIn(s, a, o)) /\ Cardinality(PlacesIn(s, a, o)) = Cnt(s, o)
<1> DEFINE D == {i \in 1 .. Len(s) : s[i] = o}
           P == {<<a, i>> : i \in D}
           f == [i \in D |-> <<a, i>>]
<1>1. {j \in DOMAIN s : s[j] = o} = D OBVIOUS
<1>2. IsFiniteSet(D) BY CntNat
<1>3. f \in Bijection(D, P)
  <2>1. f \in [D -> P] /\ \A y \in P : \E x \in D : f[x] = y OBVIOUS
  <2>2. \A x, y \in D : f[x] = f[y] => x = y OBVIOUS
  <2> HIDE DEF f, D, P
  <2>3. QED BY <2>1, <2>2 DEF Bijection, Injection, Surjection, IsInjective
<1>4. ExistsBijection(D, P) BY <1>3 DEF ExistsBijection
<1>5. IsFiniteSet(P) /\ Cardinality(P) = Cardinality(D) BY <1>2, <1>4, FS_Bijection
<1>6. QED BY <1>1, <1>5 DEF Cnt, PlacesIn

LEMMA FinitePlacesOf ==
  ASSUME NEW f \in [Thread -> Seq(Op)], NEW o
  PROVE  IsFiniteSet(PlacesOf(f, o)) /\ Cardinality(PlacesOf(f, o)) \in Nat
<1> DEFINE P(a) == PlacesIn(f[a], a, o)
           S == {P(a) : a \in Thread}
<1>1. IsFiniteSet(S)
  <2> DEFINE h == [a \in Thread |-> P(a)]
  <2>1. h \in [Thread -> S] /\ \A T \in S : \E a \in Thread : h[a] = T OBVIOUS
  <2> HIDE DEF h, S
  <2>2. h \in Surjection(Thread, S) BY <2>1 DEF Surjection
  <2>3. QED BY <2>2, FS_Surjection, FiniteThreads
<1>2. \A T \in S : IsFiniteSet(T)
  <2>1. ASSUME NEW a \in Thread PROVE IsFiniteSet(P(a))
    <3>1. f[a] \in Seq(Op) OBVIOUS
    <3>2. QED BY <3>1, PlacesInOne
  <2>2. QED BY <2>1
<1>3. IsFiniteSet(UNION S)
  <2> HIDE DEF S
  <2>1. QED BY <1>1, <1>2, FS_UNION
<1>4. QED BY <1>3, FS_CardinalityType DEF PlacesOf

\* How the number of places changes with the script of one thread, if no
\* other script that changes contains the operation.
LEMMA Tally ==
  ASSUME NEW f \in [Thread -> Seq(Op)], NEW g \in [Thread -> Seq(Op)],
         NEW a \in Thread, NEW o,
         \A b \in Thread \ {a} : f[b] = g[b] \/ (~Has(f[b], o) /\ ~Has(g[b], o))
  PROVE  /\ Cardinality(PlacesOf(g, o)) + Cnt(f[a], o)
              = Cardinality(PlacesOf(f, o)) + Cnt(g[a], o)
         /\ Cardinality(PlacesOf(f, o)) \in Nat /\ Cardinality(PlacesOf(g, o)) \in Nat
         /\ Cnt(f[a], o) \in Nat /\ Cnt(g[a], o) \in Nat
<1> DEFINE P(h, b) == PlacesIn(h[b], b, o)
           Rest(h) == UNION {P(h, b) : b \in Thread \ {a}}
<1>1. ASSUME NEW h \in [Thread -> Seq(Op)]
      PROVE  /\ Cardinality(PlacesOf(h, o)) = Cnt(h[a], o) + Cardinality(Rest(h))
             /\ Cardinality(PlacesOf(h, o)) \in Nat /\ Cnt(h[a], o) \in Nat
             /\ Cardinality(Rest(h)) \in Nat
  <2>1. PlacesOf(h, o) = P(h, a) \cup Rest(h)
    <3>1. PlacesOf(h, o) = UNION {P(h, b) : b \in Thread} BY DEF PlacesOf
    <3>2. QED BY <3>1
  <2>2. P(h, a) \cap Rest(h) = {} BY DEF PlacesIn
  <2>3. IsFiniteSet(P(h, a)) /\ Cardinality(P(h, a)) = Cnt(h[a], o)
    <3>1. h[a] \in Seq(Op) OBVIOUS
    <3>2. QED BY <3>1, PlacesInOne
  <2>4. IsFiniteSet(Rest(h))
    <3>1. IsFiniteSet(PlacesOf(h, o)) BY FinitePlacesOf
    <3>2. Rest(h) \subseteq PlacesOf(h, o) BY <2>1
    <3> HIDE DEF Rest
    <3>3. QED BY <3>1, <3>2, FS_Subset
  <2> HIDE DEF P, Rest
  <2>5. QED BY <2>1, <2>2, <2>3, <2>4, Together, FS_CardinalityType
<1>2. Rest(f) = Rest(g)
  <2>1. ASSUME NEW b \in Thread \ {a} PROVE P(f, b) = P(g, b)
    <3>1. CASE f[b] = g[b] BY <3>1
    <3>2. CASE ~Has(f[b], o) /\ ~Has(g[b], o)
      <4>1. DOMAIN f[b] = 1 .. Len(f[b]) /\ DOMAIN g[b] = 1 .. Len(g[b]) OBVIOUS
      <4>2. P(f, b) = {} /\ P(g, b) = {} BY <3>2, <4>1 DEF Has, PlacesIn
      <4>3. QED BY <4>2
    <3>3. QED BY <3>1, <3>2
  <2> HIDE DEF P
  <2>2. QED BY <2>1
<1> HIDE DEF Rest
<1>3. QED BY <1>1, <1>2

LEMMA ScriptTally ==
  ASSUME TypeOK, TypeOK', NEW a \in Thread, NEW o,
         \A b \in Thread \ {a} :
           todo'[b] = todo[b] \/ (~Has(todo[b], o) /\ ~Has(todo'[b], o))
  PROVE  /\ Cardinality(Places(o))' + Cnt(todo[a], o) = Cardinality(Places(o)) + Cnt(todo'[a], o)
         /\ Cardinality(Places(o)) \in Nat /\ Cardinality(Places(o))' \in Nat
         /\ Cnt(todo[a], o) \in Nat /\ Cnt(todo'[a], o) \in Nat
<1>1. Places(o) = PlacesOf(todo, o) /\ Places(o)' = PlacesOf(todo', o)
  BY DEF Places, PlacesOf, PlacesIn
<1>2. todo \in [Thread -> Seq(Op)] /\ todo' \in [Thread -> Seq(Op)] BY DEF TypeOK
<1>3. PICK f, g : f = todo /\ g = todo' OBVIOUS
<1>4. f \in [Thread -> Seq(Op)] /\ g \in [Thread -> Seq(Op)] BY <1>2, <1>3
<1>5. \A b \in Thread \ {a} : f[b] = g[b] \/ (~Has(f[b], o) /\ ~Has(g[b], o))
  BY <1>3
<1>6. /\ Cardinality(PlacesOf(g, o)) + Cnt(f[a], o)
              = Cardinality(PlacesOf(f, o)) + Cnt(g[a], o)
      /\ Cardinality(PlacesOf(f, o)) \in Nat /\ Cardinality(PlacesOf(g, o)) \in Nat
      /\ Cnt(f[a], o) \in Nat /\ Cnt(g[a], o) \in Nat
  BY <1>4, <1>5, Tally
<1>7. QED BY <1>1, <1>3, <1>6

\* Thread a does its next operation, or begins; or a queue changes.
LEMMA GoingOn ==
  ASSUME TypeOK, TypeOK', NEW a \in Thread, NEW o, todo[a] # <<>>, NEW u \in Seq(Op),
         todo'[a] = u \o Tail(todo[a]),
         \A b \in Thread \ {a} :
           todo'[b] = todo[b] \/ (~Has(todo[b], o) /\ ~Has(todo'[b], o))
  PROVE  /\ Cardinality(Places(o))' + (IF Head(todo[a]) = o THEN 1 ELSE 0)
              = Cardinality(Places(o)) + Cnt(u, o)
         /\ Cardinality(Places(o)) \in Nat /\ Cardinality(Places(o))' \in Nat
<1>1. todo[a] \in Seq(Op) /\ Tail(todo[a]) \in Seq(Op) BY Heads DEF TypeOK
<1>2. Cnt(u \o Tail(todo[a]), o) = Cnt(u, o) + Cnt(Tail(todo[a]), o)
  BY <1>1, CntConcat
<1>3. /\ Cnt(todo[a], o) = (IF Head(todo[a]) = o THEN 1 ELSE 0) + Cnt(Tail(todo[a]), o)
      /\ Cnt(Tail(todo[a]), o) \in Nat /\ Cnt(u, o) \in Nat
  BY <1>1, CntHead, CntNat
<1>4. /\ Cardinality(Places(o))' + Cnt(todo[a], o) = Cardinality(Places(o)) + Cnt(todo'[a], o)
      /\ Cardinality(Places(o)) \in Nat /\ Cardinality(Places(o))' \in Nat
  BY ScriptTally
<1> DEFINE x == Cardinality(Places(o))'
           y == Cardinality(Places(o))
           h == IF Head(todo[a]) = o THEN 1 ELSE 0
           c == Cnt(Tail(todo[a]), o)
           v == Cnt(u, o)
<1>5. x + (h + c) = y + (v + c) /\ x \in Nat /\ y \in Nat /\ h \in Nat /\ c \in Nat /\ v \in Nat
  BY <1>2, <1>3, <1>4
<1>6. \A i, j, k, l, m \in Nat : i + (j + k) = l + (m + k) => i + j = l + m OBVIOUS
<1> HIDE DEF x, y, h, c, v
<1>7. x + h = y + v BY <1>5, <1>6
<1>8. QED BY <1>5, <1>7 DEF x, y, h, v

LEMMA BeginningTally ==
  ASSUME TypeOK, TypeOK', NEW a \in Thread, NEW o, todo[a] = <<>>,
         \A b \in Thread \ {a} : todo'[b] = todo[b]
  PROVE  /\ Cardinality(Places(o))' = Cardinality(Places(o)) + Cnt(todo'[a], o)
         /\ Cardinality(Places(o)) \in Nat /\ Cardinality(Places(o))' \in Nat
<1>1. /\ Cardinality(Places(o))' + Cnt(todo[a], o) = Cardinality(Places(o)) + Cnt(todo'[a], o)
      /\ Cardinality(Places(o)) \in Nat /\ Cardinality(Places(o))' \in Nat
      /\ Cnt(todo'[a], o) \in Nat
  BY ScriptTally
<1>2. Cnt(todo[a], o) = 0 BY CntFew
<1>3. QED BY <1>1, <1>2

LEMMA QueueTally ==
  ASSUME TypeOK, TypeOK', NEW q \in Owner, NEW m
  PROVE  /\ Queued(q, m) \in Nat /\ Queued(q, m)' \in Nat
         /\ queue'[q] = queue[q] => Queued(q, m)' = Queued(q, m)
         /\ \A n \in Packet : queue'[q] = Append(queue[q], n) =>
              Queued(q, m)' = Queued(q, m) + (IF n = m THEN 1 ELSE 0)
         /\ queue[q] # <<>> /\ queue'[q] = Tail(queue[q]) =>
              Queued(q, m) = (IF Head(queue[q]) = m THEN 1 ELSE 0) + Queued(q, m)'
<1>1. queue[q] \in Seq(Packet) /\ queue'[q] \in Seq(Packet) BY DEF TypeOK
<1>2. DOMAIN queue[q] = 1 .. Len(queue[q]) /\ DOMAIN queue'[q] = 1 .. Len(queue'[q])
  BY <1>1
<1>3. Queued(q, m) = Cnt(queue[q], m) /\ Queued(q, m)' = Cnt(queue'[q], m)
  BY <1>2 DEF Queued, Cnt
<1>4. Queued(q, m) \in Nat /\ Queued(q, m)' \in Nat BY <1>1, <1>3, CntNat
<1>5. ASSUME NEW n \in Packet, queue'[q] = Append(queue[q], n)
      PROVE  Queued(q, m)' = Queued(q, m) + (IF n = m THEN 1 ELSE 0)
  BY <1>1, <1>3, <1>5, CntAppend
<1>6. ASSUME queue[q] # <<>>, queue'[q] = Tail(queue[q])
      PROVE  Queued(q, m) = (IF Head(queue[q]) = m THEN 1 ELSE 0) + Queued(q, m)'
  BY <1>1, <1>3, <1>6, CntHead
<1>7. QED BY <1>3, <1>4, <1>5, <1>6

-----------------------------------------------------------------------------
(* The operations that concern the confirmation of task t.                 *)

Confirming(t) == {Ask(t), Answer(t), Check(t), Reset(t)}
Plain(t) == Op \ Confirming(t)

LEMMA Confirmings ==
  \A t \in Tasks :
    /\ Ask(t) # Answer(t) /\ Ask(t) # Check(t) /\ Ask(t) # Reset(t)
    /\ Answer(t) # Check(t) /\ Answer(t) # Reset(t) /\ Check(t) # Reset(t)
    /\ Request("ALIVE") # Response(t, "ALIVE")
BY DEF Ask, Answer, Reply, Send, Check, Reset, Request, Response

LEMMA PlainOps ==
  ASSUME NEW t \in Tasks
  PROVE  /\ \A q \in Owner, m \in Packet : Send(q, m) \notin Confirming(t) => Send(q, m) \in Plain(t)
         /\ \A q, m : Send(q, m) \in Confirming(t) =>
              \/ q = t /\ m = Request("ALIVE")
              \/ q = MAIN /\ m = Response(t, "ALIVE")
         /\ \A k \in Timer : Arm(k) \in Plain(t)
         /\ \A q \in Tasks : Cancel(q) \in Plain(t) /\ Restart(q) \in Plain(t)
         /\ \A q \in Tasks : q # t => Check(q) \in Plain(t) /\ Reset(q) \in Plain(t)
         /\ Exit \in Plain(t)
<1>1. \A k : Arm(k) \notin Confirming(t)
  BY DEF Arm, Confirming, Ask, Answer, Reply, Send, Check, Reset
<1>2. \A q : Cancel(q) \notin Confirming(t) /\ Restart(q) \notin Confirming(t)
  BY DEF Cancel, Restart, Confirming, Ask, Answer, Reply, Send, Check, Reset
<1>3. \A q : q # t => Check(q) \notin Confirming(t) /\ Reset(q) \notin Confirming(t)
  BY DEF Confirming, Ask, Answer, Reply, Send, Check, Reset
<1>4. Exit \notin Confirming(t)
  BY DEF Exit, Confirming, Ask, Answer, Reply, Send, Check, Reset
<1>5. \A q, m : Send(q, m) \in Confirming(t) =>
        \/ q = t /\ m = Request("ALIVE")
        \/ q = MAIN /\ m = Response(t, "ALIVE")
  BY DEF Confirming, Ask, Answer, Reply, Send, Check, Reset
<1>6. QED BY <1>1, <1>2, <1>3, <1>4, <1>5, OpTypes DEF Plain

LEMMA PlainCounts ==
  ASSUME NEW t \in Tasks, NEW s \in Seq(Plain(t)), NEW o \in Confirming(t)
  PROVE  s \in Seq(Op) /\ ~Has(s, o) /\ Cnt(s, o) = 0
<1>1. s \in Seq(Op) /\ \A i \in 1 .. Len(s) : s[i] # o BY DEF Plain
<1>2. ~Has(s, o) BY <1>1 DEF Has
<1>3. QED BY <1>1, <1>2, CntNat

LEMMA LogPlain == \A t \in Tasks : Log \in Seq(Plain(t)) /\ Log \o Log \in Seq(Plain(t))
<1> SUFFICES ASSUME NEW t \in Tasks
             PROVE  Log \in Seq(Plain(t)) /\ Log \o Log \in Seq(Plain(t))
  OBVIOUS
<1>1. LogRecord # Request("ALIVE") /\ LogRecord # Response(t, "ALIVE")
  BY DEF LogRecord, Request, Response
<1>2. LOG \in Tasks => Send(LOG, LogRecord) \in Plain(t)
  BY <1>1, PlainOps, Packets, Threads
<1>3. Log \in Seq(Plain(t)) BY <1>2 DEF Log, Only
<1>4. QED BY <1>3

LEMMA AfterCreatePlain == \A t \in Tasks : \A q \in Tasks : AfterCreate(q) \in Seq(Plain(t))
<1> SUFFICES ASSUME NEW t \in Tasks, NEW q \in Tasks PROVE AfterCreate(q) \in Seq(Plain(t))
  OBVIOUS
<1>1. Request("INIT") # Request("ALIVE") /\ Request("INIT") # Response(t, "ALIVE")
  BY DEF Request, Response
<1>2. Initialize(q) \in Plain(t)
  BY <1>1, PlainOps, Packets, Threads DEF Initialize
<1>3. <<Initialize(q)>> \in Seq(Plain(t)) BY <1>2
<1>4. <<Initialize(q)>> \o Log \in Seq(Plain(t)) /\ <<Initialize(q)>> \o <<>> \in Seq(Plain(t))
  BY <1>3, LogPlain
<1>5. QED BY <1>4 DEF AfterCreate

\* A task's own operations do not concern another task.
LEMMA OwnPlain ==
  \A t \in Tasks, q \in Tasks : q # t => \A s \in Seq(Own(q)) : s \in Seq(Plain(t))
<1> SUFFICES ASSUME NEW t \in Tasks, NEW q \in Tasks, q # t, NEW o \in Own(q)
             PROVE  o \in Plain(t)
  OBVIOUS
<1>1. CASE o = Send(LOG, LogRecord)
  <2>1. LogRecord # Request("ALIVE") /\ LogRecord # Response(t, "ALIVE")
    BY DEF LogRecord, Request, Response
  <2>2. QED BY <1>1, <2>1, PlainOps DEF Own, Plain
<1>2. CASE o = Arm(Sampler(q))
  <2>1. Sampler(q) \in Timer BY DEF Sampler, Timer
  <2>2. QED BY <1>2, <2>1, PlainOps
<1>3. ASSUME NEW c \in Cmd, o = Reply(q, c) PROVE o \in Plain(t)
  <2>1. Response(q, c) # Request("ALIVE") /\ Response(q, c) # Response(t, "ALIVE")
    BY DEF Request, Response
  <2>2. QED BY <1>3, <2>1, PlainOps DEF Own, Plain, Reply
<1>4. QED BY <1>1, <1>2, <1>3 DEF Own

\* A task answers only an aliveness request.
LEMMA HandlersPlain ==
  ASSUME NEW t \in Tasks, NEW m \in Packet, m # Request("ALIVE"),
         NEW s \in TaskHandlers(t, m)
  PROVE  s \in Seq(Plain(t))
<1>1. m.cmd \in Cmd /\ (~m.rsp => m.cmd # "ALIVE") BY DEF Packet, Request, Response
<1>2. s \in {<<>>, Log} \/
      (m.cmd # "ALIVE" /\ s \in {<<Reply(t, m.cmd)>>, Log \o <<Reply(t, m.cmd)>>})
  <2>1. CASE m.rsp BY <2>1 DEF TaskHandlers
  <2>2. CASE ~m.rsp /\ t = LIGHT
    <3>1. s = LightHandler(m.cmd) BY <2>2 DEF TaskHandlers
    <3>2. QED BY <1>1, <2>2, <3>1 DEF LightHandler
  <2>3. CASE ~m.rsp /\ t = TEMP
    <3>1. TEMP # LIGHT OBVIOUS
    <3>2. s = TempHandler(m.cmd) BY <2>3, <3>1 DEF TaskHandlers
    <3>3. QED BY <1>1, <2>3, <3>2 DEF TempHandler
  <2>4. CASE ~m.rsp /\ t = LOG
    <3>1. LOG # LIGHT /\ LOG # TEMP OBVIOUS
    <3>2. s \in LogHandlers(m.cmd) BY <2>4, <3>1 DEF TaskHandlers
    <3>3. QED BY <1>1, <2>4, <3>2 DEF LogHandlers
  <2>5. QED BY <2>1, <2>2, <2>3, <2>4, Project1Assumption
<1>3. ASSUME m.cmd # "ALIVE" PROVE Reply(t, m.cmd) \in Plain(t)
  <2>1. Response(t, m.cmd) \in Packet /\ Response(t, m.cmd) # Request("ALIVE")
        /\ Response(t, m.cmd) # Response(t, "ALIVE")
    <3>1. Response(t, m.cmd) \in Packet BY <1>1, Packets
    <3>2. Response(t, m.cmd).cmd # "ALIVE" /\ Request("ALIVE").cmd = "ALIVE"
          /\ Response(t, "ALIVE").cmd = "ALIVE"
      BY <1>3 DEF Request, Response
    <3>3. QED BY <3>1, <3>2
  <2>2. QED BY <2>1, PlainOps, Threads DEF Reply
<1>4. ASSUME NEW S, Log \in Seq(S), NEW o \in S
      PROVE  <<o>> \in Seq(S) /\ Log \o <<o>> \in Seq(S)
  BY <1>4
<1>5. <<>> \in Seq(Plain(t)) OBVIOUS
<1>6. QED BY <1>2, <1>3, <1>4, <1>5, LogPlain

LEMMA MainPlain ==
  \A t \in Tasks : \A m \in Packet : MainHandler(m) \in Seq(Plain(t))
<1> SUFFICES ASSUME NEW t \in Tasks PROVE \A m \in Packet : MainHandler(m) \in Seq(Plain(t))
  OBVIOUS
<1>1. \A q \in Tasks : <<Cancel(q)>> \in Seq(Plain(t)) BY PlainOps
<1>2. \A q : Only(q, <<Cancel(q)>>) \in Seq(Plain(t)) BY <1>1 DEF Only
<1>3. EachTask(Cancel) \in Seq(Plain(t))
  <2> DEFINE A(q) == Only(q, <<Cancel(q)>>)
  <2>1. EachTask(Cancel) = A(LIGHT) \o A(TEMP) \o A(LOG) BY DEF EachTask
  <2>2. \A q : A(q) \in Seq(Plain(t)) BY <1>2
  <2> HIDE DEF A
  <2>3. QED BY <2>1, <2>2
<1>4. <<Exit>> \in Seq(Plain(t)) BY PlainOps
<1>5. ExitScript \in Seq(Plain(t)) BY <1>3, <1>4, LogPlain DEF ExitScript
<1>6. <<>> \in Seq(Plain(t)) OBVIOUS
<1>7. QED BY <1>5, <1>6, LogPlain DEF MainHandler

LEMMA CntThree ==
  ASSUME NEW u \in Seq(Op), NEW v \in Seq(Op), NEW w \in Seq(Op), NEW o
  PROVE  /\ u \o v \o w \in Seq(Op)
         /\ Cnt(u \o v \o w, o) = Cnt(u, o) + Cnt(v, o) + Cnt(w, o)
<1>1. PICK x : x = u \o v OBVIOUS
<1>2. x \in Seq(Op) BY <1>1
<1>3. Cnt(u \o v, o) = Cnt(u, o) + Cnt(v, o) BY CntConcat
<1>4. Cnt(x \o w, o) = Cnt(x, o) + Cnt(w, o) BY <1>2, CntConcat
<1>5. x \o w \in Seq(Op) BY <1>2
<1>6. QED BY <1>1, <1>3, <1>4, <1>5

\* Each loop asks, or checks, every task once.
LEMMA LoopCounts ==
  ASSUME NEW t \in Tasks
  PROVE  /\ EachTask(Ask) \in Seq(Op) /\ EachTask(Check) \in Seq(Op)
         /\ Cnt(EachTask(Ask), Ask(t)) = 1
         /\ \A o \in Confirming(t) : o # Ask(t) => Cnt(EachTask(Ask), o) = 0
         /\ Cnt(EachTask(Check), Check(t)) = 1
         /\ \A o \in Confirming(t) : o # Check(t) => Cnt(EachTask(Check), o) = 0
<1> DEFINE A(q) == Only(q, <<Ask(q)>>)
           C(q) == Only(q, <<Check(q)>>)
<1>1. \A q \in Tasks : <<Ask(q)>> \in Seq(Op) /\ <<Check(q)>> \in Seq(Op)
  BY OpTypes, Packets, Threads DEF Ask
<1>2. \A q : A(q) \in Seq(Op) /\ C(q) \in Seq(Op)
  BY <1>1 DEF Only
<1>3. /\ \A q : q # t => Ask(q) \notin Confirming(t) /\ Check(q) \notin Confirming(t)
      /\ \A o \in Confirming(t) : (Ask(t) = o <=> o = Ask(t)) /\ (Check(t) = o <=> o = Check(t))
  <2>1. \A q : q # t => Ask(q) \notin Confirming(t)
    BY PlainOps, Confirmings DEF Ask
  <2>2. \A q : q # t => Check(q) \notin Confirming(t)
    BY DEF Confirming, Ask, Answer, Reply, Send, Check, Reset
  <2>3. QED BY <2>1, <2>2
<1>4. ASSUME NEW q, NEW o \in Confirming(t)
      PROVE  /\ Cnt(A(q), o) = (IF q = t /\ o = Ask(t) THEN 1 ELSE 0)
             /\ Cnt(C(q), o) = (IF q = t /\ o = Check(t) THEN 1 ELSE 0)
  BY <1>3, CntFew DEF Only
<1>5. EachTask(Ask) = A(LIGHT) \o A(TEMP) \o A(LOG)
      /\ EachTask(Check) = C(LIGHT) \o C(TEMP) \o C(LOG)
  BY DEF EachTask
<1>6. t \in {LIGHT, TEMP, LOG} BY Project1Assumption
<1> HIDE DEF A, C
<1>7. EachTask(Ask) \in Seq(Op) /\ EachTask(Check) \in Seq(Op)
  BY <1>2, <1>5, CntThree
<1>8. ASSUME NEW o \in Confirming(t)
      PROVE  /\ Cnt(EachTask(Ask), o) = Cnt(A(LIGHT), o) + Cnt(A(TEMP), o) + Cnt(A(LOG), o)
             /\ Cnt(EachTask(Check), o) = Cnt(C(LIGHT), o) + Cnt(C(TEMP), o) + Cnt(C(LOG), o)
  BY <1>2, <1>5, CntThree
<1>9. Ask(t) \in Confirming(t) /\ Check(t) \in Confirming(t) BY DEF Confirming
<1>10. QED BY <1>4, <1>5, <1>6, <1>7, <1>8, <1>9

\* Scripts of operations that do not concern t add nothing.
LEMMA PlainConcat ==
  ASSUME NEW t \in Tasks, NEW u \in Seq(Op), NEW p \in Seq(Plain(t)), NEW o \in Confirming(t)
  PROVE  /\ p \o u \in Seq(Op) /\ u \o p \in Seq(Op)
         /\ Cnt(p \o u, o) = Cnt(u, o) /\ Cnt(u \o p, o) = Cnt(u, o)
<1>1. p \in Seq(Op) /\ Cnt(p, o) = 0 BY PlainCounts
<1>2. Cnt(u, o) \in Nat BY CntNat
<1>3. Cnt(p \o u, o) = Cnt(p, o) + Cnt(u, o) /\ Cnt(u \o p, o) = Cnt(u, o) + Cnt(p, o)
  BY <1>1, CntConcat
<1>4. QED BY <1>1, <1>2, <1>3

LEMMA HeartbeatCounts ==
  ASSUME NEW t \in Tasks
  PROVE  /\ HeartbeatScript \in Seq(Op) /\ Startup \in Seq(Op)
         /\ Cnt(HeartbeatScript, Ask(t)) = 1 /\ Cnt(HeartbeatScript, Check(t)) = 1
         /\ Cnt(HeartbeatScript, Answer(t)) = 0 /\ Cnt(HeartbeatScript, Reset(t)) = 0
         /\ Cnt(Startup, Ask(t)) = 1 /\ Cnt(Startup, Check(t)) = 0
         /\ Cnt(Startup, Answer(t)) = 0 /\ Cnt(Startup, Reset(t)) = 0
<1> DEFINE A == EachTask(Ask)
           C == EachTask(Check)
           I(q) == Only(q, <<Initialize(q)>>)
           B == <<Arm("heartbeat")>>
           G == <<Arm("logic")>>
           J == I(LOG) \o I(TEMP) \o I(LIGHT)
<1>1. B \in Seq(Plain(t)) /\ G \in Seq(Plain(t)) /\ Log \in Seq(Plain(t))
  BY PlainOps, LogPlain DEF Timer
<1>2. \A q : I(q) \in Seq(Plain(t))
  <2>1. Request("INIT") # Request("ALIVE") /\ Request("INIT") # Response(t, "ALIVE")
    BY DEF Request, Response
  <2>2. \A q \in Tasks : Initialize(q) \in Plain(t)
    BY <2>1, PlainOps, Packets, Threads DEF Initialize
  <2>3. QED BY <2>2 DEF Only
<1>3. J \in Seq(Plain(t))
  <2> HIDE DEF I
  <2>1. QED BY <1>2
<1>4. HeartbeatScript = (Log \o C) \o (B \o A) /\ Startup = (J \o (B \o A)) \o G
  BY DEF HeartbeatScript, HeartbeatInit, Startup
<1>5. A \in Seq(Op) /\ C \in Seq(Op) BY LoopCounts
<1> HIDE DEF A, C, B, G, J
<1>6. ASSUME NEW o \in Confirming(t)
      PROVE  /\ HeartbeatScript \in Seq(Op) /\ Startup \in Seq(Op)
             /\ Cnt(HeartbeatScript, o) = Cnt(C, o) + Cnt(A, o)
             /\ Cnt(Startup, o) = Cnt(A, o)
  <2>1. B \o A \in Seq(Op) /\ Cnt(B \o A, o) = Cnt(A, o) BY <1>1, <1>5, PlainConcat
  <2>2. Log \o C \in Seq(Op) /\ Cnt(Log \o C, o) = Cnt(C, o) BY <1>1, <1>5, PlainConcat
  <2>3. J \o (B \o A) \in Seq(Op) /\ Cnt(J \o (B \o A), o) = Cnt(B \o A, o)
    BY <1>3, <2>1, PlainConcat
  <2>4. (J \o (B \o A)) \o G \in Seq(Op)
        /\ Cnt((J \o (B \o A)) \o G, o) = Cnt(J \o (B \o A), o)
    BY <1>1, <2>3, PlainConcat
  <2>5. Cnt((Log \o C) \o (B \o A), o) = Cnt(Log \o C, o) + Cnt(B \o A, o)
    BY <2>1, <2>2, CntConcat
  <2>6. (Log \o C) \o (B \o A) \in Seq(Op) BY <2>1, <2>2
  <2>7. QED BY <1>4, <2>1, <2>2, <2>3, <2>4, <2>5, <2>6
<1>7. /\ Ask(t) \in Confirming(t) /\ Check(t) \in Confirming(t)
      /\ Answer(t) \in Confirming(t) /\ Reset(t) \in Confirming(t)
  BY DEF Confirming
<1>8. /\ Cnt(A, Ask(t)) = 1 /\ \A o \in Confirming(t) : o # Ask(t) => Cnt(A, o) = 0
      /\ Cnt(C, Check(t)) = 1 /\ \A o \in Confirming(t) : o # Check(t) => Cnt(C, o) = 0
  BY LoopCounts DEF A, C
<1>9. QED BY <1>6, <1>7, <1>8, Confirmings

\* No other callback concerns a confirmation, and no task begins with it.
LEMMA CallbackPlain ==
  ASSUME NEW t \in Tasks, NEW k \in Timer, k # "heartbeat", NEW s \in Callback(k)
  PROVE  s \in Seq(Plain(t))
<1>1. Log \in Seq(Plain(t)) /\ <<Arm(k)>> \in Seq(Plain(t)) /\ <<>> \in Seq(Plain(t))
  BY LogPlain, PlainOps
<1>2. \A u, v \in Seq(Plain(t)) : u \o v \in Seq(Plain(t)) OBVIOUS
<1>3. CASE k = "logic"
  <2> DEFINE gettemp == Send(TEMP, Request("GETTEMP"))
             getlux  == Send(LIGHT, Request("GETLUX"))
             T == Only(TEMP, <<gettemp, gettemp, gettemp>>)
             L == Only(LIGHT, <<getlux>>)
  <2>1. /\ Request("GETTEMP") # Request("ALIVE") /\ Request("GETTEMP") # Response(t, "ALIVE")
        /\ Request("GETLUX") # Request("ALIVE") /\ Request("GETLUX") # Response(t, "ALIVE")
    BY DEF Request, Response
  <2>2. /\ TEMP \in Tasks => gettemp \in Plain(t)
        /\ LIGHT \in Tasks => getlux \in Plain(t)
    BY <2>1, PlainOps, Packets, Threads
  <2>3. T \in Seq(Plain(t)) /\ L \in Seq(Plain(t)) BY <2>2 DEF Only
  <2>4. s \in {Log \o r \o T \o L \o <<Arm("logic")>> : r \in {<<>>, Log, Log \o Log}}
    BY <1>3 DEF Callback, LogicScripts
  <2> HIDE DEF T, L
  <2>5. PICK r \in {<<>>, Log, Log \o Log} : s = Log \o r \o T \o L \o <<Arm("logic")>>
    BY <2>4
  <2>6. r \in Seq(Plain(t)) BY <1>1, <1>2
  <2>7. Log \o r \in Seq(Plain(t)) BY <1>1, <1>2, <2>6
  <2>8. Log \o r \o T \in Seq(Plain(t)) BY <1>2, <2>3, <2>7
  <2>9. Log \o r \o T \o L \in Seq(Plain(t)) BY <1>2, <2>3, <2>8
  <2>10. QED BY <1>1, <1>2, <1>3, <2>5, <2>9
<1>4. CASE k = "light_check"
  <2>1. s \in {Log \o Log \o Log \o Log \o c \o <<Arm("light_check")>> : c \in {<<>>, Log}}
    BY <1>4 DEF Callback, LightCheckScripts
  <2>2. QED BY <1>1, <1>2, <1>4, <2>1
<1>5. CASE k = "temp_check"
  <2>1. s = Log \o <<Arm("temp_check")>> BY <1>5 DEF Callback, TempCheckScript
  <2>2. QED BY <1>1, <1>2, <1>5, <2>1
<1>6. QED BY <1>3, <1>4, <1>5 DEF Timer

LEMMA StartPlain == \A t \in Tasks, q \in Tasks : TaskStart(q) \in Seq(Plain(t))
<1>1. ASSUME NEW t \in Tasks, NEW q \in Tasks PROVE TaskStart(q) \in Seq(Plain(t))
  <2>1. Arm("light_check") \in Plain(t) /\ Arm("temp_check") \in Plain(t)
    BY PlainOps DEF Timer
  <2>2. TaskStart(q) \in {<<>>, <<Arm("light_check")>>, <<Arm("temp_check")>>}
    BY Project1Assumption DEF TaskStart
  <2>3. \A o \in Plain(t) : <<o>> \in Seq(Plain(t)) OBVIOUS
  <2>4. <<>> \in Seq(Plain(t)) OBVIOUS
  <2>5. QED BY <2>1, <2>2, <2>3, <2>4
<1>2. QED BY <1>1

-----------------------------------------------------------------------------
(* What is counted.                                                        *)

Asked(t)     == Cardinality(Places(Ask(t)))
Requested(t) == Queued(t, Request("ALIVE"))
Answering(t) == Cardinality(Places(Answer(t)))
Answered(t)  == Queued(MAIN, Response(t, "ALIVE"))
Flag(t)      == IF main_alive[t] THEN 1 ELSE 0
ToCheck(t)   == Cardinality(Places(Check(t)))
ToClear(t)   == Cardinality(Places(Reset(t)))

Balanced(t) ==
  Asked(t) + Requested(t) + Answering(t) + Answered(t) + Flag(t)
    = 1 + ToCheck(t) + ToClear(t)

LEMMA PlacesTypes == ASSUME TypeOK, NEW o PROVE Cardinality(Places(o)) \in Nat
BY FinitePlaces

LEMMA PlacesTypesNext == ASSUME TypeOK', NEW o PROVE Cardinality(Places(o))' \in Nat
<1>1. Places(o)' = PlacesOf(todo', o) BY DEF Places, PlacesOf, PlacesIn
<1>2. todo' \in [Thread -> Seq(Op)] BY DEF TypeOK
<1>3. PICK g : g = todo' OBVIOUS
<1>4. g \in [Thread -> Seq(Op)] BY <1>2, <1>3
<1>5. Cardinality(PlacesOf(g, o)) \in Nat BY <1>4, FinitePlacesOf
<1>6. QED BY <1>1, <1>3, <1>5

LEMMA CountTypes ==
  ASSUME TypeOK, TypeOK', NEW t \in Tasks
  PROVE  /\ Asked(t) \in Nat /\ Requested(t) \in Nat /\ Answering(t) \in Nat
         /\ Answered(t) \in Nat /\ Flag(t) \in Nat /\ ToCheck(t) \in Nat /\ ToClear(t) \in Nat
         /\ Asked(t)' \in Nat /\ Requested(t)' \in Nat /\ Answering(t)' \in Nat
         /\ Answered(t)' \in Nat /\ Flag(t)' \in Nat /\ ToCheck(t)' \in Nat /\ ToClear(t)' \in Nat
<1>1. \A o : Cardinality(Places(o)) \in Nat BY PlacesTypes
<1>2. \A o : Cardinality(Places(o))' \in Nat BY PlacesTypesNext
<1>3. Requested(t) \in Nat /\ Answered(t) \in Nat /\ Requested(t)' \in Nat /\ Answered(t)' \in Nat
  BY QueueTally, Threads DEF Requested, Answered
<1>4. Flag(t) \in Nat /\ Flag(t)' \in Nat BY DEF Flag
<1>5. QED BY <1>1, <1>2, <1>3, <1>4 DEF Asked, Answering, ToCheck, ToClear

\* A check is not a reset.
LEMMA PendingCounts ==
  ASSUME TypeOK, NEW t \in Tasks
  PROVE  /\ Cardinality(Places(Check(t)) \cup Places(Reset(t))) = ToCheck(t) + ToClear(t)
         /\ IsFiniteSet(Places(Check(t)) \cup Places(Reset(t)))
<1>1. Places(Check(t)) \cap Places(Reset(t)) = {}
  BY Confirmings DEF Places
<1>2. IsFiniteSet(Places(Check(t))) /\ IsFiniteSet(Places(Reset(t))) BY FinitePlaces
<1>3. QED BY <1>1, <1>2, Together DEF ToCheck, ToClear

LEMMA BalanceIsFresh ==
  ASSUME TypeOK, NEW t \in Tasks
  PROVE  Balanced(t) <=> Outstanding(t) = 1 + PendingChecks(t)
<1>1. Outstanding(t) = Asked(t) + Requested(t) + Answering(t) + Answered(t) + Flag(t)
  BY DEF Outstanding, Asked, Requested, Answering, Answered, Flag
<1>2. PendingChecks(t) = ToCheck(t) + ToClear(t) BY PendingCounts DEF PendingChecks
<1>3. ToCheck(t) \in Nat /\ ToClear(t) \in Nat BY PlacesTypes DEF ToCheck, ToClear
<1>4. 1 + ToCheck(t) + ToClear(t) = 1 + (ToCheck(t) + ToClear(t)) BY <1>3
<1>5. QED BY <1>1, <1>2, <1>4 DEF Balanced

\* What leaves one place and arrives at another keeps the balance.
LEMMA BalanceMoves ==
  ASSUME TypeOK, TypeOK', NEW t \in Tasks, Balanced(t),
         NEW a \in Int, NEW q \in Int, NEW n \in Int, NEW m \in Int, NEW f \in Int,
         NEW c \in Int, NEW r \in Int,
         Asked(t)' = Asked(t) + a, Requested(t)' = Requested(t) + q,
         Answering(t)' = Answering(t) + n, Answered(t)' = Answered(t) + m,
         Flag(t)' = Flag(t) + f, ToCheck(t)' = ToCheck(t) + c, ToClear(t)' = ToClear(t) + r,
         a + q + n + m + f = c + r
  PROVE  Balanced(t)'
BY CountTypes DEF Balanced

\* At most one check or reset of a task is to be done, and as long as it is,
\* the task will be asked.
LEMMA FewChecks ==
  ASSUME Inv, InOrder, HeartbeatKept, NEW t \in Tasks
  PROVE  /\ ToCheck(t) + ToClear(t) \in {0, 1}
         /\ ToCheck(t) + ToClear(t) # 0 => Asked(t) # 0
<1> DEFINE P == Places(Check(t)) \cup Places(Reset(t))
<1>1. TypeOK /\ todo \in [Thread -> Seq(Op)] BY DEF Inv, TypeOK
<1>2. Cardinality(P) = ToCheck(t) + ToClear(t) /\ IsFiniteSet(P)
  BY <1>1, PendingCounts
<1>3. ASSUME NEW p \in P
      PROVE  \E a \in Thread : \E i \in 1 .. Len(todo[a]) :
               p = <<a, i>> /\ Examines(todo[a][i]) /\ todo[a][i].task = t
  <2>1. \A o : p \in Places(o) =>
          \E a \in Thread : \E i \in 1 .. Len(todo[a]) : p = <<a, i>> /\ todo[a][i] = o
    <3>1. \A a \in Thread : DOMAIN todo[a] = 1 .. Len(todo[a]) BY <1>1
    <3>2. QED BY <3>1 DEF Places
  <2>2. Examines(Check(t)) /\ Check(t).task = t /\ Examines(Reset(t)) /\ Reset(t).task = t
    BY DEF Check, Reset, Examines
  <2>3. QED BY <2>1, <2>2
<1>4. \A p, r \in P : p = r
  <2> SUFFICES ASSUME NEW p \in P, NEW r \in P PROVE p = r
    OBVIOUS
  <2>a. PICK a \in Thread : \E i \in 1 .. Len(todo[a]) :
          p = <<a, i>> /\ Examines(todo[a][i]) /\ todo[a][i].task = t
    BY <1>3
  <2>1. PICK i \in 1 .. Len(todo[a]) :
          p = <<a, i>> /\ Examines(todo[a][i]) /\ todo[a][i].task = t
    BY <2>a
  <2>b. PICK b \in Thread : \E j \in 1 .. Len(todo[b]) :
          r = <<b, j>> /\ Examines(todo[b][j]) /\ todo[b][j].task = t
    BY <1>3
  <2>2. PICK j \in 1 .. Len(todo[b]) :
          r = <<b, j>> /\ Examines(todo[b][j]) /\ todo[b][j].task = t
    BY <2>b
  <2>3. a = b
    <3>1. Has(todo[a], todo[a][i]) /\ Has(todo[b], todo[b][j]) BY DEF Has
    <3>2. QED BY <2>1, <2>2, <3>1, Alone
  <2>4. i = j
    <3>1. Watch(todo[a]) /\ Len(todo[a]) \in Nat BY <1>1 DEF InOrder
    <3>2. ~(i < j) /\ ~(j < i) BY <2>1, <2>2, <2>3, <3>1 DEF Watch
    <3>3. QED BY <2>3, <3>1, <3>2
  <2>5. QED BY <2>1, <2>2, <2>3, <2>4
<1>5. CASE P = {}
  <2>1. Cardinality(P) = 0 BY <1>5, FS_EmptySet
  <2>2. QED BY <1>2, <2>1
<1>6. ASSUME NEW p \in P PROVE ToCheck(t) + ToClear(t) = 1 /\ Asked(t) # 0
  <2>1. P = {p} BY <1>4
  <2>2. Cardinality(P) = 1 BY <2>1, FS_Singleton
  <2>3. PICK a \in Thread : \E i \in 1 .. Len(todo[a]) : Examines(todo[a][i])
    BY <1>3
  <2>4. Watch(todo[a]) /\ ~Unwatchful(todo[a]) BY <2>3 DEF InOrder, Unwatchful
  <2>5. HasAny(Ask(t)) BY <2>4, WatchAsks DEF HasAny, Has
  <2>6. QED BY <1>1, <1>2, <2>2, <2>5, FinitePlaces DEF Asked
<1>7. QED BY <1>5, <1>6

-----------------------------------------------------------------------------
(* A flag about to be cleared is set; a task about to be started again has *)
(* missed a check.                                                         *)

ResetSafe == \A t \in Tasks : HasAny(Reset(t)) => main_alive[t]
CondemnedMissed == \A t \in Watched \cap Tasks : HasAny(Restart(t)) => t \in missed

\* A reset or a restart to be done is what a check has just decided on, or
\* was to be done before.
LEMMA Decided ==
  ASSUME Inv, InOrder, [Next]_vars, NEW a \in Thread, NEW t \in Tasks,
         NEW o \in {Reset(t), Restart(t)}, Has(todo'[a], o)
  PROVE  \/ Has(todo[a], o)
         \/ /\ DoCheck(a) /\ Head(todo[a]).task = t
            /\ o = IF main_alive[t] THEN Reset(t) ELSE Restart(t)
<1>1. Examines(o) /\ o.task = t BY DEF Examines, Reset, Restart
<1>2. \A s : Unwatchful(s) => ~Has(s, o) BY <1>1 DEF Unwatchful, Has
<1>3. ~Relaunch
  <2>1. ASSUME Relaunch PROVE FALSE
    <3>1. todo'[a] = FirstSteps[a] BY <2>1 DEF Relaunch
    <3>2. a \in Owner \/ FirstSteps[a] = <<>> BY DEF FirstSteps, Owner
    <3>3. Unwatchful(FirstSteps[a]) BY <3>2, FirstInOrder, LogUnwatchful
    <3>4. QED BY <1>2, <3>1, <3>3
  <2>2. QED BY <2>1
<1>4. todo'[a] # <<>> BY HasFew
<1>5. Proceeds(a) BY <1>3, <1>4, Moves
<1>6. CASE todo'[a] = todo[a] BY <1>6
<1>7. ASSUME Step(a), todo[a] # <<>>,
             NEW u, Continues(Head(todo[a]), u), todo'[a] = u \o Tail(todo[a])
      PROVE  \/ Has(todo[a], o)
             \/ /\ DoCheck(a) /\ Head(todo[a]).task = t
                /\ o = IF main_alive[t] THEN Reset(t) ELSE Restart(t)
  <2>1. Head(todo[a]) \in Op /\ Tail(todo[a]) \in Seq(Op) /\ todo[a] \in Seq(Op)
    BY <1>7, Heads DEF Inv, TypeOK
  <2>2. u \in Seq(Op) BY <1>7, <2>1, ContinuesAside DEF Aside
  <2>3. Has(u \o Tail(todo[a]), o) <=> Has(u, o) \/ Has(Tail(todo[a]), o)
    BY <2>1, <2>2, HasConcat
  <2>4. ASSUME Has(Tail(todo[a]), o) PROVE Has(todo[a], o)
    <3>1. PICK i \in 1 .. Len(Tail(todo[a])) : Tail(todo[a])[i] = o BY <2>4 DEF Has
    <3>2. i + 1 \in 1 .. Len(todo[a]) /\ todo[a][i + 1] = o BY <1>7, <2>1, <3>1
    <3>3. QED BY <3>2 DEF Has
  <2>5. ASSUME Has(u, o)
        PROVE  /\ DoCheck(a) /\ Head(todo[a]).task = t
               /\ o = IF main_alive[t] THEN Reset(t) ELSE Restart(t)
    <3>1. ~Unwatchful(u) BY <1>2, <2>5
    <3>2. Head(todo[a]).op = "check"
      <4>1. Head(todo[a]).op = "restart" => Head(todo[a]).task \in Tasks BY <2>1 DEF Op
      <4>2. QED BY <1>7, <3>1, <4>1, LogUnwatchful, AfterCreateAside DEF Continues
    <3>3. DoCheck(a)
      BY <1>7, <3>2
      DEF Step, Doing, DoSend, DoArm, ArmFails, DoReset, DoRestart, RestartFails, DoCancel, DoExit
    <3> DEFINE q == Head(todo[a]).task
               v == IF main_alive[q] THEN <<Reset(q)>> ELSE Log \o <<Restart(q)>>
    <3>4. q \in Tasks BY <1>7, <3>2, Heads DEF Inv
    <3>5. todo' = [todo EXCEPT ![a] = v \o Tail(todo[a])]
      BY <3>3 DEF DoCheck, Instead
    <3>6. todo'[a] = v \o Tail(todo[a]) BY <3>5 DEF Inv, TypeOK
    <3>7. Watch(todo[a]) /\ Examines(Head(todo[a])) BY <3>2 DEF InOrder, Examines
    <3>8. ~Has(Tail(todo[a]), o)
      <4>1. \A j \in 1 .. Len(Tail(todo[a])) :
              Examines(Tail(todo[a])[j]) => Tail(todo[a])[j].op = "check"
        BY <1>7, <3>7, WatchHead
      <4>2. o.op # "check" BY DEF Reset, Restart
      <4>3. QED BY <1>1, <4>1, <4>2 DEF Has
    <3>9. v \in Seq(Op) /\ Log \in Seq(Op) /\ <<Restart(q)>> \in Seq(Op)
      BY <3>4, OpTypes, LogUnwatchful DEF Unwatchful
    <3>10. Has(v \o Tail(todo[a]), o) => Has(v, o)
      <4> HIDE DEF v
      <4>1. QED BY <2>1, <3>8, <3>9, HasConcat
    <3>11. Has(v, o) => o = IF main_alive[q] THEN Reset(q) ELSE Restart(q)
      <4>1. ~Has(Log, o) BY <1>2, LogUnwatchful
      <4>2. Has(Log \o <<Restart(q)>>, o) <=> Has(Log, o) \/ Has(<<Restart(q)>>, o)
        BY <3>9, HasConcat
      <4>3. QED BY <4>1, <4>2, HasFew
    <3>12. o = IF main_alive[q] THEN Reset(q) ELSE Restart(q)
      BY <3>6, <3>10, <3>11
    <3>13. q = t BY <1>1, <3>12 DEF Reset, Restart
    <3>14. QED BY <3>3, <3>12, <3>13
  <2>6. QED BY <1>7, <2>3, <2>4, <2>5
<1>8. CASE Begins(a, todo'[a]) /\ a \in Owner
  BY <1>2, <1>8, BeginsInOrder
<1>9. ASSUME NEW k \in Timer, todo'[a] \in Callback(k) PROVE FALSE
  <2>1. k = "heartbeat" BY <1>2, <1>9, CallbackBegins
  <2>2. todo'[a] = HeartbeatScript BY <1>9, <2>1 DEF Callback
  <2>3. o = On("reset", t) \/ o = On("restart", t) BY OnKinds
  <2>4. "reset" \in Kinds /\ "restart" \in Kinds BY DEF Kinds
  <2>5. QED BY <2>2, <2>3, <2>4, HeartbeatExamines
<1>10. QED BY <1>5, <1>6, <1>7, <1>8, <1>9, Threads DEF Proceeds

LEMMA ResetSafeKept ==
  Inv /\ InOrder /\ HeartbeatKept /\ ResetSafe /\ [Next]_vars /\ ~Relaunch => ResetSafe'
<1> SUFFICES ASSUME Inv, InOrder, HeartbeatKept, ResetSafe, [Next]_vars, ~Relaunch,
                    NEW t \in Tasks, NEW a \in Thread, Has(todo'[a], Reset(t))
             PROVE  main_alive'[t]
  BY DEF ResetSafe, HasAny, Has
<1>1. CASE DoCheck(a) /\ main_alive[t] BY <1>1 DEF DoCheck
<1>2. CASE ~(DoCheck(a) /\ main_alive[t])
  <2>1. Has(todo[a], Reset(t))
    <3>1. Reset(t) # Restart(t) BY DEF Reset, Restart
    <3>2. QED BY <1>2, <3>1, Decided
  <2>2. main_alive[t] BY <2>1 DEF ResetSafe, HasAny
  <2>3. ASSUME NEW b \in Thread, DoReset(b) PROVE FALSE
    <3>1. todo[b] # <<>> /\ todo[b] \in Seq(Op) /\ Head(todo[b]).op = "reset"
      BY <2>3 DEF DoReset, Doing, Inv, TypeOK
    <3>2. Examines(Head(todo[b])) /\ Examines(Reset(t)) BY <3>1 DEF Examines, Reset
    <3>3. Has(todo[b], Head(todo[b])) BY <3>1, HasHead
    <3>4. a = b BY <2>1, <3>2, <3>3, Alone
    <3>5. ~Has(Tail(todo[b]), Reset(t))
      <4>1. \A j \in 1 .. Len(Tail(todo[b])) :
              Examines(Tail(todo[b])[j]) => Tail(todo[b])[j].op = "check"
        BY <3>1, <3>2, WatchHead DEF InOrder
      <4>2. Reset(t).op # "check" BY DEF Reset
      <4>3. QED BY <3>2, <4>1, <4>2 DEF Has
    <3>6. todo'[b] = Tail(todo[b]) BY <2>3 DEF DoReset, Advance, Inv, TypeOK
    <3>7. QED BY <3>4, <3>5, <3>6
  <2>4. QED BY <2>2, <2>3, AliveMoves
<1>3. QED BY <1>1, <1>2

LEMMA CondemnedMissedKept ==
  Inv /\ InOrder /\ CondemnedMissed /\ [Next]_vars /\ ~Relaunch => CondemnedMissed'
<1> SUFFICES ASSUME Inv, InOrder, CondemnedMissed, [Next]_vars, ~Relaunch,
                    NEW t \in Watched \cap Tasks, NEW a \in Thread, Has(todo'[a], Restart(t))
             PROVE  t \in missed'
  BY DEF CondemnedMissed, HasAny, Has
<1>1. missed \subseteq missed'
  BY DEF Next, Step, DoSend, DoArm, ArmFails, DoCheck, DoReset, DoRestart, RestartFails,
         DoCancel, DoExit, ProcessEnds, Crash, TaskReceive, TaskKill, MainReceive, Expire,
         LastRecord, ClientSend, vars
<1>2. CASE DoCheck(a) /\ Head(todo[a]).task = t /\ ~main_alive[t] BY <1>2 DEF DoCheck
<1>3. CASE ~(DoCheck(a) /\ Head(todo[a]).task = t /\ ~main_alive[t])
  <2>1. Reset(t) # Restart(t) BY DEF Reset, Restart
  <2>2. Has(todo[a], Restart(t)) BY <1>3, <2>1, Decided
  <2>3. QED BY <1>1, <2>2 DEF CondemnedMissed, HasAny
<1>4. QED BY <1>2, <1>3

-----------------------------------------------------------------------------
(* Each step keeps the balance of a task that runs and has missed nothing. *)

\* Thread a does u in place of its next operation, and no other thread's
\* part in the confirmation of t changes.
LEMMA ScriptCounts ==
  ASSUME TypeOK, TypeOK', InOrder, InOrder', NEW t \in Tasks, NEW a \in Thread,
         todo[a] # <<>>, NEW u \in Seq(Op), todo'[a] = u \o Tail(todo[a]),
         \A b \in Thread \ {a} : todo'[b] = todo[b] \/ b \in Tasks \ {t},
         NEW o \in Confirming(t)
  PROVE  /\ Cardinality(Places(o))' + (IF Head(todo[a]) = o THEN 1 ELSE 0)
              = Cardinality(Places(o)) + Cnt(u, o)
         /\ Cardinality(Places(o)) \in Nat /\ Cardinality(Places(o))' \in Nat
<1>1. ASSUME NEW b \in Tasks \ {t} PROVE ~Has(todo[b], o) /\ ~Has(todo'[b], o)
  <2>1. todo[b] \in Seq(Own(b)) /\ todo'[b] \in Seq(Own(b)) BY DEF InOrder
  <2>2. todo[b] \in Seq(Plain(t)) /\ todo'[b] \in Seq(Plain(t)) BY <2>1, OwnPlain
  <2>3. QED BY <2>2, PlainCounts
<1>2. \A b \in Thread \ {a} :
        todo'[b] = todo[b] \/ (~Has(todo[b], o) /\ ~Has(todo'[b], o))
  BY <1>1
<1>3. QED BY <1>2, GoingOn

\* The same, if neither the operation nor u concerns t.
LEMMA PlainScript ==
  ASSUME TypeOK, TypeOK', InOrder, InOrder', NEW t \in Tasks, NEW a \in Thread,
         todo[a] # <<>>, Head(todo[a]) \notin Confirming(t),
         NEW u \in Seq(Plain(t)), todo'[a] = u \o Tail(todo[a]),
         \A b \in Thread \ {a} : todo'[b] = todo[b] \/ b \in Tasks \ {t},
         NEW o \in Confirming(t)
  PROVE  Cardinality(Places(o))' = Cardinality(Places(o))
<1>1. u \in Seq(Op) /\ Cnt(u, o) = 0 /\ Head(todo[a]) # o BY PlainCounts
<1>2. /\ Cardinality(Places(o))' + (IF Head(todo[a]) = o THEN 1 ELSE 0)
           = Cardinality(Places(o)) + Cnt(u, o)
      /\ Cardinality(Places(o)) \in Nat /\ Cardinality(Places(o))' \in Nat
  BY <1>1, ScriptCounts
<1>3. QED BY <1>1, <1>2

\* A thread that waits begins with s.
LEMMA BeginningCounts ==
  ASSUME TypeOK, TypeOK', InOrder, NEW a \in Thread, todo[a] = <<>>,
         NEW s, todo' = [todo EXCEPT ![a] = s], NEW o
  PROVE  /\ Cardinality(Places(o))' = Cardinality(Places(o)) + Cnt(s, o)
         /\ Cardinality(Places(o)) \in Nat /\ Cardinality(Places(o))' \in Nat
<1>1. todo'[a] = s /\ \A b \in Thread \ {a} : todo'[b] = todo[b]
  BY DEF TypeOK
<1>2. QED BY <1>1, BeginningTally

SameScripts(t) ==
  /\ Asked(t)' = Asked(t) /\ Answering(t)' = Answering(t)
  /\ ToCheck(t)' = ToCheck(t) /\ ToClear(t)' = ToClear(t)
SameQueues(t) == Requested(t)' = Requested(t) /\ Answered(t)' = Answered(t)
SameFlag(t)   == Flag(t)' = Flag(t)

LEMMA ConfirmingAre ==
  \A t : /\ Ask(t) \in Confirming(t) /\ Answer(t) \in Confirming(t)
         /\ Check(t) \in Confirming(t) /\ Reset(t) \in Confirming(t)
BY DEF Confirming

LEMMA SameCounts ==
  ASSUME NEW t \in Tasks,
         \A o \in Confirming(t) : Cardinality(Places(o))' = Cardinality(Places(o))
  PROVE  SameScripts(t)
BY ConfirmingAre DEF SameScripts, Asked, Answering, ToCheck, ToClear

LEMMA SameScript ==
  ASSUME TypeOK, TypeOK', NEW t \in Tasks, todo' = todo
  PROVE  SameScripts(t)
<1>1. \A o : Places(o)' = Places(o) BY DEF Places
<1>2. QED BY <1>1 DEF SameScripts, Asked, Answering, ToCheck, ToClear

LEMMA SameBalance ==
  ASSUME TypeOK, TypeOK', NEW t \in Tasks, Balanced(t),
         SameScripts(t), SameQueues(t), SameFlag(t)
  PROVE  Balanced(t)'
BY DEF Balanced, SameScripts, SameQueues, SameFlag

\* A packet that is put into a queue.
LEMMA PutCounts ==
  ASSUME TypeOK, TypeOK', NEW t \in Tasks, NEW q \in Owner, NEW m \in Packet, Put(q, m)
  PROVE  /\ Requested(t)' = Requested(t) + (IF q = t /\ m = Request("ALIVE") THEN 1 ELSE 0)
         /\ Answered(t)' = Answered(t) + (IF q = MAIN /\ m = Response(t, "ALIVE") THEN 1 ELSE 0)
<1>1. \A r \in Owner : queue'[r] = IF r = q THEN Append(queue[r], m) ELSE queue[r]
  BY DEF Put, TypeOK
<1>2. ASSUME NEW r \in Owner, NEW p
      PROVE  Queued(r, p)' = Queued(r, p) + (IF q = r /\ m = p THEN 1 ELSE 0)
  <2>1. Queued(r, p) \in Nat BY QueueTally
  <2>2. CASE r = q BY <1>1, <2>2, QueueTally
  <2>3. CASE r # q
    <3>1. queue'[r] = queue[r] BY <1>1, <2>3
    <3>2. Queued(r, p)' = Queued(r, p) BY <3>1, QueueTally
    <3>3. QED BY <2>1, <2>3, <3>2
  <2>4. QED BY <2>2, <2>3
<1>3. QED BY <1>2, Threads DEF Requested, Answered

\* A packet that is taken from one.
LEMMA TakeCounts ==
  ASSUME TypeOK, TypeOK', NEW t \in Tasks, NEW q \in Owner, Take(q)
  PROVE  /\ Requested(t) = (IF q = t /\ Head(queue[q]) = Request("ALIVE") THEN 1 ELSE 0)
                           + Requested(t)'
         /\ Answered(t) = (IF q = MAIN /\ Head(queue[q]) = Response(t, "ALIVE") THEN 1 ELSE 0)
                          + Answered(t)'
<1>1. \A r \in Owner : queue'[r] = IF r = q THEN Tail(queue[r]) ELSE queue[r]
  BY DEF Take, TypeOK
<1>2. ASSUME NEW r \in Owner, NEW p
      PROVE  Queued(r, p) = (IF q = r /\ Head(queue[q]) = p THEN 1 ELSE 0) + Queued(r, p)'
  <2>1. Queued(r, p) \in Nat BY QueueTally
  <2>2. CASE r = q
    <3>1. queue[r] # <<>> /\ queue'[r] = Tail(queue[r]) BY <1>1, <2>2 DEF Take
    <3>2. QED BY <2>2, <3>1, QueueTally
  <2>3. CASE r # q
    <3>1. queue'[r] = queue[r] BY <1>1, <2>3
    <3>2. Queued(r, p)' = Queued(r, p) BY <3>1, QueueTally
    <3>3. QED BY <2>1, <2>3, <3>2
  <2>4. QED BY <2>2, <2>3
<1>3. QED BY <1>2, Threads DEF Requested, Answered

LEMMA SameQueue ==
  ASSUME TypeOK, TypeOK', NEW t \in Tasks, queue' = queue
  PROVE  SameQueues(t)
BY QueueTally, Threads DEF SameQueues, Requested, Answered

\* A request or an answer is sent, or something else.
LEMMA SendKept ==
  ASSUME TypeOK, TypeOK', InOrder, InOrder', NEW t \in Tasks, Balanced(t),
         NEW a \in Thread, DoSend(a)
  PROVE  Balanced(t)'
<1> DEFINE o == Head(todo[a])
<1>1. /\ todo[a] # <<>> /\ o.op = "send" /\ o \in Op /\ o.to \in Owner /\ o.msg \in Packet
      /\ Put(o.to, o.msg)
  BY Heads DEF DoSend, Doing
<1>2. o = Send(o.to, o.msg) BY <1>1 DEF Op, Send
<1>3. /\ todo'[a] = <<>> \o Tail(todo[a])
      /\ \A b \in Thread \ {a} : todo'[b] = todo[b] \/ b \in Tasks \ {t}
  <2>1. Tail(todo[a]) = <<>> \o Tail(todo[a]) BY <1>1, Heads, EmptyFirst
  <2>2. QED BY <2>1 DEF DoSend, Advance, TypeOK
<1>4. ASSUME NEW p \in Confirming(t)
      PROVE  /\ Cardinality(Places(p))' + (IF o = p THEN 1 ELSE 0) = Cardinality(Places(p))
             /\ Cardinality(Places(p)) \in Nat /\ Cardinality(Places(p))' \in Nat
  <2>1. PICK u : u = <<>> OBVIOUS
  <2>2. u \in Seq(Op) /\ Cnt(u, p) = 0 BY <2>1, CntFew
  <2>3. todo'[a] = u \o Tail(todo[a]) BY <1>3, <2>1
  <2>4. /\ Cardinality(Places(p))' + (IF Head(todo[a]) = p THEN 1 ELSE 0)
             = Cardinality(Places(p)) + Cnt(u, p)
        /\ Cardinality(Places(p)) \in Nat /\ Cardinality(Places(p))' \in Nat
    BY <1>1, <1>3, <2>2, <2>3, ScriptCounts
  <2>5. QED BY <2>2, <2>4
<1>5. /\ Requested(t)' = Requested(t) + (IF o.to = t /\ o.msg = Request("ALIVE") THEN 1 ELSE 0)
      /\ Answered(t)' = Answered(t) + (IF o.to = MAIN /\ o.msg = Response(t, "ALIVE") THEN 1 ELSE 0)
  BY <1>1, PutCounts
<1>6. /\ o.to = t /\ o.msg = Request("ALIVE") <=> o = Ask(t)
      /\ o.to = MAIN /\ o.msg = Response(t, "ALIVE") <=> o = Answer(t)
      /\ o # Check(t) /\ o # Reset(t)
  BY <1>1, <1>2 DEF Ask, Answer, Reply, Send, Check, Reset
<1>7. Flag(t)' = Flag(t) + 0 BY DEF DoSend, Flag
<1>8. /\ Asked(t)' + (IF o = Ask(t) THEN 1 ELSE 0) = Asked(t)
      /\ Answering(t)' + (IF o = Answer(t) THEN 1 ELSE 0) = Answering(t)
      /\ ToCheck(t)' = ToCheck(t) + 0 /\ ToClear(t)' = ToClear(t) + 0
  BY <1>4, <1>6, ConfirmingAre DEF Asked, Answering, ToCheck, ToClear
<1> DEFINE x == IF o = Ask(t) THEN 1 ELSE 0
           y == IF o = Answer(t) THEN 1 ELSE 0
<1>9. x \in Int /\ y \in Int /\ -x \in Int /\ -y \in Int /\ 0 \in Int
      /\ -x + x + -y + y + 0 = 0 + 0
  OBVIOUS
<1>10. /\ Requested(t)' = Requested(t) + x /\ Answered(t)' = Answered(t) + y
       /\ Asked(t)' = Asked(t) + -x /\ Answering(t)' = Answering(t) + -y
  BY <1>5, <1>6, <1>8, CountTypes
<1> HIDE DEF x, y
<1>11. QED BY <1>7, <1>8, <1>9, <1>10, BalanceMoves

\* A check finds the flag and goes on to clear it, or finds another task.
LEMMA CheckKept ==
  ASSUME TypeOK, TypeOK', InOrder, InOrder', NEW t \in Watched \cap Tasks, Balanced(t),
         NEW a \in Thread, DoCheck(a), t \notin missed'
  PROVE  Balanced(t)'
<1> DEFINE o == Head(todo[a])
           q == o.task
           v == IF main_alive[q] THEN <<Reset(q)>> ELSE Log \o <<Restart(q)>>
<1>1. todo[a] # <<>> /\ o.op = "check" /\ o \in Op /\ q \in Tasks
  BY Heads DEF DoCheck, Doing
<1>2. o = Check(q) BY <1>1 DEF Op, Check
<1>3. todo' = [todo EXCEPT ![a] = v \o Tail(todo[a])]
  BY DEF DoCheck, Instead
<1>4. /\ todo'[a] = v \o Tail(todo[a])
      /\ \A b \in Thread \ {a} : todo'[b] = todo[b] \/ b \in Tasks \ {t}
  BY <1>3 DEF TypeOK
<1>5. SameQueues(t) /\ SameFlag(t)
  BY SameQueue DEF DoCheck, SameFlag, Flag
<1>6. CASE q # t
  <2>1. v \in Seq(Plain(t))
    <3>1. Reset(q) \in Plain(t) /\ Restart(q) \in Plain(t) BY <1>1, <1>6, PlainOps
    <3>2. Log \in Seq(Plain(t)) BY LogPlain
    <3>3. QED BY <3>1, <3>2
  <2>2. o \notin Confirming(t) BY <1>1, <1>2, <1>6, PlainOps DEF Plain
  <2> HIDE DEF v
  <2>3. \A p \in Confirming(t) : Cardinality(Places(p))' = Cardinality(Places(p))
    BY <1>1, <1>4, <2>1, <2>2, PlainScript
  <2>4. QED BY <1>5, <2>3, SameCounts, SameBalance
<1>7. CASE q = t
  <2>1. main_alive[t] BY <1>7 DEF DoCheck
  <2>2. v = <<Reset(t)>> /\ v \in Seq(Op) BY <1>7, <2>1, OpTypes
  <2>3. ASSUME NEW p \in Confirming(t)
        PROVE  /\ Cardinality(Places(p))' + (IF Check(t) = p THEN 1 ELSE 0)
                    = Cardinality(Places(p)) + (IF Reset(t) = p THEN 1 ELSE 0)
               /\ Cardinality(Places(p)) \in Nat /\ Cardinality(Places(p))' \in Nat
    <3> HIDE DEF v
    <3>1. Cnt(v, p) = IF Reset(t) = p THEN 1 ELSE 0 BY <2>2, CntFew
    <3>2. PICK w : w = v OBVIOUS
    <3>3. w \in Seq(Op) /\ todo'[a] = w \o Tail(todo[a]) BY <1>4, <2>2, <3>2
    <3>4. /\ Cardinality(Places(p))' + (IF Head(todo[a]) = p THEN 1 ELSE 0)
               = Cardinality(Places(p)) + Cnt(w, p)
          /\ Cardinality(Places(p)) \in Nat /\ Cardinality(Places(p))' \in Nat
      BY <1>1, <1>4, <3>3, ScriptCounts
    <3>5. QED BY <1>2, <1>7, <3>1, <3>2, <3>4
  <2>4. /\ Asked(t)' = Asked(t) + 0 /\ Answering(t)' = Answering(t) + 0
        /\ ToCheck(t)' = ToCheck(t) + -1 /\ ToClear(t)' = ToClear(t) + 1
    BY <2>3, ConfirmingAre, Confirmings DEF Asked, Answering, ToCheck, ToClear
  <2>5. /\ Requested(t)' = Requested(t) + 0 /\ Answered(t)' = Answered(t) + 0
        /\ Flag(t)' = Flag(t) + 0
    BY <1>5, CountTypes DEF SameQueues, SameFlag
  <2>6. -1 \in Int /\ 0 \in Int /\ 1 \in Int /\ 0 + 0 + 0 + 0 + 0 = -1 + 1 OBVIOUS
  <2>7. QED BY <2>4, <2>5, <2>6, BalanceMoves
<1>8. QED BY <1>6, <1>7

\* A flag that is cleared was set.
LEMMA ResetKept ==
  ASSUME TypeOK, TypeOK', InOrder, InOrder', ResetSafe, NEW t \in Tasks, Balanced(t),
         NEW a \in Thread, DoReset(a)
  PROVE  Balanced(t)'
<1> DEFINE o == Head(todo[a])
           q == o.task
<1>1. todo[a] # <<>> /\ o.op = "reset" /\ o \in Op /\ q \in Tasks
  BY Heads DEF DoReset, Doing
<1>2. o = Reset(q) BY <1>1 DEF Op, Reset
<1>3. /\ todo'[a] = <<>> \o Tail(todo[a])
      /\ \A b \in Thread \ {a} : todo'[b] = todo[b] \/ b \in Tasks \ {t}
  <2>1. Tail(todo[a]) = <<>> \o Tail(todo[a]) BY <1>1, Heads, EmptyFirst
  <2>2. QED BY <2>1 DEF DoReset, Advance, TypeOK
<1>4. ASSUME NEW p \in Confirming(t)
      PROVE  /\ Cardinality(Places(p))' + (IF o = p THEN 1 ELSE 0) = Cardinality(Places(p))
             /\ Cardinality(Places(p)) \in Nat /\ Cardinality(Places(p))' \in Nat
  <2>1. PICK u : u = <<>> OBVIOUS
  <2>2. u \in Seq(Op) /\ Cnt(u, p) = 0 BY <2>1, CntFew
  <2>3. todo'[a] = u \o Tail(todo[a]) BY <1>3, <2>1
  <2>4. /\ Cardinality(Places(p))' + (IF Head(todo[a]) = p THEN 1 ELSE 0)
             = Cardinality(Places(p)) + Cnt(u, p)
        /\ Cardinality(Places(p)) \in Nat /\ Cardinality(Places(p))' \in Nat
    BY <1>1, <1>3, <2>2, <2>3, ScriptCounts
  <2>5. QED BY <2>2, <2>4
<1>5. o # Ask(t) /\ o # Answer(t) /\ o # Check(t) /\ (o = Reset(t) <=> q = t)
  BY <1>2 DEF Ask, Answer, Reply, Send, Check, Reset
<1> DEFINE x == IF o = Reset(t) THEN 1 ELSE 0
<1>6. Flag(t)' = Flag(t) + -x
  <2>1. main_alive' = [main_alive EXCEPT ![q] = FALSE] BY DEF DoReset
  <2>2. q = t => main_alive[t]
    <3>1. todo[a] \in Seq(Op) BY DEF TypeOK
    <3>2. Has(todo[a], o) BY <1>1, <3>1, HasHead
    <3>3. QED BY <1>2, <3>2 DEF ResetSafe, HasAny
  <2>3. main_alive'[t] = IF q = t THEN FALSE ELSE main_alive[t]
    BY <2>1 DEF TypeOK
  <2>4. QED BY <1>5, <2>2, <2>3 DEF Flag
<1>7. /\ Asked(t)' = Asked(t) + 0 /\ Answering(t)' = Answering(t) + 0
      /\ ToCheck(t)' = ToCheck(t) + 0 /\ ToClear(t)' + x = ToClear(t)
  BY <1>4, <1>5, ConfirmingAre DEF Asked, Answering, ToCheck, ToClear
<1>8. SameQueues(t) BY SameQueue DEF DoReset
<1>9. x \in Int /\ -x \in Int /\ 0 \in Int /\ 0 + 0 + 0 + 0 + -x = 0 + -x OBVIOUS
<1> HIDE DEF x
<1>10. ToClear(t)' = ToClear(t) + -x BY <1>7, <1>9, CountTypes
<1>11. Requested(t)' = Requested(t) + 0 /\ Answered(t)' = Answered(t) + 0
  BY <1>8, CountTypes DEF SameQueues
<1>12. QED BY <1>6, <1>7, <1>9, <1>10, <1>11, BalanceMoves

\* Any other operation of a thread, while no task or another one ends.
LEMMA OtherStepKept ==
  ASSUME Inv, Inv', InOrder, InOrder', CondemnedMissed, "timer" \notin MayFail,
         NEW t \in Watched \cap Tasks, Balanced(t), t \notin missed, up'[t],
         NEW a \in Thread, Step(a), ~DoSend(a), ~DoCheck(a), ~DoReset(a)
  PROVE  Balanced(t)'
<1> DEFINE o == Head(todo[a])
<1>0. TypeOK /\ TypeOK' BY DEF Inv
<1>1. ~ArmFails(a) /\ ~DoExit(a)
  BY Threads DEF ArmFails, DoExit, ProcessEnds
<1>2. /\ todo[a] # <<>> /\ o \in Op /\ o.op \in {"arm", "restart", "cancel"}
      /\ UNCHANGED <<queue, main_alive>>
  <2>1. todo[a] # <<>> /\ o.op \in {"arm", "restart", "cancel"}
    BY <1>1 DEF Step, DoArm, DoRestart, RestartFails, DoCancel, Doing
  <2>2. UNCHANGED <<queue, main_alive>>
    BY <1>1 DEF Step, DoArm, DoRestart, RestartFails, DoCancel
  <2>3. QED BY <1>0, <2>1, <2>2, Heads
<1>3. SameQueues(t) /\ SameFlag(t) BY <1>0, <1>2, SameQueue DEF SameFlag, Flag
<1>4. o \notin Confirming(t)
  BY <1>2 DEF Confirming, Ask, Answer, Reply, Send, Check, Reset
<1>5. <<>> \in Seq(Plain(t)) /\ Log \in Seq(Plain(t)) BY LogPlain
<1>6. \E u \in Seq(Plain(t)) :
        /\ todo'[a] = u \o Tail(todo[a])
        /\ \A b \in Thread \ {a} : todo'[b] = todo[b] \/ b \in Tasks \ {t}
  <2>1. CASE DoArm(a)
    <3>1. Tail(todo[a]) = <<>> \o Tail(todo[a]) BY <1>0, <1>2, Heads, EmptyFirst
    <3>2. todo'[a] = <<>> \o Tail(todo[a]) /\ \A b \in Thread \ {a} : todo'[b] = todo[b]
      BY <1>0, <2>1, <3>1 DEF DoArm, Advance, TypeOK
    <3>3. QED BY <1>5, <3>2
  <2>2. CASE DoRestart(a) \/ RestartFails(a) \/ DoCancel(a)
    <3> DEFINE q == o.task
    <3>1. o.op \in {"restart", "cancel"} /\ q \in Tasks
      BY <1>0, <1>2, <2>2, Heads DEF DoRestart, RestartFails, DoCancel, Doing
    <3>2. q # t
      <4>1. SUFFICES ASSUME q = t PROVE FALSE OBVIOUS
      <4>2. CASE DoRestart(a)
        <5>1. o = Restart(t)
          <6>1. o.op = "restart" BY <4>2 DEF DoRestart, Doing
          <6>2. QED BY <1>2, <4>1, <6>1 DEF Op, Restart
        <5>2. todo[a] \in Seq(Op) BY <1>0 DEF TypeOK
        <5>3. Has(todo[a], o) BY <1>2, <5>2, HasHead
        <5>4. QED BY <5>1, <5>3 DEF CondemnedMissed, HasAny
      <4>3. CASE RestartFails(a) \/ DoCancel(a)
        BY <1>0, <4>1, <4>3, Threads DEF RestartFails, DoCancel, TypeOK
      <4>4. QED BY <2>2, <4>2, <4>3
    <3>3. PICK u \in {AfterCreate(q), Log, <<>>}, s \in {<<>>, TaskStart(q)} :
            todo' = [todo EXCEPT ![a] = u \o Tail(todo[a]), ![q] = s]
      <4>1. Tail(todo[a]) = <<>> \o Tail(todo[a]) BY <1>0, <1>2, Heads, EmptyFirst
      <4>2. QED BY <2>2, <4>1 DEF DoRestart, RestartFails, DoCancel
    <3>4. u \in Seq(Plain(t)) BY <1>5, <3>1, AfterCreatePlain
    <3>5. CASE q # a
      <4>1. /\ todo'[a] = u \o Tail(todo[a])
            /\ \A b \in Thread \ {a} : todo'[b] = todo[b] \/ b = q
        BY <1>0, <3>3, <3>5 DEF TypeOK
      <4>2. QED BY <3>1, <3>2, <3>4, <4>1
    <3>6. CASE q = a
      <4>1. o \in Own(a)
        <5>1. todo[a] \in Seq(Own(a)) BY <3>1, <3>6 DEF InOrder
        <5>2. QED BY <1>2, <5>1
      <4>2. QED BY <3>1, <4>1 DEF Own, Send, Arm, Reply
    <3>7. QED BY <3>5, <3>6
  <2>3. QED BY <1>1, <2>1, <2>2 DEF Step
<1>7. PICK u \in Seq(Plain(t)) :
        /\ todo'[a] = u \o Tail(todo[a])
        /\ \A b \in Thread \ {a} : todo'[b] = todo[b] \/ b \in Tasks \ {t}
  BY <1>6
<1>8. \A p \in Confirming(t) : Cardinality(Places(p))' = Cardinality(Places(p))
  BY <1>0, <1>2, <1>4, <1>7, PlainScript
<1>9. QED BY <1>0, <1>3, <1>8, SameCounts, SameBalance

\* A thread that waits begins with a script that does not concern t.
LEMMA BeginningPlain ==
  ASSUME TypeOK, TypeOK', InOrder, NEW t \in Tasks, NEW a \in Thread, todo[a] = <<>>,
         NEW s \in Seq(Plain(t)), todo' = [todo EXCEPT ![a] = s]
  PROVE  SameScripts(t)
<1>1. ASSUME NEW o \in Confirming(t)
      PROVE  Cardinality(Places(o))' = Cardinality(Places(o))
  <2>1. Cnt(s, o) = 0 BY PlainCounts
  <2>2. /\ Cardinality(Places(o))' = Cardinality(Places(o)) + Cnt(s, o)
        /\ Cardinality(Places(o)) \in Nat
    BY BeginningCounts
  <2>3. QED BY <2>1, <2>2
<1>2. QED BY <1>1, SameCounts

\* A task takes a request and answers it, or something else.
LEMMA ReceiveKept ==
  ASSUME TypeOK, TypeOK', InOrder, InOrder', NEW t \in Tasks, Balanced(t),
         NEW q \in Tasks, TaskReceive(q)
  PROVE  Balanced(t)'
<1> DEFINE m == Head(queue[q])
<1>1. /\ q \in Owner /\ q \in Thread /\ Take(q) /\ m \in Packet /\ q # MAIN
      /\ todo[q] = <<>>
  BY Threads, Taking DEF TaskReceive, Idle
<1>2. PICK s \in TaskHandlers(q, m) : todo' = [todo EXCEPT ![q] = s]
  BY DEF TaskReceive
<1>3. SameFlag(t) BY DEF TaskReceive, SameFlag, Flag
<1>4. /\ Requested(t) = (IF q = t /\ m = Request("ALIVE") THEN 1 ELSE 0) + Requested(t)'
      /\ Answered(t) = 0 + Answered(t)'
  BY <1>1, TakeCounts
<1>5. CASE q # t \/ m # Request("ALIVE")
  <2>1. s \in Seq(Plain(t))
    <3>1. CASE q # t
      <4>1. s \in Seq(Own(q)) BY <1>1, <1>2, TaskBegins
      <4>2. QED BY <3>1, <4>1, OwnPlain
    <3>2. CASE q = t /\ m # Request("ALIVE")
      BY <1>1, <1>2, <3>2, HandlersPlain
    <3>3. QED BY <1>5, <3>1, <3>2
  <2>2. SameScripts(t) BY <1>1, <1>2, <2>1, BeginningPlain
  <2>3. SameQueues(t) BY <1>4, <1>5, CountTypes DEF SameQueues
  <2>4. QED BY <1>3, <2>2, <2>3, SameBalance
<1>6. CASE q = t /\ m = Request("ALIVE")
  <2>1. s = <<Answer(t)>>
    <3>1. Request("ALIVE").rsp = FALSE /\ Request("ALIVE").cmd = "ALIVE"
      BY DEF Request
    <3>2. LightHandler("ALIVE") = <<Reply(LIGHT, "ALIVE")>> BY DEF LightHandler
    <3>3. TempHandler("ALIVE") = <<Reply(TEMP, "ALIVE")>> BY DEF TempHandler
    <3>4. LogHandlers("ALIVE") = {<<Reply(LOG, "ALIVE")>>} BY DEF LogHandlers
    <3>5. t \in {LIGHT, TEMP, LOG} BY Project1Assumption
    <3>6. TaskHandlers(t, Request("ALIVE")) = {<<Answer(t)>>}
      BY <3>1, <3>2, <3>3, <3>4, <3>5 DEF TaskHandlers, Answer
    <3>7. QED BY <1>2, <1>6, <3>6
  <2>2. ASSUME NEW o \in Confirming(t)
        PROVE  /\ Cardinality(Places(o))'
                    = Cardinality(Places(o)) + (IF Answer(t) = o THEN 1 ELSE 0)
               /\ Cardinality(Places(o)) \in Nat
    <3>1. Cnt(s, o) = IF Answer(t) = o THEN 1 ELSE 0 BY <2>1, CntFew
    <3>2. QED BY <1>1, <1>2, <3>1, BeginningCounts
  <2>3. /\ Asked(t)' = Asked(t) + 0 /\ Answering(t)' = Answering(t) + 1
        /\ ToCheck(t)' = ToCheck(t) + 0 /\ ToClear(t)' = ToClear(t) + 0
    BY <2>2, ConfirmingAre, Confirmings DEF Asked, Answering, ToCheck, ToClear
  <2>4. /\ Requested(t)' = Requested(t) + -1 /\ Answered(t)' = Answered(t) + 0
        /\ Flag(t)' = Flag(t) + 0
    BY <1>3, <1>4, <1>6, CountTypes DEF SameFlag
  <2>5. -1 \in Int /\ 0 \in Int /\ 1 \in Int /\ 0 + -1 + 1 + 0 + 0 = 0 + 0 OBVIOUS
  <2>6. QED BY <2>3, <2>4, <2>5, BalanceMoves
<1>7. QED BY <1>5, <1>6

\* Main takes an answer, and its flag was not set; or something else.
LEMMA MainKept ==
  ASSUME Inv, Inv', InOrder, InOrder', HeartbeatKept, NEW t \in Tasks, Balanced(t), MainReceive
  PROVE  Balanced(t)'
<1> DEFINE m == Head(queue[MAIN])
<1>0. TypeOK /\ TypeOK' BY DEF Inv
<1>1. MAIN \in Owner /\ MAIN \in Thread /\ Take(MAIN) /\ m \in Packet /\ todo[MAIN] = <<>>
  BY <1>0, Threads, Taking DEF MainReceive, Idle
<1>2. todo' = [todo EXCEPT ![MAIN] = MainHandler(m)] /\ MainHandler(m) \in Seq(Plain(t))
  BY <1>1, MainPlain DEF MainReceive
<1>3. SameScripts(t) BY <1>0, <1>1, <1>2, BeginningPlain
<1>4. /\ Requested(t) = 0 + Requested(t)'
      /\ Answered(t) = (IF m = Response(t, "ALIVE") THEN 1 ELSE 0) + Answered(t)'
  <2>1. MAIN # t BY Threads
  <2>2. QED BY <1>0, <1>1, <2>1, TakeCounts
<1>5. CASE m # Response(t, "ALIVE")
  <2>1. ~(m.rsp /\ m.cmd = "ALIVE" /\ m.from = t)
    <3>1. (\E c : m = Request(c)) \/ (\E q, c : m = Response(q, c))
      BY <1>1 DEF Packet
    <3>2. ASSUME NEW c, m = Request(c) PROVE m.rsp = FALSE BY <3>2 DEF Request
    <3>3. ASSUME NEW q, NEW c, m = Response(q, c) PROVE m.from = q /\ m.cmd = c
      BY <3>3 DEF Response
    <3>4. QED BY <1>5, <3>1, <3>2, <3>3
  <2>2. main_alive'[t] = main_alive[t]
    BY <1>0, <2>1 DEF MainReceive, TypeOK
  <2>3. SameFlag(t) BY <2>2 DEF SameFlag, Flag
  <2>4. SameQueues(t) BY <1>0, <1>4, <1>5, CountTypes DEF SameQueues
  <2>5. QED BY <1>0, <1>3, <2>3, <2>4, SameBalance
<1>6. CASE m = Response(t, "ALIVE")
  <2>1. Answered(t) = 1 + Answered(t)' BY <1>4, <1>6
  <2>2. ~main_alive[t]
    <3>1. SUFFICES ASSUME main_alive[t] PROVE FALSE OBVIOUS
    <3>2. Flag(t) = 1 BY <3>1 DEF Flag
    <3>3. ToCheck(t) + ToClear(t) \in {0, 1} /\ (ToCheck(t) + ToClear(t) # 0 => Asked(t) # 0)
      BY FewChecks
    <3>4. QED BY <1>0, <2>1, <3>2, <3>3, CountTypes DEF Balanced
  <2>3. main_alive'[t] = TRUE
    BY <1>0, <1>6 DEF MainReceive, Response, TypeOK
  <2>4. Flag(t)' = Flag(t) + 1 BY <2>2, <2>3 DEF Flag
  <2>5. /\ Asked(t)' = Asked(t) + 0 /\ Answering(t)' = Answering(t) + 0
        /\ ToCheck(t)' = ToCheck(t) + 0 /\ ToClear(t)' = ToClear(t) + 0
        /\ Requested(t)' = Requested(t) + 0 /\ Answered(t)' = Answered(t) + -1
    BY <1>0, <1>3, <1>4, <2>1, CountTypes DEF SameScripts
  <2>6. -1 \in Int /\ 0 \in Int /\ 1 \in Int /\ 0 + 0 + 0 + -1 + 1 = 0 + 0 OBVIOUS
  <2>7. QED BY <1>0, <2>4, <2>5, <2>6, BalanceMoves
<1>7. QED BY <1>5, <1>6

\* A heartbeat begins, with one more check to do and one more request to send.
LEMMA ExpireKept ==
  ASSUME TypeOK, TypeOK', InOrder, InOrder', NEW t \in Tasks, Balanced(t),
         NEW k \in Timer, Expire(k)
  PROVE  Balanced(t)'
<1>1. PICK x \in Spare, s \in Callback(k) : todo[x] = <<>> /\ todo' = [todo EXCEPT ![x] = s]
  BY DEF Expire, Idle
<1>2. x \in Thread BY Threads
<1>3. SameFlag(t) /\ SameQueues(t) BY SameQueue DEF Expire, SameFlag, Flag
<1>4. CASE k # "heartbeat"
  BY <1>1, <1>2, <1>3, <1>4, CallbackPlain, BeginningPlain, SameBalance
<1>5. CASE k = "heartbeat"
  <2>1. s = HeartbeatScript BY <1>1, <1>5 DEF Callback
  <2>2. \A o : /\ Cardinality(Places(o))' = Cardinality(Places(o)) + Cnt(s, o)
               /\ Cardinality(Places(o)) \in Nat
    BY <1>1, <1>2, BeginningCounts
  <2>3. Cnt(s, Ask(t)) = 1 /\ Cnt(s, Check(t)) = 1 /\ Cnt(s, Answer(t)) = 0 /\ Cnt(s, Reset(t)) = 0
    BY <2>1, HeartbeatCounts
  <2>4. /\ Asked(t)' = Asked(t) + 1 /\ Answering(t)' = Answering(t) + 0
        /\ ToCheck(t)' = ToCheck(t) + 1 /\ ToClear(t)' = ToClear(t) + 0
    BY <2>2, <2>3 DEF Asked, Answering, ToCheck, ToClear
  <2>5. /\ Requested(t)' = Requested(t) + 0 /\ Answered(t)' = Answered(t) + 0
        /\ Flag(t)' = Flag(t) + 0
    BY <1>3, CountTypes DEF SameQueues, SameFlag
  <2>6. 0 \in Int /\ 1 \in Int /\ 1 + 0 + 0 + 0 + 0 = 1 + 0 OBVIOUS
  <2>7. QED BY <2>4, <2>5, <2>6, BalanceMoves
<1>6. QED BY <1>4, <1>5

\* What is put into a queue by others does not concern t.
LEMMA OthersPutKept ==
  ASSUME TypeOK, TypeOK', NEW t \in Tasks, Balanced(t), todo' = todo, main_alive' = main_alive,
         NEW q \in Owner, NEW m \in Packet, Put(q, m),
         ~(q = t /\ m = Request("ALIVE")), m # Response(t, "ALIVE")
  PROVE  Balanced(t)'
<1>1. SameScripts(t) /\ SameFlag(t) BY SameScript DEF SameFlag, Flag
<1>2. SameQueues(t) BY PutCounts, CountTypes DEF SameQueues
<1>3. QED BY <1>1, <1>2, SameBalance

AllBalanced == \A t \in Watched \cap Tasks : up[t] /\ t \notin missed => Balanced(t)

LEMMA BalanceKept ==
  ASSUME "timer" \notin MayFail, MaxLaunches = 1,
         \A t \in Tasks : <<t, "ALIVE">> \notin ClientCmds,
         Inv, Inv', InOrder, InOrder', HeartbeatKept, ResetSafe, CondemnedMissed,
         AllBalanced, [Next]_vars
  PROVE  AllBalanced'
<1> SUFFICES ASSUME NEW t \in Watched \cap Tasks, up'[t], t \notin missed'
             PROVE  Balanced(t)'
  BY DEF AllBalanced
<1>0. TypeOK /\ TypeOK' BY DEF Inv
<1>1. ~Crash /\ ~Relaunch
  BY <1>0 DEF Crash, Relaunch, TypeOK
<1>2. t \notin missed
  BY <1>1
  DEF Next, Step, DoSend, DoArm, ArmFails, DoCheck, DoReset, DoRestart, RestartFails,
      DoCancel, DoExit, ProcessEnds, TaskReceive, TaskKill, MainReceive, Expire,
      LastRecord, ClientSend, vars
<1>3. up[t]
  <2>1. ASSUME NEW b \in Thread, DoRestart(b), Head(todo[b]).task = t PROVE FALSE
    <3>1. todo[b] # <<>> /\ todo[b] \in Seq(Op) /\ Head(todo[b]) \in Op
          /\ Head(todo[b]).op = "restart"
      BY <1>0, <2>1, Heads DEF DoRestart, Doing, TypeOK
    <3>2. Head(todo[b]) = Restart(t) BY <2>1, <3>1 DEF Op, Restart
    <3>3. Has(todo[b], Restart(t)) BY <3>1, <3>2, HasHead
    <3>4. QED BY <1>2, <3>3 DEF CondemnedMissed, HasAny
  <2>2. QED BY <1>1, <2>1, UpBefore
<1>4. Balanced(t) BY <1>2, <1>3 DEF AllBalanced
<1>5. ASSUME NEW a \in Thread, Step(a) PROVE Balanced(t)'
  <2>1. CASE DoSend(a) BY <1>0, <1>4, <2>1, SendKept
  <2>2. CASE DoCheck(a) BY <1>0, <1>4, <2>2, CheckKept
  <2>3. CASE DoReset(a) BY <1>0, <1>4, <2>3, ResetKept
  <2>4. CASE ~DoSend(a) /\ ~DoCheck(a) /\ ~DoReset(a)
    BY <1>2, <1>4, <1>5, <2>4, OtherStepKept
  <2>5. QED BY <2>1, <2>2, <2>3, <2>4
<1>6. ASSUME NEW q \in Tasks, TaskReceive(q) PROVE Balanced(t)'
  BY <1>0, <1>4, <1>6, ReceiveKept
<1>7. ASSUME NEW q \in Tasks, TaskKill(q) PROVE Balanced(t)'
  <2>1. q # t BY <1>0, <1>7, Threads DEF TaskKill, TypeOK
  <2>2. Take(q) /\ q \in Owner /\ q # MAIN BY <1>7, Threads DEF TaskKill
  <2>3. Requested(t) = 0 + Requested(t)' /\ Answered(t) = 0 + Answered(t)'
    BY <1>0, <2>1, <2>2, TakeCounts
  <2>4. SameQueues(t) BY <1>0, <2>3, CountTypes DEF SameQueues
  <2>5. SameScripts(t) BY <1>0, <1>7, SameScript DEF TaskKill
  <2>6. SameFlag(t) BY <1>7 DEF TaskKill, SameFlag, Flag
  <2>7. QED BY <1>0, <1>4, <2>4, <2>5, <2>6, SameBalance
<1>8. CASE MainReceive BY <1>4, <1>8, MainKept
<1>9. ASSUME NEW k \in Timer, Expire(k) PROVE Balanced(t)'
  BY <1>0, <1>4, <1>9, ExpireKept
<1>10. ASSUME UNCHANGED <<queue, todo, main_alive>> PROVE Balanced(t)'
  <2>1. SameScripts(t) /\ SameQueues(t) BY <1>0, <1>10, SameScript, SameQueue
  <2>2. SameFlag(t) BY <1>10 DEF SameFlag, Flag
  <2>3. QED BY <1>0, <1>4, <2>1, <2>2, SameBalance
<1>11. CASE LastRecord
  <2>1. todo' = todo /\ main_alive' = main_alive BY <1>11 DEF LastRecord
  <2>2. CASE LOG \in Tasks
    <3>1. Put(LOG, LogRecord) /\ LOG \in Owner /\ LogRecord \in Packet
      BY <1>11, <2>2, Threads, Packets DEF LastRecord
    <3>2. LogRecord # Request("ALIVE") /\ LogRecord # Response(t, "ALIVE")
      BY DEF LogRecord, Request, Response
    <3>3. QED BY <1>0, <1>4, <2>1, <3>1, <3>2, OthersPutKept
  <2>3. CASE LOG \notin Tasks BY <1>10, <1>11, <2>3 DEF LastRecord
  <2>4. QED BY <2>2, <2>3
<1>12. ASSUME NEW q \in Owner, NEW c \in Cmd, ClientSend(q, c) PROVE Balanced(t)'
  <2>1. todo' = todo /\ main_alive' = main_alive /\ Put(q, Request(c)) /\ <<q, c>> \in ClientCmds
    BY <1>12 DEF ClientSend
  <2>2. Request(c) \in Packet /\ Request(c) # Response(t, "ALIVE")
        /\ (Request(c) = Request("ALIVE") => c = "ALIVE")
    BY Packets DEF Request, Response
  <2>3. QED BY <1>0, <1>4, <2>1, <2>2, OthersPutKept
<1>13. QED
  BY <1>1, <1>5, <1>6, <1>7, <1>8, <1>9, <1>10, <1>11, <1>12 DEF Next, vars

\* At first every task is still to be asked.
LEMMA InitBalanced ==
  Init => ResetSafe /\ CondemnedMissed /\ AllBalanced
<1> SUFFICES ASSUME Init PROVE ResetSafe /\ CondemnedMissed /\ AllBalanced
  OBVIOUS
<1>0. TypeOK /\ todo = FirstSteps BY Initially DEF Inv, Init
<1>1. \A b \in Thread : \A o : Examines(o) => ~Has(todo[b], o)
  <2>1. \A b \in Spare : FirstSteps[b] = <<>> BY Threads DEF FirstSteps, Owner
  <2>2. \A b \in Thread : Unwatchful(FirstSteps[b])
    BY <2>1, FirstInOrder, LogUnwatchful DEF Thread
  <2>3. QED BY <1>0, <2>2 DEF Unwatchful, Has
<1>2. ResetSafe /\ CondemnedMissed
  BY <1>1 DEF ResetSafe, CondemnedMissed, HasAny, Examines, Reset, Restart
<1>3. ASSUME NEW t \in Tasks PROVE Balanced(t)
  <2>1. /\ todo[MAIN] = Startup
        /\ \A q \in Tasks : todo[q] = TaskStart(q)
        /\ \A b \in Spare : todo[b] = <<>>
    BY <1>0, Threads DEF FirstSteps, Owner
  <2>2. ASSUME NEW b \in Thread \ {MAIN}, NEW o \in Confirming(t) PROVE ~Has(todo[b], o)
    <3>1. todo[b] \in Seq(Plain(t))
      <4>1. CASE b \in Tasks BY <2>1, <4>1, StartPlain
      <4>2. CASE b \in Spare
        <5>1. <<>> \in Seq(Plain(t)) OBVIOUS
        <5>2. QED BY <2>1, <4>2, <5>1
      <4>3. QED BY <4>1, <4>2 DEF Thread, Owner
    <3>2. QED BY <3>1, PlainCounts
  <2>3. ASSUME NEW o \in Confirming(t) PROVE Cardinality(Places(o)) = Cnt(Startup, o)
    <3> DEFINE e == [b \in Thread |-> <<>>]
    <3>1. todo \in [Thread -> Seq(Op)] /\ e \in [Thread -> Seq(Op)] BY <1>0 DEF TypeOK
    <3>2. PICK f, g : f = e /\ g = todo OBVIOUS
    <3>3. /\ f \in [Thread -> Seq(Op)] /\ g \in [Thread -> Seq(Op)]
          /\ \A b \in Thread : f[b] = <<>> /\ ~Has(f[b], o)
      BY <3>1, <3>2, HasFew
    <3>4. \A b \in Thread \ {MAIN} : f[b] = g[b] \/ (~Has(f[b], o) /\ ~Has(g[b], o))
      BY <2>2, <3>2, <3>3
    <3>a. PICK a \in Thread : a = MAIN BY Threads
    <3>b. \A b \in Thread \ {a} : f[b] = g[b] \/ (~Has(f[b], o) /\ ~Has(g[b], o))
      BY <3>4, <3>a
    <3>c. /\ Cardinality(PlacesOf(g, o)) + Cnt(f[a], o)
                = Cardinality(PlacesOf(f, o)) + Cnt(g[a], o)
          /\ Cardinality(PlacesOf(g, o)) \in Nat /\ Cnt(g[a], o) \in Nat
      BY <3>3, <3>b, Tally
    <3>5. /\ Cardinality(PlacesOf(g, o)) + Cnt(f[MAIN], o)
                = Cardinality(PlacesOf(f, o)) + Cnt(g[MAIN], o)
          /\ Cardinality(PlacesOf(g, o)) \in Nat /\ Cnt(g[MAIN], o) \in Nat
      BY <3>a, <3>c
    <3>6. Cnt(f[MAIN], o) = 0 BY <3>3, CntFew, Threads
    <3>7. PlacesOf(f, o) = {}
      <4>1. \A b \in Thread : PlacesIn(f[b], b, o) = {} BY <3>3 DEF PlacesIn
      <4>2. QED BY <4>1 DEF PlacesOf
    <3>8. Cardinality(PlacesOf(f, o)) = 0 BY <3>7, FS_EmptySet
    <3>9. PlacesOf(g, o) = Places(o) BY <3>2 DEF PlacesOf, PlacesIn, Places
    <3>10. g[MAIN] = Startup BY <2>1, <3>2
    <3>11. QED BY <3>5, <3>6, <3>8, <3>9, <3>10
  <2>4. Asked(t) = 1 /\ Answering(t) = 0 /\ ToCheck(t) = 0 /\ ToClear(t) = 0
    BY <2>3, HeartbeatCounts, ConfirmingAre DEF Asked, Answering, ToCheck, ToClear
  <2>5. Requested(t) = 0 /\ Answered(t) = 0
    <3>1. \A q \in Owner : queue[q] = <<>> BY DEF Init
    <3>2. \A q \in Owner : \A m : ~Contains(q, m) BY <3>1 DEF Contains
    <3>3. QED BY <1>0, <3>2, FiniteQueued, Threads DEF Requested, Answered
  <2>6. Flag(t) = 0 BY DEF Flag, Init
  <2>7. QED BY <2>4, <2>5, <2>6 DEF Balanced
<1>4. QED BY <1>2, <1>3 DEF AllBalanced

\* Until a task misses a check, the flag a check finds answers the request of
\* the heartbeat before, and no answer arrives between the read of main_alive
\* and the unlocked write that clears it: for any tasks, queue capacity and
\* number of callback threads, whatever is killed, restarted or fails to be
\* created, as long as timers can be set, clients send no confirmations in a
\* task's name, and the queues hold nothing of an earlier run.
THEOREM ConfirmationsAreFresh ==
  ASSUME "timer" \notin MayFail, MaxLaunches = 1,
         \A t \in Tasks : <<t, "ALIVE">> \notin ClientCmds
  PROVE  Spec => []ConfirmationIsFresh
<1> DEFINE IInv == /\ Inv /\ InOrder /\ HeartbeatKept
                   /\ ResetSafe /\ CondemnedMissed /\ AllBalanced
<1>1. Init => IInv BY Initially, InitInOrder, InitBalanced
<1>2. IInv /\ [Next]_vars => IInv'
  <2> SUFFICES ASSUME IInv, [Next]_vars PROVE IInv'
    OBVIOUS
  <2>1. Inv' /\ InOrder' /\ HeartbeatKept' BY Inductive, InOrderKept
  <2>2. ~Relaunch BY DEF Relaunch, Inv, TypeOK
  <2>3. ResetSafe' /\ CondemnedMissed' BY <2>2, ResetSafeKept, CondemnedMissedKept
  <2>4. AllBalanced' BY <2>1, BalanceKept
  <2>5. QED BY <2>1, <2>3, <2>4
<1>3. IInv => ConfirmationIsFresh
  BY BalanceIsFresh DEF Inv, AllBalanced, ConfirmationIsFresh
<1>4. QED BY <1>1, <1>2, <1>3, PTL DEF Spec

=============================================================================
