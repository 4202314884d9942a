--------------------------- MODULE Project1Proofs ---------------------------
(***************************************************************************)
(* Proofs about Project1, for every set of tasks, every queue capacity,    *)
(* every number of callback threads and every bound: types, the heartbeat, *)
(* the chains of timers that sample the sensors, and that no task that     *)
(* runs is condemned in advance.                                           *)
(***************************************************************************)
EXTENDS Project1, TLAPS, FiniteSetTheorems, SequenceTheorems

USE DEF MAIN, LIGHT, TEMP, LOG

-----------------------------------------------------------------------------
(* Scripts.  Whether the heartbeat timer is set exactly once is a property *)
(* of the script of each thread: a script is harmless if it neither sets   *)
(* the timer nor examines a task, quiet if it does not set the timer, and  *)
(* guarded if it sets the timer once, and examines tasks only before that. *)

Beat == Arm("heartbeat")

Examines(o) == o.op \in {"check", "reset", "restart"}

Quiet(s) == s \in Seq(Op) /\ \A i \in 1 .. Len(s) : s[i] # Beat

Harmless(s) == Quiet(s) /\ \A i \in 1 .. Len(s) : ~Examines(s[i])

Guarded(s) ==
  /\ s \in Seq(Op)
  /\ \E k \in 1 .. Len(s) :
       /\ s[k] = Beat
       /\ \A i \in 1 .. Len(s) : i # k => s[i] # Beat
       /\ \A i \in 1 .. Len(s) : i > k => ~Examines(s[i])

\* The empty script, and scripts of one operation.
LEMMA Singletons ==
  /\ Harmless(<<>>)
  /\ \A o \in Op : o # Beat => Quiet(<<o>>)
  /\ \A o \in Op : o # Beat /\ ~Examines(o) => Harmless(<<o>>)
  /\ Guarded(<<Beat>>)
BY DEF Harmless, Quiet, Guarded, Examines, Beat, Arm, Op, Timer

\* Appending harmless scripts.
LEMMA HarmlessConcat ==
  ASSUME NEW s, NEW t, Harmless(s), Harmless(t)
  PROVE  Harmless(s \o t)
BY DEF Harmless, Quiet

LEMMA QuietConcat ==
  ASSUME NEW s, NEW t, Quiet(s), Quiet(t)
  PROVE  Quiet(s \o t)
BY DEF Quiet

LEMMA HarmlessQuiet == ASSUME NEW s, Harmless(s) PROVE Quiet(s)
BY DEF Harmless

\* A guarded script remains one with a quiet script before it ...
LEMMA QuietGuarded ==
  ASSUME NEW s, NEW t, Quiet(s), Guarded(t)
  PROVE  Guarded(s \o t)
<1>1. PICK k \in 1 .. Len(t) :
        /\ t[k] = Beat
        /\ \A i \in 1 .. Len(t) : i # k => t[i] # Beat
        /\ \A i \in 1 .. Len(t) : i > k => ~Examines(t[i])
  BY DEF Guarded
<1>2. s \in Seq(Op) /\ t \in Seq(Op) /\ s \o t \in Seq(Op)
  BY DEF Quiet, Guarded
<1>3. (s \o t)[Len(s) + k] = Beat /\ Len(s) + k \in 1 .. Len(s \o t)
  BY <1>1, <1>2
<1>4. \A i \in 1 .. Len(s \o t) : i # Len(s) + k => (s \o t)[i] # Beat
  BY <1>1, <1>2 DEF Quiet
<1>5. \A i \in 1 .. Len(s \o t) : i > Len(s) + k => ~Examines((s \o t)[i])
  BY <1>1, <1>2
<1>6. QED BY <1>2, <1>3, <1>4, <1>5 DEF Guarded

\* ... and with a harmless script after it.
LEMMA GuardedHarmless ==
  ASSUME NEW s, NEW t, Guarded(s), Harmless(t)
  PROVE  Guarded(s \o t)
<1>1. PICK k \in 1 .. Len(s) :
        /\ s[k] = Beat
        /\ \A i \in 1 .. Len(s) : i # k => s[i] # Beat
        /\ \A i \in 1 .. Len(s) : i > k => ~Examines(s[i])
  BY DEF Guarded
<1>2. s \in Seq(Op) /\ t \in Seq(Op) /\ s \o t \in Seq(Op)
  BY DEF Quiet, Harmless, Guarded
<1>3. (s \o t)[k] = Beat /\ k \in 1 .. Len(s \o t)
  BY <1>1, <1>2
<1>4. \A i \in 1 .. Len(s \o t) : i # k => (s \o t)[i] # Beat
  BY <1>1, <1>2 DEF Quiet, Harmless
<1>5. \A i \in 1 .. Len(s \o t) : i > k => ~Examines((s \o t)[i])
  BY <1>1, <1>2 DEF Harmless
<1>6. QED BY <1>2, <1>3, <1>4, <1>5 DEF Guarded

\* What is left after the first operation.
LEMMA Tails ==
  ASSUME NEW s, s # <<>>
  PROVE  /\ Harmless(s) => Harmless(Tail(s))
         /\ Guarded(s) /\ Head(s) # Beat => Guarded(Tail(s))
         /\ Guarded(s) /\ Head(s) = Beat => Harmless(Tail(s))
<1>1. ASSUME Harmless(s) PROVE Harmless(Tail(s))
  BY <1>1 DEF Harmless, Quiet
<1>2. ASSUME Guarded(s)
      PROVE  /\ Head(s) # Beat => Guarded(Tail(s))
             /\ Head(s) = Beat => Harmless(Tail(s))
  <2>1. PICK k \in 1 .. Len(s) :
          /\ s[k] = Beat
          /\ \A i \in 1 .. Len(s) : i # k => s[i] # Beat
          /\ \A i \in 1 .. Len(s) : i > k => ~Examines(s[i])
    BY <1>2 DEF Guarded
  <2>2. /\ s \in Seq(Op) /\ Tail(s) \in Seq(Op) /\ Len(Tail(s)) = Len(s) - 1
        /\ \A i \in 1 .. Len(Tail(s)) : Tail(s)[i] = s[i + 1]
        /\ Head(s) = s[1] /\ Len(s) \in Nat
    BY <1>2 DEF Guarded
  <2>3. CASE k = 1
    BY <2>1, <2>2, <2>3 DEF Harmless, Quiet
  <2>4. CASE k # 1
    <3>1. k - 1 \in 1 .. Len(Tail(s)) /\ Tail(s)[k - 1] = Beat
      BY <2>1, <2>2, <2>4
    <3>2. \A i \in 1 .. Len(Tail(s)) : i # k - 1 => Tail(s)[i] # Beat
      BY <2>1, <2>2
    <3>3. \A i \in 1 .. Len(Tail(s)) : i > k - 1 => ~Examines(Tail(s)[i])
      BY <2>1, <2>2
    <3>4. Head(s) # Beat
      BY <2>1, <2>2, <2>4
    <3>5. QED BY <2>2, <3>1, <3>2, <3>3, <3>4 DEF Guarded
  <2>5. QED BY <2>3, <2>4
<1>3. QED BY <1>1, <1>2

-----------------------------------------------------------------------------
(* The scripts of Project1.                                                *)

\* A packet for a thread that has a queue.
LEMMA Sending ==
  ASSUME NEW q \in Owner, NEW m \in Packet
  PROVE  Harmless(<<Send(q, m)>>)
<1>1. Send(q, m) \in Op BY DEF Send, Op
<1>2. Send(q, m) # Beat /\ ~Examines(Send(q, m))
  BY DEF Send, Beat, Arm, Examines
<1>3. QED BY <1>1, <1>2, Singletons

\* The packets main and the tasks send.
LEMMA Packets ==
  /\ \A c \in Cmd : Request(c) \in Packet
  /\ \A t \in Tasks, c \in Cmd : Response(t, c) \in Packet
  /\ LogRecord \in Packet
  /\ Request("INIT") \in Packet /\ Request("ALIVE") \in Packet
  /\ Request("GETTEMP") \in Packet /\ Request("GETLUX") \in Packet
<1>1. Tasks \subseteq ThreadId \ {MAIN} BY Project1Assumption DEF ThreadId
<1>2. {"INIT", "ALIVE", "GETTEMP", "GETLUX", "LOG"} \subseteq Cmd
  BY DEF Cmd, MainCmd, LightCmd, TempCmd, LogCmd
<1>3. QED BY <1>1, <1>2 DEF Packet, LogRecord

LEMMA LogHarmless == Harmless(Log)
<1>1. LOG \in Tasks => LOG \in Owner BY DEF Owner
<1>2. QED BY <1>1, Sending, Packets, Singletons DEF Log, Only

\* The loop over the tasks, for the three operations that are done in it.
LEMMA Loops ==
  /\ Harmless(EachTask(Ask))
  /\ Quiet(EachTask(Check))
  /\ Harmless(EachTask(Cancel))
<1>1. \A t \in Tasks : Harmless(<<Ask(t)>>)
  BY Sending, Packets DEF Ask, Owner
<1>2. \A t \in Tasks : Quiet(<<Check(t)>>)
  <2>1. TAKE t \in Tasks
  <2>2. Check(t) \in Op BY DEF Check, Op
  <2>3. Check(t) # Beat BY DEF Check, Beat, Arm
  <2>4. QED BY <2>2, <2>3, Singletons
<1>3. \A t \in Tasks : Harmless(<<Cancel(t)>>)
  <2>1. TAKE t \in Tasks
  <2>2. Cancel(t) \in Op BY DEF Cancel, Op
  <2>3. Cancel(t) # Beat /\ ~Examines(Cancel(t))
    BY DEF Cancel, Beat, Arm, Examines
  <2>4. QED BY <2>2, <2>3, Singletons
<1>4. \A t : Harmless(Only(t, <<Ask(t)>>))
  BY <1>1, Singletons DEF Only
<1>5. \A t : Quiet(Only(t, <<Check(t)>>))
  BY <1>2, Singletons, HarmlessQuiet DEF Only
<1>6. \A t : Harmless(Only(t, <<Cancel(t)>>))
  BY <1>3, Singletons DEF Only
<1>7. Harmless(EachTask(Ask))
  BY <1>4, HarmlessConcat DEF EachTask
<1>8. Quiet(EachTask(Check))
  BY <1>5, QuietConcat DEF EachTask
<1>9. Harmless(EachTask(Cancel))
  BY <1>6, HarmlessConcat DEF EachTask
<1>10. QED BY <1>7, <1>8, <1>9

\* Setting a timer that is not the heartbeat's.
LEMMA Arming ==
  ASSUME NEW t \in Timer, t # "heartbeat"
  PROVE  Harmless(<<Arm(t)>>)
<1>1. Arm(t) \in Op BY DEF Arm, Op
<1>2. Arm(t) # Beat /\ ~Examines(Arm(t)) BY DEF Arm, Beat, Examines
<1>3. QED BY <1>1, <1>2, Singletons

LEMMA HeartbeatInitGuarded == Guarded(HeartbeatInit)
BY Singletons, Loops, GuardedHarmless DEF HeartbeatInit, Beat

\* What main and the tasks do first.
LEMMA StartupGuarded == Guarded(Startup)
<1>1. \A t \in Tasks : Harmless(<<Initialize(t)>>)
  BY Sending, Packets DEF Initialize, Owner
<1>2. \A t : Quiet(Only(t, <<Initialize(t)>>))
  BY <1>1, Singletons, HarmlessQuiet DEF Only
<1>3. Quiet(Only(LOG, <<Initialize(LOG)>>) \o Only(TEMP, <<Initialize(TEMP)>>)
            \o Only(LIGHT, <<Initialize(LIGHT)>>))
  BY <1>2, QuietConcat
<1>4. Harmless(<<Arm("logic")>>) BY Arming DEF Timer
<1>5. QED
  BY <1>3, <1>4, HeartbeatInitGuarded, QuietGuarded, GuardedHarmless
  DEF Startup

LEMMA TaskStartHarmless == \A t \in Tasks : Harmless(TaskStart(t))
<1>1. Harmless(<<Arm("light_check")>>) /\ Harmless(<<Arm("temp_check")>>)
  BY Arming DEF Timer
<1>2. QED BY <1>1, Singletons, Project1Assumption DEF TaskStart

\* The callbacks: the heartbeat is guarded, the others are harmless.
LEMMA HeartbeatGuarded == Guarded(HeartbeatScript)
<1>1. Quiet(Log \o EachTask(Check))
  BY LogHarmless, HarmlessQuiet, Loops, QuietConcat
<1>2. QED BY <1>1, HeartbeatInitGuarded, QuietGuarded DEF HeartbeatScript

LEMMA CallbacksHarmless ==
  \A t \in Timer \ {"heartbeat"} : \A s \in Callback(t) : Harmless(s)
<1>1. \A s \in LightCheckScripts : Harmless(s)
  <2>1. Harmless(<<Arm("light_check")>>) BY Arming DEF Timer
  <2>2. QED
    BY <2>1, LogHarmless, HarmlessConcat, Singletons DEF LightCheckScripts
<1>2. Harmless(TempCheckScript)
  <2>1. Harmless(<<Arm("temp_check")>>) BY Arming DEF Timer
  <2>2. QED BY <2>1, LogHarmless, HarmlessConcat DEF TempCheckScript
<1>3. \A s \in LogicScripts : Harmless(s)
  <2> DEFINE T == Send(TEMP, Request("GETTEMP"))
             L == Send(LIGHT, Request("GETLUX"))
  <2>1. Harmless(<<Arm("logic")>>) BY Arming DEF Timer
  <2>2. Harmless(Only(LIGHT, <<L>>))
    BY Sending, Packets, Singletons DEF Only, Owner
  <2>3. Harmless(Only(TEMP, <<T, T, T>>))
    <3>1. TEMP \in Tasks => Harmless(<<T>>)
      BY Sending, Packets DEF Owner
    <3>2. TEMP \in Tasks => T \in Op /\ T # Beat /\ ~Examines(T)
      <4>1. ASSUME TEMP \in Tasks PROVE T = <<T>>[1] /\ 1 \in 1 .. Len(<<T>>)
        OBVIOUS
      <4>2. QED BY <3>1, <4>1 DEF Harmless, Quiet
    <3>3. T \in Op /\ T # Beat /\ ~Examines(T) => Harmless(<<T, T, T>>)
      BY DEF Harmless, Quiet
    <3>4. QED BY <3>2, <3>3, Singletons DEF Only
  <2>4. \A r \in {<<>>, Log, Log \o Log} : Harmless(r)
    BY LogHarmless, HarmlessConcat, Singletons
  <2>5. ASSUME NEW r \in {<<>>, Log, Log \o Log}
        PROVE  Harmless(Log \o r \o Only(TEMP, <<T, T, T>>)
                        \o Only(LIGHT, <<L>>) \o <<Arm("logic")>>)
    BY <2>1, <2>2, <2>3, <2>4, LogHarmless, HarmlessConcat
  <2>6. QED BY <2>5 DEF LogicScripts
<1>4. QED BY <1>1, <1>2, <1>3 DEF Callback, Timer

\* What the command loops do.
LEMMA HandlersHarmless ==
  ASSUME NEW m \in Packet
  PROVE  /\ \A t \in Tasks : \A s \in TaskHandlers(t, m) : Harmless(s)
         /\ Harmless(MainHandler(m))
<1>1. ASSUME NEW t \in Tasks, NEW s \in TaskHandlers(t, m)
      PROVE  Harmless(s)
  <2>1. \A c \in Cmd : Harmless(<<Reply(t, c)>>)
    BY Packets, Sending DEF Reply, Owner
  <2>2. \A c \in Cmd : Harmless(Log \o <<Reply(t, c)>>)
    BY <2>1, LogHarmless, HarmlessConcat
  <2>3. m.cmd \in Cmd BY DEF Packet, Request, Response
  <2>4. CASE m.rsp BY <2>4, Singletons DEF TaskHandlers
  <2>a. ASSUME NEW c \in Cmd, t = LIGHT PROVE Harmless(LightHandler(c))
    <3>1. Harmless(<<Reply(LIGHT, c)>>) BY <2>a, <2>1
    <3>2. Harmless(Log \o <<Reply(LIGHT, c)>>) BY <2>a, <2>2
    <3>3. LightHandler(c) \in {<<Reply(LIGHT, c)>>, Log \o <<Reply(LIGHT, c)>>,
                              Log, <<>>}
      BY DEF LightHandler
    <3>4. QED BY <3>1, <3>2, <3>3, LogHarmless, Singletons
  <2>b. ASSUME NEW c \in Cmd, t = TEMP PROVE Harmless(TempHandler(c))
    <3>1. Harmless(<<Reply(TEMP, c)>>) BY <2>b, <2>1
    <3>2. Harmless(Log \o <<Reply(TEMP, c)>>) BY <2>b, <2>2
    <3>3. TempHandler(c) \in {<<Reply(TEMP, c)>>, Log \o <<Reply(TEMP, c)>>,
                             Log, <<>>}
      BY DEF TempHandler
    <3>4. QED BY <3>1, <3>2, <3>3, LogHarmless, Singletons
  <2>5. CASE ~m.rsp /\ t = LIGHT
    <3>1. s = LightHandler(m.cmd) BY <2>5 DEF TaskHandlers
    <3>2. QED BY <3>1, <2>5, <2>a, <2>3
  <2>6. CASE ~m.rsp /\ t = TEMP
    <3>1. TEMP # LIGHT BY DEF TEMP, LIGHT
    <3>2. s = TempHandler(m.cmd) BY <2>6, <3>1 DEF TaskHandlers
    <3>3. QED BY <3>2, <2>6, <2>b, <2>3
  <2>7. CASE ~m.rsp /\ t = LOG
    BY <2>1, <2>3, <2>7, LogHarmless, Singletons
    DEF TaskHandlers, LogHandlers
  <2>8. QED BY <2>4, <2>5, <2>6, <2>7, Project1Assumption
<1>2. Harmless(MainHandler(m))
  <2>1. Exit \in Op /\ Exit # Beat /\ ~Examines(Exit)
    BY DEF Exit, Op, Beat, Arm, Examines
  <2>2. Harmless(ExitScript)
    BY <2>1, LogHarmless, Loops, Singletons, HarmlessConcat DEF ExitScript
  <2>3. QED BY <2>2, LogHarmless, Singletons DEF MainHandler
<1>3. QED BY <1>1, <1>2

-----------------------------------------------------------------------------
(* The inductive invariant.                                                *)

\* The heartbeat is handled by main and the callbacks only.
Disciplined ==
  /\ \A a \in Thread : Harmless(todo[a]) \/ Guarded(todo[a])
  /\ \A t \in Tasks : Harmless(todo[t])

\* Nothing of the program goes on when its main thread is gone.
Ended ==
  ~up[MAIN] => /\ \A a \in Thread : todo[a] = <<>>
               /\ \A a \in Owner : ~up[a]
               /\ \A t \in Timer : armed[t] = 0

\* The part of the invariant that holds whatever fails.
Inv == TypeOK /\ Disciplined /\ Ended

\* A thread still has to set the heartbeat timer if its script is guarded,
\* and has nothing to do with a heartbeat if its script is harmless.
LEMMA Roles ==
  ASSUME NEW a
  PROVE  /\ Guarded(todo[a]) => Rearming(a) /\ ~Harmless(todo[a])
         /\ Harmless(todo[a]) => ~Rearming(a) /\ ~Checking(a)
<1>1. Guarded(todo[a]) => Rearming(a) /\ ~Harmless(todo[a])
  BY DEF Guarded, Rearming, Harmless, Quiet, Beat
<1>2. Harmless(todo[a]) => ~Rearming(a)
  BY DEF Rearming, Harmless, Quiet, Beat
<1>3. Harmless(todo[a]) => ~Checking(a)
  BY DEF Checking, Harmless, Quiet, Examines
<1>4. QED BY <1>1, <1>2, <1>3

LEMMA Threads ==
  /\ Tasks \subseteq Thread /\ MAIN \in Thread /\ MAIN \notin Tasks
  /\ Tasks \subseteq Owner /\ MAIN \in Owner
  /\ Spare \cap Owner = {} /\ Spare \subseteq Thread /\ Owner \subseteq Thread
<1>1. \A s \in Spare : s \notin ThreadId BY Project1Assumption
<1>2. Owner \subseteq ThreadId /\ MAIN \notin Tasks
  BY Project1Assumption DEF Owner, ThreadId
<1>3. Spare \cap Owner = {} BY <1>1, <1>2
<1>4. QED BY <1>2, <1>3 DEF Thread, Owner

LEMMA Shapes == \A s : Harmless(s) \/ Guarded(s) => s \in Seq(Op)
BY DEF Harmless, Quiet, Guarded

\* What Disciplined says of the next state.
LEMMA Primed ==
  Disciplined' <=>
    /\ \A a \in Thread : Harmless(todo'[a]) \/ Guarded(todo'[a])
    /\ \A t \in Tasks : Harmless(todo'[t])
BY DEF Disciplined, Harmless, Quiet, Guarded

\* A step keeps the discipline, and who has to set the timer, if it keeps
\* harmless scripts harmless and guarded scripts guarded.
LEMMA Keeping ==
  ASSUME Disciplined, todo' \in [Thread -> Seq(Op)],
         \A a \in Thread : /\ Harmless(todo[a]) => Harmless(todo'[a])
                           /\ Guarded(todo[a]) => Guarded(todo'[a])
  PROVE  /\ Disciplined'
         /\ \A a \in Thread : Rearming(a)' <=> Rearming(a)
<1>1. /\ Tasks \subseteq Thread
      /\ \A a \in Thread : Harmless(todo[a]) \/ Guarded(todo[a])
      /\ \A t \in Tasks : Harmless(todo[t])
  BY Threads DEF Disciplined
<1>2. Disciplined' BY <1>1, Primed
<1>3. ASSUME NEW a \in Thread PROVE Rearming(a)' <=> Rearming(a)
  <2>1. Harmless(todo'[a]) => ~Rearming(a)'
    BY DEF Rearming, Harmless, Quiet, Beat
  <2>2. Guarded(todo'[a]) => Rearming(a)'
    BY DEF Rearming, Guarded, Beat
  <2>3. /\ Harmless(todo[a]) => ~Rearming(a)
        /\ Guarded(todo[a]) => Rearming(a)
    BY Roles
  <2>4. QED BY <1>1, <2>1, <2>2, <2>3
<1>4. QED BY <1>2, <1>3

\* The usual case: one thread goes on with another script.
LEMMA KeepingOne ==
  ASSUME TypeOK, Disciplined, NEW a \in Thread, NEW s,
         todo' = [todo EXCEPT ![a] = s],
         Harmless(todo[a]) => Harmless(s),
         Guarded(todo[a]) => Guarded(s)
  PROVE  /\ todo' \in [Thread -> Seq(Op)]
         /\ Disciplined'
         /\ \A b \in Thread : Rearming(b)' <=> Rearming(b)
<1>0. s \in Seq(Op) BY Shapes DEF Disciplined
<1>1. /\ todo' \in [Thread -> Seq(Op)]
      /\ todo'[a] = s /\ \A b \in Thread \ {a} : todo'[b] = todo[b]
  BY <1>0 DEF TypeOK
<1>2. \A b \in Thread : /\ Harmless(todo[b]) => Harmless(todo'[b])
                        /\ Guarded(todo[b]) => Guarded(todo'[b])
  BY <1>1
<1>3. QED BY <1>1, <1>2, Keeping

\* A waiting thread takes up a harmless script.
LEMMA Beginning ==
  ASSUME TypeOK, Disciplined, NEW a \in Thread, NEW s,
         Idle(a), Harmless(s), todo' = [todo EXCEPT ![a] = s]
  PROVE  /\ todo' \in [Thread -> Seq(Op)]
         /\ Disciplined'
         /\ \A b \in Thread : Rearming(b)' <=> Rearming(b)
<1>1. Harmless(todo[a]) /\ ~Guarded(todo[a])
  BY Singletons, Roles DEF Idle
<1>2. QED BY <1>1, KeepingOne

\* A thread has done an operation that does not concern the heartbeat timer.
LEMMA Advancing ==
  ASSUME TypeOK, Disciplined, NEW a \in Thread,
         todo[a] # <<>>, Head(todo[a]) # Beat, Advance(a)
  PROVE  /\ todo' \in [Thread -> Seq(Op)]
         /\ Disciplined'
         /\ \A b \in Thread : Rearming(b)' <=> Rearming(b)
BY Tails, KeepingOne DEF Advance

\* Or it goes on with a quiet script, harmless if its own is.
LEMMA Replacing ==
  ASSUME TypeOK, Disciplined, NEW a \in Thread, NEW s,
         todo[a] # <<>>, Head(todo[a]) # Beat, Quiet(s),
         Harmless(todo[a]) => Harmless(s), Instead(a, s)
  PROVE  /\ todo' \in [Thread -> Seq(Op)]
         /\ Disciplined'
         /\ \A b \in Thread : Rearming(b)' <=> Rearming(b)
<1>1. Harmless(todo[a]) => Harmless(s \o Tail(todo[a]))
  BY Tails, HarmlessConcat
<1>2. Guarded(todo[a]) => Guarded(s \o Tail(todo[a]))
  BY Tails, QuietGuarded
<1>3. todo' = [todo EXCEPT ![a] = s \o Tail(todo[a])]
  BY DEF Instead
<1>4. QED BY <1>1, <1>2, <1>3, KeepingOne

\* Only a guarded script begins with a check, a reset or a restart, so no
\* task does.
LEMMA Examiner ==
  ASSUME TypeOK, Disciplined, NEW a \in Thread,
         todo[a] # <<>>, Examines(Head(todo[a]))
  PROVE  /\ Guarded(todo[a]) /\ ~Harmless(todo[a])
         /\ Head(todo[a]) # Beat /\ a \notin Tasks
<1>1. Head(todo[a]) = todo[a][1] /\ 1 \in 1 .. Len(todo[a])
  BY DEF TypeOK
<1>2. ~Harmless(todo[a]) BY <1>1 DEF Harmless
<1>3. Head(todo[a]) # Beat BY DEF Examines, Beat, Arm
<1>4. QED BY <1>2, <1>3 DEF Disciplined

\* The first operation of a script has its type.
LEMMA Heads ==
  ASSUME TypeOK, NEW a \in Thread, todo[a] # <<>>
  PROVE  /\ Head(todo[a]) \in Op /\ Tail(todo[a]) \in Seq(Op)
         /\ Head(todo[a]).op = "send" =>
              Head(todo[a]).to \in Owner /\ Head(todo[a]).msg \in Packet
         /\ Head(todo[a]).op = "arm" => Head(todo[a]).timer \in Timer
         /\ Head(todo[a]).op \in {"check", "reset", "restart", "cancel"} =>
              Head(todo[a]).task \in Tasks
         /\ Head(todo[a]).op # "arm" => Head(todo[a]) # Beat
<1>1. Head(todo[a]) \in Op /\ Tail(todo[a]) \in Seq(Op) BY DEF TypeOK
<1>2. QED BY <1>1 DEF Op, Beat, Arm

-----------------------------------------------------------------------------
(* The steps.  Same says that a step leaves the heartbeat as it is.        *)

Same ==
  /\ armed'["heartbeat"] = armed["heartbeat"]
  /\ up'[MAIN] = up[MAIN]
  /\ \A b \in Thread : Rearming(b)' <=> Rearming(b)

\* A step of a program that runs, and goes on running, keeps Ended.
LEMMA Running == ASSUME up[MAIN], up'[MAIN] = up[MAIN] PROVE Ended'
BY DEF Ended

LEMMA Busy ==
  ASSUME Inv, NEW a \in Thread, todo[a] # <<>>
  PROVE  up[MAIN]
BY DEF Inv, Ended

\* A packet is put into a queue that has room for it.
LEMMA Putting ==
  ASSUME TypeOK, NEW q \in Owner, NEW m \in Packet, Room(q), Put(q, m)
  PROVE  /\ queue' \in [Owner -> Seq(Packet)]
         /\ \A r \in Owner : Len(queue'[r]) <= MaxMsgs
<1>1. queue[q] \in Seq(Packet) /\ Append(queue[q], m) \in Seq(Packet)
      /\ Len(Append(queue[q], m)) = Len(queue[q]) + 1
  BY DEF TypeOK
<1>2. queue' \in [Owner -> Seq(Packet)] BY <1>1 DEF TypeOK, Put
<1>3. ASSUME NEW r \in Owner PROVE Len(queue'[r]) <= MaxMsgs
  <2>1. MaxMsgs \in Nat /\ Len(queue[q]) \in Nat
    BY <1>1, Project1Assumption
  <2>2. CASE r = q BY <1>1, <2>1, <2>2 DEF TypeOK, Put, Room
  <2>3. CASE r # q BY <2>3 DEF TypeOK, Put
  <2>4. QED BY <2>2, <2>3
<1>4. QED BY <1>2, <1>3

\* The oldest packet is taken out of a queue.
LEMMA Taking ==
  ASSUME TypeOK, NEW q \in Owner, Take(q)
  PROVE  /\ queue' \in [Owner -> Seq(Packet)]
         /\ \A r \in Owner : Len(queue'[r]) <= MaxMsgs
         /\ Head(queue[q]) \in Packet
<1>1. queue[q] \in Seq(Packet) /\ queue[q] # <<>>
  BY DEF TypeOK, Take
<1>2. /\ Head(queue[q]) \in Packet /\ Tail(queue[q]) \in Seq(Packet)
      /\ Len(Tail(queue[q])) = Len(queue[q]) - 1 /\ Len(queue[q]) \in Nat
  BY <1>1
<1>3. queue' \in [Owner -> Seq(Packet)] BY <1>2 DEF TypeOK, Take
<1>4. ASSUME NEW r \in Owner PROVE Len(queue'[r]) <= MaxMsgs
  <2>1. MaxMsgs \in Nat BY Project1Assumption
  <2>2. CASE r = q BY <1>2, <2>1, <2>2 DEF TypeOK, Take
  <2>3. CASE r # q BY <2>3 DEF TypeOK, Take
  <2>4. QED BY <2>2, <2>3
<1>5. QED BY <1>2, <1>3, <1>4

LEMMA SendStep ==
  ASSUME Inv, NEW a \in Thread, DoSend(a)
  PROVE  Inv' /\ Same
<1>1. todo[a] # <<>> /\ Head(todo[a]).op = "send" /\ Advance(a)
  BY DEF DoSend, Doing
<1>2. /\ todo' \in [Thread -> Seq(Op)] /\ Disciplined'
      /\ \A b \in Thread : Rearming(b)' <=> Rearming(b)
  BY <1>1, Heads, Advancing DEF Inv
<1>3. /\ queue' \in [Owner -> Seq(Packet)]
      /\ \A r \in Owner : Len(queue'[r]) <= MaxMsgs
  BY <1>1, Heads, Putting DEF Inv, DoSend
<1>4. TypeOK' BY <1>2, <1>3 DEF Inv, TypeOK, DoSend
<1>5. Ended' BY <1>1, Busy, Running DEF DoSend
<1>6. QED BY <1>2, <1>4, <1>5 DEF Inv, Same, DoSend

LEMMA CheckStep ==
  ASSUME Inv, NEW a \in Thread, DoCheck(a)
  PROVE  Inv' /\ Same
<1> DEFINE t == Head(todo[a]).task
<1>1. todo[a] # <<>> /\ Head(todo[a]).op = "check" /\ t \in Tasks
  BY Heads DEF DoCheck, Doing, Inv
<1>2. Guarded(todo[a]) /\ ~Harmless(todo[a]) /\ Head(todo[a]) # Beat
  BY <1>1, Examiner DEF Inv, Examines
<1>3. /\ Reset(t) \in Op /\ Reset(t) # Beat
      /\ Restart(t) \in Op /\ Restart(t) # Beat
  BY <1>1 DEF Op, Reset, Restart, Beat, Arm
<1>4. Quiet(<<Reset(t)>>) /\ Quiet(Log \o <<Restart(t)>>)
  BY <1>3, Singletons, LogHarmless, HarmlessQuiet, QuietConcat
<1>5. Instead(a, <<Reset(t)>>) \/ Instead(a, Log \o <<Restart(t)>>)
  BY DEF DoCheck
<1>6. /\ todo' \in [Thread -> Seq(Op)] /\ Disciplined'
      /\ \A b \in Thread : Rearming(b)' <=> Rearming(b)
  BY <1>1, <1>2, <1>4, <1>5, Replacing DEF Inv
<1>7. missed' \subseteq Tasks BY <1>1 DEF DoCheck, Inv, TypeOK
<1>8. TypeOK' BY <1>6, <1>7 DEF Inv, TypeOK, DoCheck
<1>9. Ended' BY <1>1, Busy, Running DEF DoCheck
<1>10. QED BY <1>6, <1>8, <1>9 DEF Inv, Same, DoCheck

LEMMA ResetStep ==
  ASSUME Inv, NEW a \in Thread, DoReset(a)
  PROVE  Inv' /\ Same
<1>1. todo[a] # <<>> /\ Head(todo[a]).op = "reset" /\ Advance(a)
  BY DEF DoReset, Doing
<1>2. /\ todo' \in [Thread -> Seq(Op)] /\ Disciplined'
      /\ \A b \in Thread : Rearming(b)' <=> Rearming(b)
  BY <1>1, Heads, Advancing DEF Inv
<1>3. TypeOK' BY <1>2 DEF Inv, TypeOK, DoReset
<1>4. Ended' BY <1>1, Busy, Running DEF DoReset
<1>5. QED BY <1>2, <1>3, <1>4 DEF Inv, Same, DoReset

LEMMA SameKept ==
  ASSUME HeartbeatKept, Same
  PROVE  HeartbeatKept'
BY Threads DEF HeartbeatKept, Same

\* Setting a timer keeps the types.
LEMMA TimerTypes ==
  ASSUME TypeOK, NEW t \in Timer
  PROVE  WithTimer(t) \in [Timer -> 0 .. MaxArmed]
<1>1. armed[t] \in 0 .. MaxArmed /\ MaxArmed \in Nat
  BY Project1Assumption DEF TypeOK
<1>2. (IF armed[t] < MaxArmed THEN armed[t] + 1 ELSE armed[t]) \in 0 .. MaxArmed
  BY <1>1
<1>3. QED BY <1>2 DEF TypeOK, WithTimer

\* The heartbeat timer is set: the thread has done its part.
LEMMA BeatStep ==
  ASSUME Inv, NEW a \in Thread, DoArm(a), Head(todo[a]) = Beat
  PROVE  Inv' /\ (HeartbeatKept => HeartbeatKept')
<1>1. /\ todo[a] # <<>> /\ Advance(a) /\ "heartbeat" \in Timer
      /\ armed' = WithTimer("heartbeat") /\ up' = up
  BY DEF DoArm, Doing, Beat, Arm, Timer
<1>2. Guarded(todo[a]) /\ ~Harmless(todo[a])
  <2>1. Head(todo[a]) = todo[a][1] /\ 1 \in 1 .. Len(todo[a])
    BY <1>1 DEF Inv, TypeOK
  <2>2. QED BY <2>1 DEF Inv, Disciplined, Harmless, Quiet
<1>3. Harmless(Tail(todo[a])) /\ Tail(todo[a]) \in Seq(Op)
  BY <1>1, <1>2, Tails, Shapes
<1>4. a \notin Tasks BY <1>2 DEF Inv, Disciplined
<1>5. /\ todo' \in [Thread -> Seq(Op)] /\ todo'[a] = Tail(todo[a])
      /\ \A b \in Thread \ {a} : todo'[b] = todo[b]
  BY <1>1, <1>3 DEF Inv, TypeOK, Advance
<1>6. Disciplined' BY <1>3, <1>4, <1>5, Primed, Threads DEF Inv, Disciplined
<1>7. armed' \in [Timer -> 0 .. MaxArmed]
  BY <1>1, TimerTypes DEF Inv
<1>8. TypeOK' BY <1>5, <1>7 DEF Inv, TypeOK, DoArm
<1>9. Ended' BY <1>1, Busy, Running
<1>10. ASSUME HeartbeatKept PROVE HeartbeatKept'
  <2>1. Rearming(a) /\ up[MAIN] BY <1>1, <1>2, Roles, Busy
  <2>2. armed["heartbeat"] = 0 /\ \A b \in Thread : Rearming(b) => b = a
    BY <1>10, <2>1 DEF HeartbeatKept
  <2>3. armed'["heartbeat"] = 1
    BY <1>1, <2>2, Project1Assumption DEF WithTimer, Inv, TypeOK
  <2>4. ~Rearming(a)'
    BY <1>3, <1>5 DEF Rearming, Harmless, Quiet, Beat
  <2>5. ASSUME NEW b \in Thread, b # a PROVE ~Rearming(b)'
    <3>1. ~Rearming(b) BY <2>2, <2>5
    <3>2. QED BY <1>5, <2>5, <3>1 DEF Rearming
  <2>6. \A b \in Thread : ~Rearming(b)' BY <2>4, <2>5
  <2>7. QED BY <2>3, <2>6 DEF HeartbeatKept
<1>11. QED BY <1>6, <1>8, <1>9, <1>10 DEF Inv

\* Another timer is set.
LEMMA OtherTimerStep ==
  ASSUME Inv, NEW a \in Thread, DoArm(a), Head(todo[a]) # Beat
  PROVE  Inv' /\ Same
<1> DEFINE t == Head(todo[a]).timer
<1>1. /\ todo[a] # <<>> /\ Advance(a) /\ t \in Timer
      /\ armed' = WithTimer(t) /\ up' = up
  BY Heads DEF DoArm, Doing, Inv
<1>2. t # "heartbeat"
  <2>1. Head(todo[a]) \in Op /\ Head(todo[a]).op = "arm"
    BY <1>1, Heads DEF DoArm, Doing, Inv
  <2>2. Head(todo[a]) = Arm(t) BY <2>1 DEF Op, Arm
  <2>3. QED BY <2>2 DEF Beat
<1>3. /\ todo' \in [Thread -> Seq(Op)] /\ Disciplined'
      /\ \A b \in Thread : Rearming(b)' <=> Rearming(b)
  BY <1>1, Advancing DEF Inv
<1>4. armed' \in [Timer -> 0 .. MaxArmed] BY <1>1, TimerTypes DEF Inv
<1>5. armed'["heartbeat"] = armed["heartbeat"]
  BY <1>1, <1>2 DEF WithTimer, Inv, TypeOK, Timer
<1>6. TypeOK' BY <1>3, <1>4 DEF Inv, TypeOK, DoArm
<1>7. Ended' BY <1>1, Busy, Running
<1>8. QED BY <1>1, <1>3, <1>5, <1>6, <1>7 DEF Inv, Same

\* A library call fails.  Here the heartbeat may be lost, or doubled.
LEMMA ArmFailsStep ==
  ASSUME Inv, NEW a \in Thread, ArmFails(a)
  PROVE  Inv'
<1>1. todo[a] # <<>> /\ up' = up /\ faults' \in 0 .. MaxFaults
  BY Project1Assumption DEF ArmFails, Doing, Fault, Inv, TypeOK
<1>2. Harmless(Log) /\ Harmless(Log \o Log)
  BY LogHarmless, HarmlessConcat
<1>3. PICK s \in {Log, Log \o Log} : Instead(a, s)
  BY DEF ArmFails
<1>4. /\ Harmless(todo[a]) => Harmless(s \o Tail(todo[a]))
      /\ Guarded(todo[a]) => Harmless(s \o Tail(todo[a]))
                              \/ Guarded(s \o Tail(todo[a]))
  BY <1>1, <1>2, Tails, HarmlessConcat, HarmlessQuiet, QuietGuarded
<1>5. s \o Tail(todo[a]) \in Seq(Op)
  BY <1>4, Shapes DEF Inv, Disciplined
<1>6. /\ todo' \in [Thread -> Seq(Op)] /\ todo'[a] = s \o Tail(todo[a])
      /\ \A b \in Thread \ {a} : todo'[b] = todo[b]
  BY <1>3, <1>5 DEF Inv, TypeOK, Instead
<1>7. Disciplined' BY <1>4, <1>6, Primed, Threads DEF Inv, Disciplined
<1>8. armed' \in [Timer -> 0 .. MaxArmed]
  BY TimerTypes DEF ArmFails, Inv, TypeOK
<1>9. TypeOK' BY <1>1, <1>6, <1>8 DEF Inv, TypeOK, ArmFails
<1>10. Ended' BY <1>1, Busy, Running
<1>11. QED BY <1>7, <1>9, <1>10 DEF Inv

\* A task that is cancelled leaves at most one thread more in its handler.
LEMMA DyingTypes ==
  ASSUME TypeOK, NEW t \in Tasks, Dying(t) <= MaxDying
  PROVE  Dying(t) \in 0 .. MaxDying
BY Project1Assumption DEF TypeOK, Dying

\* Thread a goes on with s after the operation that cancels task t, whose
\* new script is r: what the three operations that cancel have in common.
LEMMA Cancelling ==
  ASSUME TypeOK, Disciplined, NEW a \in Thread, NEW t \in Tasks,
         NEW s, NEW r, todo[a] # <<>>, Head(todo[a]) # Beat,
         Harmless(todo[a]) => Harmless(s), Quiet(s), Harmless(r),
         \/ todo' = [todo EXCEPT ![a] = s \o Tail(@), ![t] = r]
         \/ s = <<>> /\ todo' = [todo EXCEPT ![a] = Tail(@), ![t] = r]
  PROVE  /\ todo' \in [Thread -> Seq(Op)]
         /\ Disciplined'
         /\ \A b \in Thread : Rearming(b)' <=> Rearming(b)
<1> DEFINE w == IF s = <<>> THEN Tail(todo[a]) ELSE s \o Tail(todo[a])
<1>1. /\ Harmless(todo[a]) => Harmless(w) /\ Harmless(s \o Tail(todo[a]))
      /\ Guarded(todo[a]) => Guarded(w) /\ Guarded(s \o Tail(todo[a]))
  BY Tails, HarmlessConcat, QuietGuarded
<1>2. t \in Thread /\ Harmless(todo[t]) /\ ~Guarded(todo[t])
  BY Threads, Roles DEF Disciplined
<1>3. Tail(todo[a]) \in Seq(Op) /\ s \o Tail(todo[a]) \in Seq(Op) /\ r \in Seq(Op)
  <2>1. s \o Tail(todo[a]) \in Seq(Op) BY <1>1, Shapes DEF Disciplined
  <2>2. QED BY <2>1, Shapes DEF TypeOK
<1>4. todo' \in [Thread -> Seq(Op)]
  BY <1>2, <1>3 DEF TypeOK
<1>5. /\ todo'[t] = r
      /\ a # t => todo'[a] \in {s \o Tail(todo[a]), w}
      /\ \A b \in Thread \ {a, t} : todo'[b] = todo[b]
  BY <1>2 DEF TypeOK
<1>6. ASSUME NEW b \in Thread
      PROVE  /\ Harmless(todo[b]) => Harmless(todo'[b])
             /\ Guarded(todo[b]) => Guarded(todo'[b])
  <2>1. CASE b = t BY <1>2, <1>5, <2>1
  <2>2. CASE b # t /\ b = a BY <1>1, <1>5, <2>2
  <2>3. CASE b # t /\ b # a BY <1>5, <2>3
  <2>4. QED BY <2>1, <2>2, <2>3
<1>7. QED BY <1>4, <1>6, Keeping

LEMMA RestartStep ==
  ASSUME Inv, NEW a \in Thread, DoRestart(a)
  PROVE  Inv' /\ Same
<1> DEFINE t == Head(todo[a]).task
<1>1. /\ todo[a] # <<>> /\ Head(todo[a]).op = "restart" /\ t \in Tasks
      /\ Head(todo[a]) # Beat
  BY Heads DEF DoRestart, Doing, Inv
<1>2. ~Harmless(todo[a]) BY <1>1, Examiner DEF Inv, Examines
<1>3. Quiet(AfterCreate(t))
  <2>1. Quiet(<<Initialize(t)>>)
    BY <1>1, Sending, Packets, Threads, HarmlessQuiet DEF Initialize
  <2>2. Quiet(IF t = LOG THEN Log ELSE <<>>)
    BY LogHarmless, Singletons, HarmlessQuiet
  <2>3. QED BY <2>1, <2>2, QuietConcat DEF AfterCreate
<1>4. Harmless(TaskStart(t)) BY <1>1, TaskStartHarmless
<1>5. todo' = [todo EXCEPT ![a] = AfterCreate(t) \o Tail(@), ![t] = TaskStart(t)]
  BY DEF DoRestart
<1>6. /\ todo' \in [Thread -> Seq(Op)] /\ Disciplined'
      /\ \A b \in Thread : Rearming(b)' <=> Rearming(b)
  BY <1>1, <1>2, <1>3, <1>4, <1>5, Cancelling DEF Inv
<1>7. dying' \in 0 .. MaxDying
  BY <1>1, DyingTypes DEF DoRestart, Inv
<1>8. up' \in [Owner -> BOOLEAN] /\ up'[MAIN] = up[MAIN]
  BY <1>1, Threads DEF DoRestart, Inv, TypeOK
<1>9. TypeOK' BY <1>6, <1>7, <1>8 DEF Inv, TypeOK, DoRestart
<1>10. Ended' BY <1>1, <1>8, Busy, Running
<1>11. QED BY <1>6, <1>8, <1>9, <1>10 DEF Inv, Same, DoRestart

LEMMA RestartFailsStep ==
  ASSUME Inv, NEW a \in Thread, RestartFails(a)
  PROVE  Inv' /\ Same
<1> DEFINE t == Head(todo[a]).task
<1>1. /\ todo[a] # <<>> /\ Head(todo[a]).op = "restart" /\ t \in Tasks
      /\ Head(todo[a]) # Beat
  BY Heads DEF RestartFails, Doing, Inv
<1>2. Harmless(Log) /\ Quiet(Log) /\ Harmless(<<>>)
  BY LogHarmless, HarmlessQuiet, Singletons
<1>3. todo' = [todo EXCEPT ![a] = Log \o Tail(@), ![t] = <<>>]
  BY DEF RestartFails
<1>4. /\ todo' \in [Thread -> Seq(Op)] /\ Disciplined'
      /\ \A b \in Thread : Rearming(b)' <=> Rearming(b)
  BY <1>1, <1>2, <1>3, Cancelling DEF Inv
<1>5. dying' \in 0 .. MaxDying /\ faults' \in 0 .. MaxFaults
  <2>1. dying' \in 0 .. MaxDying
    BY <1>1, DyingTypes DEF RestartFails, Inv
  <2>2. faults' \in 0 .. MaxFaults
    BY Project1Assumption DEF RestartFails, Fault, Inv, TypeOK
  <2>3. QED BY <2>1, <2>2
<1>6. up' \in [Owner -> BOOLEAN] /\ up'[MAIN] = up[MAIN]
  BY <1>1, Threads DEF RestartFails, Inv, TypeOK
<1>7. TypeOK' BY <1>4, <1>5, <1>6 DEF Inv, TypeOK, RestartFails
<1>8. Ended' BY <1>1, <1>6, Busy, Running
<1>9. QED BY <1>4, <1>6, <1>7, <1>8 DEF Inv, Same, RestartFails

LEMMA CancelStep ==
  ASSUME Inv, NEW a \in Thread, DoCancel(a)
  PROVE  Inv' /\ Same
<1> DEFINE t == Head(todo[a]).task
<1>1. /\ todo[a] # <<>> /\ Head(todo[a]).op = "cancel" /\ t \in Tasks
      /\ Head(todo[a]) # Beat
  BY Heads DEF DoCancel, Doing, Inv
<1>2. Harmless(<<>>) /\ Quiet(<<>>) BY HarmlessQuiet, Singletons
<1>3. todo' = [todo EXCEPT ![a] = Tail(@), ![t] = <<>>]
  BY DEF DoCancel
<1>4. /\ todo' \in [Thread -> Seq(Op)] /\ Disciplined'
      /\ \A b \in Thread : Rearming(b)' <=> Rearming(b)
  BY <1>1, <1>2, <1>3, Cancelling DEF Inv
<1>5. dying' \in 0 .. MaxDying
  BY <1>1, DyingTypes DEF DoCancel, Inv
<1>6. up' \in [Owner -> BOOLEAN] /\ up'[MAIN] = up[MAIN]
  BY <1>1, Threads DEF DoCancel, Inv, TypeOK
<1>7. TypeOK' BY <1>4, <1>5, <1>6 DEF Inv, TypeOK, DoCancel
<1>8. Ended' BY <1>1, <1>6, Busy, Running
<1>9. QED BY <1>4, <1>6, <1>7, <1>8 DEF Inv, Same, DoCancel

\* The process ends: by main_exit, or because it is killed.
LEMMA EndStep ==
  ASSUME Inv, ProcessEnds
  PROVE  Inv' /\ HeartbeatKept'
<1>1. /\ up' = [a \in Owner |-> FALSE] /\ todo' = [a \in Thread |-> <<>>]
      /\ armed' = [t \in Timer |-> 0] /\ dying' = 0
  BY DEF ProcessEnds, NothingArmed
<1>2. TypeOK'
  <2>1. todo' \in [Thread -> Seq(Op)] BY <1>1
  <2>2. armed' \in [Timer -> 0 .. MaxArmed] /\ dying' \in 0 .. MaxDying
    BY <1>1, Project1Assumption
  <2>3. up' \in [Owner -> BOOLEAN] BY <1>1
  <2>4. QED BY <2>1, <2>2, <2>3 DEF Inv, TypeOK, ProcessEnds
<1>3. Disciplined' BY <1>1, Singletons, Primed, Threads
<1>4. Ended' BY <1>1 DEF Ended
<1>5. HeartbeatKept' BY <1>1, Threads DEF HeartbeatKept
<1>6. QED BY <1>2, <1>3, <1>4, <1>5 DEF Inv

\* The command loops.
LEMMA TaskReceiveStep ==
  ASSUME Inv, NEW t \in Tasks, TaskReceive(t)
  PROVE  Inv' /\ Same
<1>1. /\ queue' \in [Owner -> Seq(Packet)]
      /\ \A r \in Owner : Len(queue'[r]) <= MaxMsgs
      /\ Head(queue[t]) \in Packet
  BY Taking, Threads DEF Inv, TaskReceive
<1>2. PICK s \in TaskHandlers(t, Head(queue[t])) :
        todo' = [todo EXCEPT ![t] = s]
  BY DEF TaskReceive
<1>3. Harmless(s) BY <1>1, HandlersHarmless
<1>4. /\ todo' \in [Thread -> Seq(Op)] /\ Disciplined'
      /\ \A b \in Thread : Rearming(b)' <=> Rearming(b)
  BY <1>2, <1>3, Beginning, Threads DEF Inv, TaskReceive
<1>5. TypeOK' BY <1>1, <1>4 DEF Inv, TypeOK, TaskReceive
<1>6. up[MAIN] BY Threads DEF TaskReceive, Inv, Ended
<1>7. Ended' BY <1>6, Running DEF TaskReceive
<1>8. QED BY <1>4, <1>5, <1>7 DEF Inv, Same, TaskReceive

LEMMA TaskKillStep ==
  ASSUME Inv, NEW t \in Tasks, TaskKill(t)
  PROVE  Inv' /\ Same
<1>1. /\ queue' \in [Owner -> Seq(Packet)]
      /\ \A r \in Owner : Len(queue'[r]) <= MaxMsgs
  BY Taking, Threads DEF Inv, TaskKill
<1>2. \A b \in Thread : Rearming(b)' <=> Rearming(b)
  BY DEF TaskKill, Rearming
<1>3. Disciplined' BY Primed DEF TaskKill, Inv, Disciplined
<1>4. up' \in [Owner -> BOOLEAN] /\ up'[MAIN] = up[MAIN]
  BY Threads DEF TaskKill, Inv, TypeOK
<1>5. dying' \in 0 .. MaxDying BY DyingTypes DEF TaskKill, Inv
<1>6. TypeOK' BY <1>1, <1>4, <1>5 DEF Inv, TypeOK, TaskKill
<1>7. up[MAIN] BY Threads DEF TaskKill, Inv, Ended
<1>8. Ended' BY <1>4, <1>7, Running
<1>9. QED BY <1>2, <1>3, <1>4, <1>6, <1>8 DEF Inv, Same, TaskKill

LEMMA MainReceiveStep ==
  ASSUME Inv, MainReceive
  PROVE  Inv' /\ Same
<1> DEFINE m == Head(queue[MAIN])
<1>1. /\ queue' \in [Owner -> Seq(Packet)]
      /\ \A r \in Owner : Len(queue'[r]) <= MaxMsgs
      /\ m \in Packet
  BY Taking, Threads DEF Inv, MainReceive
<1>2. Harmless(MainHandler(m)) BY <1>1, HandlersHarmless
<1>3. todo' = [todo EXCEPT ![MAIN] = MainHandler(m)] BY DEF MainReceive
<1>4. /\ todo' \in [Thread -> Seq(Op)] /\ Disciplined'
      /\ \A b \in Thread : Rearming(b)' <=> Rearming(b)
  BY <1>2, <1>3, Beginning, Threads DEF Inv, MainReceive
<1>5. main_alive' \in [Tasks -> BOOLEAN]
  BY DEF MainReceive, Inv, TypeOK
<1>6. TypeOK' BY <1>1, <1>4, <1>5 DEF Inv, TypeOK, MainReceive
<1>7. Ended' BY Running DEF MainReceive
<1>8. QED BY <1>4, <1>6, <1>7 DEF Inv, Same, MainReceive

\* A timer other than the heartbeat's expires.
LEMMA ExpireStep ==
  ASSUME Inv, NEW t \in Timer \ {"heartbeat"}, Expire(t)
  PROVE  Inv' /\ Same
<1>1. PICK x \in Spare, s \in Callback(t) :
        Idle(x) /\ todo' = [todo EXCEPT ![x] = s]
  BY DEF Expire
<1>2. Harmless(s) BY <1>1, CallbacksHarmless
<1>3. /\ todo' \in [Thread -> Seq(Op)] /\ Disciplined'
      /\ \A b \in Thread : Rearming(b)' <=> Rearming(b)
  BY <1>1, <1>2, Beginning, Threads DEF Inv
<1>4. armed' \in [Timer -> 0 .. MaxArmed]
      /\ armed'["heartbeat"] = armed["heartbeat"]
  <2>1. armed[t] \in 0 .. MaxArmed /\ armed[t] > 0
    BY DEF Expire, Inv, TypeOK
  <2>2. armed[t] - 1 \in 0 .. MaxArmed BY <2>1, Project1Assumption
  <2>3. QED BY <2>2 DEF Expire, Inv, TypeOK, Timer
<1>5. TypeOK' BY <1>3, <1>4 DEF Inv, TypeOK, Expire
<1>6. up[MAIN] BY DEF Expire, Inv, Ended
<1>7. Ended' BY <1>6, Running DEF Expire
<1>8. QED BY <1>3, <1>4, <1>5, <1>7 DEF Inv, Same, Expire

\* The heartbeat timer expires: the thread of the callback has to set it.
LEMMA HeartbeatStep ==
  ASSUME Inv, Expire("heartbeat")
  PROVE  Inv' /\ (HeartbeatKept => HeartbeatKept')
<1>1. PICK x \in Spare : Idle(x) /\ todo' = [todo EXCEPT ![x] = HeartbeatScript]
  BY DEF Expire, Callback
<1>2. Guarded(HeartbeatScript) /\ HeartbeatScript \in Seq(Op)
  BY HeartbeatGuarded, Shapes
<1>3. x \in Thread /\ x \notin Tasks BY <1>1, Threads
<1>4. /\ todo' \in [Thread -> Seq(Op)] /\ todo'[x] = HeartbeatScript
      /\ \A b \in Thread \ {x} : todo'[b] = todo[b]
  BY <1>1, <1>2, <1>3 DEF Inv, TypeOK
<1>5. Disciplined'
  BY <1>2, <1>3, <1>4, Primed, Threads DEF Inv, Disciplined
<1>6. armed["heartbeat"] \in 1 .. MaxArmed /\ "heartbeat" \in Timer
      /\ armed' = [armed EXCEPT !["heartbeat"] = @ - 1] /\ up' = up
  BY DEF Expire, Inv, TypeOK, Timer
<1>7. armed' \in [Timer -> 0 .. MaxArmed]
      /\ armed'["heartbeat"] = armed["heartbeat"] - 1
  <2>1. armed["heartbeat"] - 1 \in 0 .. MaxArmed
    BY <1>6, Project1Assumption
  <2>2. QED BY <1>6, <2>1 DEF Inv, TypeOK
<1>8. TypeOK' BY <1>4, <1>7 DEF Inv, TypeOK, Expire
<1>9. up[MAIN] BY <1>6 DEF Inv, Ended
<1>10. Ended' BY <1>6, <1>9, Running
<1>11. ASSUME HeartbeatKept PROVE HeartbeatKept'
  <2>1. armed["heartbeat"] = 1 /\ \A b \in Thread : ~Rearming(b)
    BY <1>6, <1>9, <1>11 DEF HeartbeatKept
  <2>2. armed'["heartbeat"] = 0 BY <1>7, <2>1
  <2>3. Rearming(x)'
    BY <1>2, <1>4 DEF Rearming, Guarded, Beat
  <2>4. ASSUME NEW b \in Thread, b # x PROVE ~Rearming(b)'
    <3>1. ~Rearming(b) BY <2>1
    <3>2. QED BY <1>4, <2>4, <3>1 DEF Rearming
  <2>5. \A b \in Thread : Rearming(b)' <=> b = x BY <2>3, <2>4
  <2>6. QED BY <1>3, <2>2, <2>5 DEF HeartbeatKept
<1>12. QED BY <1>5, <1>8, <1>10, <1>11 DEF Inv

\* A record of an exit handler, a command of another process.
LEMMA LastRecordStep ==
  ASSUME Inv, LastRecord
  PROVE  Inv' /\ Same
<1>1. /\ queue' \in [Owner -> Seq(Packet)]
      /\ \A r \in Owner : Len(queue'[r]) <= MaxMsgs
  <2>1. CASE LOG \in Tasks
    BY <2>1, Putting, Packets, Threads DEF LastRecord, Inv
  <2>2. CASE LOG \notin Tasks
    BY <2>2 DEF LastRecord, Inv, TypeOK
  <2>3. QED BY <2>1, <2>2
<1>2. \A b \in Thread : Rearming(b)' <=> Rearming(b)
  BY DEF LastRecord, Rearming
<1>3. Disciplined' BY Primed DEF LastRecord, Inv, Disciplined
<1>4. dying' \in 0 .. MaxDying
  BY Project1Assumption DEF LastRecord, Inv, TypeOK
<1>5. TypeOK' BY <1>1, <1>4 DEF Inv, TypeOK, LastRecord
<1>6. Ended' BY DEF LastRecord, Inv, Ended
<1>7. QED BY <1>2, <1>3, <1>5, <1>6 DEF Inv, Same, LastRecord

LEMMA ClientSendStep ==
  ASSUME Inv, NEW q \in Owner, NEW c \in Cmd, ClientSend(q, c)
  PROVE  Inv' /\ Same
<1>1. /\ queue' \in [Owner -> Seq(Packet)]
      /\ \A r \in Owner : Len(queue'[r]) <= MaxMsgs
  BY Putting, Packets DEF ClientSend, Inv
<1>2. \A b \in Thread : Rearming(b)' <=> Rearming(b)
  BY DEF ClientSend, Rearming
<1>3. Disciplined' BY Primed DEF ClientSend, Inv, Disciplined
<1>4. faults' \in 0 .. MaxFaults
  BY Project1Assumption DEF ClientSend, Fault, Inv, TypeOK
<1>5. TypeOK' BY <1>1, <1>4 DEF Inv, TypeOK, ClientSend
<1>6. Ended' BY DEF ClientSend, Inv, Ended
<1>7. QED BY <1>2, <1>3, <1>5, <1>6 DEF Inv, Same, ClientSend

\* When the program starts, main has to set the timer.
LEMMA Starting ==
  /\ FirstSteps \in [Thread -> Seq(Op)]
  /\ Guarded(FirstSteps[MAIN])
  /\ \A a \in Thread \ {MAIN} : Harmless(FirstSteps[a])
<1>1. /\ FirstSteps[MAIN] = Startup
      /\ \A t \in Tasks : FirstSteps[t] = TaskStart(t)
      /\ \A x \in Spare : FirstSteps[x] = <<>>
  BY Threads DEF FirstSteps, Owner
<1>2. \A a \in Thread \ {MAIN} : a \in Tasks \/ a \in Spare
  BY DEF Thread, Owner
<1>3. \A a \in Thread \ {MAIN} : Harmless(FirstSteps[a])
  BY <1>1, <1>2, TaskStartHarmless, Singletons
<1>4. Guarded(FirstSteps[MAIN]) BY <1>1, StartupGuarded
<1>5. \A a \in Thread : FirstSteps[a] \in Seq(Op)
  BY <1>3, <1>4, Shapes
<1>6. QED BY <1>3, <1>4, <1>5 DEF FirstSteps

LEMMA RelaunchStep ==
  ASSUME Inv, Relaunch
  PROVE  Inv' /\ HeartbeatKept'
<1>1. todo' = FirstSteps /\ up' = [a \in Owner |-> TRUE] /\ armed' = armed
      /\ \A t \in Timer : armed[t] = 0
  BY DEF Relaunch, Inv, Ended
<1>2. Disciplined' BY <1>1, Starting, Primed, Threads
<1>3. launches' \in 1 .. MaxLaunches
  BY Project1Assumption DEF Relaunch, Inv, TypeOK
<1>4. /\ todo' \in [Thread -> Seq(Op)] /\ up' \in [Owner -> BOOLEAN]
      /\ main_alive' \in [Tasks -> BOOLEAN] /\ missed' \subseteq Tasks
  BY <1>1, Starting DEF Relaunch
<1>5. TypeOK' BY <1>3, <1>4 DEF Relaunch, Inv, TypeOK
<1>6. Ended' BY <1>1, Threads DEF Ended
<1>7. armed'["heartbeat"] = 0 BY <1>1 DEF Timer
<1>8. Rearming(MAIN)'
  BY <1>1, Starting DEF Rearming, Guarded, Beat
<1>9. ASSUME NEW b \in Thread, b # MAIN PROVE ~Rearming(b)'
  BY <1>1, <1>9, Starting DEF Rearming, Harmless, Quiet, Beat
<1>10. \A b \in Thread : Rearming(b)' <=> b = MAIN BY <1>8, <1>9
<1>11. HeartbeatKept' BY <1>7, <1>10, Threads DEF HeartbeatKept
<1>12. QED BY <1>2, <1>5, <1>6, <1>11 DEF Inv

-----------------------------------------------------------------------------
(* The theorems.                                                           *)

LEMMA Initially == Init => Inv /\ HeartbeatKept
<1> SUFFICES ASSUME Init PROVE Inv /\ HeartbeatKept
  OBVIOUS
<1>1. todo = FirstSteps /\ up = [a \in Owner |-> TRUE]
      /\ \A t \in Timer : armed[t] = 0
  BY DEF Init, NothingArmed
<1>2. TypeOK
  <2>1. /\ queue \in [Owner -> Seq(Packet)]
        /\ \A q \in Owner : Len(queue[q]) <= MaxMsgs
    BY Project1Assumption DEF Init
  <2>2. armed \in [Timer -> 0 .. MaxArmed] /\ dying \in 0 .. MaxDying
        /\ launches \in 1 .. MaxLaunches /\ faults \in 0 .. MaxFaults
    BY Project1Assumption DEF Init, NothingArmed
  <2>3. QED BY <1>1, <2>1, <2>2, Starting DEF Init, TypeOK
<1>3. Disciplined BY <1>1, Starting, Threads DEF Disciplined
<1>4. Ended BY <1>1, Threads DEF Ended
<1>5. Rearming(MAIN) BY <1>1, Starting, Roles
<1>6. ASSUME NEW b \in Thread, b # MAIN PROVE ~Rearming(b)
  BY <1>1, <1>6, Starting, Roles
<1>7. \A b \in Thread : Rearming(b) <=> b = MAIN BY <1>5, <1>6
<1>8. armed["heartbeat"] = 0 BY <1>1 DEF Timer
<1>9. HeartbeatKept BY <1>7, <1>8, Threads DEF HeartbeatKept
<1>10. QED BY <1>2, <1>3, <1>4, <1>9 DEF Inv

\* Every step keeps the invariant, and every step but a failing library call
\* of a timer keeps the heartbeat.
LEMMA Inductive ==
  Inv /\ [Next]_vars =>
    Inv' /\ ("timer" \notin MayFail /\ HeartbeatKept => HeartbeatKept')
<1> SUFFICES ASSUME Inv, [Next]_vars
             PROVE  Inv' /\ ("timer" \notin MayFail /\ HeartbeatKept => HeartbeatKept')
  OBVIOUS
<1>1. ASSUME NEW a \in Thread, Step(a)
      PROVE  Inv' /\ ("timer" \notin MayFail /\ HeartbeatKept => HeartbeatKept')
  <2>1. CASE DoSend(a) BY <2>1, SendStep, SameKept
  <2>2. CASE DoArm(a) BY <2>2, BeatStep, OtherTimerStep, SameKept
  <2>3. CASE ArmFails(a) BY <2>3, ArmFailsStep DEF ArmFails
  <2>4. CASE DoCheck(a) BY <2>4, CheckStep, SameKept
  <2>5. CASE DoReset(a) BY <2>5, ResetStep, SameKept
  <2>6. CASE DoRestart(a) BY <2>6, RestartStep, SameKept
  <2>7. CASE RestartFails(a) BY <2>7, RestartFailsStep, SameKept
  <2>8. CASE DoCancel(a) BY <2>8, CancelStep, SameKept
  <2>9. CASE DoExit(a) BY <2>9, EndStep DEF DoExit
  <2>10. QED
    BY <1>1, <2>1, <2>2, <2>3, <2>4, <2>5, <2>6, <2>7, <2>8, <2>9 DEF Step
<1>2. ASSUME NEW t \in Tasks, TaskReceive(t) \/ TaskKill(t)
      PROVE  Inv' /\ (HeartbeatKept => HeartbeatKept')
  BY <1>2, TaskReceiveStep, TaskKillStep, SameKept
<1>3. CASE MainReceive BY <1>3, MainReceiveStep, SameKept
<1>4. ASSUME NEW t \in Timer, Expire(t)
      PROVE  Inv' /\ (HeartbeatKept => HeartbeatKept')
  BY <1>4, ExpireStep, HeartbeatStep, SameKept
<1>5. CASE LastRecord BY <1>5, LastRecordStep, SameKept
<1>6. ASSUME NEW q \in Owner, NEW c \in Cmd, ClientSend(q, c)
      PROVE  Inv' /\ (HeartbeatKept => HeartbeatKept')
  BY <1>6, ClientSendStep, SameKept
<1>7. CASE Crash BY <1>7, EndStep DEF Crash
<1>8. CASE Relaunch BY <1>8, RelaunchStep
<1>9. CASE UNCHANGED vars
  <2>1. Disciplined' BY <1>9, Primed DEF vars, Inv, Disciplined
  <2>2. TypeOK' /\ Ended' BY <1>9 DEF vars, Inv, TypeOK, Ended
  <2>3. HeartbeatKept => HeartbeatKept'
    BY <1>9 DEF vars, HeartbeatKept, Rearming
  <2>4. QED BY <2>1, <2>2, <2>3 DEF Inv
<1>10. QED
  BY <1>1, <1>2, <1>3, <1>4, <1>5, <1>6, <1>7, <1>8, <1>9 DEF Next

\* Every variable keeps its type and no queue ever holds more than
\* MSG_MAXMSGS packets, whatever fails, and however often the program is
\* killed and started again.
THEOREM TypeCorrect == Spec => []TypeOK
<1>1. Init => Inv BY Initially
<1>2. Inv /\ [Next]_vars => Inv' BY Inductive
<1>3. Inv => TypeOK BY DEF Inv
<1>4. QED BY <1>1, <1>2, <1>3, PTL DEF Spec

\* As long as timer_create and timer_settime do not fail, the heartbeat is
\* neither lost nor doubled: for any tasks, queue capacity and number of
\* callback threads, whatever commands other processes send, and also if
\* tasks cannot be created again.
THEOREM HeartbeatIsKept ==
  ASSUME "timer" \notin MayFail
  PROVE  Spec => []HeartbeatKept
<1> DEFINE IInv == Inv /\ HeartbeatKept
<1>1. Init => IInv BY Initially
<1>2. IInv /\ [Next]_vars => IInv' BY Inductive
<1>3. IInv => HeartbeatKept OBVIOUS
<1>4. QED BY <1>1, <1>2, <1>3, PTL DEF Spec

\* Under the same assumption at most one thread examines, clears or restarts
\* tasks: main_alive and main_tasks need no lock against a second heartbeat.
THEOREM OneMonitorOnly ==
  ASSUME "timer" \notin MayFail
  PROVE  Spec => []OneMonitor
<1> DEFINE IInv == Inv /\ HeartbeatKept
<1>1. Init => IInv BY Initially
<1>2. IInv /\ [Next]_vars => IInv' BY Inductive
<1>3. IInv => OneMonitor
  <2> SUFFICES ASSUME Inv, HeartbeatKept, NEW a \in Thread, NEW b \in Thread,
                      Checking(a), Checking(b)
               PROVE  a = b
    BY DEF OneMonitor
  <2>1. Rearming(a) /\ Rearming(b) BY Roles DEF Inv, Disciplined
  <2>2. up[MAIN]
    <3>1. todo[a] # <<>> BY DEF Checking
    <3>2. QED BY <3>1, Busy
  <2>3. QED BY <2>1, <2>2 DEF HeartbeatKept
<1>4. QED BY <1>1, <1>2, <1>3, PTL DEF Spec

-----------------------------------------------------------------------------
(* The script of a heartbeat callback.  What examines a task is followed   *)
(* by a request to every task, and by checks of other tasks only.          *)

Watch(s) ==
  /\ s \in Seq(Op)
  /\ \A i \in 1 .. Len(s) : Examines(s[i]) =>
       /\ \A t \in Tasks : \E j \in 1 .. Len(s) : j > i /\ s[j] = Ask(t)
       /\ \A j \in 1 .. Len(s) : j > i /\ Examines(s[j]) =>
            s[j].op = "check" /\ s[j].task # s[i].task

Unwatchful(s) == s \in Seq(Op) /\ \A i \in 1 .. Len(s) : ~Examines(s[i])

-----------------------------------------------------------------------------
(* Watchful scripts.                                                       *)

LEMMA UnwatchfulWatch == \A s : Unwatchful(s) => Watch(s)
BY DEF Unwatchful, Watch

LEMMA HarmlessUnwatchful == \A s : Harmless(s) => Unwatchful(s)
BY DEF Harmless, Quiet, Unwatchful

\* What is left after the first operation.
LEMMA WatchTail ==
  ASSUME NEW s, s # <<>>
  PROVE  /\ Watch(s) => Watch(Tail(s))
         /\ Unwatchful(s) => Unwatchful(Tail(s))
<1>1. ASSUME s \in Seq(Op)
      PROVE  /\ Tail(s) \in Seq(Op) /\ Len(Tail(s)) = Len(s) - 1 /\ Len(s) \in Nat
             /\ \A i \in 1 .. Len(Tail(s)) : Tail(s)[i] = s[i + 1]
  BY <1>1
<1>2. ASSUME Unwatchful(s) PROVE Unwatchful(Tail(s))
  BY <1>1, <1>2 DEF Unwatchful
<1>3. ASSUME Watch(s) PROVE Watch(Tail(s))
  <2> DEFINE r == Tail(s)
  <2>1. r \in Seq(Op) BY <1>1, <1>3 DEF Watch
  <2>2. ASSUME NEW i \in 1 .. Len(r), Examines(r[i])
        PROVE  /\ \A t \in Tasks : \E j \in 1 .. Len(r) : j > i /\ r[j] = Ask(t)
               /\ \A j \in 1 .. Len(r) : j > i /\ Examines(r[j]) =>
                    r[j].op = "check" /\ r[j].task # r[i].task
    <3>1. i + 1 \in 1 .. Len(s) /\ r[i] = s[i + 1] /\ s \in Seq(Op)
      BY <1>1, <1>3 DEF Watch
    <3>2. ASSUME NEW t \in Tasks
          PROVE  \E j \in 1 .. Len(r) : j > i /\ r[j] = Ask(t)
      <4>1. PICK j \in 1 .. Len(s) : j > i + 1 /\ s[j] = Ask(t)
        BY <1>3, <2>2, <3>1 DEF Watch
      <4>2. j - 1 \in 1 .. Len(r) /\ j - 1 > i /\ r[j - 1] = Ask(t)
        BY <1>1, <3>1, <4>1
      <4>3. QED BY <4>2
    <3>3. ASSUME NEW j \in 1 .. Len(r), j > i, Examines(r[j])
          PROVE  r[j].op = "check" /\ r[j].task # r[i].task
      <4>1. j + 1 \in 1 .. Len(s) /\ j + 1 > i + 1 /\ r[j] = s[j + 1]
        BY <1>1, <3>1, <3>3
      <4>2. QED BY <1>3, <2>2, <3>1, <3>3, <4>1 DEF Watch
    <3>4. QED BY <3>2, <3>3
  <2>3. QED BY <2>1, <2>2 DEF Watch
<1>4. QED BY <1>2, <1>3

\* Operations that examine nothing may come before.
LEMMA WatchConcat ==
  ASSUME NEW u, NEW s, Unwatchful(u)
  PROVE  /\ Watch(s) => Watch(u \o s)
         /\ Unwatchful(s) => Unwatchful(u \o s)
<1>1. ASSUME s \in Seq(Op)
      PROVE  /\ u \o s \in Seq(Op) /\ Len(u \o s) = Len(u) + Len(s)
             /\ Len(u) \in Nat /\ Len(s) \in Nat
             /\ \A i \in 1 .. Len(u \o s) :
                  (u \o s)[i] = IF i <= Len(u) THEN u[i] ELSE s[i - Len(u)]
  BY <1>1 DEF Unwatchful
<1>2. ASSUME Unwatchful(s) PROVE Unwatchful(u \o s)
  BY <1>1, <1>2 DEF Unwatchful
<1>3. ASSUME Watch(s) PROVE Watch(u \o s)
  <2> DEFINE r == u \o s
             n == Len(u)
  <2>1. s \in Seq(Op) BY <1>3 DEF Watch
  <2>2. ASSUME NEW i \in 1 .. Len(r), Examines(r[i])
        PROVE  /\ \A t \in Tasks : \E j \in 1 .. Len(r) : j > i /\ r[j] = Ask(t)
               /\ \A j \in 1 .. Len(r) : j > i /\ Examines(r[j]) =>
                    r[j].op = "check" /\ r[j].task # r[i].task
    <3>1. i > n
      <4>1. i <= n => i \in 1 .. Len(u) /\ r[i] = u[i] BY <1>1, <2>1
      <4>2. QED BY <1>1, <2>1, <2>2, <4>1 DEF Unwatchful
    <3>2. i - n \in 1 .. Len(s) /\ r[i] = s[i - n]
      BY <1>1, <2>1, <3>1
    <3>3. ASSUME NEW t \in Tasks
          PROVE  \E j \in 1 .. Len(r) : j > i /\ r[j] = Ask(t)
      <4>1. PICK j \in 1 .. Len(s) : j > i - n /\ s[j] = Ask(t)
        BY <1>3, <2>2, <3>2 DEF Watch
      <4>2. j + n \in 1 .. Len(r) /\ j + n > i /\ r[j + n] = Ask(t)
        BY <1>1, <2>1, <4>1
      <4>3. QED BY <4>2
    <3>4. ASSUME NEW j \in 1 .. Len(r), j > i, Examines(r[j])
          PROVE  r[j].op = "check" /\ r[j].task # r[i].task
      <4>1. j - n \in 1 .. Len(s) /\ j - n > i - n /\ r[j] = s[j - n]
        BY <1>1, <2>1, <3>1, <3>4
      <4>2. QED BY <1>3, <2>2, <3>2, <3>4, <4>1 DEF Watch
    <3>5. QED BY <3>3, <3>4
  <2>3. QED BY <1>1, <2>1, <2>2 DEF Watch
<1>4. QED BY <1>2, <1>3

\* A watchful script still asks every task.
LEMMA WatchAsks ==
  ASSUME NEW s, Watch(s), ~Unwatchful(s), NEW t \in Tasks
  PROVE  \E j \in 1 .. Len(s) : s[j] = Ask(t)
BY DEF Watch, Unwatchful

\* An operation that examines a task may come first, if every task is asked
\* later, and what else is examined is checks of other tasks.
LEMMA WatchFirst ==
  ASSUME NEW o \in Op, Examines(o), NEW s, Watch(s),
         \A t \in Tasks : \E j \in 1 .. Len(s) : s[j] = Ask(t),
         \A j \in 1 .. Len(s) : Examines(s[j]) => s[j].op = "check" /\ s[j].task # o.task
  PROVE  Watch(<<o>> \o s)
<1> DEFINE r == <<o>> \o s
<1>1. /\ r \in Seq(Op) /\ Len(r) = Len(s) + 1 /\ Len(s) \in Nat /\ r[1] = o
      /\ \A i \in 2 .. Len(r) : r[i] = s[i - 1]
  BY DEF Watch
<1>2. ASSUME NEW i \in 1 .. Len(r), Examines(r[i])
      PROVE  /\ \A t \in Tasks : \E j \in 1 .. Len(r) : j > i /\ r[j] = Ask(t)
             /\ \A j \in 1 .. Len(r) : j > i /\ Examines(r[j]) =>
                  r[j].op = "check" /\ r[j].task # r[i].task
  <2>1. CASE i = 1
    <3>1. ASSUME NEW t \in Tasks PROVE \E j \in 1 .. Len(r) : j > i /\ r[j] = Ask(t)
      <4>1. PICK j \in 1 .. Len(s) : s[j] = Ask(t) OBVIOUS
      <4>2. j + 1 \in 1 .. Len(r) /\ j + 1 > i /\ r[j + 1] = Ask(t)
        BY <1>1, <2>1, <4>1
      <4>3. QED BY <4>2
    <3>2. ASSUME NEW j \in 1 .. Len(r), j > i, Examines(r[j])
          PROVE  r[j].op = "check" /\ r[j].task # r[i].task
      <4>1. j - 1 \in 1 .. Len(s) /\ r[j] = s[j - 1] BY <1>1, <2>1, <3>2
      <4>2. QED BY <1>1, <2>1, <3>2, <4>1
    <3>3. QED BY <3>1, <3>2
  <2>2. CASE i # 1
    <3>1. i - 1 \in 1 .. Len(s) /\ r[i] = s[i - 1] BY <1>1, <2>2
    <3>2. ASSUME NEW t \in Tasks PROVE \E j \in 1 .. Len(r) : j > i /\ r[j] = Ask(t)
      <4>1. PICK j \in 1 .. Len(s) : j > i - 1 /\ s[j] = Ask(t)
        BY <1>2, <3>1 DEF Watch
      <4>2. j + 1 \in 1 .. Len(r) /\ j + 1 > i /\ r[j + 1] = Ask(t)
        BY <1>1, <4>1
      <4>3. QED BY <4>2
    <3>3. ASSUME NEW j \in 1 .. Len(r), j > i, Examines(r[j])
          PROVE  r[j].op = "check" /\ r[j].task # r[i].task
      <4>1. j - 1 \in 1 .. Len(s) /\ j - 1 > i - 1 /\ r[j] = s[j - 1]
        BY <1>1, <2>2, <3>3
      <4>2. QED BY <1>2, <3>1, <3>3, <4>1 DEF Watch
    <3>4. QED BY <3>2, <3>3
  <2>3. QED BY <2>1, <2>2
<1>3. QED BY <1>1, <1>2 DEF Watch

\* What follows the first operation of a watchful script, if that examines.
LEMMA WatchHead ==
  ASSUME NEW s, Watch(s), s # <<>>, Examines(Head(s))
  PROVE  /\ \A t \in Tasks : \E j \in 1 .. Len(Tail(s)) : Tail(s)[j] = Ask(t)
         /\ \A j \in 1 .. Len(Tail(s)) : Examines(Tail(s)[j]) =>
              Tail(s)[j].op = "check" /\ Tail(s)[j].task # Head(s).task
<1>1. /\ s \in Seq(Op) /\ Len(Tail(s)) = Len(s) - 1 /\ Len(s) \in Nat /\ Len(s) >= 1
      /\ \A i \in 1 .. Len(Tail(s)) : Tail(s)[i] = s[i + 1]
      /\ Head(s) = s[1]
  BY DEF Watch
<1>2. ASSUME NEW t \in Tasks PROVE \E j \in 1 .. Len(Tail(s)) : Tail(s)[j] = Ask(t)
  <2>1. PICK j \in 1 .. Len(s) : j > 1 /\ s[j] = Ask(t) BY <1>1 DEF Watch
  <2>2. j - 1 \in 1 .. Len(Tail(s)) /\ Tail(s)[j - 1] = Ask(t) BY <1>1, <2>1
  <2>3. QED BY <2>2
<1>3. ASSUME NEW j \in 1 .. Len(Tail(s)), Examines(Tail(s)[j])
      PROVE  Tail(s)[j].op = "check" /\ Tail(s)[j].task # Head(s).task
  <2>1. j + 1 \in 1 .. Len(s) /\ j + 1 > 1 /\ Tail(s)[j] = s[j + 1] BY <1>1
  <2>2. QED BY <1>1, <1>3, <2>1 DEF Watch
<1>4. QED BY <1>2, <1>3

-----------------------------------------------------------------------------
(* The script of a round of the climate logic: what belongs to a round     *)
(* ends with setting the timer for the next one.                           *)

RoundOps == {Arm("logic"), Send(TEMP, Request("GETTEMP")), Send(LIGHT, Request("GETLUX"))}

Rounding(s) ==
  /\ s \in Seq(Op)
  /\ \A i \in 1 .. Len(s) : s[i] \in RoundOps =>
       /\ \E j \in 1 .. Len(s) : j >= i /\ s[j] = Arm("logic")
       /\ s[i] = Arm("logic") => \A j \in 1 .. Len(s) : j > i => s[j] \notin RoundOps

-----------------------------------------------------------------------------
(* The scripts of Project1.                                                *)

\* What single operations are not.
LEMMA Operations ==
  /\ \A q, m : m # Request("GETTEMP") /\ m # Request("GETLUX") => Send(q, m) \notin RoundOps
  /\ \A t : t # "logic" => Arm(t) \notin RoundOps
  /\ \A t : {Check(t), Reset(t), Restart(t), Cancel(t), Exit} \cap RoundOps = {}
  /\ \A q, m, t : Send(q, m) # Arm(t) /\ ~Examines(Send(q, m)) /\ ~Examines(Arm(t))
<1>1. \A q, m, t : Send(q, m) # Arm(t) /\ ~Examines(Send(q, m)) /\ ~Examines(Arm(t))
  BY DEF Send, Arm, Examines
<1>2. \A q, m : m # Request("GETTEMP") /\ m # Request("GETLUX") => Send(q, m) \notin RoundOps
  <2>1. \A q, m, r, n : Send(q, m) = Send(r, n) => m = n
    BY DEF Send
  <2>2. QED BY <1>1, <2>1 DEF RoundOps
<1>3. \A t : t # "logic" => Arm(t) \notin RoundOps
  BY <1>1 DEF RoundOps, Arm
<1>4. \A t : {Check(t), Reset(t), Restart(t), Cancel(t), Exit} \cap RoundOps = {}
  BY DEF RoundOps, Arm, Send, Check, Reset, Restart, Cancel, Exit
<1>5. QED BY <1>1, <1>2, <1>3, <1>4

\* Packets that main and the tasks send, and that are not requests of a round.
LEMMA OtherPackets ==
  /\ \A m : m \in {Request("INIT"), Request("ALIVE"), LogRecord} =>
       m # Request("GETTEMP") /\ m # Request("GETLUX")
  /\ \A t, c : Response(t, c) # Request("GETTEMP") /\ Response(t, c) # Request("GETLUX")
BY DEF Request, Response, LogRecord

\* The operations that appear in scripts are operations.
LEMMA OpTypes ==
  /\ \A q \in Owner, m \in Packet : Send(q, m) \in Op
  /\ \A t \in Timer : Arm(t) \in Op
  /\ \A t \in Tasks : {Check(t), Reset(t), Restart(t), Cancel(t)} \subseteq Op
  /\ Exit \in Op
BY DEF Op, Send, Arm, Check, Reset, Restart, Cancel, Exit

\* Every script but a round of the logic, and the start of main, is without
\* its operations.
Aside == Op \ RoundOps

LEMMA LogAside == Log \in Seq(Aside)
<1>1. LogRecord # Request("GETTEMP") /\ LogRecord # Request("GETLUX")
  BY OtherPackets
<1>2. LOG \in Tasks => Send(LOG, LogRecord) \in Op
  BY OpTypes, Packets DEF Owner
<1>3. LOG \in Tasks => Send(LOG, LogRecord) \in Aside
  BY <1>1, <1>2, Operations DEF Aside
<1>4. QED BY <1>3 DEF Log, Only

LEMMA LoopsAside ==
  /\ EachTask(Ask) \in Seq(Aside)
  /\ EachTask(Check) \in Seq(Aside)
  /\ EachTask(Cancel) \in Seq(Aside)
<1>1. \A t \in Tasks : Ask(t) \in Aside /\ Check(t) \in Aside /\ Cancel(t) \in Aside
  BY Operations, OtherPackets, OpTypes, Packets, Threads DEF Ask, Aside
<1>2. /\ \A t : Only(t, <<Ask(t)>>) \in Seq(Aside)
      /\ \A t : Only(t, <<Check(t)>>) \in Seq(Aside)
      /\ \A t : Only(t, <<Cancel(t)>>) \in Seq(Aside)
  BY <1>1 DEF Only
<1>3. EachTask(Ask) \in Seq(Aside) BY <1>2 DEF EachTask
<1>4. EachTask(Check) \in Seq(Aside) BY <1>2 DEF EachTask
<1>5. EachTask(Cancel) \in Seq(Aside) BY <1>2 DEF EachTask
<1>6. QED BY <1>3, <1>4, <1>5

LEMMA HeartbeatAside ==
  HeartbeatInit \in Seq(Aside) /\ HeartbeatScript \in Seq(Aside)
<1>1. <<Arm("heartbeat")>> \in Seq(Aside)
  BY Operations, OpTypes DEF Aside, Timer
<1>2. HeartbeatInit \in Seq(Aside) BY <1>1, LoopsAside DEF HeartbeatInit
<1>3. QED BY <1>2, LogAside, LoopsAside DEF HeartbeatScript

\* A round ends with setting its timer.
LEMMA RoundLast ==
  ASSUME NEW u, u \in Seq(Op), \A i \in 1 .. Len(u) : u[i] # Arm("logic")
  PROVE  /\ Rounding(u \o <<Arm("logic")>>)
         /\ \E i \in 1 .. Len(u \o <<Arm("logic")>>) :
              (u \o <<Arm("logic")>>)[i] = Arm("logic")
<1> DEFINE r == u \o <<Arm("logic")>>
           n == Len(u) + 1
<1>1. /\ r \in Seq(Op) /\ Len(r) = n /\ n \in Nat /\ n \in 1 .. Len(r)
      /\ r[n] = Arm("logic") /\ \A i \in 1 .. Len(r) : i # n => r[i] # Arm("logic")
  BY OpTypes DEF Timer
<1>2. \A i \in 1 .. Len(r) : \E j \in 1 .. Len(r) : j >= i /\ r[j] = Arm("logic")
  BY <1>1
<1>3. ASSUME NEW i \in 1 .. Len(r), r[i] = Arm("logic"),
             NEW j \in 1 .. Len(r), j > i
      PROVE  FALSE
  BY <1>1, <1>3
<1>4. Rounding(r) BY <1>1, <1>2, <1>3 DEF Rounding
<1>5. QED BY <1>1, <1>4

LEMMA RoundTail ==
  ASSUME NEW s, s # <<>>, Rounding(s)
  PROVE  /\ Rounding(Tail(s))
         /\ Head(s) = Arm("logic") =>
              \A i \in 1 .. Len(Tail(s)) : Tail(s)[i] \notin RoundOps
         /\ Head(s) # Arm("logic") /\ (\E i \in 1 .. Len(s) : s[i] \in RoundOps) =>
              \E i \in 1 .. Len(Tail(s)) : Tail(s)[i] \in RoundOps
<1> DEFINE r == Tail(s)
<1>1. /\ s \in Seq(Op) /\ r \in Seq(Op) /\ Len(r) = Len(s) - 1 /\ Len(s) \in Nat
      /\ Len(s) >= 1 /\ Head(s) = s[1]
      /\ \A i \in 1 .. Len(r) : i + 1 \in 1 .. Len(s) /\ r[i] = s[i + 1]
      /\ \A i \in 2 .. Len(s) : i - 1 \in 1 .. Len(r) /\ s[i] = r[i - 1]
  BY DEF Rounding
<1>2. ASSUME NEW i \in 1 .. Len(r), r[i] \in RoundOps
      PROVE  /\ \E j \in 1 .. Len(r) : j >= i /\ r[j] = Arm("logic")
             /\ r[i] = Arm("logic") => \A j \in 1 .. Len(r) : j > i => r[j] \notin RoundOps
  <2>1. PICK j \in 1 .. Len(s) : j >= i + 1 /\ s[j] = Arm("logic")
    BY <1>1, <1>2 DEF Rounding
  <2>2. j - 1 \in 1 .. Len(r) /\ j - 1 >= i /\ r[j - 1] = Arm("logic")
    BY <1>1, <2>1
  <2>3. ASSUME r[i] = Arm("logic"), NEW k \in 1 .. Len(r), k > i
        PROVE  r[k] \notin RoundOps
    <3>1. i + 1 \in 1 .. Len(s) /\ s[i + 1] = Arm("logic") /\ s[i + 1] \in RoundOps
          /\ k + 1 \in 1 .. Len(s) /\ k + 1 > i + 1 /\ r[k] = s[k + 1]
      BY <1>1, <1>2, <2>3
    <3>2. QED BY <3>1 DEF Rounding
  <2>4. QED BY <2>2, <2>3
<1>3. Rounding(r) BY <1>1, <1>2 DEF Rounding
<1>4. ASSUME Head(s) = Arm("logic"), NEW i \in 1 .. Len(r) PROVE r[i] \notin RoundOps
  <2>1. s[1] = Arm("logic") /\ s[1] \in RoundOps /\ 1 \in 1 .. Len(s)
        /\ i + 1 \in 1 .. Len(s) /\ i + 1 > 1
    BY <1>1, <1>4 DEF RoundOps
  <2>2. s[i + 1] \notin RoundOps BY <2>1 DEF Rounding
  <2>3. QED BY <1>1, <2>2
<1>5. ASSUME Head(s) # Arm("logic"), NEW i \in 1 .. Len(s), s[i] \in RoundOps
      PROVE  \E j \in 1 .. Len(r) : r[j] \in RoundOps
  <2>1. PICK j \in 1 .. Len(s) : s[j] = Arm("logic") BY <1>5 DEF Rounding
  <2>2. j \in 2 .. Len(s) BY <1>1, <1>5, <2>1
  <2>3. j - 1 \in 1 .. Len(r) /\ r[j - 1] \in RoundOps
    BY <1>1, <2>1, <2>2 DEF RoundOps
  <2>4. QED BY <2>3
<1>6. QED BY <1>3, <1>4, <1>5

LEMMA RoundConcat ==
  ASSUME NEW u \in Seq(Aside), NEW s, Rounding(s)
  PROVE  /\ Rounding(u \o s)
         /\ (\E i \in 1 .. Len(u \o s) : (u \o s)[i] \in RoundOps)
              <=> (\E i \in 1 .. Len(s) : s[i] \in RoundOps)
<1> DEFINE r == u \o s
           n == Len(u)
<1>1. /\ r \in Seq(Op) /\ Len(r) = n + Len(s) /\ n \in Nat /\ Len(s) \in Nat
      /\ \A i \in 1 .. n : i \in 1 .. Len(r) /\ r[i] \notin RoundOps
      /\ \A i \in 1 .. Len(r) : i > n => i - n \in 1 .. Len(s) /\ r[i] = s[i - n]
      /\ \A i \in 1 .. Len(s) : i + n \in 1 .. Len(r) /\ r[i + n] = s[i]
  BY DEF Aside, Rounding
<1>2. ASSUME NEW i \in 1 .. Len(r), r[i] \in RoundOps
      PROVE  /\ \E j \in 1 .. Len(r) : j >= i /\ r[j] = Arm("logic")
             /\ r[i] = Arm("logic") => \A j \in 1 .. Len(r) : j > i => r[j] \notin RoundOps
  <2>0. i > n BY <1>1, <1>2
  <2>1. i - n \in 1 .. Len(s) /\ r[i] = s[i - n] BY <1>1, <2>0
  <2>2. PICK j \in 1 .. Len(s) : j >= i - n /\ s[j] = Arm("logic")
    BY <1>2, <2>1 DEF Rounding
  <2>3. j + n \in 1 .. Len(r) /\ j + n >= i /\ r[j + n] = Arm("logic")
    BY <1>1, <2>2
  <2>4. ASSUME r[i] = Arm("logic"), NEW k \in 1 .. Len(r), k > i
        PROVE  r[k] \notin RoundOps
    <3>1. k - n \in 1 .. Len(s) /\ k - n > i - n /\ r[k] = s[k - n]
      BY <1>1, <2>0, <2>4
    <3>2. QED BY <1>2, <2>1, <2>4, <3>1 DEF Rounding
  <2>5. QED BY <2>3, <2>4
<1>3. Rounding(r) BY <1>1, <1>2 DEF Rounding
<1>4. (\E i \in 1 .. Len(r) : r[i] \in RoundOps) => \E i \in 1 .. Len(s) : s[i] \in RoundOps
  BY <1>1
<1>5. (\E i \in 1 .. Len(s) : s[i] \in RoundOps) => \E i \in 1 .. Len(r) : r[i] \in RoundOps
  BY <1>1
<1>6. QED BY <1>3, <1>4, <1>5

LEMMA AsideRounding ==
  ASSUME NEW s \in Seq(Aside)
  PROVE  Rounding(s) /\ \A i \in 1 .. Len(s) : s[i] \notin RoundOps
BY DEF Aside, Rounding

-----------------------------------------------------------------------------
(* How scripts change.                                                     *)

\* Thread a may do u in place of the operation o that is next in its script.
Continues(o, u) ==
  \/ o.op \in {"send", "arm", "reset", "cancel"} /\ u = <<>>
  \/ o.op = "arm" /\ u \in {Log, Log \o Log}
  \/ o.op = "check" /\ u \in {<<Reset(o.task)>>, Log \o <<Restart(o.task)>>}
  \/ o.op = "restart" /\ u \in {AfterCreate(o.task), Log}

Goes(s, r) ==
  \/ r = s
  \/ s # <<>> /\ \E u : Continues(Head(s), u) /\ r = u \o Tail(s)

\* Script s is one that thread a begins with.
Begins(a, s) ==
  \/ s = <<>>
  \/ a \in Spare /\ \E t \in Timer : s \in Callback(t)
  \/ a = MAIN /\ \E m \in Packet : s = MainHandler(m)
  \/ a \in Tasks /\ (s = TaskStart(a) \/ \E m \in Packet : s \in TaskHandlers(a, m))

\* In this step task t is cancelled.
Cancels(t) ==
  \E b \in Thread :
    /\ DoRestart(b) \/ RestartFails(b) \/ DoCancel(b)
    /\ Head(todo[b]).task = t

\* What a step may do to the script of thread a: nothing; thread a does what
\* is next; a task or main takes a packet, or the task is cancelled; a timer
\* expires.
Proceeds(a) ==
  \/ todo'[a] = todo[a]
  \/ /\ Step(a) /\ todo[a] # <<>>
     /\ \E u : Continues(Head(todo[a]), u) /\ todo'[a] = u \o Tail(todo[a])
  \/ /\ Begins(a, todo'[a])
     /\ \/ a \in Tasks /\ (Idle(a) \/ Cancels(a))
        \/ a = MAIN /\ Idle(a)
  \/ /\ a \in Spare /\ Idle(a)
     /\ \E t \in Timer : Expire(t) /\ todo'[a] \in Callback(t)

\* Only the script of one thread changes.
LEMMA OneMoves ==
  ASSUME TypeOK, NEW a \in Thread, NEW s, todo' = [todo EXCEPT ![a] = s],
         todo'[a] = s => Proceeds(a)
  PROVE  \A b \in Thread : Proceeds(b)
<1>1. todo'[a] = s /\ \A b \in Thread \ {a} : todo'[b] = todo[b]
  BY DEF TypeOK
<1>2. QED BY <1>1 DEF Proceeds

LEMMA EmptyFirst == ASSUME NEW s \in Seq(Op) PROVE <<>> \o s = s
OBVIOUS

\* One thread goes on, and a task ends or is started again.
LEMMA TwoMove ==
  ASSUME TypeOK, NEW a \in Thread, NEW t \in Tasks, NEW u, NEW s, todo[a] # <<>>,
         Step(a), Cancels(t),
         Continues(Head(todo[a]), u), s \in {<<>>, TaskStart(t)},
         todo' = [todo EXCEPT ![a] = u \o Tail(@), ![t] = s]
  PROVE  \A b \in Thread : Proceeds(b)
<1>1. t \in Thread BY Threads
<1>2. ASSUME NEW b \in Thread PROVE Proceeds(b)
  <2>1. CASE b = t
    <3>1. todo'[t] = s BY <1>1 DEF TypeOK
    <3>2. QED BY <2>1, <3>1 DEF Proceeds, Begins
  <2>2. CASE b # t /\ b = a
    <3>1. todo'[a] = u \o Tail(todo[a]) BY <1>1, <2>2 DEF TypeOK
    <3>2. QED BY <2>2, <3>1 DEF Proceeds
  <2>3. CASE b # t /\ b # a
    <3>1. todo'[b] = todo[b] BY <2>3 DEF TypeOK
    <3>2. QED BY <3>1 DEF Proceeds
  <2>4. QED BY <2>1, <2>2, <2>3
<1>3. QED BY <1>2

\* Every step is of this kind, unless the program starts or ends.
LEMMA Moves ==
  ASSUME Inv, [Next]_vars
  PROVE  \/ Relaunch
         \/ ~up'[MAIN] /\ \A a \in Thread : todo'[a] = <<>>
         \/ \A a \in Thread : Proceeds(a)
<1> DEFINE Goal == \A b \in Thread : Proceeds(b)
           Over == ~up'[MAIN] /\ \A b \in Thread : todo'[b] = <<>>
<1>0. TypeOK BY DEF Inv
<1>a. ASSUME ProcessEnds PROVE Over BY <1>a, Threads DEF ProcessEnds
<1>1. ASSUME NEW a \in Thread, Step(a) PROVE Goal \/ Over
  <2> DEFINE o == Head(todo[a])
  <2>0. ASSUME todo[a] # <<>> PROVE Tail(todo[a]) = <<>> \o Tail(todo[a])
    BY <1>0, <2>0, Heads, EmptyFirst
  <2>1. CASE DoSend(a) \/ DoArm(a) \/ DoReset(a)
    <3>1. todo[a] # <<>> /\ Continues(o, <<>>) /\ todo' = [todo EXCEPT ![a] = Tail(@)]
      BY <2>1 DEF DoSend, DoArm, DoReset, Doing, Advance, Continues
    <3>2. todo'[a] = Tail(todo[a]) => Proceeds(a) BY <1>1, <2>0, <3>1 DEF Proceeds
    <3>3. QED BY <1>0, <3>1, <3>2, OneMoves
  <2>2. CASE ArmFails(a) \/ DoCheck(a)
    <3>1. PICK u : todo[a] # <<>> /\ Continues(o, u) /\ Instead(a, u)
      BY <2>2 DEF ArmFails, DoCheck, Doing, Continues
    <3>2. todo'[a] = u \o Tail(todo[a]) => Proceeds(a) BY <1>1, <3>1 DEF Proceeds
    <3>3. QED BY <1>0, <3>1, <3>2, OneMoves DEF Instead
  <2>3. CASE DoRestart(a) \/ RestartFails(a)
    <3>1. todo[a] # <<>> /\ o.op = "restart" /\ o.task \in Tasks
      BY <1>0, <2>3, Heads DEF DoRestart, RestartFails, Doing
    <3>2. PICK u \in {AfterCreate(o.task), Log}, s \in {<<>>, TaskStart(o.task)} :
            todo' = [todo EXCEPT ![a] = u \o Tail(@), ![o.task] = s]
      BY <2>3 DEF DoRestart, RestartFails
    <3>3. Continues(o, u) BY <3>1 DEF Continues
    <3>4. Cancels(o.task) BY <2>3 DEF Cancels
    <3>5. QED BY <1>0, <1>1, <3>1, <3>2, <3>3, <3>4, TwoMove
  <2>4. CASE DoCancel(a)
    <3>1. /\ todo[a] # <<>> /\ o.op = "cancel" /\ o.task \in Tasks
          /\ todo' = [todo EXCEPT ![a] = Tail(@), ![o.task] = <<>>]
      BY <1>0, <2>4, Heads DEF DoCancel, Doing
    <3>2. todo' = [todo EXCEPT ![a] = <<>> \o Tail(@), ![o.task] = <<>>]
      BY <2>0, <3>1
    <3>3. Continues(o, <<>>) BY <3>1 DEF Continues
    <3>4. Cancels(o.task) BY <2>4 DEF Cancels
    <3>5. QED BY <1>0, <1>1, <3>1, <3>2, <3>3, <3>4, TwoMove
  <2>5. CASE DoExit(a) BY <1>a, <2>5 DEF DoExit
  <2>6. QED BY <1>1, <2>1, <2>2, <2>3, <2>4, <2>5 DEF Step
<1>2. ASSUME NEW t \in Tasks, TaskReceive(t) PROVE Goal
  <2>1. PICK s \in TaskHandlers(t, Head(queue[t])) :
          Idle(t) /\ todo' = [todo EXCEPT ![t] = s]
    BY <1>2 DEF TaskReceive
  <2>2. Head(queue[t]) \in Packet BY <1>0, <1>2, Taking, Threads DEF TaskReceive
  <2>3. Begins(t, s) BY <2>2 DEF Begins
  <2>4. todo'[t] = s => Proceeds(t) BY <2>1, <2>3 DEF Proceeds
  <2>5. QED BY <1>0, <2>1, <2>4, OneMoves, Threads
<1>3. CASE MainReceive
  <2> DEFINE s == MainHandler(Head(queue[MAIN]))
  <2>1. Idle(MAIN) /\ todo' = [todo EXCEPT ![MAIN] = s]
    BY <1>3 DEF MainReceive
  <2>2. Head(queue[MAIN]) \in Packet BY <1>0, <1>3, Taking, Threads DEF MainReceive
  <2>3. Begins(MAIN, s) BY <2>2 DEF Begins
  <2>4. todo'[MAIN] = s => Proceeds(MAIN) BY <2>1, <2>3 DEF Proceeds
  <2>5. QED BY <1>0, <2>1, <2>4, OneMoves, Threads
<1>4. ASSUME NEW t \in Timer, Expire(t) PROVE Goal
  <2>1. PICK x \in Spare, s \in Callback(t) : Idle(x) /\ todo' = [todo EXCEPT ![x] = s]
    BY <1>4 DEF Expire
  <2>2. todo'[x] = s => Proceeds(x) BY <1>4, <2>1 DEF Proceeds
  <2>3. QED BY <1>0, <2>1, <2>2, OneMoves, Threads
<1>5. ASSUME todo' = todo PROVE Goal BY <1>5 DEF Proceeds
<1>6. CASE Crash BY <1>a, <1>6 DEF Crash
<1>7. QED
  BY <1>1, <1>2, <1>3, <1>4, <1>5, <1>6
  DEF Next, TaskKill, LastRecord, ClientSend, vars

\* The operations of a task's own thread: it sends records and replies, and
\* sets the timer of its sensor.
Own(t) ==
  {o \in Op : \/ o = Send(LOG, LogRecord)
              \/ t # LOG /\ o = Arm(Sampler(t))
              \/ \E c \in Cmd : o = Reply(t, c)}

\* Operation o is still to be done in script s.
Has(s, o) == \E i \in 1 .. Len(s) : s[i] = o

LEMMA HasConcat ==
  ASSUME NEW u \in Seq(Op), NEW v \in Seq(Op), NEW o
  PROVE  Has(u \o v, o) <=> Has(u, o) \/ Has(v, o)
<1>1. /\ Len(u \o v) = Len(u) + Len(v) /\ Len(u) \in Nat /\ Len(v) \in Nat
      /\ \A j \in 1 .. Len(u) : j \in 1 .. Len(u \o v) /\ (u \o v)[j] = u[j]
      /\ \A j \in 1 .. Len(v) : Len(u) + j \in 1 .. Len(u \o v)
                                /\ (u \o v)[Len(u) + j] = v[j]
      /\ \A j \in 1 .. Len(u \o v) : j > Len(u) =>
           j - Len(u) \in 1 .. Len(v) /\ (u \o v)[j] = v[j - Len(u)]
  OBVIOUS
<1>2. ASSUME Has(u, o) PROVE Has(u \o v, o) BY <1>1, <1>2 DEF Has
<1>3. ASSUME Has(v, o) PROVE Has(u \o v, o) BY <1>1, <1>3 DEF Has
<1>4. ASSUME Has(u \o v, o) PROVE Has(u, o) \/ Has(v, o)
  <2>1. PICK j \in 1 .. Len(u \o v) : (u \o v)[j] = o BY <1>4 DEF Has
  <2>2. CASE j <= Len(u) BY <1>1, <2>1, <2>2 DEF Has
  <2>3. CASE j > Len(u) BY <1>1, <2>1, <2>3 DEF Has
  <2>4. QED BY <1>1, <2>2, <2>3
<1>5. QED BY <1>2, <1>3, <1>4

LEMMA HasFew ==
  /\ \A o : ~Has(<<>>, o)
  /\ \A p, o : Has(<<p>>, o) <=> p = o
BY DEF Has

\* Script s examines only tasks in T, by checks, and none twice.
Checks(s, T) ==
  /\ s \in Seq(Op)
  /\ \A i \in 1 .. Len(s) : Examines(s[i]) =>
       /\ s[i].op = "check" /\ s[i].task \in T
       /\ \A j \in 1 .. Len(s) : j > i /\ Examines(s[j]) => s[j].task # s[i].task

LEMMA ChecksConcat ==
  ASSUME NEW T, NEW U, T \cap U = {}, NEW u, NEW v, Checks(u, T), Checks(v, U)
  PROVE  Checks(u \o v, T \cup U)
<1> DEFINE r == u \o v
           n == Len(u)
<1>1. /\ r \in Seq(Op) /\ Len(r) = n + Len(v) /\ n \in Nat /\ Len(v) \in Nat
      /\ \A j \in 1 .. Len(r) : j <= n => j \in 1 .. n /\ r[j] = u[j]
      /\ \A j \in 1 .. Len(r) : j > n => j - n \in 1 .. Len(v) /\ r[j] = v[j - n]
  BY DEF Checks
<1>2. ASSUME NEW i \in 1 .. Len(r), Examines(r[i])
      PROVE  /\ r[i].op = "check" /\ r[i].task \in T \cup U
             /\ \A j \in 1 .. Len(r) : j > i /\ Examines(r[j]) => r[j].task # r[i].task
  <2>1. CASE i <= n
    <3>1. i \in 1 .. n /\ r[i] = u[i] BY <1>1, <2>1
    <3>2. r[i].op = "check" /\ r[i].task \in T BY <1>2, <3>1 DEF Checks
    <3>3. ASSUME NEW j \in 1 .. Len(r), j > i, Examines(r[j])
          PROVE  r[j].task # r[i].task
      <4>1. CASE j <= n BY <1>1, <1>2, <3>1, <3>3, <4>1 DEF Checks
      <4>2. CASE j > n
        <5>1. r[j].task \in U BY <1>1, <3>3, <4>2 DEF Checks
        <5>2. QED BY <3>2, <5>1
      <4>3. QED BY <1>1, <4>1, <4>2
    <3>4. QED BY <3>2, <3>3
  <2>2. CASE i > n
    <3>1. i - n \in 1 .. Len(v) /\ r[i] = v[i - n] BY <1>1, <2>2
    <3>2. r[i].op = "check" /\ r[i].task \in U BY <1>2, <3>1 DEF Checks
    <3>3. ASSUME NEW j \in 1 .. Len(r), j > i, Examines(r[j])
          PROVE  r[j].task # r[i].task
      <4>1. j - n \in 1 .. Len(v) /\ r[j] = v[j - n] /\ j - n > i - n
        BY <1>1, <2>2, <3>3
      <4>2. QED BY <1>2, <3>1, <3>3, <4>1 DEF Checks
    <3>4. QED BY <3>2, <3>3
  <2>3. i <= n \/ i > n BY <1>1
  <2>4. QED BY <2>1, <2>2, <2>3
<1>3. QED BY <1>1, <1>2 DEF Checks

\* Checks of different tasks may come before requests to all of them.
LEMMA ChecksWatch ==
  ASSUME NEW T, NEW u, NEW s, Checks(u, T), Unwatchful(s),
         \A t \in Tasks : Has(s, Ask(t))
  PROVE  Watch(u \o s)
<1> DEFINE r == u \o s
           n == Len(u)
<1>1. /\ r \in Seq(Op) /\ Len(r) = n + Len(s) /\ n \in Nat /\ Len(s) \in Nat
      /\ \A j \in 1 .. Len(r) : j <= n => j \in 1 .. n /\ r[j] = u[j]
      /\ \A j \in 1 .. Len(r) : j > n => j - n \in 1 .. Len(s) /\ r[j] = s[j - n]
      /\ \A j \in 1 .. Len(s) : j + n \in 1 .. Len(r) /\ r[j + n] = s[j]
  BY DEF Checks, Unwatchful
<1>2. ASSUME NEW i \in 1 .. Len(r), Examines(r[i])
      PROVE  /\ \A t \in Tasks : \E j \in 1 .. Len(r) : j > i /\ r[j] = Ask(t)
             /\ \A j \in 1 .. Len(r) : j > i /\ Examines(r[j]) =>
                  r[j].op = "check" /\ r[j].task # r[i].task
  <2>1. \A j \in 1 .. Len(r) : Examines(r[j]) => j <= n
    BY <1>1 DEF Unwatchful
  <2>2. ASSUME NEW t \in Tasks PROVE \E j \in 1 .. Len(r) : j > i /\ r[j] = Ask(t)
    <3>1. PICK j \in 1 .. Len(s) : s[j] = Ask(t) BY DEF Has
    <3>2. j + n \in 1 .. Len(r) /\ r[j + n] = Ask(t) /\ j + n > i
      BY <1>1, <1>2, <2>1, <3>1
    <3>3. QED BY <3>2
  <2>3. ASSUME NEW j \in 1 .. Len(r), j > i, Examines(r[j])
        PROVE  r[j].op = "check" /\ r[j].task # r[i].task
    <3>1. i \in 1 .. n /\ r[i] = u[i] /\ j \in 1 .. n /\ r[j] = u[j]
      BY <1>1, <1>2, <2>1, <2>3
    <3>2. QED BY <1>2, <2>3, <3>1 DEF Checks
  <2>4. QED BY <2>2, <2>3
<1>3. QED BY <1>1, <1>2 DEF Watch

LEMMA UnwatchfulChecks == \A s : Unwatchful(s) => Checks(s, {})
BY DEF Unwatchful, Checks

\* The loops over the tasks.
LEMMA LoopAsks == \A t \in Tasks : Has(EachTask(Ask), Ask(t))
<1> DEFINE A(q) == Only(q, <<Ask(q)>>)
<1>1. \A q \in Tasks : <<Ask(q)>> \in Seq(Op)
  BY OpTypes, Packets, Threads DEF Ask
<1>2. \A q : A(q) \in Seq(Op) BY <1>1 DEF Only
<1>3. \A q \in Tasks : Has(A(q), Ask(q)) BY HasFew DEF Only
<1>4. EachTask(Ask) = A(LIGHT) \o A(TEMP) \o A(LOG) BY DEF EachTask
<1> HIDE DEF A
<1>5. A(LIGHT) \o A(TEMP) \in Seq(Op) BY <1>2
<1>6. ASSUME NEW t \in Tasks PROVE Has(EachTask(Ask), Ask(t))
  <2>1. t \in {LIGHT, TEMP, LOG} BY Project1Assumption
  <2> DEFINE o == Ask(t)
  <2>2. Has(A(t), o) BY <1>3
  <2>3. Has(A(LIGHT) \o A(TEMP), o) <=> Has(A(LIGHT), o) \/ Has(A(TEMP), o)
    BY <1>2, HasConcat
  <2>4. Has((A(LIGHT) \o A(TEMP)) \o A(LOG), o)
          <=> Has(A(LIGHT) \o A(TEMP), o) \/ Has(A(LOG), o)
    BY <1>2, <1>5, HasConcat
  <2>5. QED BY <1>4, <2>1, <2>2, <2>3, <2>4
<1>7. QED BY <1>6

LEMMA LoopChecks == Checks(EachTask(Check), {LIGHT, TEMP, LOG})
<1> DEFINE A(q) == Only(q, <<Check(q)>>)
<1>1. \A q : Checks(A(q), {q})
  <2>1. ASSUME NEW q, q \in Tasks PROVE Checks(<<Check(q)>>, {q})
    <3>1. <<Check(q)>> \in Seq(Op) BY <2>1, OpTypes
    <3>2. QED BY <3>1 DEF Checks, Check
  <2>2. ASSUME NEW q PROVE Checks(<<>>, {q}) BY DEF Checks
  <2>3. QED BY <2>1, <2>2 DEF Only
<1>2. EachTask(Check) = A(LIGHT) \o A(TEMP) \o A(LOG) BY DEF EachTask
<1> HIDE DEF A
<1>3. Checks(A(LIGHT) \o A(TEMP), {LIGHT} \cup {TEMP})
  <2>1. {LIGHT} \cap {TEMP} = {} OBVIOUS
  <2>2. QED BY <1>1, <2>1, ChecksConcat
<1>4. Checks(A(LIGHT) \o A(TEMP) \o A(LOG), {LIGHT} \cup {TEMP} \cup {LOG})
  <2>1. ({LIGHT} \cup {TEMP}) \cap {LOG} = {} OBVIOUS
  <2>2. QED BY <1>1, <1>3, <2>1, ChecksConcat
<1>5. {LIGHT} \cup {TEMP} \cup {LOG} = {LIGHT, TEMP, LOG} OBVIOUS
<1>6. QED BY <1>2, <1>4, <1>5

LEMMA HeartbeatWatch == Watch(HeartbeatScript)
<1>1. Unwatchful(EachTask(Ask)) /\ EachTask(Ask) \in Seq(Op)
  BY Loops, HarmlessUnwatchful DEF Unwatchful
<1>2. Unwatchful(<<Arm("heartbeat")>>) /\ <<Arm("heartbeat")>> \in Seq(Op)
  BY Operations, OpTypes DEF Unwatchful, Timer
<1>3. Unwatchful(HeartbeatInit) BY <1>1, <1>2, WatchConcat DEF HeartbeatInit
<1>4. \A t \in Tasks : Has(HeartbeatInit, Ask(t))
  BY <1>1, <1>2, LoopAsks, HasConcat DEF HeartbeatInit
<1>5. Checks(Log, {}) BY LogHarmless, HarmlessUnwatchful, UnwatchfulChecks
<1>6. Checks(Log \o EachTask(Check), {} \cup {LIGHT, TEMP, LOG})
  <2>1. {} \cap {LIGHT, TEMP, LOG} = {} OBVIOUS
  <2>2. QED BY <1>5, <2>1, LoopChecks, ChecksConcat
<1>7. QED BY <1>3, <1>4, <1>6, ChecksWatch DEF HeartbeatScript

-----------------------------------------------------------------------------
(* All scripts are in order.                                               *)

InOrder ==
  /\ \A a \in Thread : Watch(todo[a]) /\ Rounding(todo[a])
  /\ \A a \in Owner : Unwatchful(todo[a])
  /\ \A t \in Tasks : todo[t] \in Seq(Own(t))

\* In place of a check there is a reset, or a record and a restart.
LEMMA WatchCheck ==
  ASSUME NEW s, Watch(s), s # <<>>, NEW t \in Tasks, Head(s) = Check(t),
         NEW o \in {Reset(t), Restart(t)}, NEW u, Unwatchful(u), NEW w, w = <<o>>
  PROVE  Watch(w \o Tail(s)) /\ Watch((u \o w) \o Tail(s))
<1> DEFINE r == Tail(s)
<1>1. /\ o \in Op /\ Examines(o) /\ o.task = t
      /\ Examines(Head(s)) /\ Head(s).task = t
  <2>1. o \in Op BY OpTypes
  <2>2. o = Reset(t) \/ o = Restart(t) OBVIOUS
  <2>3. QED BY <2>1, <2>2 DEF Check, Reset, Restart, Examines
<1>2. /\ Watch(r) /\ \A q \in Tasks : \E j \in 1 .. Len(r) : r[j] = Ask(q)
      /\ \A j \in 1 .. Len(r) : Examines(r[j]) => r[j].op = "check" /\ r[j].task # o.task
  BY <1>1, WatchTail, WatchHead
<1>3. u \in Seq(Op) /\ r \in Seq(Op) /\ w \in Seq(Op)
  BY <1>1, <1>2 DEF Unwatchful, Watch
<1> HIDE DEF r
<1>4. Watch(w \o r) BY <1>1, <1>2, WatchFirst
<1>5. Watch(u \o (w \o r)) BY <1>4, WatchConcat
<1>6. (u \o w) \o r = u \o (w \o r) BY <1>3, ConcatAssociative
<1>7. QED BY <1>4, <1>5, <1>6 DEF r

LEMMA LogUnwatchful == Unwatchful(Log) /\ Unwatchful(Log \o Log) /\ Unwatchful(<<>>)
BY LogHarmless, HarmlessUnwatchful, WatchConcat, Singletons

LEMMA AfterCreateAside ==
  \A t \in Tasks : Unwatchful(AfterCreate(t)) /\ AfterCreate(t) \in Seq(Aside)
<1>1. \A t \in Tasks : Initialize(t) \in Op /\ ~Examines(Initialize(t))
                       /\ Initialize(t) \in Aside
  BY OpTypes, Operations, OtherPackets, Packets, Threads DEF Initialize, Aside
<1>2. \A t \in Tasks : Unwatchful(<<Initialize(t)>>) /\ <<Initialize(t)>> \in Seq(Aside)
  BY <1>1 DEF Unwatchful
<1>3. <<>> \in Seq(Aside) OBVIOUS
<1>4. QED BY <1>2, <1>3, LogUnwatchful, LogAside, WatchConcat DEF AfterCreate

\* What a thread goes on with stays in order.
LEMMA GoesWatch ==
  ASSUME NEW s, NEW r, Goes(s, r), Watch(s)
  PROVE  Watch(r) /\ (Unwatchful(s) => Unwatchful(r))
<1> SUFFICES ASSUME s # <<>>, NEW u, Continues(Head(s), u), r = u \o Tail(s)
             PROVE  Watch(r) /\ (Unwatchful(s) => Unwatchful(r))
  BY DEF Goes
<1>1. Head(s) \in Op /\ Tail(s) \in Seq(Op) /\ Watch(Tail(s))
      /\ (Unwatchful(s) => Unwatchful(Tail(s)) /\ ~Examines(Head(s)))
  <2>1. s \in Seq(Op) BY DEF Watch
  <2>2. Head(s) = s[1] /\ 1 \in 1 .. Len(s) /\ Head(s) \in Op /\ Tail(s) \in Seq(Op)
    BY <2>1
  <2>3. QED BY <2>2, WatchTail DEF Unwatchful
<1>2. CASE Unwatchful(u) BY <1>1, <1>2, WatchConcat
<1>3. CASE Head(s).op = "check"
  <2>1. PICK t \in Tasks : Head(s) = Check(t) BY <1>1, <1>3 DEF Op, Check
  <2>2. Watch(r)
    <3>1. u \in {<<Reset(t)>>, Log \o <<Restart(t)>>}
      BY <1>3, <2>1 DEF Continues, Check
    <3>2. QED BY <2>1, <3>1, WatchCheck, LogUnwatchful
  <2>3. ~Unwatchful(s) BY <1>1, <1>3 DEF Examines
  <2>4. QED BY <2>2, <2>3
<1>4. CASE Head(s).op # "check" /\ ~Unwatchful(u)
  <2>1. Head(s).op = "restart" => Head(s).task \in Tasks BY <1>1 DEF Op
  <2>2. QED BY <1>4, <2>1, LogUnwatchful, AfterCreateAside DEF Continues
<1>5. QED BY <1>2, <1>3, <1>4

LEMMA GoesOwn ==
  ASSUME NEW t \in Tasks, NEW s \in Seq(Own(t)), NEW r, Goes(s, r)
  PROVE  r \in Seq(Own(t))
<1> SUFFICES ASSUME s # <<>>, NEW u, Continues(Head(s), u), r = u \o Tail(s)
             PROVE  r \in Seq(Own(t))
  BY DEF Goes
<1>1. Head(s) \in Own(t) /\ Tail(s) \in Seq(Own(t)) OBVIOUS
<1>2. Head(s).op \in {"send", "arm"}
  BY <1>1 DEF Own, Send, Arm, Reply
<1>3. Log \in Seq(Own(t))
  <2>1. LOG \in Tasks => Send(LOG, LogRecord) \in Own(t)
    BY OpTypes, Packets, Threads DEF Own
  <2>2. QED BY <2>1 DEF Log, Only
<1>4. u \in Seq(Own(t))
  <2>1. u \in {<<>>, Log, Log \o Log} BY <1>2 DEF Continues
  <2>2. <<>> \in Seq(Own(t)) /\ Log \o Log \in Seq(Own(t)) BY <1>3
  <2>3. QED BY <1>3, <2>1, <2>2
<1>5. QED BY <1>1, <1>4

LEMMA ContinuesAside ==
  ASSUME NEW o \in Op, NEW u, Continues(o, u)
  PROVE  u \in Seq(Aside)
<1>1. o.op \in {"check", "restart"} => o.task \in Tasks
  BY DEF Op
<1>2. <<>> \in Seq(Aside) /\ Log \in Seq(Aside) /\ Log \o Log \in Seq(Aside)
  BY LogAside
<1>3. ASSUME o.op = "check" PROVE u \in Seq(Aside)
  <2>1. Reset(o.task) \in Aside /\ Restart(o.task) \in Aside
    BY <1>1, <1>3, OpTypes, Operations DEF Aside
  <2>2. u \in {<<Reset(o.task)>>, Log \o <<Restart(o.task)>>}
    BY <1>3 DEF Continues
  <2>3. \A x \in Aside : <<x>> \in Seq(Aside) /\ Log \o <<x>> \in Seq(Aside)
    BY <1>2
  <2>4. QED BY <2>1, <2>2, <2>3
<1>4. QED BY <1>1, <1>2, <1>3, AfterCreateAside DEF Continues

LEMMA GoesRounding ==
  ASSUME NEW s, NEW r, Goes(s, r), Rounding(s)
  PROVE  Rounding(r)
<1> SUFFICES ASSUME s # <<>>, NEW u, Continues(Head(s), u), r = u \o Tail(s)
             PROVE  Rounding(r)
  BY DEF Goes
<1>1. Head(s) \in Op /\ Rounding(Tail(s))
  <2>1. s \in Seq(Op) BY DEF Rounding
  <2>2. QED BY <2>1, RoundTail
<1>2. QED BY <1>1, ContinuesAside, RoundConcat

\* What a thread begins with is in order.
LEMMA ReplyAside ==
  \A t \in Tasks, c \in Cmd : Reply(t, c) \in Aside /\ Reply(t, c) \in Own(t)
<1> SUFFICES ASSUME NEW t \in Tasks, NEW c \in Cmd
             PROVE  Reply(t, c) \in Aside /\ Reply(t, c) \in Own(t)
  OBVIOUS
<1>1. Response(t, c) \in Packet BY Packets
<1>2. Reply(t, c) \in Op BY <1>1, OpTypes, Threads DEF Reply
<1>3. Reply(t, c) \notin RoundOps BY Operations, OtherPackets DEF Reply
<1>4. QED BY <1>2, <1>3 DEF Aside, Own

LEMMA LogOwn == \A t \in Tasks : Log \in Seq(Own(t))
<1>1. \A t \in Tasks : LOG \in Tasks => Send(LOG, LogRecord) \in Own(t)
  BY OpTypes, Packets, Threads DEF Own
<1>2. QED BY <1>1 DEF Log, Only

LEMMA TaskBegins ==
  ASSUME NEW t \in Tasks, NEW s,
         s = TaskStart(t) \/ \E m \in Packet : s \in TaskHandlers(t, m)
  PROVE  Unwatchful(s) /\ s \in Seq(Own(t)) /\ s \in Seq(Aside)
<1>1. CASE s = TaskStart(t)
  <2>1. Unwatchful(s) BY <1>1, TaskStartHarmless, HarmlessUnwatchful
  <2>2. s \in {<<>>, <<Arm("light_check")>>, <<Arm("temp_check")>>}
        /\ (s # <<>> => s = <<Arm(Sampler(t))>>)
    BY <1>1, Project1Assumption DEF TaskStart, Sampler
  <2>3. Arm("light_check") \in Aside /\ Arm("temp_check") \in Aside
    BY OpTypes, Operations DEF Aside, Timer
  <2>4. s # <<>> => Arm(Sampler(t)) \in Own(t)
    <3>1. s # <<>> => t # LOG BY <1>1 DEF TaskStart
    <3>2. QED BY <2>3, <3>1 DEF Own, Sampler, Aside
  <2>5. CASE s = <<>> BY <2>1, <2>5
  <2>6. CASE s = <<Arm(Sampler(t))>>
    <3>1. Sampler(t) \in {"light_check", "temp_check"} BY DEF Sampler
    <3>2. Arm(Sampler(t)) \in Aside BY <2>3, <3>1
    <3>3. QED BY <2>1, <2>4, <2>6, <3>2
  <2>7. QED BY <2>2, <2>5, <2>6
<1>2. ASSUME NEW m \in Packet, s \in TaskHandlers(t, m)
      PROVE  Unwatchful(s) /\ s \in Seq(Own(t)) /\ s \in Seq(Aside)
  <2>1. Unwatchful(s) BY <1>2, HandlersHarmless, HarmlessUnwatchful
  <2>2. m.cmd \in Cmd BY DEF Packet, Request, Response
  <2>3. s \in {<<>>, Log, <<Reply(t, m.cmd)>>, Log \o <<Reply(t, m.cmd)>>}
    <3>1. CASE m.rsp BY <1>2, <3>1 DEF TaskHandlers
    <3>2. CASE ~m.rsp /\ t = LIGHT
      <4>1. s = LightHandler(m.cmd) BY <1>2, <3>2 DEF TaskHandlers
      <4>2. QED BY <3>2, <4>1 DEF LightHandler
    <3>3. CASE ~m.rsp /\ t = TEMP
      <4>1. TEMP # LIGHT OBVIOUS
      <4>2. s = TempHandler(m.cmd) BY <1>2, <3>3, <4>1 DEF TaskHandlers
      <4>3. QED BY <3>3, <4>2 DEF TempHandler
    <3>4. CASE ~m.rsp /\ t = LOG
      <4>1. LOG # LIGHT /\ LOG # TEMP OBVIOUS
      <4>2. s \in LogHandlers(m.cmd) BY <1>2, <3>4, <4>1 DEF TaskHandlers
      <4>3. QED BY <3>4, <4>2 DEF LogHandlers
    <3>5. QED BY <3>1, <3>2, <3>3, <3>4, Project1Assumption
  <2>4. Reply(t, m.cmd) \in Aside /\ Reply(t, m.cmd) \in Own(t)
    BY <2>2, ReplyAside
  <2>5. ASSUME NEW S, Log \in Seq(S), NEW o \in S
        PROVE  {<<>>, Log, <<o>>, Log \o <<o>>} \subseteq Seq(S)
    BY <2>5
  <2>6. QED BY <2>1, <2>3, <2>4, <2>5, LogAside, LogOwn
<1>3. QED BY <1>1, <1>2

LEMMA MainBegins ==
  ASSUME NEW m \in Packet
  PROVE  Unwatchful(MainHandler(m)) /\ MainHandler(m) \in Seq(Aside)
<1>1. Unwatchful(MainHandler(m)) BY HandlersHarmless, HarmlessUnwatchful
<1>2. Exit \in Aside BY OpTypes, Operations DEF Aside
<1>3. ExitScript \in Seq(Aside) BY <1>2, LogAside, LoopsAside DEF ExitScript
<1>4. QED BY <1>1, <1>3, LogAside DEF MainHandler

\* What has no operation that sets the timer of the logic.
Unarmed(s) == s \in Seq(Op) /\ \A i \in 1 .. Len(s) : s[i] # Arm("logic")

LEMMA UnarmedConcat ==
  ASSUME NEW u, NEW v, Unarmed(u), Unarmed(v) PROVE Unarmed(u \o v)
BY DEF Unarmed

LEMMA AsideUnarmed == \A s \in Seq(Aside) : Unarmed(s)
BY DEF Aside, RoundOps, Unarmed

LEMMA SendUnarmed == \A q \in Owner, m \in Packet : Unarmed(<<Send(q, m)>>)
<1>1. \A q \in Owner, m \in Packet : Send(q, m) \in Op /\ Send(q, m) # Arm("logic")
  BY OpTypes, Operations
<1>2. QED BY <1>1 DEF Unarmed

LEMMA LogicRounding ==
  \A s \in LogicScripts : Rounding(s) /\ Has(s, Arm("logic"))
<1> DEFINE g == Send(TEMP, Request("GETTEMP"))
           l == Send(LIGHT, Request("GETLUX"))
           G == Only(TEMP, <<g, g, g>>)
           L == Only(LIGHT, <<l>>)
<1>1. Unarmed(G)
  <2>1. TEMP \in Tasks => Unarmed(<<g>>)
    BY SendUnarmed, Packets, Threads
  <2>2. TEMP \in Tasks => g \in Op /\ g # Arm("logic")
    <3>1. ASSUME TEMP \in Tasks PROVE g = <<g>>[1] /\ 1 \in 1 .. Len(<<g>>)
      OBVIOUS
    <3> HIDE DEF g
    <3>2. QED BY <2>1, <3>1 DEF Unarmed
  <2> HIDE DEF g
  <2>3. TEMP \in Tasks => Unarmed(<<g, g, g>>) BY <2>2 DEF Unarmed
  <2>4. Unarmed(<<>>) BY DEF Unarmed
  <2>5. QED BY <2>3, <2>4 DEF Only
<1>2. Unarmed(L)
  <2>1. LIGHT \in Tasks => Unarmed(<<l>>)
    BY SendUnarmed, Packets, Threads
  <2>2. Unarmed(<<>>) BY DEF Unarmed
  <2> HIDE DEF l
  <2>3. QED BY <2>1, <2>2 DEF Only
<1> HIDE DEF G, L
<1>3. ASSUME NEW r \in {<<>>, Log, Log \o Log}
      PROVE  LET s == Log \o r \o G \o L \o <<Arm("logic")>>
             IN  Rounding(s) /\ Has(s, Arm("logic"))
  <2>1. r \in Seq(Aside)
    <3>1. <<>> \in Seq(Aside) OBVIOUS
    <3>2. Log \o Log \in Seq(Aside) BY LogAside
    <3>3. QED BY <3>1, <3>2, LogAside
  <2>2. Unarmed(Log) /\ Unarmed(r) BY <2>1, LogAside, AsideUnarmed
  <2>3. Unarmed(Log \o r \o G \o L) BY <1>1, <1>2, <2>2, UnarmedConcat
  <2>4. PICK u : u = Log \o r \o G \o L OBVIOUS
  <2>5. u \in Seq(Op) /\ \A i \in 1 .. Len(u) : u[i] # Arm("logic")
    BY <2>3, <2>4 DEF Unarmed
  <2>6. Rounding(u \o <<Arm("logic")>>) /\ Has(u \o <<Arm("logic")>>, Arm("logic"))
    BY <2>5, RoundLast DEF Has
  <2>7. QED BY <2>4, <2>6
<1>4. QED BY <1>3 DEF LogicScripts, G, L

LEMMA CallbackBegins ==
  ASSUME NEW t \in Timer, NEW s \in Callback(t)
  PROVE  /\ Watch(s) /\ Rounding(s)
         /\ t # "heartbeat" => Unwatchful(s)
         /\ t # "logic" => s \in Seq(Aside)
<1>1. CASE t = "heartbeat"
  <2>1. s = HeartbeatScript BY <1>1 DEF Callback
  <2>2. QED BY <1>1, <2>1, HeartbeatWatch, HeartbeatAside, AsideRounding
<1>2. CASE t # "heartbeat"
  <2>1. Harmless(s) BY <1>2, CallbacksHarmless
  <2>2. Unwatchful(s) /\ Watch(s) BY <2>1, HarmlessUnwatchful, UnwatchfulWatch
  <2>3. CASE t = "logic"
    <3>1. s \in LogicScripts BY <2>3 DEF Callback
    <3>2. QED BY <2>2, <2>3, <3>1, LogicRounding
  <2>4. CASE t = "light_check" \/ t = "temp_check"
    <3>1. <<Arm(t)>> \in Seq(Aside)
      BY <2>4, OpTypes, Operations DEF Aside
    <3>2. s \in {Log \o Log \o Log \o Log \o <<>> \o <<Arm(t)>>,
                 Log \o Log \o Log \o Log \o Log \o <<Arm(t)>>, Log \o <<Arm(t)>>}
      BY <2>4 DEF Callback, LightCheckScripts, TempCheckScript
    <3>3. s \in Seq(Aside)
      <4>1. \A u, v \in Seq(Aside) : u \o v \in Seq(Aside) OBVIOUS
      <4>2. Log \o Log \in Seq(Aside) /\ Log \o Log \o Log \in Seq(Aside)
            /\ Log \o Log \o Log \o Log \in Seq(Aside)
        BY <4>1, LogAside
      <4>3. /\ Log \o Log \o Log \o Log \o <<>> \in Seq(Aside)
            /\ Log \o Log \o Log \o Log \o Log \in Seq(Aside)
        BY <4>1, <4>2, LogAside
      <4>4. QED BY <3>1, <3>2, <4>1, <4>3, LogAside
    <3>4. QED BY <2>2, <3>3, AsideRounding
  <2>5. QED BY <1>2, <2>3, <2>4 DEF Timer
<1>3. QED BY <1>1, <1>2

LEMMA StartupBegins ==
  Unwatchful(Startup) /\ Rounding(Startup) /\ Has(Startup, Arm("logic"))
<1> DEFINE I(t) == Only(t, <<Initialize(t)>>)
<1>1. \A t : I(t) \in Seq(Aside) /\ Unwatchful(I(t))
  <2>1. \A t \in Tasks : Initialize(t) \in Aside /\ ~Examines(Initialize(t))
    BY OpTypes, Operations, OtherPackets, Packets, Threads DEF Initialize, Aside
  <2>2. \A t \in Tasks : <<Initialize(t)>> \in Seq(Aside)
    BY <2>1
  <2>3. \A t \in Tasks : Unwatchful(<<Initialize(t)>>)
    BY <2>1 DEF Unwatchful, Aside
  <2>4. <<>> \in Seq(Aside) OBVIOUS
  <2>5. QED BY <2>2, <2>3, <2>4, LogUnwatchful DEF Only
<1>2. Unwatchful(HeartbeatInit)
  <2>1. Unwatchful(<<Arm("heartbeat")>>)
    BY Operations, OpTypes DEF Unwatchful, Timer
  <2>2. QED BY <2>1, Loops, HarmlessUnwatchful, WatchConcat DEF HeartbeatInit
<1>3. Unwatchful(<<Arm("logic")>>)
  BY Operations, OpTypes DEF Unwatchful, Timer
<1> DEFINE u == I(LOG) \o I(TEMP) \o I(LIGHT) \o HeartbeatInit
<1>4. Startup = u \o <<Arm("logic")>> BY DEF Startup
<1>5. u \in Seq(Aside) /\ Unwatchful(u)
  <2> HIDE DEF I
  <2>1. u \in Seq(Aside) BY <1>1, HeartbeatAside
  <2>2. Unwatchful(u) BY <1>1, <1>2, WatchConcat
  <2>3. QED BY <2>1, <2>2
<1> HIDE DEF u
<1>6. Unwatchful(Startup) BY <1>3, <1>4, <1>5, WatchConcat
<1>7. u \in Seq(Op) /\ \A i \in 1 .. Len(u) : u[i] # Arm("logic")
  BY <1>5, AsideUnarmed DEF Unarmed
<1>8. QED BY <1>4, <1>6, <1>7, RoundLast DEF Has

LEMMA BeginsInOrder ==
  ASSUME NEW a \in Thread, NEW s, Begins(a, s)
  PROVE  /\ Watch(s) /\ Rounding(s)
         /\ a \in Owner => Unwatchful(s)
         /\ a \in Tasks => s \in Seq(Own(a))
<1>1. CASE s = <<>>
  <2>1. s \in Seq(Aside) /\ Unwatchful(s) /\ \A t \in Tasks : s \in Seq(Own(t))
    BY <1>1, LogUnwatchful
  <2>2. QED BY <2>1, UnwatchfulWatch, AsideRounding
<1>2. CASE a \in Spare /\ \E t \in Timer : s \in Callback(t)
  BY <1>2, CallbackBegins, Threads
<1>3. CASE a = MAIN /\ \E m \in Packet : s = MainHandler(m)
  BY <1>3, MainBegins, UnwatchfulWatch, AsideRounding, Threads
<1>4. CASE a \in Tasks /\ (s = TaskStart(a) \/ \E m \in Packet : s \in TaskHandlers(a, m))
  BY <1>4, TaskBegins, UnwatchfulWatch, AsideRounding
<1>5. QED BY <1>1, <1>2, <1>3, <1>4 DEF Begins

LEMMA FirstInOrder ==
  /\ \A a \in Thread : Watch(FirstSteps[a]) /\ Rounding(FirstSteps[a])
  /\ \A a \in Owner : Unwatchful(FirstSteps[a])
  /\ \A t \in Tasks : FirstSteps[t] \in Seq(Own(t))
<1>1. /\ FirstSteps[MAIN] = Startup
      /\ \A t \in Tasks : FirstSteps[t] = TaskStart(t)
      /\ \A x \in Spare : FirstSteps[x] = <<>>
  BY Threads DEF FirstSteps, Owner
<1>2. \A a \in Thread : a = MAIN \/ a \in Tasks \/ a \in Spare
  BY DEF Thread, Owner
<1>3. \A t \in Tasks : Begins(t, FirstSteps[t]) BY <1>1 DEF Begins
<1>4. \A x \in Spare : Begins(x, FirstSteps[x]) BY <1>1 DEF Begins
<1>5. QED
  BY <1>1, <1>2, <1>3, <1>4, StartupBegins, BeginsInOrder, UnwatchfulWatch, Threads
  DEF Owner

\* Scripts stay in order.
LEMMA InOrderKept == Inv /\ InOrder /\ [Next]_vars => InOrder'
<1> SUFFICES ASSUME Inv, InOrder, [Next]_vars PROVE InOrder'
  OBVIOUS
<1>1. CASE Relaunch
  <2>1. todo' = FirstSteps BY <1>1 DEF Relaunch
  <2>2. /\ \A a \in Thread : Watch(todo'[a]) /\ Rounding(todo'[a])
        /\ \A a \in Owner : Unwatchful(todo'[a])
        /\ \A t \in Tasks : todo'[t] \in Seq(Own(t))
    BY <2>1, FirstInOrder
  <2>3. QED BY <2>2 DEF InOrder, Watch, Rounding, Unwatchful
<1>2. CASE ~up'[MAIN] /\ \A a \in Thread : todo'[a] = <<>>
  <2>1. \A a \in Thread : Begins(a, todo'[a]) BY <1>2 DEF Begins
  <2>2. QED BY <2>1, BeginsInOrder, Threads DEF InOrder, Watch, Rounding, Unwatchful
<1>3. CASE \A b \in Thread : Proceeds(b)
  <2>1. ASSUME NEW b \in Thread
        PROVE  /\ Watch(todo'[b]) /\ Rounding(todo'[b])
               /\ b \in Owner => Unwatchful(todo'[b])
               /\ b \in Tasks => todo'[b] \in Seq(Own(b))
    <3>1. Goes(todo[b], todo'[b]) \/ Begins(b, todo'[b])
      BY <1>3 DEF Proceeds, Goes, Begins
    <3>2. CASE Begins(b, todo'[b]) BY <3>2, BeginsInOrder
    <3>3. CASE Goes(todo[b], todo'[b])
      BY <3>3, GoesWatch, GoesRounding, GoesOwn DEF InOrder
    <3>4. QED BY <3>1, <3>2, <3>3
  <2>2. QED BY <2>1, Threads DEF InOrder, Watch, Rounding, Unwatchful
<1>4. QED BY <1>1, <1>2, <1>3, Moves

LEMMA InitInOrder == Init => InOrder
BY FirstInOrder DEF Init, InOrder

-----------------------------------------------------------------------------
(* What lasts from one state to the next.                                  *)

\* Some thread still has to do operation o.
HasAny(o) == \E a \in Thread : Has(todo[a], o)

LEMMA HasTail ==
  ASSUME NEW s \in Seq(Op), NEW o, Has(s, o)
  PROVE  s # <<>> /\ (o = Head(s) \/ Has(Tail(s), o))
<1>1. PICK i \in 1 .. Len(s) : s[i] = o BY DEF Has
<1>2. s # <<>> /\ Head(s) = s[1] /\ Len(Tail(s)) = Len(s) - 1 /\ Len(s) \in Nat
  BY <1>1
<1>3. i # 1 => i - 1 \in 1 .. Len(Tail(s)) /\ Tail(s)[i - 1] = s[i]
  BY <1>1, <1>2
<1>4. QED BY <1>1, <1>2, <1>3 DEF Has

LEMMA HasHead == ASSUME NEW s \in Seq(Op), s # <<>> PROVE Has(s, Head(s))
<1>1. 1 \in 1 .. Len(s) /\ s[1] = Head(s) OBVIOUS
<1>2. QED BY <1>1 DEF Has

\* An operation is still to be done, unless its thread does it in this step
\* or is cancelled.
LEMMA Lasting ==
  ASSUME Inv, [Next]_vars, up'[MAIN], NEW a \in Thread, NEW o, Has(todo[a], o)
  PROVE  \/ Has(todo'[a], o)
         \/ Step(a) /\ todo[a] # <<>> /\ o = Head(todo[a])
         \/ a \in Tasks /\ Cancels(a)
<1>1. todo[a] \in Seq(Op) BY DEF Inv, TypeOK
<1>2. todo[a] # <<>> BY <1>1, HasTail
<1>3. ~Relaunch BY <1>2, Busy DEF Relaunch
<1>4. Proceeds(a) BY <1>3, Moves
<1>5. ~Idle(a) BY <1>2 DEF Idle
<1>6. ASSUME Step(a), NEW u, Continues(Head(todo[a]), u), todo'[a] = u \o Tail(todo[a]),
             o # Head(todo[a])
      PROVE  Has(todo'[a], o)
  <2>1. Has(Tail(todo[a]), o) BY <1>1, <1>6, HasTail
  <2>2. Head(todo[a]) \in Op /\ Tail(todo[a]) \in Seq(Op)
    BY <1>2, Heads DEF Inv
  <2>3. u \in Seq(Op) BY <1>6, <2>2, ContinuesAside DEF Aside
  <2>4. Has(u \o Tail(todo[a]), o) BY <2>1, <2>2, <2>3, HasConcat
  <2>5. QED BY <1>6, <2>4
<1>7. QED BY <1>2, <1>4, <1>5, <1>6 DEF Proceeds

\* A task that runs has run before, or has been started.
LEMMA UpBefore ==
  ASSUME Inv, [Next]_vars, NEW t \in Tasks, up'[t]
  PROVE  \/ up[t] \/ Relaunch
         \/ \E b \in Thread : DoRestart(b) /\ Head(todo[b]).task = t
<1>1. t \in Owner /\ MAIN \in Owner BY Threads
<1>2. ASSUME NEW a \in Thread, Step(a)
      PROVE  up[t] \/ (DoRestart(a) /\ Head(todo[a]).task = t)
  <2>1. CASE DoRestart(a) BY <1>1, <2>1 DEF DoRestart, Inv, TypeOK
  <2>2. CASE RestartFails(a) BY <1>1, <2>2 DEF RestartFails, Inv, TypeOK
  <2>3. CASE DoCancel(a) BY <1>1, <2>3 DEF DoCancel, Inv, TypeOK
  <2>4. CASE DoExit(a) BY <1>1, <2>4 DEF DoExit, ProcessEnds
  <2>5. QED
    BY <1>2, <2>1, <2>2, <2>3, <2>4
    DEF Step, DoSend, DoArm, ArmFails, DoCheck, DoReset
<1>3. ASSUME NEW q \in Tasks, TaskReceive(q) \/ TaskKill(q) PROVE up[t]
  BY <1>1, <1>3 DEF TaskReceive, TaskKill, Inv, TypeOK
<1>4. CASE Crash BY <1>1, <1>4 DEF Crash, ProcessEnds
<1>5. QED
  BY <1>2, <1>3, <1>4
  DEF Next, MainReceive, Expire, LastRecord, ClientSend, vars

\* A task that is cancelled and runs has been started again.
LEMMA Restarted ==
  ASSUME Inv, NEW t \in Tasks, up'[t], Cancels(t)
  PROVE  \E b \in Thread : DoRestart(b) /\ Head(todo[b]).task = t
<1>1. t \in Owner BY Threads
<1>2. PICK b \in Thread : /\ DoRestart(b) \/ RestartFails(b) \/ DoCancel(b)
                          /\ Head(todo[b]).task = t
  BY DEF Cancels
<1>3. ~RestartFails(b) BY <1>1, <1>2 DEF RestartFails, Inv, TypeOK
<1>4. ~DoCancel(b) BY <1>1, <1>2 DEF DoCancel, Inv, TypeOK
<1>5. QED BY <1>2, <1>3, <1>4

LEMMA Starts ==
  ASSUME Inv, NEW b \in Thread, DoRestart(b), NEW t \in Tasks, Head(todo[b]).task = t
  PROVE  /\ todo'[t] = TaskStart(t)
         /\ b \notin Tasks
         /\ todo'[b] = AfterCreate(t) \o Tail(todo[b])
<1>1. t \in Thread BY Threads
<1>2. b \notin Tasks
  BY Examiner DEF Inv, DoRestart, Doing, Examines
<1>3. QED BY <1>1, <1>2 DEF DoRestart, Inv, TypeOK

\* How the number of timers of one kind changes.
LEMMA ArmedMoves ==
  ASSUME Inv, [Next]_vars, up'[MAIN], "timer" \notin MayFail, NEW k \in Timer
  PROVE  \/ armed'[k] = armed[k]
         \/ Expire(k)
         \/ \E a \in Thread : DoArm(a) /\ Head(todo[a]) = Arm(k)
<1>1. ASSUME NEW a \in Thread, Step(a)
      PROVE  armed'[k] = armed[k] \/ (DoArm(a) /\ Head(todo[a]) = Arm(k))
  <2>1. CASE DoArm(a)
    <3>1. Head(todo[a]) \in Op /\ Head(todo[a]).op = "arm"
      BY <2>1, Heads DEF DoArm, Doing, Inv
    <3>2. Head(todo[a]) = Arm(Head(todo[a]).timer) /\ Head(todo[a]).timer \in Timer
      BY <3>1 DEF Op, Arm
    <3>3. Head(todo[a]).timer # k => armed'[k] = armed[k]
      BY <2>1 DEF DoArm, WithTimer, Inv, TypeOK
    <3>4. QED BY <2>1, <3>2, <3>3
  <2>2. ~ArmFails(a) BY DEF ArmFails
  <2>3. CASE DoExit(a) BY <2>3, Threads DEF DoExit, ProcessEnds
  <2>4. QED
    BY <1>1, <2>1, <2>2, <2>3
    DEF Step, DoSend, DoCheck, DoReset, DoRestart, RestartFails, DoCancel
<1>2. ASSUME NEW t \in Timer, Expire(t)
      PROVE  armed'[k] = armed[k] \/ Expire(k)
  BY <1>2 DEF Expire, Inv, TypeOK
<1>3. CASE Crash BY <1>3, Threads DEF Crash, ProcessEnds
<1>4. QED
  BY <1>1, <1>2, <1>3
  DEF Next, TaskReceive, TaskKill, MainReceive, LastRecord, ClientSend, Relaunch, vars

LEMMA ArmSets ==
  ASSUME Inv, NEW a \in Thread, NEW k \in Timer, DoArm(a), Head(todo[a]) = Arm(k)
  PROVE  /\ armed' = WithTimer(k) /\ armed'[k] > 0
         /\ armed[k] = 0 => armed'[k] = 1
<1>1. armed' = WithTimer(k) BY DEF DoArm, Arm
<1>2. armed[k] \in 0 .. MaxArmed /\ MaxArmed \in Nat \ {0}
  BY Project1Assumption DEF Inv, TypeOK
<1>3. armed'[k] = IF armed[k] < MaxArmed THEN armed[k] + 1 ELSE armed[k]
  BY <1>1 DEF WithTimer, Inv, TypeOK
<1>4. QED BY <1>1, <1>2, <1>3

-----------------------------------------------------------------------------
(* The sensors are sampled.                                                *)

Sampled ==
  \A t \in Tasks \ {LOG} : up[t] =>
    armed[Sampler(t)] > 0 \/ HasAny(Arm(Sampler(t)))

\* A callback sets its timer again.
LEMMA SamplerScripts ==
  /\ \A t \in Tasks \ {LOG} : Has(TaskStart(t), Arm(Sampler(t)))
  /\ \A k \in {"light_check", "temp_check"} : \A s \in Callback(k) : Has(s, Arm(k))
<1>1. \A t \in Tasks \ {LOG} : TaskStart(t) = <<Arm(Sampler(t))>>
  BY Project1Assumption DEF TaskStart, Sampler
<1>2. ASSUME NEW k \in {"light_check", "temp_check"}, NEW s \in Callback(k)
      PROVE  Has(s, Arm(k))
  <2>1. PICK u \in {Log \o Log \o Log \o Log \o <<>>, Log \o Log \o Log \o Log \o Log, Log} :
          s = u \o <<Arm(k)>>
    BY DEF Callback, LightCheckScripts, TempCheckScript
  <2>2. \A x, y \in Seq(Op) : x \o y \in Seq(Op) OBVIOUS
  <2>3. Log \in Seq(Op) /\ <<>> \in Seq(Op) BY LogUnwatchful DEF Unwatchful
  <2>4. Log \o Log \o Log \o Log \in Seq(Op) BY <2>2, <2>3
  <2>5. u \in Seq(Op) BY <2>1, <2>2, <2>3, <2>4
  <2>6. <<Arm(k)>> \in Seq(Op) BY OpTypes DEF Timer
  <2>7. QED BY <2>1, <2>5, <2>6, HasConcat, HasFew
<1>3. QED BY <1>1, <1>2, HasFew

LEMMA SampledKept ==
  ASSUME "timer" \notin MayFail
  PROVE  Inv /\ InOrder /\ Sampled /\ [Next]_vars => Sampled'
<1> SUFFICES ASSUME Inv, InOrder, Sampled, [Next]_vars, NEW t \in Tasks \ {LOG}, up'[t]
             PROVE  armed'[Sampler(t)] > 0 \/ \E a \in Thread : Has(todo'[a], Arm(Sampler(t)))
  BY DEF Sampled, HasAny, Has
<1> DEFINE k == Sampler(t)
<1>1. up'[MAIN] /\ t \in Owner /\ t \in Thread /\ k \in {"light_check", "temp_check"}
  <2>1. Inv' BY Inductive
  <2>2. QED BY <2>1, Threads DEF Inv, Ended, Sampler
<1>2. CASE todo'[t] = TaskStart(t) BY <1>1, <1>2, SamplerScripts
<1>3. CASE todo'[t] # TaskStart(t)
  <2>1. ~Relaunch
    <3>1. FirstSteps[t] = TaskStart(t) BY <1>1, Threads DEF FirstSteps
    <3>2. QED BY <1>3, <3>1 DEF Relaunch
  <2>2. ~\E b \in Thread : DoRestart(b) /\ Head(todo[b]).task = t
    BY <1>3, Starts
  <2>3. up[t] /\ ~Cancels(t) BY <2>1, <2>2, UpBefore, Restarted
  <2>4. CASE armed[k] > 0
    <3>1. armed'[k] > 0 \/ Expire(k)
      BY <1>1, <2>4, ArmedMoves, ArmSets DEF Timer
    <3>2. CASE Expire(k)
      <4>1. PICK x \in Spare, s \in Callback(k) : todo' = [todo EXCEPT ![x] = s]
        BY <3>2 DEF Expire
      <4>2. x \in Thread /\ todo'[x] = s BY <4>1, Threads DEF Inv, TypeOK
      <4>3. QED BY <1>1, <4>1, <4>2, SamplerScripts
    <3>3. QED BY <3>1, <3>2
  <2>5. ASSUME NEW a \in Thread, Has(todo[a], Arm(k))
        PROVE  armed'[k] > 0 \/ Has(todo'[a], Arm(k))
    <3>1. CASE Step(a) /\ todo[a] # <<>> /\ Arm(k) = Head(todo[a])
      <4>1. DoArm(a)
        <5>1. Head(todo[a]).op = "arm" BY <3>1 DEF Arm
        <5>2. QED
          BY <3>1, <5>1
          DEF Step, DoSend, ArmFails, DoCheck, DoReset, DoRestart, RestartFails,
              DoCancel, DoExit, Doing
      <4>2. QED BY <1>1, <3>1, <4>1, ArmSets DEF Timer
    <3>2. CASE a \in Tasks /\ Cancels(a)
      <4>1. Arm(k) \in Own(a)
        <5>1. todo[a] \in Seq(Own(a)) BY <3>2 DEF InOrder
        <5>2. QED BY <2>5, <5>1 DEF Has
      <4>2. a # LOG /\ Sampler(a) = k
        BY <4>1 DEF Own, Arm, Send, Reply
      <4>3. a = t BY <3>2, <4>2, Project1Assumption DEF Sampler
      <4>4. QED BY <2>3, <3>2, <4>3
    <3>3. QED BY <1>1, <2>5, <3>1, <3>2, Lasting
  <2>6. QED BY <2>3, <2>4, <2>5 DEF Sampled, HasAny
<1>4. QED BY <1>2, <1>3

LEMMA InitSampled == Init => Sampled
<1> SUFFICES ASSUME Init, NEW t \in Tasks \ {LOG} PROVE HasAny(Arm(Sampler(t)))
  BY DEF Sampled
<1>1. t \in Thread /\ todo[t] = TaskStart(t) BY Threads DEF Init, FirstSteps
<1>2. QED BY <1>1, SamplerScripts DEF HasAny

\* Where an operation still has to be done.
LEMMA PlacesHas ==
  ASSUME TypeOK, NEW o
  PROVE  HasAny(o) <=> Places(o) # {}
<1>1. \A a \in Thread : DOMAIN todo[a] = 1 .. Len(todo[a]) BY DEF TypeOK
<1>2. HasAny(o) => Places(o) # {}
  <2>1. SUFFICES ASSUME NEW a \in Thread, NEW i \in 1 .. Len(todo[a]), todo[a][i] = o
                 PROVE  <<a, i>> \in Places(o)
    BY DEF HasAny, Has
  <2>2. i \in {j \in DOMAIN todo[a] : todo[a][j] = o} BY <1>1, <2>1
  <2>3. <<a, i>> \in {<<a, k>> : k \in {j \in DOMAIN todo[a] : todo[a][j] = o}}
    BY <2>2
  <2>4. QED BY <2>3 DEF Places
<1>3. Places(o) # {} => HasAny(o)
  <2>1. SUFFICES ASSUME NEW p \in Places(o) PROVE HasAny(o) OBVIOUS
  <2>2. PICK a \in Thread : p \in {<<a, i>> : i \in {j \in DOMAIN todo[a] : todo[a][j] = o}}
    BY DEF Places
  <2>3. QED BY <1>1, <2>2 DEF HasAny, Has
<1>4. QED BY <1>2, <1>3

\* As long as timers can be set, each sensor is sampled while its task runs:
\* its timer is set or a thread is about to set it, also if the task is
\* killed, cancelled and created again at any moment.
THEOREM SensorIsSampled ==
  ASSUME "timer" \notin MayFail
  PROVE  Spec => []SensorSampled
<1> DEFINE IInv == Inv /\ InOrder /\ Sampled
<1>1. Init => IInv BY Initially, InitInOrder, InitSampled
<1>2. IInv /\ [Next]_vars => IInv' BY Inductive, InOrderKept, SampledKept
<1>3. IInv => SensorSampled BY PlacesHas DEF Inv, Sampled, SensorSampled
<1>4. QED BY <1>1, <1>2, <1>3, PTL DEF Spec

-----------------------------------------------------------------------------
(* A task that runs is never condemned in advance.                         *)

Contains(q, m) == \E i \in 1 .. Len(queue[q]) : queue[q][i] = m

\* The ways in which the confirmation of task t may be under way.
Expected(t) ==
  \/ HasAny(Ask(t)) \/ Contains(t, Request("ALIVE"))
  \/ HasAny(Answer(t)) \/ Contains(MAIN, Response(t, "ALIVE"))
  \/ main_alive[t]

AllExpected == \A t \in Tasks : up[t] => Expected(t)

\* Queues: what is in a queue stays there until it is taken.
LEMMA QueueMoves ==
  ASSUME Inv, [Next]_vars, NEW q \in Owner
  PROVE  \/ queue'[q] = queue[q]
         \/ \E m \in Packet : queue'[q] = Append(queue[q], m)
         \/ /\ queue[q] # <<>> /\ queue'[q] = Tail(queue[q])
            /\ \/ q \in Tasks /\ (TaskReceive(q) \/ TaskKill(q))
               \/ q = MAIN /\ MainReceive
<1> DEFINE Goal ==
      \/ queue'[q] = queue[q]
      \/ \E m \in Packet : queue'[q] = Append(queue[q], m)
      \/ /\ queue[q] # <<>> /\ queue'[q] = Tail(queue[q])
         /\ \/ q \in Tasks /\ (TaskReceive(q) \/ TaskKill(q))
            \/ q = MAIN /\ MainReceive
<1>1. ASSUME NEW r \in Owner, NEW m \in Packet, Put(r, m) PROVE Goal
  BY <1>1 DEF Put, Inv, TypeOK
<1>2. ASSUME NEW r \in Owner, Take(r), r # q PROVE Goal
  BY <1>2 DEF Take, Inv, TypeOK
<1>3. ASSUME Take(q) PROVE queue[q] # <<>> /\ queue'[q] = Tail(queue[q])
  BY <1>3 DEF Take, Inv, TypeOK
<1>4. ASSUME NEW a \in Thread, Step(a) PROVE Goal
  <2>1. CASE DoSend(a)
    BY <1>1, <2>1, Heads DEF DoSend, Doing, Inv
  <2>2. CASE ~DoSend(a)
    BY <1>4, <2>2
    DEF Step, DoArm, ArmFails, DoCheck, DoReset, DoRestart, RestartFails,
        DoCancel, DoExit, ProcessEnds
  <2>3. QED BY <2>1, <2>2
<1>5. ASSUME NEW t \in Tasks, TaskReceive(t) \/ TaskKill(t) PROVE Goal
  <2>1. t \in Owner /\ Take(t) BY <1>5, Threads DEF TaskReceive, TaskKill
  <2>2. CASE t = q BY <1>3, <1>5, <2>1, <2>2
  <2>3. CASE t # q BY <1>2, <2>1, <2>3
  <2>4. QED BY <2>2, <2>3
<1>6. CASE MainReceive
  <2>1. Take(MAIN) /\ MAIN \in Owner BY <1>6, Threads DEF MainReceive
  <2>2. CASE MAIN = q BY <1>3, <1>6, <2>1, <2>2
  <2>3. CASE MAIN # q BY <1>2, <2>1, <2>3
  <2>4. QED BY <2>2, <2>3
<1>7. CASE LastRecord
  <2>1. CASE LOG \in Tasks
    <3>1. Put(LOG, LogRecord) /\ LOG \in Owner /\ LogRecord \in Packet
      BY <1>7, <2>1, Threads, Packets DEF LastRecord
    <3>2. QED BY <1>1, <3>1
  <2>2. CASE LOG \notin Tasks BY <1>7, <2>2 DEF LastRecord
  <2>3. QED BY <2>1, <2>2
<1>8. ASSUME NEW r \in Owner, NEW c \in Cmd, ClientSend(r, c) PROVE Goal
  BY <1>1, <1>8, Packets DEF ClientSend
<1>9. QED
  BY <1>4, <1>5, <1>6, <1>7, <1>8
  DEF Next, Expire, Crash, ProcessEnds, Relaunch, vars

LEMMA Containing ==
  ASSUME Inv, [Next]_vars, NEW q \in Owner, NEW m, Contains(q, m)
  PROVE  \/ \E i \in 1 .. Len(queue'[q]) : queue'[q][i] = m
         \/ /\ Head(queue[q]) = m
            /\ \/ q \in Tasks /\ (TaskReceive(q) \/ TaskKill(q))
               \/ q = MAIN /\ MainReceive
<1>1. queue[q] \in Seq(Packet) BY DEF Inv, TypeOK
<1>2. PICK i \in 1 .. Len(queue[q]) : queue[q][i] = m BY DEF Contains
<1>3. CASE queue'[q] = queue[q] BY <1>2, <1>3
<1>4. ASSUME NEW n \in Packet, queue'[q] = Append(queue[q], n)
      PROVE  \E j \in 1 .. Len(queue'[q]) : queue'[q][j] = m
  <2>1. i \in 1 .. Len(Append(queue[q], n)) /\ Append(queue[q], n)[i] = m
    BY <1>1, <1>2
  <2>2. QED BY <1>4, <2>1
<1>5. CASE /\ queue[q] # <<>> /\ queue'[q] = Tail(queue[q])
           /\ \/ q \in Tasks /\ (TaskReceive(q) \/ TaskKill(q))
              \/ q = MAIN /\ MainReceive
  <2>1. Head(queue[q]) = queue[q][1] /\ Len(Tail(queue[q])) = Len(queue[q]) - 1
        /\ Len(queue[q]) \in Nat
    BY <1>1, <1>5
  <2>2. i # 1 => i - 1 \in 1 .. Len(Tail(queue[q])) /\ Tail(queue[q])[i - 1] = m
    BY <1>1, <1>2, <2>1
  <2>3. i # 1 => \E j \in 1 .. Len(queue'[q]) : queue'[q][j] = m
    BY <1>5, <2>2
  <2>4. i = 1 => Head(queue[q]) = m BY <1>2, <2>1
  <2>5. QED BY <1>5, <2>3, <2>4
<1>6. QED BY <1>3, <1>4, <1>5, QueueMoves

\* A packet that is sent is in the queue.
LEMMA Sent ==
  ASSUME Inv, NEW a \in Thread, NEW q \in Owner, NEW m,
         DoSend(a), Head(todo[a]) = Send(q, m)
  PROVE  \E i \in 1 .. Len(queue'[q]) : queue'[q][i] = m
<1>1. queue'[q] = Append(queue[q], m) /\ queue[q] \in Seq(Packet) /\ m \in Packet
  <2>1. Head(todo[a]).to = q /\ Head(todo[a]).msg = m BY DEF Send
  <2>2. m \in Packet BY <2>1, Heads DEF DoSend, Doing, Inv
  <2>3. QED BY <2>1, <2>2 DEF DoSend, Put, Inv, TypeOK
<1> DEFINE n == Len(Append(queue[q], m))
<1>2. n \in 1 .. n /\ Append(queue[q], m)[n] = m
  BY <1>1
<1>3. QED BY <1>1, <1>2

\* Whoever starts a task again, or has used up its confirmation, will ask it
\* and all the others.
LEMMA WillAsk ==
  ASSUME Inv, InOrder, [Next]_vars, up'[MAIN], NEW a \in Thread, NEW t \in Tasks,
         DoReset(a) \/ DoRestart(a)
  PROVE  Has(todo'[a], Ask(t))
<1> DEFINE s == todo[a]
<1>1. s # <<>> /\ Examines(Head(s)) /\ s \in Seq(Op) /\ Watch(s)
  BY DEF DoReset, DoRestart, Doing, Examines, Inv, TypeOK, InOrder
<1>2. \E j \in 1 .. Len(Tail(s)) : Tail(s)[j] = Ask(t)
  BY <1>1, WatchHead
<1>3. \E i \in 1 .. Len(s) : s[i] = Ask(t)
  <2>1. Len(Tail(s)) = Len(s) - 1 /\ Len(s) \in Nat
        /\ \A j \in 1 .. Len(Tail(s)) : j + 1 \in 1 .. Len(s) /\ Tail(s)[j] = s[j + 1]
    BY <1>1
  <2>2. QED BY <1>2, <2>1
<1>4. Ask(t) # Head(s) BY <1>1 DEF Examines, Ask, Send
<1>5. a \notin Tasks BY <1>1, Examiner DEF Inv
<1>6. QED BY <1>3, <1>4, <1>5, Lasting DEF Has

\* The handlers answer, and main takes the answer for what it is.
LEMMA Answers ==
  ASSUME Inv, NEW t \in Tasks
  PROVE  /\ TaskReceive(t) /\ Head(queue[t]) = Request("ALIVE") =>
              Has(todo'[t], Answer(t))
         /\ MainReceive /\ Head(queue[MAIN]) = Response(t, "ALIVE") =>
              main_alive'[t]
         /\ TaskKill(t) => ~up'[t]
<1>1. ASSUME TaskReceive(t), Head(queue[t]) = Request("ALIVE")
      PROVE  Has(todo'[t], Answer(t))
  <2>1. TaskHandlers(t, Request("ALIVE")) = {<<Answer(t)>>}
    <3>1. Request("ALIVE").rsp = FALSE /\ Request("ALIVE").cmd = "ALIVE"
      BY DEF Request
    <3>2. LightHandler("ALIVE") = <<Reply(LIGHT, "ALIVE")>> BY DEF LightHandler
    <3>3. TempHandler("ALIVE") = <<Reply(TEMP, "ALIVE")>> BY DEF TempHandler
    <3>4. LogHandlers("ALIVE") = {<<Reply(LOG, "ALIVE")>>} BY DEF LogHandlers
    <3>5. t \in {LIGHT, TEMP, LOG} BY Project1Assumption
    <3>6. QED BY <3>1, <3>2, <3>3, <3>4, <3>5 DEF TaskHandlers, Answer
  <2>2. todo'[t] = <<Answer(t)>>
    BY <1>1, <2>1, Threads DEF TaskReceive, Inv, TypeOK
  <2>3. QED BY <2>2, HasFew
<1>2. ASSUME MainReceive, Head(queue[MAIN]) = Response(t, "ALIVE")
      PROVE  main_alive'[t]
  BY <1>2 DEF MainReceive, Response, Inv, TypeOK
<1>3. ASSUME TaskKill(t) PROVE ~up'[t]
  BY <1>3, Threads DEF TaskKill, Inv, TypeOK
<1>4. QED BY <1>1, <1>2, <1>3

LEMMA AliveMoves ==
  ASSUME Inv, [Next]_vars, NEW t \in Tasks, main_alive[t]
  PROVE  main_alive'[t] \/ Relaunch \/ \E a \in Thread : DoReset(a)
BY DEF Next, Step, DoSend, DoArm, ArmFails, DoCheck, DoReset, DoRestart, RestartFails,
       DoCancel, DoExit, ProcessEnds, Crash, TaskReceive, TaskKill, MainReceive, Expire,
       LastRecord, ClientSend, vars, Inv, TypeOK

LEMMA StartupAsks == \A t \in Tasks : Has(Startup, Ask(t))
<1>1. EachTask(Ask) \in Seq(Op) /\ <<Arm("heartbeat")>> \in Seq(Op)
      /\ <<Arm("logic")>> \in Seq(Op)
  BY Loops, HarmlessUnwatchful, OpTypes DEF Unwatchful, Timer
<1>2. \A q \in Tasks : <<Initialize(q)>> \in Seq(Op)
  BY OpTypes, Packets, Threads DEF Initialize
<1>3. \A q : Only(q, <<Initialize(q)>>) \in Seq(Op) BY <1>2 DEF Only
<1>4. \A t \in Tasks : Has(HeartbeatInit, Ask(t))
  BY <1>1, LoopAsks, HasConcat DEF HeartbeatInit
<1>5. HeartbeatInit \in Seq(Op) BY <1>1 DEF HeartbeatInit
<1> DEFINE u == Only(LOG, <<Initialize(LOG)>>) \o Only(TEMP, <<Initialize(TEMP)>>)
                  \o Only(LIGHT, <<Initialize(LIGHT)>>)
<1>6. u \in Seq(Op) BY <1>3
<1>7. Startup = (u \o HeartbeatInit) \o <<Arm("logic")>> BY DEF Startup
<1> HIDE DEF u
<1>8. u \o HeartbeatInit \in Seq(Op) BY <1>5, <1>6
<1>9. \A t \in Tasks : Has(u \o HeartbeatInit, Ask(t))
  BY <1>4, <1>5, <1>6, HasConcat
<1>10. QED BY <1>1, <1>7, <1>8, <1>9, HasConcat

\* A confirmation stays under way as long as its task runs.
LEMMA ExpectedKept == Inv /\ InOrder /\ AllExpected /\ [Next]_vars => AllExpected'
<1> SUFFICES ASSUME Inv, InOrder, AllExpected, [Next]_vars, NEW t \in Tasks, up'[t]
             PROVE  Expected(t)'
  BY DEF AllExpected
<1>1. up'[MAIN] /\ t \in Owner /\ MAIN \in Owner /\ t \in Thread
  <2>1. Inv' BY Inductive
  <2>2. QED BY <2>1, Threads DEF Inv, Ended
<1>2. Expected(t)' <=>
        \/ \E a \in Thread : Has(todo'[a], Ask(t))
        \/ \E i \in 1 .. Len(queue'[t]) : queue'[t][i] = Request("ALIVE")
        \/ \E a \in Thread : Has(todo'[a], Answer(t))
        \/ \E i \in 1 .. Len(queue'[MAIN]) : queue'[MAIN][i] = Response(t, "ALIVE")
        \/ main_alive'[t]
  BY DEF Expected, HasAny, Has, Contains
<1>3. CASE Relaunch
  <2>1. todo'[MAIN] = Startup BY <1>1, <1>3, Threads DEF Relaunch, FirstSteps
  <2>2. QED BY <1>1, <1>2, <2>1, StartupAsks, Threads
<1>4. ASSUME NEW a \in Thread, DoReset(a) \/ DoRestart(a) PROVE Expected(t)'
  BY <1>1, <1>2, <1>4, WillAsk
<1>5. CASE ~Relaunch /\ \A a \in Thread : ~DoReset(a) /\ ~DoRestart(a)
  <2>1. up[t] /\ ~Cancels(t) BY <1>5, UpBefore, Restarted
  <2>2. \A a \in Thread : Step(a) /\ Head(todo[a]).op = "send" => DoSend(a)
    BY DEF Step, DoArm, ArmFails, DoCheck, DoReset, DoRestart, RestartFails,
           DoCancel, DoExit, Doing
  <2>3. ASSUME NEW a \in Thread, Has(todo[a], Ask(t)) PROVE Expected(t)'
    <3>1. CASE Step(a) /\ Ask(t) = Head(todo[a])
      <4>1. DoSend(a) BY <2>2, <3>1 DEF Ask, Send
      <4>2. QED BY <1>1, <1>2, <3>1, <4>1, Sent DEF Ask
    <3>2. ~(a \in Tasks /\ Cancels(a))
      <4>1. SUFFICES ASSUME a \in Tasks PROVE FALSE OBVIOUS
      <4>2. Ask(t) \in Own(a)
        <5>1. todo[a] \in Seq(Own(a)) BY <4>1 DEF InOrder
        <5>2. QED BY <2>3, <5>1 DEF Has
      <4>3. QED BY <4>2, Threads DEF Own, Ask, Send, Arm, Reply, Request, Response, LogRecord
    <3>3. QED BY <1>1, <1>2, <2>3, <3>1, <3>2, Lasting
  <2>4. ASSUME Contains(t, Request("ALIVE")) PROVE Expected(t)'
    <3>1. CASE Head(queue[t]) = Request("ALIVE") /\ (TaskReceive(t) \/ TaskKill(t))
      BY <1>1, <1>2, <3>1, Answers
    <3>2. QED BY <1>1, <1>2, <2>4, <3>1, Containing, Threads
  <2>5. ASSUME NEW a \in Thread, Has(todo[a], Answer(t)) PROVE Expected(t)'
    <3>1. CASE Step(a) /\ Answer(t) = Head(todo[a])
      <4>1. DoSend(a) BY <2>2, <3>1 DEF Answer, Reply, Send
      <4>2. QED BY <1>1, <1>2, <3>1, <4>1, Sent DEF Answer, Reply
    <3>2. ~(a \in Tasks /\ Cancels(a))
      <4>1. SUFFICES ASSUME a \in Tasks, Cancels(a) PROVE FALSE OBVIOUS
      <4>2. Answer(t) \in Own(a)
        <5>1. todo[a] \in Seq(Own(a)) BY <4>1 DEF InOrder
        <5>2. QED BY <2>5, <5>1 DEF Has
      <4>3. a = t
        BY <4>2 DEF Own, Answer, Send, Arm, Reply, Request, Response, LogRecord
      <4>4. QED BY <2>1, <4>1, <4>3
    <3>3. QED BY <1>1, <1>2, <2>5, <3>1, <3>2, Lasting
  <2>6. ASSUME Contains(MAIN, Response(t, "ALIVE")) PROVE Expected(t)'
    <3>1. CASE Head(queue[MAIN]) = Response(t, "ALIVE") /\ MainReceive
      BY <1>2, <3>1, Answers
    <3>2. QED BY <1>1, <1>2, <2>6, <3>1, Containing, Threads
  <2>7. ASSUME main_alive[t] PROVE Expected(t)'
    BY <1>2, <1>5, <2>7, AliveMoves
  <2>8. Expected(t) BY <2>1 DEF AllExpected
  <2>9. QED BY <2>3, <2>4, <2>5, <2>6, <2>7, <2>8 DEF Expected, HasAny
<1>6. QED BY <1>3, <1>4, <1>5

LEMMA InitExpected == Init => AllExpected
<1> SUFFICES ASSUME Init, NEW t \in Tasks PROVE HasAny(Ask(t))
  BY DEF AllExpected, Expected
<1>1. todo[MAIN] = Startup BY Threads DEF Init, FirstSteps
<1>2. QED BY <1>1, StartupAsks, Threads DEF HasAny

\* What is counted is finite.
LEMMA FinitePlaces ==
  ASSUME TypeOK, NEW o
  PROVE  /\ IsFiniteSet(Places(o)) /\ Cardinality(Places(o)) \in Nat
         /\ Cardinality(Places(o)) = 0 <=> ~HasAny(o)
<1> DEFINE P(a) == {<<a, i>> : i \in {j \in DOMAIN todo[a] : todo[a][j] = o}}
           S == {P(a) : a \in Thread}
<1>1. IsFiniteSet(Thread)
  <2>1. IsFiniteSet({LIGHT, TEMP, LOG}) /\ IsFiniteSet({MAIN})
    <3>1. \A q : IsFiniteSet({q}) BY FS_Singleton
    <3>2. IsFiniteSet({LIGHT} \cup {TEMP}) BY <3>1, FS_Union
    <3>3. IsFiniteSet({LIGHT} \cup {TEMP} \cup {LOG}) BY <3>1, <3>2, FS_Union
    <3>4. {LIGHT} \cup {TEMP} \cup {LOG} = {LIGHT, TEMP, LOG} OBVIOUS
    <3>5. QED BY <3>1, <3>3, <3>4
  <2>2. IsFiniteSet(Tasks) BY <2>1, FS_Subset, Project1Assumption
  <2>3. IsFiniteSet(Owner) BY <2>1, <2>2, FS_Union DEF Owner
  <2>4. QED BY <2>3, FS_Union, Project1Assumption DEF Thread
<1>2. IsFiniteSet(S)
  <2> DEFINE f == [a \in Thread |-> P(a)]
  <2>1. f \in Surjection(Thread, S) BY DEF Surjection
  <2>2. QED BY <1>1, <2>1, FS_Surjection
<1>3. ASSUME NEW a \in Thread PROVE IsFiniteSet(P(a))
  <2> DEFINE D == {j \in DOMAIN todo[a] : todo[a][j] = o}
             g == [i \in D |-> <<a, i>>]
  <2>1. IsFiniteSet(D)
    <3>1. Len(todo[a]) \in Nat /\ DOMAIN todo[a] = 1 .. Len(todo[a])
      BY DEF TypeOK
    <3>2. IsFiniteSet(1 .. Len(todo[a]))
      <4>1. 1 \in Int /\ Len(todo[a]) \in Int BY <3>1
      <4>2. QED BY <4>1, FS_Interval
    <3>3. D \in SUBSET (1 .. Len(todo[a])) BY <3>1
    <3>4. QED BY <3>2, <3>3, FS_Subset
  <2>2. g \in Surjection(D, P(a)) BY DEF Surjection
  <2>3. QED BY <2>1, <2>2, FS_Surjection
<1>4. IsFiniteSet(UNION S)
  <2>1. \A T \in S : IsFiniteSet(T) BY <1>3
  <2> HIDE DEF S
  <2>2. QED BY <1>2, <2>1, FS_UNION
<1>5. IsFiniteSet(Places(o)) BY <1>4 DEF Places
<1>6. QED BY <1>5, FS_CardinalityType, FS_EmptySet, PlacesHas

LEMMA FiniteQueued ==
  ASSUME TypeOK, NEW q \in Owner, NEW m
  PROVE  /\ Queued(q, m) \in Nat
         /\ Queued(q, m) = 0 <=> ~Contains(q, m)
<1> DEFINE D == {j \in DOMAIN queue[q] : queue[q][j] = m}
<1>1. Len(queue[q]) \in Nat /\ DOMAIN queue[q] = 1 .. Len(queue[q])
  BY DEF TypeOK
<1>2. IsFiniteSet(1 .. Len(queue[q]))
  <2>1. 1 \in Int /\ Len(queue[q]) \in Int BY <1>1
  <2>2. QED BY <2>1, FS_Interval
<1>3. D \in SUBSET (1 .. Len(queue[q])) BY <1>1
<1>4. IsFiniteSet(D) BY <1>2, <1>3, FS_Subset
<1>5. Cardinality(D) \in Nat /\ (Cardinality(D) = 0 <=> D = {})
  BY <1>4, FS_CardinalityType, FS_EmptySet
<1>6. D = {} <=> ~Contains(q, m) BY <1>1 DEF Contains
<1>7. QED BY <1>5, <1>6 DEF Queued

\* Whatever fails and whatever commands arrive, no task that runs is
\* condemned in advance: a request to it, its answer or its flag is on the
\* way, through restarts, kills, lost replies, failed timers and relaunches
\* of the program over the queues of a crashed one.
THEOREM NeverIsCondemned == Spec => []NeverCondemned
<1> DEFINE IInv == Inv /\ InOrder /\ AllExpected
<1>1. Init => IInv BY Initially, InitInOrder, InitExpected
<1>2. IInv /\ [Next]_vars => IInv' BY Inductive, InOrderKept, ExpectedKept
<1>3. IInv => NeverCondemned
  <2> SUFFICES ASSUME TypeOK, NEW t \in Tasks, Expected(t)
               PROVE  Outstanding(t) >= 1
    BY DEF Inv, AllExpected, NeverCondemned
  <2> DEFINE a == Cardinality(Places(Ask(t)))
             b == Queued(t, Request("ALIVE"))
             c == Cardinality(Places(Answer(t)))
             d == Queued(MAIN, Response(t, "ALIVE"))
             e == IF main_alive[t] THEN 1 ELSE 0
  <2>1. a \in Nat /\ (a = 0 <=> ~HasAny(Ask(t))) BY FinitePlaces
  <2>2. b \in Nat /\ (b = 0 <=> ~Contains(t, Request("ALIVE")))
    BY FiniteQueued, Threads
  <2>3. c \in Nat /\ (c = 0 <=> ~HasAny(Answer(t))) BY FinitePlaces
  <2>4. d \in Nat /\ (d = 0 <=> ~Contains(MAIN, Response(t, "ALIVE")))
    BY FiniteQueued, Threads
  <2>5. e \in Nat /\ (e = 0 <=> ~main_alive[t]) OBVIOUS
  <2>6. Outstanding(t) = a + b + c + d + e BY DEF Outstanding
  <2> HIDE DEF a, b, c, d, e
  <2>7. QED BY <2>1, <2>2, <2>3, <2>4, <2>5, <2>6 DEF Expected
<1>4. QED BY <1>1, <1>2, <1>3, PTL DEF Spec
=============================================================================
