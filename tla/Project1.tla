------------------------------ MODULE Project1 ------------------------------
(***************************************************************************)
(* The running program: the main task, the tasks it supervises, the timer  *)
(* callbacks, and the bounded message queues between them.                 *)
(*                                                                         *)
(* Every thread of the process is modelled by what it still has to do      *)
(* before it next waits for a packet: todo[a] is a sequence of operations  *)
(* in the order in which the C function performs them.  An operation that  *)
(* may block (mq_send) or that touches state another thread touches is a   *)
(* step of its own; a handler that only computes is folded into the        *)
(* receive.  Timer callbacks run on threads of their own (SIGEV_THREAD),   *)
(* so several may be in progress, also of the same timer.                  *)
(*                                                                         *)
(* Time is not modelled: a timer that is set may expire at any moment, so  *)
(* a task may be arbitrarily slow and still be well.                       *)
(***************************************************************************)
EXTENDS Msg, FiniteSets

CONSTANTS
  Tasks,         \* the tasks main creates and supervises in this instance
  MaxMsgs,       \* MSG_MAXMSGS: how many packets a queue holds
  Spare,         \* the threads that run timer callbacks
  Expiring,      \* the timers that expire in this instance
  ClientCmds,    \* <<queue, command>> pairs other processes may send
  MaxFaults,     \* bound on the interventions of the environment
  MayFail,       \* the library calls that may fail: "create", "timer", "fopen"
  MaxLaunches,   \* how often the program is started
  MaxArmed,      \* bound on the pending expirations of one timer
  MaxDying,      \* bound on cancelled threads still in their exit handler
  Watched        \* the tasks whose missed checks the history records

\* Timers are named after the callback they start.
Timer == {"heartbeat", "logic", "light_check", "temp_check"}

ASSUME Project1Assumption ==
  /\ Tasks \subseteq {LIGHT, TEMP, LOG}
  /\ MaxMsgs \in Nat \ {0}
  /\ IsFiniteSet(Spare) /\ Spare \cap ThreadId = {}
  /\ Expiring \subseteq Timer
  /\ ClientCmds \subseteq Command
  /\ MayFail \subseteq {"create", "timer", "fopen"}
  /\ MaxFaults \in Nat
  /\ MaxLaunches \in Nat \ {0}
  /\ MaxArmed \in Nat \ {0}
  /\ MaxDying \in Nat
  /\ Watched \subseteq ThreadId

\* The threads that own a queue, and all threads of the process.
Owner  == {MAIN} \cup Tasks
Thread == Owner \cup Spare

VARIABLES
  queue,        \* msg_queues: the packets in each queue, oldest first
  todo,         \* what each thread still has to do
  up,           \* the threads that exist
  main_alive,   \* main_alive[t] = 0xa5
  armed,        \* the number of set, not yet expired timers of each kind
  dying,        \* cancelled threads that have not yet sent their last record
  launches,     \* starts of the program so far
  faults,       \* failed calls and client commands so far
  missed        \* history: watched tasks that missed a check in this launch

vars == <<queue, todo, up, main_alive, armed, dying, launches, faults, missed>>

-----------------------------------------------------------------------------
(* Operations.                                                             *)

Send(q, m) == [op |-> "send", to |-> q, msg |-> m]
Arm(t)     == [op |-> "arm", timer |-> t]
Check(t)   == [op |-> "check", task |-> t]     \* if (main_alive[i] != 0xa5)
Reset(t)   == [op |-> "reset", task |-> t]     \* main_alive[i] = 0
Restart(t) == [op |-> "restart", task |-> t]
Cancel(t)  == [op |-> "cancel", task |-> t]
Exit       == [op |-> "exit"]

Op == [op : {"send"}, to : Owner, msg : Packet]
        \cup [op : {"arm"}, timer : Timer]
        \cup [op : {"check", "reset", "restart", "cancel"}, task : Tasks]
        \cup [op : {"exit"}]

Initialize(t) == Send(t, Request("INIT"))
Ask(t)    == Send(t, Request("ALIVE"))

\* What concerns task t, if this instance has it.  Without LOG in Tasks the
\* instance is a program whose log queue always has room.
Only(t, script) == IF t \in Tasks THEN script ELSE <<>>

\* LOG_FMT and logmsg_send.
Log == Only(LOG, <<Send(LOG, LogRecord)>>)

\* A loop over the tasks, in the order of their identifiers.
EachTask(F(_)) ==
  Only(LIGHT, <<F(LIGHT)>>) \o Only(TEMP, <<F(TEMP)>>) \o Only(LOG, <<F(LOG)>>)

\* Mutant of HeartbeatInit: the timer is set after the requests are sent.
ArmAfterRequests == EachTask(Ask) \o <<Arm("heartbeat")>>

\* __main_heartbeat_init: the timer is set before the requests are sent.
HeartbeatInit == <<Arm("heartbeat")>> \o EachTask(Ask)

\* main, from the first logmsg_send to the command loop.
Startup ==
  Only(LOG, <<Initialize(LOG)>>) \o Only(TEMP, <<Initialize(TEMP)>>)
  \o Only(LIGHT, <<Initialize(LIGHT)>>) \o HeartbeatInit \o <<Arm("logic")>>

\* main_exit
ExitScript == Log \o EachTask(Cancel) \o <<Exit>>

\* Mutants of HeartbeatScript: the timer is set before the loop; only the
\* timer is set again after it.
ArmBeforeLoop == <<Arm("heartbeat")>> \o Log \o EachTask(Check) \o EachTask(Ask)
NoRequests    == Log \o EachTask(Check) \o <<Arm("heartbeat")>>

\* __main_heartbeat
HeartbeatScript == Log \o EachTask(Check) \o HeartbeatInit

\* Mutant of LogicScripts: the timer is set before the requests are sent.
ArmBeforeRound ==
  { Log \o <<Arm("logic")>>
    \o Only(TEMP, <<Send(TEMP, Request("GETTEMP"))>>)
    \o Only(LIGHT, <<Send(LIGHT, Request("GETLUX"))>>) }

\* __main_logic.  It logs "too hot" or "too cold" and "too bright", so up
\* to two more records, depending on the values last received.
LogicScripts ==
  LET gettemp == Send(TEMP, Request("GETTEMP"))
      getlux  == Send(LIGHT, Request("GETLUX"))
  IN { Log \o remarks
       \o Only(TEMP, <<gettemp, gettemp, gettemp>>) \o Only(LIGHT, <<getlux>>)
       \o <<Arm("logic")>> : remarks \in {<<>>, Log, Log \o Log} }

\* Mutant of LightCheckScripts: it returns early if the value has not changed.
EarlyReturn ==
  { Log \o Log \o Log \o Log, Log \o Log \o Log \o Log \o Log \o <<Arm("light_check")>> }

\* __light_check reads four registers; __light_i2c_read logs each read.
\* A fifth record reports that the value changed by more than a factor 2.
LightCheckScripts ==
  { Log \o Log \o Log \o Log \o change \o <<Arm("light_check")>> :
      change \in {<<>>, Log} }

\* __temp_check
TempCheckScript == Log \o <<Arm("temp_check")>>

\* The function each timer calls when it expires.
Callback(t) ==
  CASE t = "heartbeat"   -> {HeartbeatScript}
    [] t = "logic"       -> LogicScripts
    [] t = "light_check" -> LightCheckScripts
    [] t = "temp_check"  -> {TempCheckScript}

\* What a new thread of task t does before its command loop.
TaskStart(t) ==
  CASE t = LIGHT -> <<Arm("light_check")>>
    [] t = TEMP  -> <<Arm("temp_check")>>
    [] t = LOG   -> <<>>

\* __main_heartbeat after it has created task t again.
AfterCreate(t) ==
  <<Initialize(t)>> \o (IF t = LOG THEN Log ELSE <<>>)

\* What each task sends in the handler of command c of main or a client.
\* Every register that is read is also logged.
Reply(t, c) == Send(MAIN, Response(t, c))
Answer(t)   == Reply(t, "ALIVE")

LightHandler(c) ==
  CASE c \in {"ALIVE", "GETLUX"} -> <<Reply(LIGHT, c)>>
    [] c \in {"READREG", "READID"} -> Log \o <<Reply(LIGHT, c)>>
    [] c \in {"INIT", "WRITEIT", "ENABLEINT", "DISABLEINT"} -> Log
    [] OTHER -> <<>>               \* WRITEREG; ISDAY has no case

TempHandler(c) ==
  CASE c \in {"ALIVE", "GETTEMP"} -> <<Reply(TEMP, c)>>
    [] c = "READREG" -> Log \o <<Reply(TEMP, c)>>
    [] c \in {"INIT", "SETCONV", "SHUTDOWN", "WAKEUP"} -> Log
    [] OTHER -> <<>>               \* WRITEREG, WRITECONFIG, WRITEPTR

\* log_init says nothing if it cannot open the file.
LogHandlers(c) ==
  CASE c = "ALIVE" -> {<<Reply(LOG, c)>>}
    [] c = "INIT" -> IF "fopen" \in MayFail THEN {<<>>, Log} ELSE {Log}
    [] OTHER -> {<<>>}             \* LOG, SETPATH

\* The switch of each task; responses are ignored.
TaskHandlers(t, m) ==
  CASE m.rsp -> {<<>>}
    [] ~m.rsp /\ t = LIGHT -> {LightHandler(m.cmd)}
    [] ~m.rsp /\ t = TEMP -> {TempHandler(m.cmd)}
    [] ~m.rsp /\ t = LOG -> LogHandlers(m.cmd)

\* The command loop of main.
MainHandler(m) ==
  CASE m.rsp /\ m.cmd \in {"GETLUX", "GETTEMP", "READREG"} -> Log
    [] ~m.rsp /\ m.cmd = "EXIT" -> ExitScript
    [] OTHER -> <<>>

-----------------------------------------------------------------------------
(* Initial state: main has opened the queues and created the tasks.        *)

NothingArmed == [t \in Timer |-> 0]

\* What each thread does when the program has just been started.
FirstSteps ==
  [a \in Thread |-> IF a = MAIN THEN Startup
                    ELSE IF a \in Tasks THEN TaskStart(a) ELSE <<>>]

Init ==
  /\ queue = [q \in Owner |-> <<>>]
  /\ todo = FirstSteps
  /\ up = [a \in Owner |-> TRUE]
  /\ main_alive = [t \in Tasks |-> FALSE]
  /\ armed = NothingArmed
  /\ dying = 0
  /\ launches = 1
  /\ faults = 0
  /\ missed = {}

-----------------------------------------------------------------------------
(* Steps of a thread that is not waiting for a packet.                     *)

\* Mutant of Room: off by one.
OneTooMany(q) == Len(queue[q]) <= MaxMsgs

Room(q)   == Len(queue[q]) < MaxMsgs
Put(q, m) == queue' = [queue EXCEPT ![q] = Append(@, m)]

Doing(a, op) == todo[a] # <<>> /\ Head(todo[a]).op = op
Advance(a)   == todo' = [todo EXCEPT ![a] = Tail(@)]

\* Mutant of Instead: the function returns after script.
ReturnAfter(a, script) == todo' = [todo EXCEPT ![a] = script]

\* In place of its current operation thread a does script.
Instead(a, script) == todo' = [todo EXCEPT ![a] = script \o Tail(@)]

\* The environment intervenes once more.
Fault == faults < MaxFaults /\ faults' = faults + 1

\* msg_send, logmsg_send: mq_send on a blocking descriptor waits for room.
DoSend(a) ==
  /\ Doing(a, "send")
  /\ LET o == Head(todo[a]) IN Room(o.to) /\ Put(o.to, o.msg)
  /\ Advance(a)
  /\ UNCHANGED <<up, main_alive, armed, dying, launches, faults, missed>>

\* armed with one more timer of kind t, or at its bound.
WithTimer(t) == [armed EXCEPT ![t] = IF @ < MaxArmed THEN @ + 1 ELSE @]

\* A one-shot timer is created and set.
DoArm(a) ==
  /\ Doing(a, "arm")
  /\ armed' = WithTimer(Head(todo[a]).timer)
  /\ Advance(a)
  /\ UNCHANGED <<queue, up, main_alive, dying, launches, faults, missed>>

\* timer_create or timer_settime fails, the code logs that and goes on.
\* After a failed timer_create, tmr is uninitialized: timer_settime rejects
\* it (a second record), or it is what an earlier call left on the stack,
\* the identifier of a timer never deleted, which is then set once more.
ArmFails(a) ==
  /\ "timer" \in MayFail /\ Fault
  /\ Doing(a, "arm")
  /\ \/ Instead(a, Log \o Log) /\ UNCHANGED armed
     \/ /\ Instead(a, Log)
        /\ armed' \in {armed} \cup {WithTimer(t) : t \in Timer}
  /\ UNCHANGED <<queue, up, main_alive, dying, launches, missed>>

\* Mutant of DoCheck: the comparison is the other way round.
CheckInverted(a) ==
  /\ Doing(a, "check")
  /\ LET t == Head(todo[a]).task IN
       IF ~main_alive[t]
       THEN Instead(a, <<Reset(t)>>) /\ UNCHANGED missed
       ELSE Instead(a, Log \o <<Restart(t)>>) /\ missed' = missed \cup ({t} \cap Watched)
  /\ UNCHANGED <<queue, up, main_alive, armed, dying, launches, faults>>

\* The heartbeat looks at the flag of one task.
DoCheck(a) ==
  /\ Doing(a, "check")
  /\ LET t == Head(todo[a]).task IN
       IF main_alive[t]
       THEN Instead(a, <<Reset(t)>>) /\ UNCHANGED missed
       ELSE Instead(a, Log \o <<Restart(t)>>) /\ missed' = missed \cup ({t} \cap Watched)
  /\ UNCHANGED <<queue, up, main_alive, armed, dying, launches, faults>>

\* Mutant of DoReset: the flag is not cleared.
KeepFlag(a) ==
  Doing(a, "reset") /\ Advance(a)
  /\ UNCHANGED <<queue, up, main_alive, armed, dying, launches, faults, missed>>

\* The flag is cleared, with no lock held since it was read.
DoReset(a) ==
  /\ Doing(a, "reset")
  /\ main_alive' = [main_alive EXCEPT ![Head(todo[a]).task] = FALSE]
  /\ Advance(a)
  /\ UNCHANGED <<queue, up, armed, dying, launches, faults, missed>>

\* A cancelled or exiting sensor task still sends a record from its exit
\* handler (__light_terminate, __temp_terminate).  __log_terminate sends
\* none.
Dying(t) == IF up[t] /\ t # LOG THEN dying + 1 ELSE dying

\* The heartbeat cancels the task and creates it again.  The cancelled
\* thread takes and sends nothing any more, its last record apart: mq_send
\* and mq_receive are cancellation points.
DoRestart(a) ==
  /\ Doing(a, "restart")
  /\ LET t == Head(todo[a]).task IN
       /\ Dying(t) <= MaxDying
       /\ dying' = Dying(t)
       /\ up' = [up EXCEPT ![t] = TRUE]
       /\ todo' = [todo EXCEPT ![a] = AfterCreate(t) \o Tail(@),
                               ![t] = TaskStart(t)]
  /\ UNCHANGED <<queue, main_alive, armed, launches, faults, missed>>

\* pthread_create fails: the task stays cancelled, a record is sent.
RestartFails(a) ==
  /\ "create" \in MayFail /\ Fault
  /\ Doing(a, "restart")
  /\ LET t == Head(todo[a]).task IN
       /\ Dying(t) <= MaxDying
       /\ dying' = Dying(t)
       /\ up' = [up EXCEPT ![t] = FALSE]
       /\ todo' = [todo EXCEPT ![a] = Log \o Tail(@), ![t] = <<>>]
  /\ UNCHANGED <<queue, main_alive, armed, launches, missed>>

\* main_exit cancels a task.
DoCancel(a) ==
  /\ Doing(a, "cancel")
  /\ LET t == Head(todo[a]).task IN
       /\ Dying(t) <= MaxDying
       /\ dying' = Dying(t)
       /\ up' = [up EXCEPT ![t] = FALSE]
       /\ todo' = [todo EXCEPT ![a] = Tail(@), ![t] = <<>>]
  /\ UNCHANGED <<queue, main_alive, armed, launches, faults, missed>>

\* The process is gone: all its threads and timers, but not the queues,
\* which the program never unlinks.
ProcessEnds ==
  /\ up' = [a \in Owner |-> FALSE]
  /\ todo' = [a \in Thread |-> <<>>]
  /\ armed' = NothingArmed
  /\ dying' = 0
  /\ UNCHANGED <<queue, main_alive, launches, faults, missed>>

\* exit(0): cancelled threads are not joined, their handlers may not have run.
DoExit(a) == Doing(a, "exit") /\ ProcessEnds

-----------------------------------------------------------------------------
(* Steps that begin something.                                             *)

Idle(a) == todo[a] = <<>>
Take(q) == queue[q] # <<>> /\ queue' = [queue EXCEPT ![q] = Tail(@)]

\* The command loop of a task, any packet but a KILL.
TaskReceive(t) ==
  /\ up[t] /\ Idle(t) /\ Take(t)
  /\ Head(queue[t]) # Request("KILL")
  /\ \E script \in TaskHandlers(t, Head(queue[t])) :
       todo' = [todo EXCEPT ![t] = script]
  /\ UNCHANGED <<up, main_alive, armed, dying, launches, faults, missed>>

\* light_kill, temp_kill, log_kill: the thread exits.
TaskKill(t) ==
  /\ up[t] /\ Idle(t) /\ Take(t)
  /\ Head(queue[t]) = Request("KILL")
  /\ Dying(t) <= MaxDying
  /\ dying' = Dying(t)
  /\ up' = [up EXCEPT ![t] = FALSE]
  /\ UNCHANGED <<todo, main_alive, armed, launches, faults, missed>>

\* The command loop of main.  A response to ALIVE carries 0xa5.
MainReceive ==
  /\ up[MAIN] /\ Idle(MAIN) /\ Take(MAIN)
  /\ LET m == Head(queue[MAIN]) IN
       /\ todo' = [todo EXCEPT ![MAIN] = MainHandler(m)]
       /\ main_alive' = IF m.rsp /\ m.cmd = "ALIVE" /\ m.from \in Tasks
                        THEN [main_alive EXCEPT ![m.from] = TRUE]
                        ELSE main_alive
  /\ UNCHANGED <<up, armed, dying, launches, faults, missed>>

\* A timer expires and its callback starts on a thread of its own.
Expire(t) ==
  /\ t \in Expiring /\ armed[t] > 0
  /\ armed' = [armed EXCEPT ![t] = @ - 1]
  /\ \E s \in Spare, script \in Callback(t) :
       Idle(s) /\ todo' = [todo EXCEPT ![s] = script]
  /\ UNCHANGED <<queue, up, main_alive, dying, launches, faults, missed>>

\* The exit handler of a cancelled sensor task sends its record.
LastRecord ==
  /\ dying > 0
  /\ dying' = dying - 1
  /\ IF LOG \in Tasks THEN Room(LOG) /\ Put(LOG, LogRecord)
                     ELSE UNCHANGED queue
  /\ UNCHANGED <<todo, up, main_alive, armed, launches, faults, missed>>

\* Another process sends a command: the queues have names and mode 0666.
\* It gives MAIN as the sender, the only address with a receiver for replies.
ClientSend(q, c) ==
  /\ <<q, c>> \in ClientCmds /\ Room(q)
  /\ Fault
  /\ Put(q, Request(c))
  /\ UNCHANGED <<todo, up, main_alive, armed, dying, launches, missed>>

\* The process is killed.
Crash == up[MAIN] /\ launches < MaxLaunches /\ ProcessEnds

\* The program is started again, with whatever the queues still hold.
Relaunch ==
  /\ ~up[MAIN] /\ launches < MaxLaunches
  /\ launches' = launches + 1
  /\ todo' = FirstSteps
  /\ up' = [a \in Owner |-> TRUE]
  /\ main_alive' = [t \in Tasks |-> FALSE]
  /\ missed' = {}
  /\ UNCHANGED <<queue, armed, dying, faults>>

Step(a) ==
  \/ DoSend(a) \/ DoArm(a) \/ ArmFails(a) \/ DoCheck(a) \/ DoReset(a)
  \/ DoRestart(a) \/ RestartFails(a) \/ DoCancel(a) \/ DoExit(a)

Next ==
  \/ \E a \in Thread : Step(a)
  \/ \E t \in Tasks : TaskReceive(t) \/ TaskKill(t)
  \/ MainReceive
  \/ \E t \in Timer : Expire(t)
  \/ LastRecord
  \/ \E q \in Owner, c \in Cmd : ClientSend(q, c)
  \/ Crash
  \/ Relaunch

Spec == Init /\ [][Next]_vars

\* Every thread that can run does.  mq_send and mq_receive serve the threads
\* that wait for a queue in turn, hence strong fairness for the steps that
\* contend for room; a timer that is set expires, as soon as a thread can be
\* had for its callback.
Fairness ==
  /\ \A a \in Thread : SF_vars(Step(a))
  /\ \A t \in Tasks : WF_vars(TaskReceive(t) \/ TaskKill(t))
  /\ WF_vars(MainReceive)
  /\ \A t \in Expiring : SF_vars(Expire(t))
  /\ SF_vars(LastRecord)

FairSpec == Spec /\ Fairness
-----------------------------------------------------------------------------
(* Properties.                                                             *)

\* Each variable has its type and no queue exceeds its capacity: mq_send
\* (msg.c) waits for room before it adds a packet.
TypeOK ==
  /\ queue \in [Owner -> Seq(Packet)]
  /\ \A q \in Owner : Len(queue[q]) <= MaxMsgs
  /\ todo \in [Thread -> Seq(Op)]
  /\ up \in [Owner -> BOOLEAN]
  /\ main_alive \in [Tasks -> BOOLEAN]
  /\ armed \in [Timer -> 0 .. MaxArmed]
  /\ dying \in 0 .. MaxDying
  /\ launches \in 1 .. MaxLaunches
  /\ faults \in 0 .. MaxFaults
  /\ missed \subseteq Tasks

\* Thread a is in, or before, the loop of __main_heartbeat.
Checking(a) ==
  \E i \in DOMAIN todo[a] : todo[a][i].op \in {"check", "reset", "restart"}

\* Two heartbeat callbacks never examine, clear or restart tasks at the same
\* time.  main_alive and main_tasks have no lock: __main_heartbeat relies on
\* its timer being set only after its loop.  (Later parts of two callbacks do
\* overlap, when the first one waits for room in a queue.)
OneMonitor ==
  \A a, b \in Thread : Checking(a) /\ Checking(b) => a = b

\* Thread a still has to set the heartbeat timer.
Rearming(a) == \E i \in DOMAIN todo[a] : todo[a][i] = Arm("heartbeat")

\* As long as the program runs, the heartbeat is neither lost nor doubled:
\* its timer is set, or exactly one thread is on its way to set it, whatever
\* tasks are killed, restarted or fail to restart meanwhile.
HeartbeatKept ==
  up[MAIN] =>
    \/ armed["heartbeat"] = 1 /\ \A a \in Thread : ~Rearming(a)
    \/ armed["heartbeat"] = 0 /\ \E a \in Thread :
         \A b \in Thread : Rearming(b) <=> b = a

\* Thread a is in a round of __main_logic: it still has to send one of its
\* requests or to set the timer for the next round.
InRound(a) ==
  \E i \in DOMAIN todo[a] :
    todo[a][i] \in {Arm("logic"), Send(TEMP, Request("GETTEMP")),
                   Send(LIGHT, Request("GETLUX"))}

\* The rounds of __main_logic follow one another without an overlap and without
\* an end: they set LEDs and read local_temp and local_lux without a lock, and
\* a round may wait in the queue of a dead task for as long as that is dead.
OneRound ==
  up[MAIN] =>
    \/ armed["logic"] = 1 /\ \A a \in Thread : ~InRound(a)
    \/ armed["logic"] = 0 /\ \E a \in Thread :
         \A b \in Thread : InRound(b) <=> b = a

\* Where the operation o still has to be done.
Places(o) ==
  UNION {{<<a, i>> : i \in {j \in DOMAIN todo[a] : todo[a][j] = o}} :
           a \in Thread}

Queued(q, m) == Cardinality({j \in DOMAIN queue[q] : queue[q][j] = m})

\* Every aliveness request and answer of task t on its way from the thread
\* that will send it to main_alive, the flag included.
Outstanding(t) ==
  Cardinality(Places(Ask(t))) + Queued(t, Request("ALIVE"))
  + Cardinality(Places(Answer(t))) + Queued(MAIN, Response(t, "ALIVE"))
  + (IF main_alive[t] THEN 1 ELSE 0)

PendingChecks(t) == Cardinality(Places(Check(t)) \cup Places(Reset(t)))

\* A task that has never missed a check has one request or answer on its way,
\* and one more while a callback still has to check it.  So the flag a check
\* reads answers the request of the heartbeat before, and no answer arrives
\* between the read of main_alive and the unlocked write that clears it.
ConfirmationIsFresh ==
  \A t \in Watched \cap Tasks :
    up[t] /\ t \notin missed => Outstanding(t) = 1 + PendingChecks(t)

\* The same without the exception, as the comment at main.c:223 has it ("if
\* we have recieved a confirmation from the last time"): when a check finds
\* the flag set, the request of the heartbeat before has been answered, and
\* nothing is on its way but the request this callback will send itself.
ConfirmationIsFromLastTime ==
  \A a \in Thread, t \in Tasks :
    Doing(a, "check") /\ Head(todo[a]) = Check(t) /\ main_alive[t]
      => Outstanding(t) = 2

\* A task that runs is never condemned in advance: something is on its way
\* that will set its flag, through restarts, lost replies, failed timers and
\* a relaunch of the program over the queues of a crashed one.
NeverCondemned == \A t \in Tasks : up[t] => Outstanding(t) >= 1

\* The timer with which sensor task t samples its sensor.
Sampler(t) == IF t = LIGHT THEN "light_check" ELSE "temp_check"

\* While its task runs, a sensor is sampled: the timer is set, or some thread
\* will set it again.  The chain of timers survives the task being cancelled
\* and created again in the middle of it (light_task and temp_task set the
\* timer themselves, the callback sets it on a thread that is not cancelled).
SensorSampled ==
  \A t \in Tasks \ {LOG} : up[t] =>
    armed[Sampler(t)] > 0 \/ Places(Arm(Sampler(t))) # {}

\* A task does nothing: its thread is gone, or waits for room in a queue.
Unresponsive(t) ==
  ~up[t] \/ (Doing(t, "send") /\ ~Room(Head(todo[t]).to))

\* main has reached its command loop.
Started == up[MAIN] /\ \A i \in DOMAIN todo[MAIN] : todo[MAIN][i] # Arm("logic")

\* Once main is in its loop, and as long as the log queue has room, a sensor
\* task that is dead or stuck does not remain so, even if its own queue is
\* full: __main_heartbeat sets its timer before it sends the requests, so the
\* callback that waits for room in the dead task's queue does not end the
\* supervision, a second one restarts the task.  (In the program every
\* expiration gets a new thread; that Spare runs out is left aside.)
SensorRecovers ==
  LOG \notin Tasks /\ []<>(\E s \in Spare : Idle(s)) =>
    \A t \in Tasks : Started /\ Unresponsive(t) ~> ~Unresponsive(t)

\* What the architecture promises of every task: one that does not respond
\* is killed and restarted.
UnresponsiveIsRestarted ==
  \A t \in Tasks : Unresponsive(t) ~> ~Unresponsive(t)

\* The tasks for which some callback still has to do operation op.
Pending(op) ==
  {t \in Tasks : \E a \in Spare : \E i \in DOMAIN todo[a] :
     todo[a][i].op = op /\ todo[a][i].task = t}

Monitor == INSTANCE Supervisor WITH
  running   <- up[MAIN],
  waiting   <- armed["heartbeat"] > 0,
  due       <- Pending("check"),
  condemned <- Pending("restart"),
  confirmed <- {t \in Tasks : up[MAIN] /\ main_alive[t] /\ t \notin Pending("reset")},
  alive     <- {t \in Tasks : up[t]}

\* The timers, threads, flags and queues of main.c implement one monitor that
\* examines each task once per period, uses up its confirmation in one step,
\* and starts it again only if there was none, as long as timers can be set.
\* In particular the read and the clearing of main_alive, between which other
\* threads run, are as good as one step.
Supervises == Monitor!Spec

=============================================================================
