----------------------------- MODULE TempSensor -----------------------------
(***************************************************************************)
(* The temperature task and its sensor (src/temp.c): the handlers of the   *)
(* task, the callbacks that sample, the I2C context they share, and the    *)
(* registers of the TMP102.  Supervision and queues are in Project1: here  *)
(* the task finds any command in its queue, and may be cancelled and       *)
(* replaced at any time.                                                   *)
(*                                                                         *)
(* A register holds a number: a measurement counts from Measured on, the   *)
(* control register holds 4 * SD + CR (its other bits do not matter), and  *)
(* NoData is a word of sixteen ones, what a failed read returns.           *)
(***************************************************************************)
EXTENDS Integers, FiniteSets

CONSTANTS
  MaxThreads,  \* how many temperature threads there are in a launch
  Callbacks,   \* the threads of the timer library
  MaxCommands, \* how many commands the tasks take
  MaxMeasured, \* how often the sensor measures
  MaxTimers,   \* how many timers the process may have (RLIMIT_SIGPENDING)
  Cmds         \* the commands in the queue

TempCommands == {"INIT", "READREG", "WRITEREG", "WRITECONFIG", "WRITEPTR", "GETTEMP",
                 "SETCONV", "SHUTDOWN", "WAKEUP", "KILL"}

ASSUME TempAssumption ==
  /\ MaxThreads \in Nat \ {0} /\ MaxCommands \in Nat
  /\ MaxMeasured \in Nat /\ MaxTimers \in Nat /\ Cmds \subseteq TempCommands
  /\ IsFiniteSet(Callbacks)

VARIABLES
  i2c,           \* the context in use, 0 is NULL
  addressed,     \* the contexts whose device address has been set
  contexts,      \* how many contexts have been made
  reg,           \* the registers of the sensor
  pointer,       \* its pointer register
  temperature_c, \* the last sample
  pc,            \* where each temperature thread is
  packet,        \* the command each handles
  data,          \* what each has read
  cancelled,     \* the threads that have been cancelled
  cur,           \* the thread in main_tasks
  callback,      \* where each callback is, and what it has read
  armed,         \* timers that are set
  made,          \* timers that have been created
  commands,      \* commands taken so far
  answer,        \* history: the last response
  limits,        \* history: what WRITEREG has written to the limit registers
  misread        \* history: a read of the control register failed on an addressed bus

bus  == <<i2c, addressed, contexts>>
chip == <<reg, pointer>>
task == <<pc, packet, data, cancelled, cur, commands>>
sampling == <<temperature_c, callback, armed, made>>
history  == <<answer, limits, misread>>
vars == <<bus, chip, task, sampling, history>>

Threads == 1 .. MaxThreads
TEMP_REG_TEMP == 0
TEMP_REG_CTRL == 1
TEMP_REG_HIGH == 2
TEMP_REG_LOW  == 3
Limits        == {TEMP_REG_HIGH, TEMP_REG_LOW}

Measured == 100
Unset    == 99         \* temperature_c = 123.456
NoData   == -1
One      == 8          \* the word 1, what temp_setconv writes
Limit(v) == 10 + v     \* what other processes write to a limit register

\* The control register.
Ctrl(sd, cr) == 4 * sd + cr
SD(w) == w \div 4
CR(w) == w % 4
AtReset == Ctrl(0, 2)

NoPacket == [cmd |-> "none"]
Packets ==
  [cmd : Cmds \cap {"INIT", "GETTEMP", "SHUTDOWN", "WAKEUP", "KILL"}]
    \cup [cmd : Cmds \cap {"READREG", "WRITEPTR"}, reg : 0 .. 3]
    \cup [cmd : Cmds \cap {"WRITEREG"}, reg : Limits, value : {Limit(1), Limit(2)}]
    \cup [cmd : Cmds \cap {"WRITECONFIG"}, value : {Ctrl(0, 1), Ctrl(1, 2)}]
    \cup [cmd : Cmds \cap {"SETCONV"}, rate : 0 .. 3]

Idle == [at |-> "idle", data |-> NoData]

Init ==
  /\ i2c = 0 /\ addressed = {} /\ contexts = 0
  /\ reg = [r \in 0 .. 3 |-> CASE r = TEMP_REG_TEMP -> Measured
                               [] r = TEMP_REG_CTRL -> AtReset
                               [] OTHER -> Limit(0)]
  /\ pointer = TEMP_REG_TEMP
  /\ temperature_c = Unset
  /\ pc = [t \in Threads |-> IF t = 1 THEN "start" ELSE "none"]
  /\ packet = [t \in Threads |-> NoPacket]
  /\ data = [t \in Threads |-> NoData]
  /\ cancelled = {} /\ cur = 1
  /\ callback = [k \in Callbacks |-> Idle]
  /\ armed = 0 /\ made = 0 /\ commands = 0
  /\ answer = NoPacket
  /\ limits = [r \in Limits |-> Limit(0)] /\ misread = FALSE

-----------------------------------------------------------------------------
(* The bus.  A transfer goes to the device of the context in use, if it    *)
(* has one, and may fail even then: nothing looks at what mraa returns.  A *)
(* word is written or read in one transfer with its register.              *)

BusOk    == i2c \in addressed
Outcomes == IF BusOk THEN BOOLEAN ELSE {FALSE}

\* Mutant of WordAt: the read uses whatever the pointer register holds.
WordAtPointer(r, ok) == IF ok THEN reg[pointer] ELSE NoData

\* mraa_i2c_read_word_data; the byte swap puts the two halves in order.
WordAt(r, ok) == IF ok THEN reg[r] ELSE NoData

\* A transfer that fails may fail before or after it has named its register.
Pointed(r, ok) ==
  \/ BusOk /\ pointer' = r
  \/ ~ok /\ pointer' = pointer

\* __temp_i2c_write: the temperature cannot be written.
WriteWord(w, r, ok) ==
  /\ reg' = IF ok /\ r # TEMP_REG_TEMP THEN [reg EXCEPT ![r] = w] ELSE reg
  /\ Pointed(r, ok)

\* The sensor measures on its own, unless it is asleep.
Measure ==
  /\ reg[TEMP_REG_TEMP] < Measured + MaxMeasured
  /\ SD(reg[TEMP_REG_CTRL]) = 0
  /\ reg' = [reg EXCEPT ![TEMP_REG_TEMP] = @ + 1]
  /\ UNCHANGED <<pointer, bus, task, sampling, history>>

-----------------------------------------------------------------------------
(* __temp_timer_init and __temp_check.                                     *)

\* timer_create and timer_settime.  No timer is ever deleted: when there are
\* too many the identifier is not initialized, and setting it may fail or set
\* an older timer.
TimerInit ==
  \/ made < MaxTimers /\ made' = made + 1 /\ armed' = armed + 1
  \/ made = MaxTimers /\ UNCHANGED made /\ armed' \in {armed, armed + 1}

Expire(k) ==
  /\ armed > 0 /\ armed' = armed - 1
  /\ callback[k].at = "idle"
  /\ callback' = [callback EXCEPT ![k].at = "read"]
  /\ UNCHANGED <<temperature_c, made, bus, chip, task, history>>

\* Mutant of SampleRead: the next timer is set before the sample is stored.
SampleReadArms(k) ==
  /\ callback[k].at = "read"
  /\ \E ok \in Outcomes :
       /\ callback' = [callback EXCEPT ![k] = [at |-> "store", data |-> WordAt(TEMP_REG_TEMP, ok)]]
       /\ Pointed(TEMP_REG_TEMP, ok)
  /\ TimerInit
  /\ UNCHANGED <<reg, temperature_c, bus, task, history>>

\* __temp_i2c_read(TEMP_REG_TEMP), up to the sending of its record, which
\* waits while the log queue is full.
SampleRead(k) ==
  /\ callback[k].at = "read"
  /\ \E ok \in Outcomes :
       /\ callback' = [callback EXCEPT ![k] = [at |-> "store", data |-> WordAt(TEMP_REG_TEMP, ok)]]
       /\ Pointed(TEMP_REG_TEMP, ok)
  /\ UNCHANGED <<reg, temperature_c, armed, made, bus, task, history>>

\* Mutant of SampleStore: a failed read ends the callback early.
SampleReturns(k) ==
  /\ callback[k].at = "store"
  /\ IF callback[k].data = NoData
     THEN UNCHANGED <<temperature_c, armed, made>>
     ELSE temperature_c' = callback[k].data /\ TimerInit
  /\ callback' = [callback EXCEPT ![k] = Idle]
  /\ UNCHANGED <<bus, chip, task, history>>

\* temperature_c = __temp_conv(...); __temp_timer_init()
SampleStore(k) ==
  /\ callback[k].at = "store"
  /\ temperature_c' = callback[k].data
  /\ TimerInit
  /\ callback' = [callback EXCEPT ![k] = Idle]
  /\ UNCHANGED <<bus, chip, task, history>>

-----------------------------------------------------------------------------
(* The task.                                                               *)

At(t, l)   == pc[t] = l
Goto(t, l) == pc' = [pc EXCEPT ![t] = l]
Same       == UNCHANGED <<packet, data, cancelled, cur, commands>>

\* temp_task sets the timer of its chain before it takes its first packet.
Start(t) ==
  /\ At(t, "start") /\ Goto(t, "receive")
  /\ TimerInit
  /\ Same /\ UNCHANGED <<temperature_c, callback, bus, chip, history>>

Receive(t) ==
  /\ At(t, "receive") /\ t \notin cancelled /\ commands < MaxCommands
  /\ \E p \in Packets :
       /\ packet' = [packet EXCEPT ![t] = p]
       /\ Goto(t, CASE p.cmd = "INIT" -> "init"
                    [] p.cmd = "GETTEMP" -> "gettemp"
                    [] p.cmd \in {"WRITEREG", "WRITECONFIG", "WRITEPTR"} -> "write"
                    [] p.cmd = "KILL" -> "gone"
                    [] OTHER -> "read")
  /\ commands' = commands + 1
  /\ UNCHANGED <<data, cancelled, cur, bus, chip, sampling, history>>

\* i2c = mraa_i2c_init_raw(TEMP_I2C_BUS);
InitContext(t) ==
  /\ At(t, "init") /\ Goto(t, "address")
  /\ contexts' = contexts + 1 /\ i2c' = contexts + 1
  /\ Same /\ UNCHANGED <<addressed, chip, sampling, history>>

\* mraa_i2c_address(i2c, TEMP_I2C_ADDR); then a record
InitAddress(t) ==
  /\ At(t, "address") /\ Goto(t, "receive")
  /\ addressed' = addressed \cup {i2c}
  /\ Same /\ UNCHANGED <<i2c, contexts, chip, sampling, history>>

\* temp_writereg, temp_writeconfig, temp_writeptr
WriteReg(t) ==
  /\ At(t, "write") /\ Goto(t, "receive")
  /\ \E ok \in Outcomes :
       LET p == packet[t] IN
       CASE p.cmd = "WRITEREG" ->
              /\ WriteWord(p.value, p.reg, ok)
              /\ limits' = IF ok THEN [limits EXCEPT ![p.reg] = p.value] ELSE limits
         [] p.cmd = "WRITECONFIG" ->
              WriteWord(p.value, TEMP_REG_CTRL, ok) /\ UNCHANGED limits
         [] p.cmd = "WRITEPTR" ->
              Pointed(p.reg, ok) /\ UNCHANGED <<reg, limits>>
  /\ Same /\ UNCHANGED <<answer, misread, bus, sampling>>

\* temp_gettemp, in whatever format
GetTemp(t) ==
  /\ At(t, "gettemp") /\ t \notin cancelled /\ Goto(t, "receive")
  /\ answer' = [cmd |-> "GETTEMP", value |-> temperature_c]
  /\ Same /\ UNCHANGED <<limits, misread, bus, chip, sampling>>

\* __temp_i2c_read in temp_readreg, and of the control register in the others
ReadWord(t) ==
  /\ At(t, "read") /\ Goto(t, "log")
  /\ \E ok \in Outcomes :
       LET r == IF packet[t].cmd = "READREG" THEN packet[t].reg ELSE TEMP_REG_CTRL IN
       /\ data' = [data EXCEPT ![t] = WordAt(r, ok)] /\ Pointed(r, ok)
       /\ misread' = (misread \/ (packet[t].cmd # "READREG" /\ BusOk /\ ~ok))
  /\ UNCHANGED <<reg, packet, cancelled, cur, commands, answer, limits, bus, sampling>>

\* __temp_i2c_read sends a record: a cancelled thread ends here.
ReadLog(t) ==
  /\ At(t, "log") /\ t \notin cancelled
  /\ Goto(t, IF packet[t].cmd = "READREG" THEN "respond" ELSE "modify")
  /\ Same /\ UNCHANGED <<bus, chip, sampling, history>>

Respond(t) ==
  /\ At(t, "respond") /\ t \notin cancelled /\ Goto(t, "receive")
  /\ answer' = [cmd |-> "READREG", reg |-> packet[t].reg, value |-> data[t]]
  /\ Same /\ UNCHANGED <<limits, misread, bus, chip, sampling>>

\* The two bits of the conversion rate are replaced by rate << 7; the higher bit
\* of the rate falls on the shutdown bit.
WithRate(w, rate) ==
  Ctrl(IF rate >= 2 THEN 1 ELSE SD(w), 2 * (rate % 2))

NewCtrl(p, w) ==
  CASE p.cmd = "SETCONV"  -> WithRate(w, p.rate)
    [] p.cmd = "SHUTDOWN" -> Ctrl(1, CR(w))
    [] p.cmd = "WAKEUP"   -> Ctrl(0, CR(w))

\* Mutant of AsAddress: the rate is not shifted to its place in the word.
AsAddressUnshifted(w) == IF w = NoData THEN TEMP_REG_LOW ELSE CR(w)

\* The register a word names when it is taken for an address: the lowest two
\* bits, which are 0 in every control word and 1 in NoData.
AsAddress(w) == IF w = NoData THEN TEMP_REG_LOW ELSE TEMP_REG_TEMP

\* __temp_i2c_write(TEMP_REG_CTRL, data): the arguments are the other way round.
Modify(t) ==
  /\ At(t, "modify") /\ Goto(t, "receive")
  /\ LET w == IF data[t] = NoData THEN NoData ELSE NewCtrl(packet[t], data[t])
     IN  \E ok \in Outcomes : WriteWord(One, AsAddress(w), ok)
  /\ Same /\ UNCHANGED <<bus, sampling, history>>

\* A cancelled thread ends where it waits for a packet or sends a record.
Cancelled(t) ==
  /\ t \in cancelled /\ pc[t] \in {"receive", "gettemp", "log", "respond"}
  /\ Goto(t, "gone")
  /\ Same /\ UNCHANGED <<bus, chip, sampling, history>>

\* Mutant of Restart: the new thread is not created.
RestartUncreated ==
  /\ cur < MaxThreads
  /\ cancelled' = cancelled \cup {cur}
  /\ cur' = cur + 1
  /\ UNCHANGED <<pc, packet, data, commands, bus, chip, sampling, history>>

\* __main_heartbeat replaces the task.
Restart ==
  /\ cur < MaxThreads
  /\ cancelled' = cancelled \cup {cur}
  /\ cur' = cur + 1
  /\ Goto(cur + 1, "start")
  /\ UNCHANGED <<packet, data, commands, bus, chip, sampling, history>>

TempTask(t) ==
  \/ Start(t) \/ Receive(t) \/ InitContext(t) \/ InitAddress(t) \/ WriteReg(t)
  \/ GetTemp(t) \/ ReadWord(t) \/ ReadLog(t) \/ Respond(t) \/ Modify(t) \/ Cancelled(t)

Next ==
  \/ Measure \/ Restart
  \/ \E t \in Threads : TempTask(t)
  \/ \E k \in Callbacks : Expire(k) \/ SampleRead(k) \/ SampleStore(k)

Spec == Init /\ [][Next]_vars

-----------------------------------------------------------------------------
(* Properties.                                                             *)

Words == {NoData, One} \cup 0 .. 7 \cup {Limit(v) : v \in 0 .. 2}
           \cup Measured .. Measured + MaxMeasured
Active == {k \in Callbacks : callback[k].at # "idle"}

TypeOK ==
  /\ i2c \in 0 .. contexts /\ addressed \subseteq 1 .. contexts
  /\ reg \in [0 .. 3 -> Words] /\ pointer \in 0 .. 3
  /\ temperature_c \in Words \cup {Unset}
  /\ pc \in [Threads -> {"none", "start", "receive", "init", "address", "write", "gettemp",
                         "read", "log", "respond", "modify", "gone"}]
  /\ data \in [Threads -> Words]
  /\ \A t \in Threads : packet[t] = NoPacket \/ packet[t] \in Packets
  /\ cur \in Threads /\ \A t \in Threads : pc[t] = "none" <=> t > cur
  /\ callback \in [Callbacks -> [at : {"idle", "read", "store"}, data : Words]]
  /\ armed \in Nat /\ made \in 0 .. MaxTimers /\ commands \in 0 .. MaxCommands
  /\ misread \in BOOLEAN

(* The contents a register can have at all.                                *)
Holds(r) ==
  CASE r = TEMP_REG_TEMP -> Measured .. Measured + MaxMeasured
    [] r = TEMP_REG_CTRL -> 0 .. 7
    [] OTHER             -> {Limit(v) : v \in 0 .. 2} \cup {One}

(* Without a lock around the bus, a response to TEMP_READREG never carries *)
(* the contents of another register than the one asked for, whatever the   *)
(* callbacks and a cancelled task do in between (temp.c:48, 205-220).      *)
ReadregHonest ==
  answer.cmd = "READREG" => answer.value \in Holds(answer.reg) \cup {NoData}

(* SETCONV, SHUTDOWN and WAKEUP write the word 1 to the register that the  *)
(* low bits of their word name, because the arguments of the write are     *)
(* exchanged (temp.c:280, 289, 298).  This never reaches the upper limit.  *)
(* It reaches the lower one when the word is that of a failed read, which  *)
(* nothing looks at (temp.c:48): then the limit holds 1.  As long as one   *)
(* task reads and writes this takes a sensor that has its address and does *)
(* not answer (misread); while the address is not set the write fails as   *)
(* well.  After a restart the address may be set between the two.          *)
LimitsKept ==
  /\ reg[TEMP_REG_HIGH] = limits[TEMP_REG_HIGH]
  /\ reg[TEMP_REG_LOW] # limits[TEMP_REG_LOW] =>
       reg[TEMP_REG_LOW] = One /\ (misread \/ cur > 1)

(* Every start of the task starts one chain of samples, and no chain ends  *)
(* or doubles, whatever is read, until there are too many timers           *)
(* (temp.c:108-114, 131).                                                  *)
Started == Cardinality({t \in 1 .. cur : pc[t] # "start"})
ChainPerTask == made < MaxTimers => armed + Cardinality(Active) = Started

(* Before the first restart, a stored sample is never replaced by an older *)
(* one, although a callback may wait for the log queue between reading and *)
(* storing (temp.c:53, 111): the next timer is set only after the store.   *)
NeverBackwards ==
  [][cur = 1 /\ temperature_c >= Measured /\ temperature_c' >= Measured
       => temperature_c' >= temperature_c]_vars
=============================================================================
