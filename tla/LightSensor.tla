---------------------------- MODULE LightSensor -----------------------------
(***************************************************************************)
(* The light task and its sensor (src/light.c): the handlers of the task,  *)
(* the callbacks that sample, the I2C context they share, and the          *)
(* registers of the APDS-9301.  Every access is two transfers, one that    *)
(* selects a register and one that reads or writes it, and nothing keeps   *)
(* another thread from selecting in between.  A transfer may also fail:    *)
(* nothing looks at what mraa returns.  Supervision and queues are in      *)
(* Project1.                                                               *)
(*                                                                         *)
(* A byte that has been read is a pair: the register it comes from and     *)
(* what it held.  A data register holds the number of the measurement.     *)
(***************************************************************************)
EXTENDS Integers, FiniteSets

CONSTANTS
  MaxThreads,  \* how many light threads there are in a launch
  Callbacks,   \* the threads of the timer library, not 0
  MaxCommands, \* how many commands the tasks take
  MaxMeasured, \* how often the sensor measures
  MaxFailures, \* how many transfers to a sensor that has its address fail
  Values,      \* the bytes clients write with WRITEREG
  Cmds         \* the commands in the queue

LightCommands == {"INIT", "READREG", "WRITEREG", "WRITEIT", "GETLUX", "ENABLEINT",
                  "DISABLEINT", "READID", "KILL"}

ASSUME LightAssumption ==
  /\ MaxThreads \in Nat \ {0} /\ MaxCommands \in Nat /\ MaxMeasured \in Nat
  /\ MaxFailures \in Nat /\ Values \subseteq 0 .. 255
  /\ Cmds \subseteq LightCommands /\ 0 \notin Callbacks

VARIABLES
  failures,    \* transfers that have failed although the sensor had its address
  i2c,         \* the context in use, 0 is NULL
  addressed,   \* the contexts whose device address has been set
  contexts,    \* how many contexts have been made
  selected,    \* the register the sensor's command register names
  reg,         \* the registers that can be written
  measured,    \* measurements so far
  latched,     \* for each channel, the measurement its high byte belongs to
  current_lux, \* the measurements of the two channels the last sample is made from
  pc,          \* where each light thread is
  packet,      \* the command each handles
  data,        \* the byte each has read
  cancelled,   \* the threads that have been cancelled
  cur,         \* the thread in main_tasks
  callback,    \* where each callback is, what it has read, and (history)
               \* whether no other thread and no failure has disturbed it
  armed,       \* timers that are set
  commands,    \* commands taken so far
  asked,       \* history: the integration times asked for
  missed       \* history: the selection of a register to write to has failed

bus  == <<i2c, addressed, contexts, failures>>
chip == <<selected, reg, measured, latched>>
task == <<pc, packet, data, cancelled, cur, commands>>
sampling == <<current_lux, callback, armed>>
history  == <<asked, missed>>
vars == <<bus, chip, task, sampling, history>>

Threads == 1 .. MaxThreads

LIGHT_REG_CTRL == 0
LIGHT_REG_TIME == 1
LIGHT_REG_INT  == 6
LIGHT_REG_ID   == 10
LIGHT_REG_DATA0L == 12
LIGHT_REG_DATA0H == 13
LIGHT_REG_DATA1L == 14
LIGHT_REG_DATA1H == 15
Writable == {LIGHT_REG_CTRL, LIGHT_REG_TIME, LIGHT_REG_INT}
Lows  == {LIGHT_REG_DATA0L, LIGHT_REG_DATA1L}
Highs == {LIGHT_REG_DATA0H, LIGHT_REG_DATA1H}
Registers == Writable \cup Lows \cup Highs \cup {LIGHT_REG_ID}

PowerUp  == 3      \* in the control register
AtReset  == 2      \* the integration time of 402 ms
Identity == 80     \* in the identification register
None     == -1     \* where a failed read comes from
Byte     == [reg : Lows \cup Highs, val : Nat]
              \cup [reg : Writable \cup {LIGHT_REG_ID, None}, val : 0 .. 255]
NoByte   == [reg |-> None, val |-> 255]

NoLux    == <<>>      \* current_lux = 0
Mixed    == <<None>>  \* bytes that do not belong together

NoPacket == [cmd |-> "none"]
Packets ==
  [cmd : Cmds \cap {"INIT", "GETLUX", "ENABLEINT", "DISABLEINT", "READID", "KILL"}]
    \cup [cmd : Cmds \cap {"READREG"}, reg : {LIGHT_REG_TIME, LIGHT_REG_DATA0L}]
    \cup [cmd : Cmds \cap {"WRITEREG"}, reg : Writable, val : Values]
    \cup [cmd : Cmds \cap {"WRITEIT"}, time : 0 .. 3]

Idle == [at |-> "idle", n |-> 1, bytes |-> <<>>, calm |-> FALSE]

Init ==
  /\ i2c = 0 /\ addressed = {} /\ contexts = 0 /\ failures = 0
  /\ selected = LIGHT_REG_CTRL
  /\ reg \in { [r \in Writable |-> CASE r = LIGHT_REG_CTRL -> power
                                     [] r = LIGHT_REG_TIME -> AtReset
                                     [] r = LIGHT_REG_INT  -> 0] :
               power \in {0, PowerUp} }    \* an earlier launch may have powered it
  /\ measured = 0 /\ latched = [r \in Highs |-> 0]
  /\ current_lux = NoLux
  /\ pc = [t \in Threads |-> IF t = 1 THEN "start" ELSE "none"]
  /\ packet = [t \in Threads |-> NoPacket]
  /\ data = [t \in Threads |-> NoByte]
  /\ cancelled = {} /\ cur = 1
  /\ callback = [k \in Callbacks |-> Idle]
  /\ armed = 0 /\ commands = 0
  /\ asked = {AtReset} /\ missed = FALSE

-----------------------------------------------------------------------------
(* The bus and the sensor.                                                 *)

BusOk == i2c \in addressed

\* Whether a transfer succeeds.
Transfer(ok) ==
  \/ ok /\ BusOk /\ UNCHANGED failures
  \/ ~ok /\ ~BusOk /\ UNCHANGED failures
  \/ ~ok /\ BusOk /\ failures < MaxFailures /\ failures' = failures + 1

\* mraa_i2c_write_byte(i2c, LIGHT_CMD_... | (address & LIGHT_CMD_ADDR_MASK))
Select(r, ok) == selected' = IF ok THEN r ELSE selected

\* mraa_i2c_read_byte(i2c): a low data byte latches its high byte.
Contents ==
  CASE selected \in Writable     -> reg[selected]
    [] selected = LIGHT_REG_ID   -> Identity
    [] selected \in Lows         -> measured
    [] selected \in Highs        -> latched[selected]
ByteRead(ok) == IF ok THEN [reg |-> selected, val |-> Contents] ELSE NoByte
Latch(ok) == latched' = IF ok /\ selected \in Lows
                        THEN [latched EXCEPT ![selected + 1] = measured] ELSE latched

\* The byte as a number, for a handler that takes it for a register's contents.
Number(b) == IF b.reg \in Lows \cup Highs THEN (16 * b.val + 1) % 256 ELSE b.val

\* The sensor measures when it has been powered up.
Measure ==
  /\ reg[LIGHT_REG_CTRL] % 4 = PowerUp /\ measured < MaxMeasured
  /\ measured' = measured + 1
  /\ UNCHANGED <<selected, reg, latched, bus, task, sampling, history>>

\* Another thread uses the bus while callback k (or a task, k = 0) runs.
Disturbing(k) == [j \in Callbacks |->
                    IF j = k THEN callback[j] ELSE [callback[j] EXCEPT !.calm = FALSE]]
TaskDisturbs == callback' = Disturbing(0) /\ UNCHANGED <<current_lux, armed>>

-----------------------------------------------------------------------------
(* __light_check: four reads, the low byte of a channel before the high.   *)

\* Mutant of CheckReads: the high bytes are read first.
HighFirst == <<LIGHT_REG_DATA0H, LIGHT_REG_DATA0L, LIGHT_REG_DATA1H, LIGHT_REG_DATA1L>>

CheckReads == <<LIGHT_REG_DATA0L, LIGHT_REG_DATA0H, LIGHT_REG_DATA1L, LIGHT_REG_DATA1H>>

\* A sample is made of the right registers, and the two bytes of each channel
\* belong to the same measurement.
Whole(s) == \A i \in 1 .. 4 :
  s[i].reg = LIGHT_REG_DATA0L + i - 1 /\ (i \in {2, 4} => s[i].val = s[i - 1].val)

\* __light_convert_lux makes a number of whatever it is given.
LuxOf(s) == IF Whole(s) THEN <<s[1].val, s[3].val>> ELSE Mixed

\* timer_create and timer_settime succeed; module TempSensor has them fail.
Expire(k) ==
  /\ armed > 0 /\ armed' = armed - 1
  /\ callback[k].at = "idle"
  /\ callback' = [callback EXCEPT ![k] = [at |-> "select", n |-> 1, bytes |-> <<>>, calm |-> BusOk]]
  /\ UNCHANGED <<current_lux, bus, chip, task, history>>

CheckSelect(k) ==
  /\ callback[k].at = "select"
  /\ \E ok \in BOOLEAN :
       /\ Transfer(ok) /\ Select(CheckReads[callback[k].n], ok)
       /\ callback' = [Disturbing(k) EXCEPT
            ![k] = [at |-> "read", n |-> @.n, bytes |-> @.bytes, calm |-> @.calm /\ ok]]
  /\ UNCHANGED <<reg, measured, latched, current_lux, armed, i2c, addressed, contexts, task, history>>

CheckRead(k) ==
  /\ callback[k].at = "read"
  /\ \E ok \in BOOLEAN :
       LET n == callback[k].n IN
       /\ Transfer(ok) /\ Latch(ok)
       /\ callback' = [Disturbing(k) EXCEPT
            ![k] = [at |-> IF n = 4 THEN "store" ELSE "select", n |-> n + 1,
                    bytes |-> [i \in 1 .. n |-> IF i = n THEN ByteRead(ok) ELSE @.bytes[i]],
                    calm |-> @.calm /\ ok]]
  /\ UNCHANGED <<selected, reg, measured, current_lux, armed, i2c, addressed, contexts, task, history>>

\* current_lux = __light_convert_lux(ch0, ch1); perhaps a record; the next timer
CheckStore(k) ==
  /\ callback[k].at = "store"
  /\ current_lux' = LuxOf(callback[k].bytes)
  /\ callback' = [callback EXCEPT ![k] = Idle]
  /\ armed' = armed + 1
  /\ UNCHANGED <<bus, chip, task, history>>

-----------------------------------------------------------------------------
(* The task.                                                               *)

At(t, l)   == pc[t] = l
Goto(t, l) == pc' = [pc EXCEPT ![t] = l]
Same       == UNCHANGED <<packet, data, cancelled, cur, commands>>

\* The handler returns, its variables are gone.
Return(t) ==
  /\ Goto(t, "receive")
  /\ packet' = [packet EXCEPT ![t] = NoPacket]
  /\ data' = [data EXCEPT ![t] = NoByte]
  /\ UNCHANGED <<cancelled, cur, commands>>

Start(t) ==
  /\ At(t, "start") /\ Return(t)
  /\ armed' = armed + 1
  /\ UNCHANGED <<current_lux, callback, bus, chip, history>>

\* Mutant of Valid: no check of the integration time.
AlwaysValid(p) == TRUE

\* if (data > 2) return LIGHT_ERR_PARAM;
Valid(p) == p.cmd = "WRITEIT" => p.time <= 2

Receive(t) ==
  /\ At(t, "receive") /\ t \notin cancelled /\ commands < MaxCommands
  /\ \E p \in Packets :
       /\ packet' = [packet EXCEPT ![t] = p]
       /\ Goto(t, CASE p.cmd = "INIT"     -> "init"
                    [] p.cmd = "GETLUX"   -> "getlux"
                    [] p.cmd = "WRITEREG" -> "select_write"
                    [] p.cmd = "KILL"     -> "gone"
                    [] ~Valid(p)          -> "receive"
                    [] OTHER              -> "select")
  /\ commands' = commands + 1
  /\ UNCHANGED <<data, cancelled, cur, bus, chip, sampling, history>>

InitContext(t) ==
  /\ At(t, "init") /\ Goto(t, "address")
  /\ contexts' = contexts + 1 /\ i2c' = contexts + 1
  /\ TaskDisturbs
  /\ Same /\ UNCHANGED <<addressed, failures, chip, history>>

InitAddress(t) ==
  /\ At(t, "address") /\ Return(t)
  /\ addressed' = addressed \cup {i2c}
  /\ TaskDisturbs
  /\ UNCHANGED <<i2c, contexts, failures, chip, history>>

\* light_getlux, which sends; light_isday reads current_lux too, but nobody calls it.
GetLux(t) ==
  /\ At(t, "getlux") /\ t \notin cancelled /\ Return(t)
  /\ UNCHANGED <<history, bus, chip, sampling>>

\* Mutant of RegisterOf: the timing register is taken for register 0.
RegisterFromZero(p) ==
  CASE p.cmd \in {"READREG", "WRITEREG"}        -> p.reg
    [] p.cmd = "WRITEIT"                        -> LIGHT_REG_CTRL
    [] p.cmd \in {"ENABLEINT", "DISABLEINT"}    -> LIGHT_REG_INT
    [] p.cmd = "READID"                         -> LIGHT_REG_ID

\* The register a handler reads first, or writes.
RegisterOf(p) ==
  CASE p.cmd \in {"READREG", "WRITEREG"}        -> p.reg
    [] p.cmd = "WRITEIT"                        -> LIGHT_REG_TIME
    [] p.cmd \in {"ENABLEINT", "DISABLEINT"}    -> LIGHT_REG_INT
    [] p.cmd = "READID"                         -> LIGHT_REG_ID

\* The two transfers of __light_i2c_read
SelectRead(t) ==
  /\ At(t, "select") /\ Goto(t, "read")
  /\ \E ok \in BOOLEAN : Transfer(ok) /\ Select(RegisterOf(packet[t]), ok)
  /\ TaskDisturbs
  /\ Same /\ UNCHANGED <<reg, measured, latched, i2c, addressed, contexts, history>>

ReadByte(t) ==
  /\ At(t, "read") /\ Goto(t, "log")
  /\ \E ok \in BOOLEAN :
       Transfer(ok) /\ data' = [data EXCEPT ![t] = ByteRead(ok)] /\ Latch(ok)
  /\ TaskDisturbs
  /\ UNCHANGED <<packet, cancelled, cur, commands, selected, reg, measured,
                 i2c, addressed, contexts, history>>

\* __light_i2c_read sends a record, where a cancelled thread ends.
ReadLog(t) ==
  /\ At(t, "log") /\ t \notin cancelled
  /\ Goto(t, IF packet[t].cmd \in {"READREG", "READID"} THEN "respond" ELSE "select_write")
  /\ Same /\ UNCHANGED <<bus, chip, sampling, history>>

\* The response of light_readreg or light_readid is sent.
Respond(t) ==
  /\ At(t, "respond") /\ t \notin cancelled /\ Return(t)
  /\ UNCHANGED <<history, bus, chip, sampling>>

\* What is written: bits 0 and 1 of the time are replaced, or bits 4 and 5 of
\* the interrupt register.
NewValue(p, b) ==
  CASE p.cmd = "WRITEREG"   -> p.val
    [] p.cmd = "WRITEIT"    -> 4 * (Number(b) \div 4) + p.time
    [] p.cmd = "ENABLEINT"  -> Number(b) - 16 * ((Number(b) \div 16) % 4) + 16
    [] p.cmd = "DISABLEINT" -> Number(b) - 16 * ((Number(b) \div 16) % 4)

\* The integration times a command asks for.
TimesOf(p) ==
  CASE p.cmd = "WRITEIT" -> {p.time} \cap 0 .. 2
    [] p.cmd = "WRITEREG" /\ p.reg = LIGHT_REG_TIME -> {p.val % 4}
    [] OTHER -> {}

\* The two transfers of __light_i2c_write
SelectWrite(t) ==
  /\ At(t, "select_write") /\ Goto(t, "write")
  /\ \E ok \in BOOLEAN :
       /\ Transfer(ok) /\ Select(RegisterOf(packet[t]), ok)
       /\ missed' = (missed \/ (BusOk /\ ~ok))
  /\ asked' = asked \cup TimesOf(packet[t])
  /\ TaskDisturbs
  /\ Same /\ UNCHANGED <<reg, measured, latched, i2c, addressed, contexts>>

WriteByte(t) ==
  /\ At(t, "write") /\ Return(t)
  /\ \E ok \in BOOLEAN :
       /\ Transfer(ok)
       /\ reg' = IF ok /\ selected \in Writable
                 THEN [reg EXCEPT ![selected] = NewValue(packet[t], data[t])] ELSE reg
  /\ TaskDisturbs
  /\ UNCHANGED <<selected, measured, latched, i2c, addressed, contexts, history>>

\* A cancelled thread ends where it waits for a packet or sends.
Cancelled(t) ==
  /\ t \in cancelled /\ pc[t] \in {"receive", "getlux", "log", "respond"}
  /\ Goto(t, "gone")
  /\ Same /\ UNCHANGED <<bus, chip, sampling, history>>

\* Mutant of Restart: the new thread is not created.
RestartUncreated ==
  /\ cur < MaxThreads
  /\ cancelled' = cancelled \cup {cur}
  /\ cur' = cur + 1
  /\ UNCHANGED <<pc, packet, data, commands, bus, chip, sampling, history>>

\* __main_heartbeat replaces the task.
Restart ==
  /\ cur < MaxThreads
  /\ cancelled' = cancelled \cup {cur}
  /\ cur' = cur + 1
  /\ Goto(cur + 1, "start")
  /\ UNCHANGED <<packet, data, commands, bus, chip, sampling, history>>

LightTask(t) ==
  \/ Start(t) \/ Receive(t) \/ InitContext(t) \/ InitAddress(t) \/ GetLux(t)
  \/ SelectRead(t) \/ ReadByte(t) \/ ReadLog(t) \/ Respond(t)
  \/ SelectWrite(t) \/ WriteByte(t) \/ Cancelled(t)

Next ==
  \/ Measure \/ Restart
  \/ \E t \in Threads : LightTask(t)
  \/ \E k \in Callbacks : Expire(k) \/ CheckSelect(k) \/ CheckRead(k) \/ CheckStore(k)

Spec == Init /\ [][Next]_vars

-----------------------------------------------------------------------------
(* Properties.                                                             *)

TypeOK ==
  /\ i2c \in 0 .. contexts /\ addressed \subseteq 1 .. contexts
  /\ selected \in Registers
  /\ reg \in [Writable -> 0 .. 255]
  /\ measured \in 0 .. MaxMeasured /\ latched \in [Highs -> 0 .. measured]
  /\ \A t \in Threads : packet[t] = NoPacket \/ packet[t] \in Packets
  /\ data \in [Threads -> Byte]
  /\ cur \in Threads /\ \A t \in Threads : pc[t] = "none" <=> t > cur
  /\ \A k \in Callbacks : \A i \in DOMAIN callback[k].bytes : callback[k].bytes[i] \in Byte
  /\ armed \in Nat /\ commands \in 0 .. MaxCommands
  /\ failures \in 0 .. MaxFailures /\ missed \in BOOLEAN

(* While there is one light thread, whatever the callbacks do between its  *)
(* transfers, the integration time (the lower two bits) is one that was    *)
(* asked for or the one at reset, and never a WRITEIT's above 2: a byte    *)
(* that comes from the wrong register or from a failed read cannot change  *)
(* it (light.c:145-149, 276-287).  Only if the selection of a register to  *)
(* write to fails may the byte end up in another one.                      *)
TimeHonest == cur = 1 /\ ~missed => reg[LIGHT_REG_TIME] % 4 \in asked

\* The register a command is meant to change.
MeantFor(p) ==
  CASE p.cmd = "WRITEREG" -> p.reg
    [] p.cmd = "WRITEIT"  -> LIGHT_REG_TIME
    [] OTHER              -> LIGHT_REG_INT

(* Under the same conditions a register changes only by a command that is  *)
(* meant for it, and LIGHT_WRITEREG writes what it was given: no stray     *)
(* write switches the sensor off, or on (light.c:145-149, 262-271).        *)
WritesHonest ==
  [][cur = 1 /\ ~missed =>
       \A r \in Writable : reg'[r] # reg[r] =>
         \E t \in Threads :
           /\ At(t, "write") /\ MeantFor(packet[t]) = r
           /\ packet[t].cmd = "WRITEREG" => reg'[r] = packet[t].val]_vars

(* A sample during which no other thread has used the bus, and no transfer *)
(* has failed, is made of the right registers, and the two bytes of each   *)
(* channel belong to the same measurement, although the sensor measures    *)
(* meanwhile: the sensor keeps the high byte that belongs to the low byte  *)
(* just read (light.c:84-94).                                              *)
SampleWhole ==
  \A k \in Callbacks : callback[k].at = "store" /\ callback[k].calm
                         => Whole(callback[k].bytes)
=============================================================================
