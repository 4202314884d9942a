# A verification development for project1

project1 runs on a BeagleBone Green. Three tasks read a light sensor, read a
temperature sensor and write a log file; a main task starts them, asks them
periodically whether they are alive, restarts those that do not answer, and
switches LEDs. This directory holds TLA+ models of that program and of the test
library it is built with, the TLC configurations that check them on small
instances, and proofs that TLAPS checks for every value of the constants. Paths
below are relative to the repository; `main.c:258` is `src/main.c` line 258, and
so on.

## 1. Inventory

| component | code | state it keeps | operations |
|---|---|---|---|
| message layer | `src/msg.c`, `inc/msg.h` | four POSIX queues of at most 8 packets, named, mode 0666, never unlinked | `msg_init`, `msg_send`, `logmsg_send` (both block when the queue is full) |
| main task | `src/main.c` 320-430 | `main_alive[]`, `main_tasks[]`, `local_lux`, `local_temp`, `log_name` | startup, command loop, `main_exit` |
| supervision | `src/main.c` 107-155, 215-287 | the heartbeat timer | check, clear, cancel, create, initialize, set the timer, ask |
| climate logic, LEDs | `src/main.c` 55-105, 157-213 | the logic timer, four LED files | set the LEDs, ask for three temperatures and one lux value, set the timer |
| light task | `src/light.c` | `current_lux`, the I2C context, sensor registers, a sampling timer | ten commands, the sampling callback, an exit handler |
| temperature task | `src/temp.c` | `temperature_c`, the I2C context, sensor registers, a sampling timer | eleven commands, the sampling callback, an exit handler |
| log task | `src/log.c` | `log_file` | INIT, LOG, SETPATH, ALIVE, KILL, an exit handler that closes the file |
| timers | `main.c` 75-155, `light.c` 46-75, `temp.c` 77-106 | one POSIX timer per period, `SIGEV_THREAD`, none ever deleted | create, set, expire |
| conversions | `light.c` 111-134, `temp.c` 61-75 | none | raw counts to lux, raw word to degrees |
| cmocka 1.1.1 | `3p/cmocka-1.1.1` | the queues of announced values, checks and calls, the list of watched blocks, the flag of a skip | groups, fixtures, tests, mocks, checks, assertions, the heap |
| not program logic | `kern/` (comments only), `src/template.c`, `test/` | | |

**Interaction.** Threads talk through the queues; every thread that owns a
queue takes packets out of it in a loop and runs one handler per packet. The
callbacks of the timers run on threads of their own (`SIGEV_THREAD`), so there
may be any number of them at a time, and they share variables with the tasks
without any lock: `main_alive` and `main_tasks` (heartbeat and main),
`local_lux` and `local_temp` (main and logic), `current_lux`, `temperature_c`
and the I2C contexts (a sensor task, a cancelled predecessor that has not ended,
and the callbacks), `log_file` (a cancelled log thread and its successor), the
LED files (main, logic and heartbeat). A task is stopped by `pthread_cancel` or
by its KILL command; both run its exit handler.

**What is hard.** Every send may wait. A send from a timer callback that waits
delays or ends whatever that callback still had to do, including the setting of
its own next timer. A cancelled task leaves its queue as it is, with old
requests in it; so does a crash of the whole program. Between the read of
`main_alive[i]` and the write that clears it an answer may arrive. A cancelled
thread is not waited for: it goes on to its next cancellation point beside its
successor. A restarted sensor task starts a second chain of sampling timers
while a callback of the first is still running. A register access may be cut in
two by another thread. In cmocka, every failure is a jump out of a function that
leaves queues, blocks and flags for somebody else to clear. The list with the
line of each hazard is in `PROJECT.json`.

**What makes the parts correct.**

- Message layer: no queue exceeds its capacity.
- Supervision: there is exactly one heartbeat; two callbacks never examine
  tasks at the same time; a check looks at the answer to the request of the
  heartbeat before; a task that runs always has a way to pass its next check;
  a task that is dead or stuck does not remain so.
- Sensor tasks: sampling goes on as long as the task runs, through restarts,
  in one chain per start. A register access of one thread is not disturbed by
  another. A write changes the register and the bits it is meant for.
- Log task: a closed file is not used, no open file is forgotten, a record that
  was accepted reaches the file, the file survives a restart.
- LEDs: each shows a condition that was really measured, and shows in the end
  what stays so.
- Conversions: the arithmetic agrees with the data sheet at every word, byte
  orders fit, lux is never negative.
- cmocka: the verdict on a test says what that test did, whatever ran before.

## 2. Modules

| module | models |
|---|---|
| `Msg` | thread identifiers, command sets and packets of the five headers |
| `Project1` | the running program: main, tasks, timer callbacks, queues, restarts, crash and relaunch |
| `Supervisor` | what supervision promises, without queues, threads and messages; `Project1` implements it |
| `Project1Proofs` | proofs about `Project1`: types, the heartbeat, sampling, no task condemned in advance |
| `SupervisionProofs` | more of them: rounds of the logic, the refinement of `Supervisor`, fresh confirmations |
| `LogFile` | the file of the log task, statement by statement, with the exit handler and a successor |
| `TempSensor` | the temperature task, its callbacks, its I2C context, its sensor, and a limit on timers |
| `LightSensor` | the same of the light task, whose register accesses take two transfers |
| `LogFileProofs`, `TempSensorProofs`, `LightSensorProofs` | proofs about these three |
| `Leds` | what the LEDs show: rounds of the logic, answers on their way, main starting |
| `Conversions` | degrees, lux, byte orders |
| `LedsProofs`, `ConversionsProofs` | proofs about these two |
| `CmChecks`, `CmMocks`, `CmHeap` | cmocka's comparisons, its queues of announcements, its watched heap |
| `Cmocka` | the runner of groups and tests, composed of these three |
| `CmockaProofs` | proofs about `Cmocka` and the operators of these three |
| `MCProject1`, `MCLogFile`, `MCTempSensor`, `MCLightSensor`, `MCLeds`, `MCCmocka` | the constants of the small instances |

The program is divided at the queues. `Project1` has every thread and every
packet but abstracts what a handler does to a device or a file; `LogFile`,
`TempSensor` and `LightSensor` each take one task out of it, with all
statements that touch the device or file, and let the rest of the program do
whatever `Project1` says it may: any command may be in the queue, and the task
may be cancelled and replaced at any time. `Leds` takes one thing from
`Project1`, where it is checked (`OneRound`): rounds of the logic do not overlap.

### Project1

| variable | in the code |
|---|---|
| `queue` | the contents of `msg_queues[]` |
| `todo[a]` | what thread `a` has still to do until it waits for its next packet: the rest of the C function it is in |
| `up` | which threads exist: main, and the tasks not cancelled or exited |
| `main_alive` | `main_alive[i] == 0xa5` |
| `armed` | timers of each kind that are set and have not expired |
| `dying` | cancelled or exiting sensor threads whose exit handler has yet to send its record |
| `launches`, `faults` | how often the program was started, how often the environment interfered (both bounded) |
| `missed` | history: the tasks that missed a check since the launch; no action reads it |

A C function is a *script*, a sequence of operations: `Send`, `Arm` (create and
set a timer), `Check`, `Reset`, `Restart`, `Cancel`, `Exit`. The scripts are
constant operators (`HeartbeatScript`, `LogicScripts`, `Startup`,
`TaskHandlers`, ...) and list the operations in the order of the C text;
`DoSend`, `DoArm`, `DoCheck`, ... each perform the first operation of a thread's
script. So every send and every access to a shared variable is a step of its
own and threads interleave between any two of them, while a handler that only
computes belongs to the receive. Where the code branches on the state
(`main_alive[i] != 0xa5`, a failing library call), the action puts the branch
in front of the rest of the script (`Instead`). A callback may run on any idle
thread of `Spare`.

| code | action |
|---|---|
| `mq_send` | `DoSend`: enabled when the queue has room |
| `mq_receive` and the handler of the packet | `TaskReceive`, `TaskKill`, `MainReceive` |
| `timer_create` and `timer_settime` | `DoArm`, `ArmFails` |
| a timer expires, the callback begins | `Expire` |
| `if (main_alive[i] != 0xa5)`, `main_alive[i] = 0` | `DoCheck`, `DoReset` |
| `pthread_cancel` and `pthread_create` of the heartbeat | `DoRestart`, `RestartFails` |
| `pthread_cancel` and `exit` of `main_exit` | `DoCancel`, `DoExit` |
| the exit handlers of the sensor tasks | `LastRecord` |
| another process writes to a queue | `ClientSend` |
| the process is killed, and started again | `Crash`, `Relaunch` |

Abstractions: packet data, record texts and sensor values are left out; where a
handler branches on them both branches are possible. Time is left out: a timer
that is set may expire at any moment, so a task may be arbitrarily slow and
miss checks although it is well. A cancelled thread takes and sends nothing any
more except in its exit handler, because it spends its time in `mq_receive` and
`mq_send`, which are cancellation points (the models of the tasks do not assume
this). If there is no `LOG` task in an instance (`LOG \notin Tasks`), records
are left out: that instance stands for a log queue that always has room.
Handlers that differ only in what they write to a register (`WRITEIT`,
`SETCONV`, ...) share a case of `LightHandler` or `TempHandler`.
`pthread_create` and `mq_open` failing at startup are left out (main ignores
both).

### Supervisor, and how Project1 implements it

`Supervisor` has one monitor: it waits for a period to end, examines every task
once, uses up the confirmation of one that has confirmed, and starts any other
again, in the period in which it condemned it. `Project1` ends with
`Monitor == INSTANCE Supervisor WITH ...`:

| abstract | implemented by |
|---|---|
| `waiting` | the heartbeat timer is set |
| `due` | the tasks for which some callback still has a `Check` to do |
| `condemned` | those for which some callback still has a `Restart` to do |
| `confirmed` | `main_alive[i] == 0xa5`, and no thread is about to clear it |
| `alive` | `up` |

The code reads the flag in one statement and clears it in another. Under the
mapping the confirmation is used up at the read, so the write that clears the
flag has to be a stuttering step: that is so only because no answer can arrive
between the two, which is what a reader of the unlocked code would doubt.

### LogFile

A log thread is a program counter `pc[t]` that stands at the statement to be
done next: `init`, `forget`, `open`, `announce` in `log_init`, `log`, `print`,
`flush` in `log_log`, `setpath`, `reopen` in `log_setpath`, `exit`, `last`,
`flush_last`, `close`, `clear` in `__log_terminate`. `log_file` is the number of
a stream or 0 for NULL; a stream has a buffer, and `fflush` and `fclose` move it
to the file. After `ProcessEnds` the C library closes the streams that are still
open one by one, in any order (`CloseAtExit`). `Cancelled` sends a cancelled
thread to its exit handler at a cancellation point only. The use of a closed
stream is undefined: the model notes it in `undefined` and stops.

The heartbeat is at a step of its own of the restart (`heartbeat`): `MissCheck`
logs the miss, `CancelLog` cancels, `CreateLog` creates the successor, which may
run at once, `InitializeLog` and `Reinitialized` send the two packets. `main`
goes through the three parts of `main_exit` (`MainExit`, `CancelTasks`,
`ProcessEnds`) while the heartbeat may go on. Sends do not wait here and
`pthread_create` does not fail; `Project1` has both.

Nobody joins the cancelled thread, so two log threads may run at the same time,
and much of what one would like to say of the file is then false (`log_overlap`).
Two history variables say how far it goes wrong. `raced`: a thread took a step
while another was inside a handler or its exit handler. `overtaken`: a thread
took a step before its predecessor had ended. Threads that have not raced have
*taken turns*, in any order: the exit handler of the old one may still run after
the new one has opened its file.

A stream writes at the end of its file. For `"a+"` that is what the C library
does. For `"w+"` it is so as long as no other stream writes to the file, which is
`NoLeak`; after a race the contents of a file are therefore not to be relied on.

### TempSensor, LightSensor

Both have `pc`, `packet` and `data` of each task thread (what it is at, the
command it handles, what it has read), `callback` of each thread of the timer
library, the context in use and which contexts have been addressed (INIT makes a
new one and addresses it in a second call, so other threads may use one that
names no device), and the sensor itself. A transfer may also fail while the
context has its address, and nothing looks at what mraa returns: a failed read
gives a word or a byte of ones, a failed write changes nothing. Cancellation
takes effect where the code waits or logs, so a cancelled thread may still write
a register beside its successor.

`TempSensor`: the word transfers of `__temp_i2c_read` and `__temp_i2c_write`
are single steps (register and word in one transaction); between a read and
what uses it lies the record that `__temp_i2c_read` sends. `Modify` writes the
word 1 to the register that the low bits of the new control word name, as
`temp_setconv`, `temp_shutdown` and `temp_wakeup` do. A word of ones names the
lower limit. `misread` is history: a read of the control register has failed on
an addressed context. `TimerInit` counts timers, for none is deleted, and leaves
open what setting an uninitialized identifier does.

`LightSensor`: every access is two steps, one that selects the register and one
that transfers the byte, and a read byte remembers the register it comes from.
The sensor keeps the high byte that belongs to the low byte just read
(`latched`). `LIGHT_WRITEREG` names any register that can be written and any of
`Values`. History: `calm` in a callback says that no other thread has used the
bus and no transfer has failed since it began, `missed` that the selection of a
register to write to has failed, so that the byte goes to whatever register was
selected before.

### Leds

The state begins where main has set both timers and is about to switch the LEDs
off; the last sample is 123.456, as in the code, here the whole degree
`Unmeasured` that is never measured. `measured` and `lit` are history: what has
been measured, and the temperature for which LED 0 is on. The logic callback is
at a step of its round (`Rounds`, in the order of `__main_logic`), requests and
answers are in bounded queues, and a temperature is answered in the three
formats (`InFormat`). `Store` is the command loop of main, which keeps only
degrees Celsius (`Stores`). `__main_heartbeat` may switch LED 3 on at any time.

### Conversions

Degrees are integers in sixteenths, lux in hundred-thousandths. `__temp_conv` is
modelled with the widths of its variables (the complement is taken in sixteen
bits, then masked) and compared with two's complement division. The first range
of `__light_convert_lux` uses `pow`; there the model has a lower bound of the
result, everywhere else its value. `Written` and `ReadBack` follow a word
through the packet, the bus and the sensor, which differ in byte order.

### Cmocka

The runner calls a function of the program (a setup, a test, a teardown, of a
group or of a test); the function makes calls to cmocka in any order and then
returns a value or is left by a jump. `pc` is the function's role or a step of
the runner's own, `inside` says whether the function is about to be called, runs
or has come back.

| code | in the model |
|---|---|
| `_cmocka_run_group_tests` | `StartGroup`, `NoMemory`, `AfterGroupSetup`, `NextTest`, `AfterSetup`, `AfterTest`, `AfterTeardown`, `Record`, `AfterGroupTeardown`, `Finish` |
| `cmocka_run_one_test_or_fixture` | `Call`, `Return`, `exit_test` |
| `_mock`, `_will_return`, `_expect_*`, `_check_expected` | `Mock`, `WillReturn`, `ExpectCheck`, `CheckExpected` |
| `_function_called`, `_expect_function_call` | `FunctionCalled`, `ExpectFunctionCall` |
| `assert_*`, `_fail`, `_skip`, a caught signal | `AssertThat`, `Fail`, `Skip` |
| `_test_malloc`, `_test_realloc`, `_test_free` | `Malloc`, `Realloc`, `Free`; `Overrun` is the program's own write |
| `global_function_result_map_head`, ... | `results`, `params`, `calls` |
| `global_allocated_blocks`, a check point | `heap`, `points` |

Linked lists are sequences (`CmMocks`), a symbol that has no entry left maps to
the empty sequence; strings and memory are sequences of bytes. Numbers are what a
signed variable of up to 64 bits holds. cmocka casts them to an unsigned type
and compares those: `AtMost` is that order, in which every negative number comes
after every other. A count of 0 is refused by `WillReturn` and
`ExpectFunctionCall`, queued by `ExpectCheck`, and taken for an empty queue by
`Mock` and `CheckExpected` (`Found`). `CmChecks` states
what each comparison means a second time, without the code (`Means`), and
`CmMocks` what it means to honour an announcement (`Honoured`); the history
variable `truth` judges every function by these: *good*, *bad*, *skip*, *lost*
(it freed the block its check point names, an address `malloc` may give out
again), *misled* (it made a check that the code does not decide by its meaning:
a range with numbers on both sides of zero, or a return code as large as the
limit of its width), *unfair* (it announced something that no use can reach, for
a count of 0 or behind an endless announcement).

`CmockaAssumption` says that a program gives each check what the check is
for (`Fits`): the data of its kind, strings that end, areas of as many bytes as
are compared; that it does not queue a return code, which no `expect_` macro
does; and that no block is at the address of the list's head.

## 3. Runs

`CHECK_DEADLOCK FALSE` stands wherever the system may stop: by EXIT, by the end
of the bounded commands, calls or inputs, and by the blocked sends of
`log_stuck`. `leds` has no such line. Symmetry is used for the callback threads
and, in `cmocka`, for addresses and functions, which are interchangeable; only
in runs without a liveness property.

| run | instance | shows |
|---|---|---|
| `supervision` | light and log task, 1 packet per queue, 2 callback threads, every timer | `TypeOK`, `OneMonitor`, `HeartbeatKept`, `ConfirmationIsFresh`, `SensorSampled`, `OneRound`, and the refinement `Supervises` |
| `failures` | log task, 2 packets, 2 callback threads, KILL and EXIT from outside, all library calls may fail, 2 faults, 2 launches | `NeverCondemned` |
| `recovery` | temperature task, log queue with room, 2 packets, 2 callback threads, `pthread_create` fails up to twice, fairness | `SensorRecovers` |
| `log_stuck` | log task, 8 packets, fairness | `UnresponsiveIsRestarted` is violated |
| `late_answer` | log task, 8 packets | `ConfirmationIsFromLastTime` is violated |
| `logfile` | 2 files, 2 log threads, explored as long as they take turns, 1 record of other tasks, 1 command from outside, `fopen` may fail | `TypeOK`, `HandleSound`, `NoLeak`, `NothingLost`, `RecordsKept`, `DroppedBeforeInit` |
| `log_overlap` | 1 file, 2 log threads, no commands, no failures | `Graceful` is violated |
| `temperature` | 2 starts, 2 callback threads, 2 commands of all kinds, 2 measurements, 5 timers, any transfer may fail | `TypeOK`, `ReadregHonest`, `LimitsKept`, `ChainPerTask`, `NeverBackwards` |
| `light` | 2 starts, 1 callback thread, 2 commands of all kinds, bytes 0 and 3 for WRITEREG, 1 measurement, 1 transfer that fails although the sensor has its address | `TypeOK`, `TimeHonest`, `WritesHonest`, `SampleWhole` |
| `leds` | queues of 2, temperatures 20 and 35, brightness 0 and 60, fairness | `TypeOK`, `HotIsMeasured`, `StaysHot`, `StaysMild` |
| `conversions` | all 65536 words, all pairs of counts up to 250 | `TempConvRight`, `BytesFit`, `LuxNotNegative`, `LuxFalls` |
| `cmocka` | 2 groups one after the other, of three kinds with and without fixtures, 4 calls to cmocka, 2 mock functions, 1 parameter, 2 addresses, every kind of check, a range across zero, counts of 0 among others | `TypeOK`, `PassedIsGood`, `GoodIsPassed`, `FailureShows`, `CleanReturn`, `CallsInOrder` |

**The bounds, and why they are enough.**

- *Queues* (`MaxMsgs`, `Capacity`; 8 in the program). A queue is interesting
  when it is empty, when it has one place left and when it is full; with two
  packets all three occur within one heartbeat, and one packet makes every send
  wait sooner. `log_stuck` and `late_answer` use the program's 8.
- *Tasks, callback threads* (`Tasks`, `Spare`, `Callbacks`). Two tasks are the
  smallest number with a loop that checks one while the other changes. With two
  callback threads two heartbeats overlap, the first waiting for room; a third
  would wait as the second does. In `light` one callback disturbs and is
  disturbed by the tasks.
- *Faults, launches* (`MaxFaults`, `MaxLaunches`). Enough to fail at any point
  of a heartbeat and then once more in the recovery from it.
- *Pending timers, exit handlers* (`MaxArmed`, `MaxDying`): 1 in `Project1`.
- *Starts of a task* (`MaxThreads` = 2): one thread and the one that replaces it.
- *Commands, records, measurements* (`MaxCommands`, `MaxRecords`,
  `MaxMeasured`). Two commands are a command and one that finds what it left,
  on two threads or on one. `MaxRecords` bounds only what the other tasks send:
  they send a record while fewer than that many have been sent by anyone; main,
  the log task and the heartbeat always send theirs.
- *Taking turns* (`CONSTRAINT TakingTurns` in `logfile`): states after a race
  are not explored further. Every property of the run but `TypeOK` has `raced`
  among its exceptions, or `overtaken`, which a race implies, and neither ever
  becomes false again, so the run loses nothing of them. `TypeOK` is proved for
  all states.
- *Failing transfers* (`MaxFailures` = 1 in `light`, no bound in `temperature`):
  the properties of the light sensor speak of one failure, of a selection, a
  read or a write. `Values` = {0, 3} is off and on for the sensor, and two
  integration times.
- *Timers* (`MaxTimers` = 5; the limit of the system in the program): the limit
  is reached after two starts and a few samples.
- *Counts* (`MaxCount` = 250) reach every range of the lux formula and every
  border between two; the formula is linear in each range but the first.
- *Calls to cmocka* (`MaxCalls` = 4, all functions together). The longest
  scenario a property needs is an announcement of two uses and two uses, or a
  block allocated by a setup, freed and replaced by a test. Two groups let the
  first leave something to the second.

**What single properties say.**

`ConfirmationIsFresh` counts, for a task that has not missed a check since the
launch, everything on its way from the request to the flag: request still to be
sent, request in the task's queue, answer to be sent, answer in main's queue,
flag. It is one, plus one while a callback has the task still to check. This is
what makes the unlocked write of `main_alive[i]` harmless. After a miss the
count may be larger, and `late_answer` shows what follows. `NeverCondemned` is
the part that survives everything: a running task has at least one on its way.

`SensorRecovers` has two premises besides fairness. `Started`: main has reached
its loop; at a relaunch over full queues main may wait for a task that waits for
main. And a callback thread becomes idle again and again: a thread that waits
for room in a dead task's queue is not available, the program has a new thread
for each callback, the model a fixed set.

`HandleSound`, `NoLeak`, `RecordsKept` and `NothingLost` hold as long as log
threads take turns. A lock around the handlers would make that so; the code has
none. `DroppedBeforeInit` needs more, that no thread runs before its predecessor
has ended: a lock would not do, only a join, because an exit handler that runs
late clears the `log_file` that INIT has just set. `HandleSound` has one more
exception: `log_setpath` leaves the closed stream in `log_file` while it opens
the next one, and a thread cancelled there uses it in its exit handler.

`TimeHonest`, `WritesHonest` and `NeverBackwards` hold until the first restart
(`cur = 1`) and are false after it, when two task threads or two chains of
timers share a bus. The first two also leave out what follows when the selection
of a register to write to fails. `SampleWhole` is about samples that nothing has
disturbed; of others nothing is said.

`LimitsKept` says what the exchanged arguments of three handlers of `temp.c` do
to the limit registers: nothing to the upper one, and to the lower one only
after a read that failed on an addressed sensor (`misread`), or after a restart.
Then it holds 1, so the property also says why this has hardly been noticed.

`HotIsMeasured` allows the 123.456 of the start: a query answered before the
first sample lights LED 0 with nothing measured, which is what the code does.

`LuxFalls` compares two results. In the last three ranges both are exact; at the
border of the first range the larger count is exact and the smaller one a lower
bound, so the comparison implies that of the results. Inside the first range it
says nothing, nor of `ch1 = 0`, for which the code returns 0.

`PassedIsGood` and `GoodIsPassed` leave out a test that frees the block of its
own check point (*lost*) and one whose check is not decided by its meaning
(*misled*); `GoodIsPassed` also one that announces what no use can reach
(*unfair*).

`FailureShows` leaves out a group that starts with the skip flag set by the one
before (`stale`): see section 4. `CleanReturn` shows that corruption of a block
never goes unnoticed: a block with broken guards cannot be freed, so it is
still in the list when the group ends.

**Fairness.** `FairSpec` of `Project1` (runs `recovery` and `log_stuck`): every
thread that can run does. The steps of threads have strong fairness, since a
thread that waits for room in a queue competes with others and Linux serves
waiting senders in turn; receiving has weak fairness, since only the owner
takes packets out. A timer that is set expires, with strong fairness because a
thread must be free for its callback. `FairSpec` of `Leds`: the same, strong
for the two answering tasks, which compete for room in main's queue, weak for
main and the single logic callback. Nothing is assumed of faults, clients,
crashes, launches, measurements and missed checks.

## 4. Where code and intention part

Three runs show a disagreement with what the repository says of itself:

- `log_stuck`. `log_init` sends "Initialized logger" to the queue that only the
  log task drains. If other threads have filled it, the log task waits for
  itself. The heartbeat's first statement is a record to the same queue, so it
  waits too, before it has checked anything and with its timer not set.
- `late_answer`. A restarted task finds unanswered requests of earlier
  heartbeats and answers each; the second answer passes a later check.
- `log_overlap`. The heartbeat creates the new log thread without waiting for
  the cancelled one: the exit handler of one and `log_init` of the other close
  the same file twice, or one prints to a file the other has closed.

What else was noticed while modelling. The models do what the code does in
these, as far as section 2 says that they model it, but no run states the
intention:

- Between the restart of a task and the next setting of the timer the heartbeat
  sends INIT to the new task (`main.c:258`). If that task is killed at once and
  its queue is full again, the heartbeat waits for ever.
- `LIGHT_ISDAY` is declared and documented (`light.h:213`) but not dispatched
  (`light.c:220`): the query is not answered.
- `temp_setconv`, `temp_shutdown` and `temp_wakeup` exchange the arguments of
  the write (`temp.c:280`, `289`, `298`), so none of them changes the control
  register. The conversion rate is shifted by 7 although its bits are 6 and 7
  (`temp.c:278`). After a read that failed (`temp.c:48`, not looked at) they
  write 1 to the lower limit register.
- A temperature query before the first sample is answered with 123.456
  (`temp.c:41`, `254`), which is above the threshold and lights LED 0; the first
  round of the logic acts on 0.0 (`main.c:167`).
- INIT replaces the context before the new one has an address (`temp.c:196`); an
  access in between fails.
- No timer is deleted (`temp.c:94`, `main.c:91`), one is created per period.
- An access to the light sensor that another thread cuts in two reads the wrong
  register (`light.c:141`). A write whose selection fails goes to the register
  selected before (`light.c:152`). The gain bit is overwritten with the
  integration time (`light.c:287`). Nothing in the program powers the sensor up
  (`light.c:231`).
- The too-cold LED is not switched off by the too-hot branch and the other way
  round, so both may be on (`main.c:164`). LED 3 may be switched off after a
  miss, when main starts slowly (`main.c:363`).
- Records that arrive before INIT are dropped (`log.c:137`). A restarted log
  task writes to the file main was started with, not to the one SETPATH named
  last (`main.c:271`). `main_exit` cancels the tasks and ends the process
  without joining them (`main.c:315`).
- cmocka: a skip in a group's teardown leaves the flag that was meant for a test
  (`cmocka.c:2735`), and the first failure of the next group counts as skipped;
  a failing group teardown is not counted (`cmocka.c:2899`); `assert_in_range(0,
  -1, 1)` fails and `assert_not_in_range(0, -1, 1)` passes, because both compare
  unsigned values (`cmocka.c:1122`, `1142`); `assert_return_code` rejects the
  largest value of a width (`cmocka.c:1623`); a block freed by the test whose
  check point names it may hide another.
- `test/test_main.c` ignores what its groups return and always ends with 0.

## 5. Proofs

Every safety property that a passing run checks is also proved, for all values
of the constants that satisfy the `ASSUME` of its module: any of the tasks,
queues of any capacity, any number of callback threads, starts, files, commands,
faults, launches, measurements, failing transfers, calls. A property that names
an exception (section 3) is proved with that exception. Some theorems need one
thing more, which is stated in the theorem and in the third column.

| module | theorems (property) | beyond the module's assumption |
|---|---|---|
| `Project1Proofs` | `TypeCorrect` (`TypeOK`), `NeverIsCondemned` (`NeverCondemned`) | none |
| | `HeartbeatIsKept` (`HeartbeatKept`), `OneMonitorOnly` (`OneMonitor`), `SensorIsSampled` (`SensorSampled`) | `"timer" \notin MayFail` |
| `SupervisionProofs` | `OneRoundOnly` (`OneRound`), `SupervisionImplements` (`Supervises`) | `"timer" \notin MayFail` |
| | `ConfirmationsAreFresh` (`ConfirmationIsFresh`) | the same, one launch, no ALIVE from clients |
| `LogFileProofs` | `LogTypeCorrect` (`TypeOK`), `NoFileLeaks` (`NoLeak`), `HandlesAreSound` (`HandleSound`), `RecordsAreKept` (`RecordsKept`), `NoRecordIsLost` (`NothingLost`), `DropsPrecedeInit` (`DroppedBeforeInit`) | none |
| `TempSensorProofs` | `TempTypeCorrect`, `ReadregIsHonest`, `LimitsAreKept`, `OneChainPerTask`, `SamplesInOrder` (`NeverBackwards`) | none |
| `LightSensorProofs` | `LightTypeCorrect`, `TimeIsHonest`, `WritesAreHonest` (`WritesHonest`), `SamplesAreWhole` | none |
| `LedsProofs` | `LedsTypeCorrect`, `HotHasBeenMeasured` | none |
| `ConversionsProofs` | `TempConvIsRight`, `BytesDoFit`, `LuxIsNotNegative`, `LuxDoesFall` | none |
| `CmockaProofs` | `CmockaTypeCorrect`, `CallsAreInOrder`, `PassedTestsAreGood`, `GoodTestsPass`, `FailuresShow`, `ReturnsAreClean` | none |

**The extra assumptions are needed.** The code does not try again when
`timer_create` or `timer_settime` fails, so with `"timer" \in MayFail` the
heartbeat, a chain of samples or a round may end. With a second launch a queue
may hold answers of the first, and a client may send an ALIVE in a task's name:
either gives a task a second confirmation. All other failures
(`pthread_create`, `fopen`, a bus that does not answer, a crash, exit, commands
from outside) are allowed.

**Assumptions of the modules.** They say what the constants are, and besides:
the identifiers of callback threads are finitely many and no task's
(`Project1Assumption`, `TempAssumption`), none of them is 0, which stands for a
light task that uses the bus (`LightAssumption`); a program uses cmocka's checks
as they are meant (`CmockaAssumption`, section 2). TLC evaluates all of them.

### The arguments

**`Project1Proofs`, the heartbeat.** `HeartbeatKept` says that the timer is set
or exactly one thread is on its way to set it; that alone does not tell what an
operation leaves of a script. The invariant adds `Disciplined`: each script is
*harmless* (it neither sets the heartbeat timer nor examines a task) or
*guarded* (it sets the timer exactly once, and examines tasks only before), and
a task's script is harmless; and `Ended`: when main is gone all scripts are
empty and no timer is set. A small calculus of such scripts (what concatenation
and taking the tail preserve) shows that each script of `Project1` is harmless
or guarded. `Keeping` and `KeepingOne` turn that into a rule for steps, then
there is one lemma per action.

**Sampling, rounds, confirmations.** What a script still promises depends on the
order of what is left in it. `InOrder` says it for all scripts: where one
examines, clears or restarts a task (`Watch`), what it examines after that are
checks of other tasks, and a request to every task is still to come; a round of
the logic (`Rounding`) ends with the setting of its timer; a task's script holds
only what that task does. On top of it, `SensorSampled` and `OneRound` are
inductive; `NeverCondemned` follows from `AllExpected` (a running task has a
request to be sent, a request in its queue, an answer to be sent, an answer in
main's queue, or the flag, whatever fails). `ConfirmationIsFresh` needs the
exact count (`Balanced`): those five, counted with multiplicity in every queue
and script, are 1 plus the checks and clearings still to be done. Its proof is
arithmetic on the cardinality of sets of positions, one lemma for each way a
step can move a packet or an operation from one place to another.

**The refinement.** `SupervisionImplements` proves that the mapped initial
state satisfies `Monitor!Init` and that each step of `Project1` is a step of
`Supervisor` or a stutter. The write `main_alive[i] = 0` is the point: it
stutters because of `OneMonitor` and `InOrder`, that is because the thread that
clears a flag is the only one that examines tasks, and the flag it clears is
counted as used up since the check.

**`LogFileProofs`.** `Kept` joins the types with the kind of packet each handler
has in hand (`Handling`), and `Handles`: unless threads have raced, at most one
is inside a handler or its exit handler, and the statement it is at tells which
stream is open. That is the whole argument why it does not matter whose exit
handler runs when: it finds in `log_file` either NULL or the one stream that is
open. `RecordsKept` adds `NewFirst`: the one INIT that empties its file precedes
everything written. `DroppedBeforeInit` adds `Coming`: when `log_file` is NULL
and nothing failed, an INIT is in the queue or about to be sent. It is inductive
only with `Waiting`, a thread has taken its first step only when its predecessor
has ended, which is what `overtaken` gives: taking turns is not enough.

**`TempSensorProofs`, `LightSensorProofs`.** `Typed` joins the types with what
each thread holds at each label. `Matched` explains what the exchanged arguments
do: a word that was read names no limit register; a failed read leaves one that
names the lower limit, but before a restart either the read is noted in
`misread` or the context still has no address when the write comes.
`Ordered` says that one callback at a time is between reading and storing and
that no sample in flight is older than the stored one. `Honest` follows the
value of the registers through both transfers of a write; `InStep`
relates what a calm callback has read so far to the selected register and to the
latched byte.

**`LedsProofs`, `ConversionsProofs`.** `Honest`: every temperature on its way in
degrees Celsius was measured or is the one of the start. The conversions are
lemmas in integer arithmetic about any word and any counts.

**`CmockaProofs`.** The first half is about operators: removing from sequences,
`CheckMeans` (each comparison of `CmChecks` agrees with the meaning stated
without the code, for all strings, areas and ranges), `Added`, `UsedSound`,
`Served`, `UsedOrdered` (what the queue operations preserve), `NothingLeft`
(after a function, a queue is found empty exactly if everything announced was
met), `Allocated`, `Freed`, `FreedBehind`, `BehindIsMine` (the blocks behind a
check point). The second half has an invariant of seven parts. `Queues`: the
count of each entry says what is left of what was asked, and no entry behind one
that is owed a call was used. `Shape` and `Stages`: types, and which tests were
counted at which step of the runner. `Blocked`: a corrupt block stays in the
list. `Trusted`: a test that did nothing wrong so far owns exactly the blocks
behind its check point; it came back with 0 only if it was good. `Skipping`,
`Shown`, `Complete`: a skip flag that a test did not set is one a fixture set
which was counted as an error; a bad test is counted or about to be; the group
goes to its end with all tests started or an error. `ProgramMoves` sums up the
fifteen actions of the program in five shapes.

TLC checked each of these invariants on the instances of section 3 before it was
proved.

### What the proofs have changed

- `LuxFalls` stated a smaller step at the border between ranges (0.05 lux) that
  holds for the counts the run visits and is false above 12780. It states a
  bound that holds for all counts.
- `ReturnLimit` lacked the case of eight bytes, the type of `count` in `CmMocks`
  was too small for large announcements, and two queues that `SelectSeq` made are
  sets of positions.
- In `LogFile` the end of the process closed all streams in one step. It closes
  them one by one.
- The assumptions that identifiers of different kinds differ, and that the sets
  of callback threads are finite, had been left unsaid.

**Model-checked only.** The liveness properties (`SensorRecovers`, `StaysHot`,
`StaysMild`): they depend on fairness, which needs `ENABLED`, out of the
prover's reach. The three runs that show a violation are counterexamples by
nature.

## 6. Plan

Every module of the plan is written, every safety property of a passing run is a
theorem. What could follow:

1. The safety half of the liveness properties: `SensorRecovers` says that a
   dead or stuck task starts again; that the step that does it stays possible
   (its script is not lost) is a safety property.
2. An abstract specification of a queue of announcements, with `CmMocks` shown
   to implement it.
3. `ConfirmationIsFresh` after a relaunch, for the tasks whose queues the
   launch found empty.

## 7. Not modelled

- The text of log records, of messages and of test reports. In cmocka: the
  output formats (`cmprintf_*`), source locations, `mock_assert` with
  `expect_assert_failure`, `CMOCKA_TEST_ABORT`, the branches for Windows, test
  entries without a function, and the
  deprecated runner (`_run_test`, `_run_tests`, `_run_group_tests`), which no
  test of this program uses.
- Sensor values beyond what the properties tell apart; floating point rounding
  in the first range of the lux formula.
- LED files that cannot be opened; `mq_open` and `pthread_create` failing at
  startup.
- Time. A timer may expire at any moment after it is set.
- The lock-free sharing of `local_lux` and `local_temp` as memory accesses:
  single aligned words, read and written whole.
- `kern/` and `src/template.c` hold no code. `test/` is straight-line calls of
  functions that are modelled.
