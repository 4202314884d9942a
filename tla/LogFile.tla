------------------------------ MODULE LogFile ------------------------------
(***************************************************************************)
(* The log task and its file (src/log.c): the handlers that open, write    *)
(* and close the file, the exit handler of a cancelled or killed log       *)
(* thread, and the thread that the heartbeat creates in its place.  All    *)
(* log threads of a launch share one variable, log_file.                   *)
(*                                                                         *)
(* A stream is numbered by the fopen that made it and has a buffer, which  *)
(* fflush, fclose and the end of the process write to the file.  A         *)
(* cancelled thread goes on until it reaches a cancellation point: waiting *)
(* for a packet, opening the file, flushing it, sending a record.  Nobody  *)
(* joins it: its successor runs beside it.  Using a closed or a null       *)
(* stream is undefined; the model records that and stops.                  *)
(*                                                                         *)
(* A stream writes at the end of its file.  That is so of "a+", and of     *)
(* "w+" as long as the file has no other stream: NoLeak.                   *)
(***************************************************************************)
EXTENDS Naturals, Sequences, FiniteSets, SequencesExt

CONSTANTS
  Paths,       \* the names of files
  log_name,    \* the name main was started with
  ClientPaths, \* the names other processes send with LOG_SETPATH
  ReopenPaths, \* the names other processes send with LOG_INIT, to append
  MaxThreads,  \* how many log threads there are in a launch
  MaxRecords,  \* how many records the other tasks send
  MaxCommands, \* how many commands other processes send
  MayFail      \* whether fopen may fail

ASSUME LogFileAssumption ==
  /\ log_name \in Paths /\ ClientPaths \subseteq Paths /\ ReopenPaths \subseteq Paths
  /\ MaxThreads \in Nat \ {0}
  /\ MaxRecords \in Nat /\ MaxCommands \in Nat
  /\ MayFail \in BOOLEAN

VARIABLES
  log_file,   \* the stream in use, 0 is NULL
  streams,    \* every stream made so far: its file, its buffer, whether open
  file,       \* what each file holds
  queue,      \* the packets for the log task
  pc,         \* where each log thread is
  packet,     \* the packet each log thread handles
  cancelled,  \* the log threads that have been cancelled
  cur,        \* the log thread in main_tasks
  main,       \* where main is: "init", "loop", then main_exit: "cancel", "exit"
  heartbeat,  \* where the heartbeat is that restarts the log task, else "idle"
  sent,       \* records sent so far, also the number of the last one
  commands,   \* commands other processes have sent so far
  ended,      \* the process has ended
  undefined,  \* a closed or a null stream has been used
  dropped,    \* history: the records log_log has not written
  emptied,    \* history: the records in a file LOG_SETPATH has emptied
  failed,     \* history: fopen has failed
  overtaken,  \* history: a log thread ran before its predecessor had ended
  raced       \* history: ... while another was inside a handler or its exit handler

history == <<dropped, emptied, failed>>
vars == <<log_file, streams, file, queue, pc, packet, cancelled, cur, main, heartbeat,
          sent, commands, ended, undefined, history, overtaken, raced>>

Threads == 1 .. MaxThreads
NULL    == 0
Stream  == [path : Paths, buffer : Seq(Nat), open : BOOLEAN]
Closing == 0        \* the record of the exit handler; the others count from 1

Packets == [cmd : {"INIT"}, new : BOOLEAN, path : Paths] \cup [cmd : {"LOG"}, id : Nat]
             \cup [cmd : {"SETPATH"}, path : Paths] \cup [cmd : {"KILL"}]

\* data[0] of an INIT packet is 1 or 0, the rest is the name of the file.
InitLog(new, p) == [cmd |-> "INIT", new |-> new, path |-> p]
Record(n)    == [cmd |-> "LOG", id |-> n]

Init ==
  /\ log_file = NULL
  /\ streams = <<>>
  /\ file = [p \in Paths |-> <<>>]
  /\ queue = <<>>
  /\ pc = [t \in Threads |-> IF t = 1 THEN "receive" ELSE "none"]
  /\ packet = [t \in Threads |-> Record(0)]
  /\ cancelled = {}
  /\ cur = 1
  /\ main = "init"
  /\ heartbeat = "idle"
  /\ sent = 0
  /\ commands = 0
  /\ ended = FALSE
  /\ undefined = FALSE
  /\ dropped = {} /\ emptied = {} /\ failed = FALSE
  /\ overtaken = FALSE /\ raced = FALSE

-----------------------------------------------------------------------------
(* The streams of the C library.                                           *)

Running == ~ended /\ ~undefined
Usable(h) == h # NULL /\ streams[h].open

\* Thread t goes on at l.
Goto(t, l) == pc' = [pc EXCEPT ![t] = l]

\* The buffer of stream h reaches its file.
Flushed(h) == [file EXCEPT ![streams[h].path] = @ \o streams[h].buffer]

\* Thread t uses log_file and goes on at l, unless that is undefined.
Using(t, l, Use(_)) ==
  IF Usable(log_file)
  THEN Use(log_file) /\ Goto(t, l) /\ UNCHANGED undefined
  ELSE undefined' = TRUE /\ UNCHANGED <<streams, file, pc>>

Write(n, h) ==
  streams' = [streams EXCEPT ![h].buffer = Append(@, n)] /\ UNCHANGED file
Flush(h) ==
  streams' = [streams EXCEPT ![h].buffer = <<>>] /\ file' = Flushed(h)
Close(h) ==
  /\ streams' = [streams EXCEPT ![h] = [path |-> @.path, buffer |-> <<>>, open |-> FALSE]]
  /\ file' = Flushed(h)

\* fopen(p, "w+") or fopen(p, "a+"): the first empties the file.
Open(p, truncate) ==
  \/ /\ streams' = Append(streams, [path |-> p, buffer |-> <<>>, open |-> TRUE])
     /\ log_file' = Len(streams) + 1
     /\ file' = IF truncate THEN [file EXCEPT ![p] = <<>>] ELSE file
     /\ UNCHANGED failed
  \/ /\ MayFail /\ failed' = TRUE
     /\ log_file' = NULL
     /\ UNCHANGED <<streams, file>>

Post(m)  == queue' = Append(queue, m)
Outside  == UNCHANGED <<cancelled, cur, main, heartbeat, commands, ended>>

-----------------------------------------------------------------------------
(* The command loop and its handlers, of log thread t.                     *)

InExit(t) == pc[t] \in {"exit", "last", "flush_last", "close", "clear"}

\* Thread t is inside a handler or its exit handler.
Busy(t) == pc[t] \notin {"none", "receive", "gone"}

\* mq_receive and the switch of log_task
Receive(t) ==
  /\ pc[t] = "receive" /\ t \notin cancelled /\ queue # <<>>
  /\ packet' = [packet EXCEPT ![t] = Head(queue)]
  /\ queue' = Tail(queue)
  /\ Goto(t, CASE Head(queue).cmd = "INIT"    -> "init"
               [] Head(queue).cmd = "LOG"     -> "log"
               [] Head(queue).cmd = "SETPATH" -> "setpath"
               [] Head(queue).cmd = "KILL"    -> "exit")
  /\ UNCHANGED <<log_file, streams, file, sent, undefined, history>>

\* log_init: if (log_file != NULL) fclose(log_file);
InitClose(t) ==
  /\ pc[t] = "init"
  /\ IF log_file = NULL
     THEN Goto(t, "open") /\ UNCHANGED <<streams, file, undefined>>
     ELSE Using(t, "forget", Close)
  /\ UNCHANGED <<log_file, queue, packet, sent, history>>

\* log_file = NULL;
InitForget(t) ==
  /\ pc[t] = "forget"
  /\ log_file' = NULL
  /\ Goto(t, "open")
  /\ UNCHANGED <<streams, file, queue, packet, sent, undefined, history>>

\* log_file = fopen(...), with an early return if that fails
InitOpen(t) ==
  /\ pc[t] = "open"
  /\ Open(packet[t].path, packet[t].new)
  /\ Goto(t, IF log_file' = NULL THEN "receive" ELSE "announce")
  /\ UNCHANGED <<queue, packet, sent, undefined, dropped, emptied>>

\* The record "Initialized logger" goes to the queue of the task itself.
Announce(t) ==
  /\ pc[t] = "announce"
  /\ Post(Record(sent + 1)) /\ sent' = sent + 1
  /\ Goto(t, "receive")
  /\ UNCHANGED <<log_file, streams, file, packet, undefined, history>>

\* Mutant of LogCheck: the check is missing.
LogUnchecked(t) ==
  /\ pc[t] = "log"
  /\ Goto(t, "print")
  /\ UNCHANGED <<log_file, streams, file, queue, packet, sent, undefined, history>>

\* log_log: if (log_file == NULL) return LOG_ERR_UNINIT;
LogCheck(t) ==
  /\ pc[t] = "log"
  /\ IF log_file = NULL
     THEN Goto(t, "receive") /\ dropped' = dropped \cup {packet[t].id}
     ELSE Goto(t, "print") /\ UNCHANGED dropped
  /\ UNCHANGED <<emptied, failed>>
  /\ UNCHANGED <<log_file, streams, file, queue, packet, sent, undefined>>

\* fprintf(log_file, ...): the line is in the buffer.
LogPrint(t) ==
  /\ pc[t] = "print"
  /\ Using(t, "flush", LAMBDA h : Write(packet[t].id, h))
  /\ UNCHANGED <<log_file, queue, packet, sent, history>>

\* fflush(log_file)
LogFlush(t) ==
  /\ pc[t] = "flush"
  /\ Using(t, "receive", Flush)
  /\ UNCHANGED <<log_file, queue, packet, sent, history>>

\* Mutant of SetpathClose: the file in use is not closed.
SetpathReopens(t) ==
  /\ pc[t] = "setpath"
  /\ Goto(t, "reopen")
  /\ UNCHANGED <<log_file, streams, file, queue, packet, sent, undefined, history>>

\* log_setpath: if (log_file != NULL) fclose(log_file);
SetpathClose(t) ==
  /\ pc[t] = "setpath"
  /\ IF log_file = NULL
     THEN Goto(t, "reopen") /\ UNCHANGED <<streams, file, undefined>>
     ELSE Using(t, "reopen", Close)
  /\ UNCHANGED <<log_file, queue, packet, sent, history>>

\* log_file = fopen(path, "w+"); until then log_file is the closed stream.
SetpathOpen(t) ==
  /\ pc[t] = "reopen"
  /\ Open(packet[t].path, TRUE)
  /\ emptied' = IF log_file' = NULL THEN emptied ELSE emptied \cup ToSet(file[packet[t].path])
  /\ Goto(t, "receive")
  /\ UNCHANGED <<queue, packet, sent, undefined, dropped>>

-----------------------------------------------------------------------------
(* The exit handler, of log thread t.                                      *)

\* Mutant of Cancelled: the cancellation is asynchronous.
CancelledAnywhere(t) ==
  /\ t \in cancelled /\ ~InExit(t) /\ pc[t] # "gone"
  /\ Goto(t, "exit")
  /\ UNCHANGED <<log_file, streams, file, queue, packet, sent, undefined, history>>

\* pthread_cancel takes effect at a cancellation point.
Cancelled(t) ==
  /\ t \in cancelled
  /\ pc[t] \in {"receive", "open", "reopen", "flush", "announce"}
  /\ Goto(t, "exit")
  /\ UNCHANGED <<log_file, streams, file, queue, packet, sent, undefined, history>>

\* __log_terminate: if (log_file != NULL)
ExitCheck(t) ==
  /\ pc[t] = "exit"
  /\ Goto(t, IF log_file = NULL THEN "gone" ELSE "last")
  /\ UNCHANGED <<log_file, streams, file, queue, packet, sent, undefined, history>>

ExitPrint(t) ==
  /\ pc[t] = "last"
  /\ Using(t, "flush_last", LAMBDA h : Write(Closing, h))
  /\ UNCHANGED <<log_file, queue, packet, sent, history>>

ExitFlush(t) ==
  /\ pc[t] = "flush_last"
  /\ Using(t, "close", Flush)
  /\ UNCHANGED <<log_file, queue, packet, sent, history>>

ExitClose(t) ==
  /\ pc[t] = "close"
  /\ Using(t, "clear", Close)
  /\ UNCHANGED <<log_file, queue, packet, sent, history>>

\* log_file = NULL; the thread is gone.
ExitClear(t) ==
  /\ pc[t] = "clear"
  /\ log_file' = NULL
  /\ Goto(t, "gone")
  /\ UNCHANGED <<streams, file, queue, packet, sent, undefined, history>>

LogThread(t) ==
  \/ Receive(t) \/ InitClose(t) \/ InitForget(t) \/ InitOpen(t) \/ Announce(t)
  \/ LogCheck(t) \/ LogPrint(t) \/ LogFlush(t) \/ SetpathClose(t) \/ SetpathOpen(t)
  \/ Cancelled(t) \/ ExitCheck(t) \/ ExitPrint(t) \/ ExitFlush(t) \/ ExitClose(t)
  \/ ExitClear(t)

-----------------------------------------------------------------------------
(* The other threads and processes.  Each send may block on the queue, so  *)
(* it is a step of its own.                                                *)

Inside == UNCHANGED <<log_file, streams, file, packet, ended, undefined, history,
                      overtaken, raced>>

\* Somebody logs a record.
Log == Post(Record(sent + 1)) /\ sent' = sent + 1

\* Any task sends a record.
SendRecord ==
  /\ sent < MaxRecords
  /\ Log
  /\ UNCHANGED <<pc, cancelled, cur, main, heartbeat, commands>>

\* Mutant of InitializeLog: the heartbeat's INIT empties the file, too.
InitializeAnew ==
  /\ heartbeat = "init" /\ heartbeat' = "announce"
  /\ Post(InitLog(TRUE, log_name))
  /\ UNCHANGED <<pc, cancelled, cur, main, sent, commands>>
\* Mutant of InitializeLog: the heartbeat does not initialize the new task.
InitializeOnce ==
  /\ heartbeat = "init" /\ heartbeat' = "announce"
  /\ UNCHANGED <<queue, pc, cancelled, cur, main, sent, commands>>
\* Mutant of CancelLog: the heartbeat cancels what it has not created yet.
CancelNext ==
  /\ heartbeat = "cancel" /\ heartbeat' = "create"
  /\ cancelled' = cancelled \cup {cur + 1}
  /\ UNCHANGED <<queue, pc, cur, main, sent, commands>>

\* main sends INIT with log_name and goes on to its command loop.
InitializeNew ==
  /\ main = "init" /\ main' = "loop"
  /\ Post(InitLog(TRUE, log_name))
  /\ UNCHANGED <<pc, cancelled, cur, heartbeat, sent, commands>>

\* __main_heartbeat finds that the log task has missed a check: it logs that,
MissCheck ==
  /\ main # "init" /\ heartbeat = "idle" /\ cur < MaxThreads
  /\ heartbeat' = "cancel"
  /\ Log
  /\ UNCHANGED <<pc, cancelled, cur, main, commands>>

\* cancels the thread,
CancelLog ==
  /\ heartbeat = "cancel" /\ heartbeat' = "create"
  /\ cancelled' = cancelled \cup {cur}
  /\ UNCHANGED <<queue, pc, cur, main, sent, commands>>

\* creates another one, without a join,
CreateLog ==
  /\ heartbeat = "create" /\ heartbeat' = "init"
  /\ cur' = cur + 1
  /\ pc' = [pc EXCEPT ![cur + 1] = "receive"]
  /\ UNCHANGED <<queue, cancelled, main, sent, commands>>

\* sends it INIT, to append,
InitializeLog ==
  /\ heartbeat = "init" /\ heartbeat' = "announce"
  /\ Post(InitLog(FALSE, log_name))
  /\ UNCHANGED <<pc, cancelled, cur, main, sent, commands>>

\* and logs "Log reinitialized".
Reinitialized ==
  /\ heartbeat = "announce" /\ heartbeat' = "idle"
  /\ Log
  /\ UNCHANGED <<pc, cancelled, cur, main, commands>>

\* Other processes send commands, those that name a file after the first INIT
\* of main (an assumption: the queue takes them earlier too).
Client(m) ==
  /\ commands < MaxCommands /\ commands' = commands + 1
  /\ Post(m)
  /\ UNCHANGED <<pc, cancelled, cur, main, heartbeat, sent>>

SetPath == main # "init" /\ \E p \in ClientPaths : Client([cmd |-> "SETPATH", path |-> p])
Reopen  == main # "init" /\ \E p \in ReopenPaths : Client(InitLog(FALSE, p))
Kill    == Client([cmd |-> "KILL"])

\* main_exit logs that main exits,
MainExit ==
  /\ main = "loop" /\ main' = "cancel"
  /\ Log
  /\ UNCHANGED <<pc, cancelled, cur, heartbeat, commands>>

\* cancels the tasks in main_tasks, while the heartbeat may go on,
CancelTasks ==
  /\ main = "cancel" /\ main' = "exit"
  /\ cancelled' = cancelled \cup {cur}
  /\ UNCHANGED <<queue, pc, cur, heartbeat, sent, commands>>

\* and calls exit, which flushes and closes the open streams one by one;
\* threads are not waited for.  (They do not run while exit does that, an
\* abstraction.)
ProcessEnds ==
  /\ main = "exit" /\ ended' = TRUE
  /\ UNCHANGED <<log_file, streams, file, queue, pc, packet, cancelled, cur, main,
                 heartbeat, sent, commands, undefined, history, overtaken, raced>>

CloseAtExit(h) ==
  /\ ended /\ ~undefined /\ streams[h].open
  /\ Close(h)
  /\ UNCHANGED <<log_file, queue, pc, packet, cancelled, cur, main, heartbeat, sent,
                 commands, ended, undefined, history, overtaken, raced>>

Others ==
  \/ SendRecord \/ SetPath \/ Reopen \/ Kill
  \/ MissCheck \/ CancelLog \/ CreateLog \/ InitializeLog \/ Reinitialized
  \/ InitializeNew \/ MainExit \/ CancelTasks

\* What the history says of a step of thread t.
Meets(t) ==
  /\ overtaken' = (overtaken \/ \E u \in 1 .. t - 1 : pc[u] # "gone")
  /\ raced' = (raced \/ \E u \in Threads \ {t} : Busy(u))

Next ==
  \/ /\ Running
     /\ \/ \E t \in Threads : LogThread(t) /\ Outside /\ Meets(t)
        \/ Others /\ Inside
        \/ ProcessEnds
  \/ \E h \in DOMAIN streams : CloseAtExit(h)

Spec == Init /\ [][Next]_vars

-----------------------------------------------------------------------------
(* Properties.                                                             *)

TypeOK ==
  /\ log_file \in 0 .. Len(streams)
  /\ streams \in Seq(Stream)
  /\ file \in [Paths -> Seq(Nat)]
  /\ queue \in Seq(Packets)
  /\ pc \in [Threads -> {"none", "receive", "init", "forget", "open", "announce", "log",
                       "print", "flush", "setpath", "reopen", "exit", "last",
                       "flush_last", "close", "clear", "gone"}]
  /\ packet \in [Threads -> Packets]
  /\ cur \in Threads /\ \A t \in Threads : pc[t] = "none" <=> t > cur
  /\ cancelled \in {1 .. cur - 1, 1 .. cur}
  /\ main \in {"init", "loop", "cancel", "exit"}
  /\ heartbeat \in {"idle", "cancel", "create", "init", "announce"}
  /\ heartbeat \in {"cancel", "create"} => cur < MaxThreads
  /\ heartbeat = "create" => cancelled = 1 .. cur
  /\ sent \in Nat /\ commands \in Nat
  /\ {ended, undefined, overtaken, raced} \subseteq BOOLEAN
  /\ dropped \cup emptied \subseteq Nat /\ failed \in BOOLEAN

(* Nobody joins the log thread that the heartbeat cancels, and no lock     *)
(* protects log_file (main.c:231-261, log.c:35).  Each property below says *)
(* how far that goes.  HandleSound, NoLeak, RecordsKept and NothingLost    *)
(* hold as long as log threads take turns, in any order, none of them      *)
(* running while another is inside a handler or its exit handler: what a   *)
(* lock around the handlers would bring about, and the code does not.      *)

(* No thread prints to, flushes or closes a file that has been closed, or  *)
(* none at all: neither a handler nor the exit handler of a thread         *)
(* cancelled in the middle of one (log.c:40-60, 112-157), also not when    *)
(* the exit handler runs after the successor has opened its file.  There   *)
(* are two exceptions: log threads that do not take turns, and log_setpath *)
(* leaves the closed stream in log_file while it opens the next            *)
(* (log.c:160-163), so that a thread cancelled there prints to it in its   *)
(* exit handler.                                                           *)
CutInSetpath == \E t \in cancelled : pc[t] = "last" /\ packet[t].cmd = "SETPATH"
HandleSound == undefined => CutInSetpath \/ raced

(* The exit handler closes the file "gracefully" (log.c:54, log.h:133)     *)
(* also when the thread that replaces it runs before it has finished.      *)
Graceful == ~undefined

(* Every file that is open is the one in log_file, so that somebody will   *)
(* close it: the handlers and the exit handler, cut short by cancellation  *)
(* and whichever thread runs next, leave no file behind (log.c:57, 114,    *)
(* 161) as long as log threads take turns.                                 *)
NoLeak == ~raced => \A h \in DOMAIN streams : streams[h].open => h = log_file

(* What a file holds is never lost, through kills, restarts and the end of *)
(* the process: a restarted task appends (main.c:271, log.c:122).  Only a  *)
(* LOG_SETPATH to the name of a file empties it, and log threads that do   *)
(* not take turns: the INIT of main may then be carried out last.          *)
Reopening(p) == \E t \in Threads : pc[t] = "reopen" /\ packet[t].path = p
RecordsKept ==
  [][\A p \in Paths : IsPrefix(file[p], file'[p]) \/ Reopening(p) \/ raced']_vars

(* A record is never lost half way: it is in the queue, or in the hands of *)
(* a thread that is about to print it, in a buffer, or in a file, unless   *)
(* log_log returned LOG_ERR_UNINIT or LOG_SETPATH emptied the file.  A     *)
(* thread cancelled with a record in hand prints it, and its exit handler  *)
(* flushes it (log.c:55, 150-154).  As long as log threads take turns and  *)
(* nothing undefined has happened.                                         *)
Somewhere(n) ==
  \/ \E i \in DOMAIN queue : queue[i] = Record(n)
  \/ \E t \in Threads : pc[t] \in {"log", "print"} /\ packet[t] = Record(n)
  \/ \E h \in DOMAIN streams : n \in ToSet(streams[h].buffer)
  \/ \E p \in Paths : n \in ToSet(file[p])
NothingLost ==
  ~undefined /\ ~raced => \A n \in 1 .. sent : n \in dropped \cup emptied \/ Somewhere(n)

(* As long as fopen does not fail and no log thread runs before its        *)
(* predecessor has ended, records are dropped only until the task gets its *)
(* INIT, or once it is dead: a thread with nothing but records in its      *)
(* queue writes them all (log.c:137, main.c:267-275).  Taking turns is not *)
(* enough here: an exit handler that runs late clears the log_file of the  *)
(* successor (log.c:58), which has had its INIT; and the code has no join. *)
InitComes ==
  main = "init" \/ heartbeat = "init" \/ \E i \in DOMAIN queue : queue[i].cmd = "INIT"
DroppedBeforeInit == [][dropped' # dropped => InitComes \/ failed \/ overtaken']_vars
=============================================================================
