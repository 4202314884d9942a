-------------------------------- MODULE Msg --------------------------------
(***************************************************************************)
(* The message layer of project1 (src/msg.c, inc/msg.h): the four thread   *)
(* identifiers, which are also the indices of the four POSIX message       *)
(* queues, and the packets the threads exchange.                           *)
(*                                                                         *)
(* A packet is a record.  "rsp" and "from" are the two parts of the from   *)
(* byte, "cmd" is the command.  A command byte means something only        *)
(* together with the task it is addressed to (LIGHT_INIT, TEMP_INIT and    *)
(* LOG_INIT are all 0), so commands are named without the task's prefix.   *)
(* The data bytes are left out: no property of the modules that use this   *)
(* one depends on the text of a log record or on a sensor value.           *)
(***************************************************************************)
EXTENDS Naturals, Sequences

MAIN  == 0
LIGHT == 1
TEMP  == 2
LOG   == 3

ThreadId == {MAIN, LIGHT, TEMP, LOG}

\* The commands each thread declares in its header.
MainCmd  == {"EXIT"}
LightCmd == {"INIT", "READREG", "WRITEREG", "WRITEIT", "GETLUX", "ENABLEINT",
             "DISABLEINT", "READID", "ISDAY", "ALIVE", "KILL"}
TempCmd  == {"INIT", "READREG", "WRITEREG", "WRITECONFIG", "GETTEMP",
             "SETCONV", "SHUTDOWN", "WAKEUP", "ALIVE", "KILL", "WRITEPTR"}
LogCmd   == {"INIT", "LOG", "SETPATH", "ALIVE", "KILL"}

Cmd == MainCmd \cup LightCmd \cup TempCmd \cup LogCmd

\* A command addressed to the thread that has it.
Command == ({MAIN} \X MainCmd) \cup ({LIGHT} \X LightCmd)
             \cup ({TEMP} \X TempCmd) \cup ({LOG} \X LogCmd)

\* A request of the main task, a response of task t to command c.
Request(c)     == [rsp |-> FALSE, from |-> MAIN, cmd |-> c]
Response(t, c) == [rsp |-> TRUE,  from |-> t,    cmd |-> c]

Packet == {Request(c) : c \in Cmd}
            \cup {Response(t, c) : t \in ThreadId \ {MAIN}, c \in Cmd}

\* What LOG_FMT builds.  The sender, the level and the text are data.
LogRecord == Request("LOG")

=============================================================================
