--------------------------- MODULE LogFileProofs ---------------------------
(***************************************************************************)
(* Proofs about LogFile, for any number of log threads, names of files,    *)
(* records and commands, whatever order log threads run in.  The invariant *)
(* speaks of the states before two of them have raced.                     *)
(***************************************************************************)
EXTENDS LogFile, TLAPS, FiniteSetTheorems, SequenceTheorems

-----------------------------------------------------------------------------
(* Streams.                                                                *)

\* In stream h the buffer and whether it is open have changed, and nothing else.
Becomes(h, b, o) ==
  /\ streams' \in Seq(Stream) /\ Len(streams') = Len(streams)
  /\ streams'[h].buffer = b /\ streams'[h].open = o
  /\ \A k \in 1 .. Len(streams) :
       /\ streams'[k].path = streams[k].path
       /\ k # h => streams'[k] = streams[k]

LEMMA Updating ==
  ASSUME TypeOK, NEW h \in 1 .. Len(streams), NEW s \in Stream,
         s.path = streams[h].path, streams' = [streams EXCEPT ![h] = s]
  PROVE  Becomes(h, s.buffer, s.open)
<1>1. streams \in Seq(Stream) BY DEF TypeOK
<1>2. QED BY <1>1, ExceptSeq DEF Becomes

LEMMA Streams ==
  ASSUME TypeOK
  PROVE  /\ streams \in Seq(Stream) /\ DOMAIN streams = 1 .. Len(streams) /\ Len(streams) \in Nat
         /\ \A h \in 1 .. Len(streams) :
              /\ streams[h] \in Stream /\ streams[h].path \in Paths
              /\ streams[h].buffer \in Seq(Nat) /\ streams[h].open \in BOOLEAN
<1>1. streams \in Seq(Stream) BY DEF TypeOK
<1>2. \A h \in 1 .. Len(streams) : streams[h] \in Stream BY <1>1
<1>3. \A s \in Stream : s.path \in Paths /\ s.buffer \in Seq(Nat) /\ s.open \in BOOLEAN
  BY DEF Stream
<1>4. QED BY <1>1, <1>2, <1>3

LEMMA Changed ==
  ASSUME NEW s \in Stream, NEW b \in Seq(Nat)
  PROVE  /\ [s EXCEPT !.buffer = b] \in Stream
         /\ [s EXCEPT !.buffer = b].path = s.path
         /\ [s EXCEPT !.buffer = b].buffer = b
         /\ [s EXCEPT !.buffer = b].open = s.open
BY DEF Stream

LEMMA WriteDoes ==
  ASSUME TypeOK, NEW h \in 1 .. Len(streams), NEW n \in Nat, Write(n, h)
  PROVE  Becomes(h, Append(streams[h].buffer, n), streams[h].open)
<1> DEFINE b == Append(streams[h].buffer, n)
           s == [streams[h] EXCEPT !.buffer = b]
<1>1. streams[h] \in Stream /\ b \in Seq(Nat) BY Streams
<1>2. s \in Stream /\ s.path = streams[h].path /\ s.open = streams[h].open
      /\ s.buffer = b
  BY <1>1, Changed
<1>3. streams' = [streams EXCEPT ![h] = s] BY DEF Write
<1> HIDE DEF s
<1>4. QED BY <1>2, <1>3, Updating

LEMMA FlushDoes ==
  ASSUME TypeOK, NEW h \in 1 .. Len(streams), Flush(h)
  PROVE  Becomes(h, <<>>, streams[h].open)
<1> DEFINE s == [streams[h] EXCEPT !.buffer = <<>>]
<1>1. streams[h] \in Stream /\ <<>> \in Seq(Nat) BY Streams
<1>2. s \in Stream /\ s.path = streams[h].path /\ s.open = streams[h].open
      /\ s.buffer = <<>>
  BY <1>1, Changed
<1>3. streams' = [streams EXCEPT ![h] = s] BY DEF Flush
<1> HIDE DEF s
<1>4. QED BY <1>2, <1>3, Updating

LEMMA CloseDoes ==
  ASSUME TypeOK, NEW h \in 1 .. Len(streams), Close(h)
  PROVE  Becomes(h, <<>>, FALSE)
<1> DEFINE s == [path |-> streams[h].path, buffer |-> <<>>, open |-> FALSE]
<1>1. streams[h].path \in Paths BY Streams
<1>2. s \in Stream /\ s.path = streams[h].path /\ s.open = FALSE /\ s.buffer = <<>>
  BY <1>1 DEF Stream
<1>3. streams' = [streams EXCEPT ![h] = s] BY DEF Close
<1> HIDE DEF s
<1>4. QED BY <1>2, <1>3, Updating

\* The buffer of an open stream is appended to its file, and nothing else is.
LEMMA FlushedIs ==
  ASSUME TypeOK, NEW h \in 1 .. Len(streams)
  PROVE  /\ Flushed(h) \in [Paths -> Seq(Nat)]
         /\ \A p \in Paths :
              Flushed(h)[p] = IF p = streams[h].path THEN file[p] \o streams[h].buffer
                              ELSE file[p]
<1>1. streams[h].path \in Paths /\ streams[h].buffer \in Seq(Nat) BY Streams
<1>2. file \in [Paths -> Seq(Nat)] BY DEF TypeOK
<1>3. \A p \in Paths : file[p] \in Seq(Nat) BY <1>2
<1>4. file[streams[h].path] \o streams[h].buffer \in Seq(Nat) BY <1>1, <1>3
<1>5. QED BY <1>1, <1>2, <1>3, <1>4 DEF Flushed

-----------------------------------------------------------------------------
(* Types.                                                                  *)

USE DEF NULL

Label == {"none", "receive", "init", "forget", "open", "announce", "log",
          "print", "flush", "setpath", "reopen", "exit", "last",
          "flush_last", "close", "clear", "gone"}

LEMMA PacketTypes ==
  /\ \A m \in Packets :
       /\ m.cmd \in {"INIT", "LOG", "SETPATH", "KILL"}
       /\ m.cmd = "INIT" => m.new \in BOOLEAN /\ m.path \in Paths
       /\ m.cmd = "LOG" => m.id \in Nat /\ m = Record(m.id)
       /\ m.cmd = "SETPATH" => m.path \in Paths
  /\ \A b \in BOOLEAN, p \in Paths : InitLog(b, p) \in Packets
  /\ \A n \in Nat : Record(n) \in Packets
  /\ \A p \in Paths : [cmd |-> "SETPATH", path |-> p] \in Packets
  /\ [cmd |-> "KILL"] \in Packets
<1>1. \A m \in Packets :
        /\ m.cmd \in {"INIT", "LOG", "SETPATH", "KILL"}
        /\ m.cmd = "INIT" => m.new \in BOOLEAN /\ m.path \in Paths
        /\ m.cmd = "LOG" => m.id \in Nat /\ m = Record(m.id)
        /\ m.cmd = "SETPATH" => m.path \in Paths
  BY DEF Packets, Record
<1>2. QED BY <1>1 DEF Packets, InitLog, Record

\* The packet in the hands of a thread is of the kind its handler is for.
Handling ==
  \A t \in Threads :
    /\ pc[t] \in {"init", "forget", "open", "announce"} => packet[t].cmd = "INIT"
    /\ pc[t] \in {"log", "print", "flush"} => packet[t].cmd = "LOG"
    /\ pc[t] \in {"setpath", "reopen"} => packet[t].cmd = "SETPATH"

\* The variables of the C library have their types.
FilesOK ==
  /\ log_file \in 0 .. Len(streams)
  /\ streams \in Seq(Stream)
  /\ file \in [Paths -> Seq(Nat)]

LEMMA BecomesTypes ==
  ASSUME TypeOK, NEW h \in 1 .. Len(streams), NEW b, NEW o, Becomes(h, b, o),
         file' = file \/ file' = Flushed(h), log_file' \in {log_file, NULL}
  PROVE  FilesOK'
<1>1. file' \in [Paths -> Seq(Nat)] BY FlushedIs DEF TypeOK
<1>2. log_file \in 0 .. Len(streams) /\ Len(streams) \in Nat BY Streams DEF TypeOK
<1>3. log_file' \in 0 .. Len(streams) BY <1>2
<1>4. QED BY <1>1, <1>3 DEF FilesOK, Becomes

LEMMA OpenTypes ==
  ASSUME TypeOK, NEW p \in Paths, NEW b \in BOOLEAN, Open(p, b)
  PROVE  /\ FilesOK' /\ failed' \in BOOLEAN
         /\ \/ /\ log_file' = Len(streams) + 1 /\ Len(streams') = Len(streams) + 1
               /\ \A h \in 1 .. Len(streams) : streams'[h] = streams[h]
               /\ streams'[Len(streams) + 1] = [path |-> p, buffer |-> <<>>, open |-> TRUE]
               /\ file' = IF b THEN [file EXCEPT ![p] = <<>>] ELSE file
               /\ failed' = failed
            \/ log_file' = NULL /\ failed' = TRUE /\ UNCHANGED <<streams, file>>
<1>1. streams \in Seq(Stream) /\ Len(streams) \in Nat BY Streams
<1>2. file \in [Paths -> Seq(Nat)] /\ failed \in BOOLEAN BY DEF TypeOK
<1>3. CASE log_file' = NULL /\ failed' = TRUE /\ UNCHANGED <<streams, file>>
  BY <1>1, <1>2, <1>3 DEF FilesOK
<1>4. CASE /\ streams' = Append(streams, [path |-> p, buffer |-> <<>>, open |-> TRUE])
           /\ log_file' = Len(streams) + 1
           /\ file' = IF b THEN [file EXCEPT ![p] = <<>>] ELSE file
           /\ UNCHANGED failed
  <2> DEFINE s == [path |-> p, buffer |-> <<>>, open |-> TRUE]
  <2>1. s \in Stream BY DEF Stream
  <2>2. streams' = Append(streams, s) BY <1>4
  <2> HIDE DEF s
  <2>3. /\ streams' \in Seq(Stream) /\ Len(streams') = Len(streams) + 1
        /\ \A h \in 1 .. Len(streams) : streams'[h] = streams[h]
        /\ streams'[Len(streams) + 1] = s
    BY <1>1, <2>1, <2>2
  <2>4. file' \in [Paths -> Seq(Nat)]
    <3>1. <<>> \in Seq(Nat) OBVIOUS
    <3>2. CASE b BY <1>2, <1>4, <3>1, <3>2
    <3>3. CASE ~b BY <1>2, <1>4, <3>3
    <3>4. QED BY <3>2, <3>3
  <2>5. log_file' \in 0 .. Len(streams') BY <1>1, <1>4, <2>3
  <2>6. QED BY <1>2, <1>4, <2>3, <2>4, <2>5 DEF FilesOK, s
<1>5. QED BY <1>3, <1>4 DEF Open

\* What thread t does with the file in use.
LEMMA UsingDoes ==
  ASSUME TypeOK, NEW t \in Threads, NEW l
  PROVE  /\ \A n \in Nat : Using(t, l, LAMBDA h : Write(n, h)) =>
              \/ /\ log_file \in 1 .. Len(streams) /\ streams[log_file].open
                 /\ Becomes(log_file, Append(streams[log_file].buffer, n), TRUE)
                 /\ file' = file /\ Goto(t, l) /\ undefined' = undefined
              \/ ~Usable(log_file) /\ undefined' = TRUE /\ UNCHANGED <<streams, file, pc>>
         /\ Using(t, l, Flush) =>
              \/ /\ log_file \in 1 .. Len(streams) /\ streams[log_file].open
                 /\ Becomes(log_file, <<>>, TRUE)
                 /\ file' = Flushed(log_file) /\ Goto(t, l) /\ undefined' = undefined
              \/ ~Usable(log_file) /\ undefined' = TRUE /\ UNCHANGED <<streams, file, pc>>
         /\ Using(t, l, Close) =>
              \/ /\ log_file \in 1 .. Len(streams) /\ streams[log_file].open
                 /\ Becomes(log_file, <<>>, FALSE)
                 /\ file' = Flushed(log_file) /\ Goto(t, l) /\ undefined' = undefined
              \/ ~Usable(log_file) /\ undefined' = TRUE /\ UNCHANGED <<streams, file, pc>>
<1>1. log_file \in 0 .. Len(streams) /\ Len(streams) \in Nat BY Streams DEF TypeOK
<1>2. CASE ~Usable(log_file) BY <1>2 DEF Using
<1>3. CASE Usable(log_file)
  <2>1. log_file \in 1 .. Len(streams) /\ streams[log_file].open = TRUE
    BY <1>1, <1>3, Streams DEF Usable
  <2>2. ASSUME NEW n \in Nat, Using(t, l, LAMBDA h : Write(n, h))
        PROVE  /\ Becomes(log_file, Append(streams[log_file].buffer, n), TRUE)
               /\ file' = file /\ Goto(t, l) /\ undefined' = undefined
    <3>1. Write(n, log_file) /\ Goto(t, l) /\ undefined' = undefined
      BY <1>3, <2>2 DEF Using
    <3>2. QED BY <2>1, <3>1, WriteDoes DEF Write
  <2>3. ASSUME Using(t, l, Flush)
        PROVE  /\ Becomes(log_file, <<>>, TRUE)
               /\ file' = Flushed(log_file) /\ Goto(t, l) /\ undefined' = undefined
    <3>1. Flush(log_file) /\ Goto(t, l) /\ undefined' = undefined
      BY <1>3, <2>3 DEF Using
    <3>2. QED BY <2>1, <3>1, FlushDoes DEF Flush
  <2>4. ASSUME Using(t, l, Close)
        PROVE  /\ Becomes(log_file, <<>>, FALSE)
               /\ file' = Flushed(log_file) /\ Goto(t, l) /\ undefined' = undefined
    <3>1. Close(log_file) /\ Goto(t, l) /\ undefined' = undefined
      BY <1>3, <2>4 DEF Using
    <3>2. QED BY <2>1, <3>1, CloseDoes DEF Close
  <2>5. QED BY <2>1, <2>2, <2>3, <2>4
<1>4. QED BY <1>2, <1>3

\* One thread goes on at l, with packet m.
Goes(t, l, m) ==
  /\ pc' \in [Threads -> Label] /\ pc'[t] = l /\ l # "none" /\ pc[t] # "none"
  /\ packet' \in [Threads -> Packets] /\ packet'[t] = m
  /\ \A u \in Threads \ {t} : pc'[u] = pc[u] /\ packet'[u] = packet[u]

LEMMA GotoDoes ==
  ASSUME TypeOK, NEW t \in Threads, NEW l \in Label \ {"none"}, Goto(t, l),
         pc[t] # "none", packet' = packet
  PROVE  Goes(t, l, packet[t])
BY DEF TypeOK, Goto, Goes, Label

LEMMA StayDoes ==
  ASSUME TypeOK, NEW t \in Threads, pc[t] # "none", pc' = pc, packet' = packet
  PROVE  Goes(t, pc[t], packet[t])
BY DEF TypeOK, Goes, Label

\* The kinds of steps a thread makes, and what they leave alone.
Silent == UNCHANGED <<log_file, streams, file>>

Receives(t) ==
  /\ t \notin cancelled /\ pc[t] = "receive" /\ queue # <<>>
  /\ Goes(t, CASE Head(queue).cmd = "INIT"    -> "init"
               [] Head(queue).cmd = "LOG"     -> "log"
               [] Head(queue).cmd = "SETPATH" -> "setpath"
               [] Head(queue).cmd = "KILL"    -> "exit", Head(queue))
  /\ queue' = Tail(queue)
  /\ Silent /\ UNCHANGED <<sent, undefined, history>>

\* It goes on without using the file.
Passes(t) ==
  /\ \/ pc[t] = "init" /\ log_file = NULL /\ Goes(t, "open", packet[t]) /\ UNCHANGED dropped
     \/ pc[t] = "log" /\ log_file # NULL /\ Goes(t, "print", packet[t]) /\ UNCHANGED dropped
     \/ pc[t] = "log" /\ log_file = NULL /\ Goes(t, "receive", packet[t])
        /\ dropped' = dropped \cup {packet[t].id}
     \/ pc[t] = "setpath" /\ log_file = NULL /\ Goes(t, "reopen", packet[t]) /\ UNCHANGED dropped
     \/ t \in cancelled /\ pc[t] \in {"receive", "open", "reopen", "flush", "announce"}
        /\ Goes(t, "exit", packet[t]) /\ UNCHANGED dropped
     \/ pc[t] = "exit" /\ log_file = NULL /\ Goes(t, "gone", packet[t]) /\ UNCHANGED dropped
     \/ pc[t] = "exit" /\ log_file # NULL /\ Goes(t, "last", packet[t]) /\ UNCHANGED dropped
  /\ Silent /\ UNCHANGED <<queue, sent, undefined, emptied, failed>>

\* It sends a record to its own queue.
Announces(t) ==
  /\ pc[t] = "announce" /\ Goes(t, "receive", packet[t])
  /\ Post(Record(sent + 1)) /\ sent' = sent + 1
  /\ Silent /\ UNCHANGED <<undefined, history>>

\* It uses the file.
Prints(t, n) ==
  /\ \/ pc[t] = "print" /\ n = packet[t].id /\ Goes(t, "flush", packet[t])
     \/ pc[t] = "last" /\ n = Closing /\ Goes(t, "flush_last", packet[t])
  /\ log_file \in 1 .. Len(streams) /\ streams[log_file].open
  /\ Becomes(log_file, Append(streams[log_file].buffer, n), TRUE)
  /\ UNCHANGED <<log_file, file, queue, sent, undefined, history>>

Flushes(t) ==
  /\ \/ pc[t] = "flush" /\ Goes(t, "receive", packet[t])
     \/ pc[t] = "flush_last" /\ Goes(t, "close", packet[t])
  /\ log_file \in 1 .. Len(streams) /\ streams[log_file].open
  /\ Becomes(log_file, <<>>, TRUE) /\ file' = Flushed(log_file)
  /\ UNCHANGED <<log_file, queue, sent, undefined, history>>

Closes(t) ==
  /\ \/ pc[t] = "init" /\ Goes(t, "forget", packet[t])
     \/ pc[t] = "setpath" /\ Goes(t, "reopen", packet[t])
     \/ pc[t] = "close" /\ Goes(t, "clear", packet[t])
  /\ log_file \in 1 .. Len(streams) /\ streams[log_file].open
  /\ Becomes(log_file, <<>>, FALSE) /\ file' = Flushed(log_file)
  /\ UNCHANGED <<log_file, queue, sent, undefined, history>>

\* It uses a file that is closed, or none.
Misuses(t) ==
  /\ \/ pc[t] \in {"init", "setpath"} /\ log_file # NULL
     \/ pc[t] \in {"print", "flush", "last", "flush_last", "close"}
  /\ ~Usable(log_file) /\ undefined' = TRUE /\ Goes(t, pc[t], packet[t])
  /\ Silent /\ UNCHANGED <<pc, packet, queue, sent, history>>

\* It sets log_file to NULL.
Clears(t) ==
  /\ \/ pc[t] = "forget" /\ Goes(t, "open", packet[t])
     \/ pc[t] = "clear" /\ Goes(t, "gone", packet[t])
  /\ log_file' = NULL
  /\ UNCHANGED <<streams, file, queue, sent, undefined, history>>

\* It opens a file.
Opens(t) ==
  /\ \/ /\ pc[t] = "open" /\ Open(packet[t].path, packet[t].new)
        /\ Goes(t, IF log_file' = NULL THEN "receive" ELSE "announce", packet[t])
        /\ UNCHANGED emptied
     \/ /\ pc[t] = "reopen" /\ Open(packet[t].path, TRUE)
        /\ Goes(t, "receive", packet[t])
        /\ emptied' = IF log_file' = NULL THEN emptied
                      ELSE emptied \cup ToSet(file[packet[t].path])
  /\ UNCHANGED <<queue, sent, undefined, dropped>>

Does(t) ==
  \/ Receives(t) \/ Passes(t) \/ Announces(t) \/ (\E n \in Nat : Prints(t, n))
  \/ Flushes(t) \/ Closes(t) \/ Misuses(t) \/ Clears(t) \/ Opens(t)

LEMMA ThreadDoes ==
  ASSUME TypeOK, Handling, NEW t \in Threads, LogThread(t)
  PROVE  Does(t)
<1>0. packet[t] \in Packets BY DEF TypeOK
<1>1. ASSUME Receive(t) PROVE Receives(t)
  <2> DEFINE l == CASE Head(queue).cmd = "INIT"    -> "init"
               [] Head(queue).cmd = "LOG"     -> "log"
               [] Head(queue).cmd = "SETPATH" -> "setpath"
               [] Head(queue).cmd = "KILL"    -> "exit"
  <2>0. queue \in Seq(Packets) BY DEF TypeOK
  <2>1. Head(queue) \in Packets BY <1>1, <2>0 DEF Receive
  <2>2. l \in Label \ {"none"} BY <2>1, PacketTypes DEF Label
  <2>3. Goto(t, l) /\ packet' = [packet EXCEPT ![t] = Head(queue)] /\ pc[t] = "receive"
    BY <1>1 DEF Receive
  <2> HIDE DEF l
  <2>4. Goes(t, l, Head(queue)) BY <2>1, <2>2, <2>3 DEF Goes, Goto, TypeOK, Label
  <2>5. QED BY <1>1, <2>4 DEF Receive, Receives, Silent, l
<1>2. ASSUME LogCheck(t) \/ Cancelled(t) \/ ExitCheck(t) PROVE Passes(t)
  <2>1. CASE LogCheck(t)
    <3>1. CASE log_file = NULL
      <4>1. Goes(t, "receive", packet[t]) BY <2>1, <3>1, GotoDoes DEF LogCheck, Label
      <4>2. QED BY <2>1, <3>1, <4>1 DEF LogCheck, Passes, Silent
    <3>2. CASE log_file # NULL
      <4>1. Goes(t, "print", packet[t]) BY <2>1, <3>2, GotoDoes DEF LogCheck, Label
      <4>2. QED BY <2>1, <3>2, <4>1 DEF LogCheck, Passes, Silent
    <3>3. QED BY <3>1, <3>2
  <2>2. CASE Cancelled(t)
    <3>1. Goes(t, "exit", packet[t]) BY <2>2, GotoDoes DEF Cancelled, Label
    <3>2. QED BY <2>2, <3>1 DEF Cancelled, Passes, Silent, history
  <2>3. CASE ExitCheck(t)
    <3>1. log_file = NULL => Goes(t, "gone", packet[t])
      BY <2>3, GotoDoes DEF ExitCheck, Label
    <3>2. log_file # NULL => Goes(t, "last", packet[t])
      BY <2>3, GotoDoes DEF ExitCheck, Label
    <3>3. QED BY <2>3, <3>1, <3>2 DEF ExitCheck, Passes, Silent, history
  <2>4. QED BY <1>2, <2>1, <2>2, <2>3
<1>3. ASSUME Announce(t) PROVE Announces(t)
  <2>1. Goes(t, "receive", packet[t]) BY <1>3, GotoDoes DEF Announce, Label
  <2>2. QED BY <1>3, <2>1 DEF Announce, Announces, Silent
<1>4. ASSUME LogPrint(t) \/ ExitPrint(t) PROVE Misuses(t) \/ \E n \in Nat : Prints(t, n)
  <2>1. CASE LogPrint(t)
    <3> DEFINE n == packet[t].id
    <3>1. n \in Nat BY <1>0, <2>1, PacketTypes DEF Handling, LogPrint
    <3>2. Using(t, "flush", LAMBDA h : Write(n, h)) /\ pc[t] = "print" /\ packet' = packet
      BY <2>1 DEF LogPrint
    <3>3. Goto(t, "flush") => Goes(t, "flush", packet[t]) BY <3>2, GotoDoes DEF Label
    <3>4. pc' = pc => Goes(t, pc[t], packet[t]) BY <3>2, StayDoes
    <3> HIDE DEF n
    <3>5. \/ /\ log_file \in 1 .. Len(streams) /\ streams[log_file].open
             /\ Becomes(log_file, Append(streams[log_file].buffer, n), TRUE)
             /\ file' = file /\ Goto(t, "flush") /\ undefined' = undefined
          \/ ~Usable(log_file) /\ undefined' = TRUE /\ UNCHANGED <<streams, file, pc>>
      BY <3>1, <3>2, UsingDoes
    <3>6. QED BY <2>1, <3>1, <3>2, <3>3, <3>4, <3>5 DEF LogPrint, Prints, Misuses, Silent, n
  <2>2. CASE ExitPrint(t)
    <3> DEFINE n == Closing
    <3>1. n \in Nat BY DEF Closing
    <3>2. Using(t, "flush_last", LAMBDA h : Write(n, h)) /\ pc[t] = "last" /\ packet' = packet
      BY <2>2 DEF ExitPrint
    <3>3. Goto(t, "flush_last") => Goes(t, "flush_last", packet[t]) BY <3>2, GotoDoes DEF Label
    <3>4. pc' = pc => Goes(t, pc[t], packet[t]) BY <3>2, StayDoes
    <3> HIDE DEF n
    <3>5. \/ /\ log_file \in 1 .. Len(streams) /\ streams[log_file].open
             /\ Becomes(log_file, Append(streams[log_file].buffer, n), TRUE)
             /\ file' = file /\ Goto(t, "flush_last") /\ undefined' = undefined
          \/ ~Usable(log_file) /\ undefined' = TRUE /\ UNCHANGED <<streams, file, pc>>
      BY <3>1, <3>2, UsingDoes
    <3>6. QED BY <2>2, <3>1, <3>2, <3>3, <3>4, <3>5 DEF ExitPrint, Prints, Misuses, Silent, n
  <2>3. QED BY <1>4, <2>1, <2>2
<1>5. ASSUME LogFlush(t) \/ ExitFlush(t) PROVE Misuses(t) \/ Flushes(t)
  <2>1. PICK l \in {"receive", "close"} :
          /\ Using(t, l, Flush) /\ pc[t] \in {"flush", "flush_last"} /\ packet' = packet
          /\ l = "receive" <=> pc[t] = "flush"
    BY <1>5 DEF LogFlush, ExitFlush
  <2>2. Goto(t, l) => Goes(t, l, packet[t]) BY <2>1, GotoDoes DEF Label
  <2>3. pc' = pc => Goes(t, pc[t], packet[t]) BY <2>1, StayDoes
  <2>4. \/ /\ log_file \in 1 .. Len(streams) /\ streams[log_file].open
           /\ Becomes(log_file, <<>>, TRUE)
           /\ file' = Flushed(log_file) /\ Goto(t, l) /\ undefined' = undefined
        \/ ~Usable(log_file) /\ undefined' = TRUE /\ UNCHANGED <<streams, file, pc>>
    BY <2>1, UsingDoes
  <2>5. UNCHANGED <<log_file, queue, packet, sent, history>>
    BY <1>5 DEF LogFlush, ExitFlush
  <2>6. QED BY <2>1, <2>2, <2>3, <2>4, <2>5 DEF Flushes, Misuses, Silent
<1>6. ASSUME ExitClose(t) \/ ((InitClose(t) \/ SetpathClose(t)) /\ log_file # NULL)
      PROVE  Misuses(t) \/ Closes(t)
  <2>1. PICK l \in {"forget", "reopen", "clear"} :
          /\ Using(t, l, Close) /\ packet' = packet
          /\ \/ pc[t] = "init" /\ l = "forget" /\ log_file # NULL
             \/ pc[t] = "setpath" /\ l = "reopen" /\ log_file # NULL
             \/ pc[t] = "close" /\ l = "clear"
    BY <1>6 DEF InitClose, SetpathClose, ExitClose
  <2>2. Goto(t, l) => Goes(t, l, packet[t]) BY <2>1, GotoDoes DEF Label
  <2>3. pc' = pc => Goes(t, pc[t], packet[t]) BY <2>1, StayDoes
  <2>4. \/ /\ log_file \in 1 .. Len(streams) /\ streams[log_file].open
           /\ Becomes(log_file, <<>>, FALSE)
           /\ file' = Flushed(log_file) /\ Goto(t, l) /\ undefined' = undefined
        \/ ~Usable(log_file) /\ undefined' = TRUE /\ UNCHANGED <<streams, file, pc>>
    BY <2>1, UsingDoes
  <2>5. UNCHANGED <<log_file, queue, packet, sent, history>>
    BY <1>6 DEF InitClose, SetpathClose, ExitClose
  <2>6. QED BY <2>1, <2>2, <2>3, <2>4, <2>5 DEF Closes, Misuses, Silent
<1>7. ASSUME InitClose(t) \/ SetpathClose(t), log_file = NULL PROVE Passes(t)
  <2>1. CASE InitClose(t)
    <3>1. Goes(t, "open", packet[t]) BY <1>7, <2>1, GotoDoes DEF InitClose, Label
    <3>2. QED BY <1>7, <2>1, <3>1 DEF InitClose, Passes, Silent, history
  <2>2. CASE SetpathClose(t)
    <3>1. Goes(t, "reopen", packet[t]) BY <1>7, <2>2, GotoDoes DEF SetpathClose, Label
    <3>2. QED BY <1>7, <2>2, <3>1 DEF SetpathClose, Passes, Silent, history
  <2>3. QED BY <1>7, <2>1, <2>2
<1>8. ASSUME InitForget(t) \/ ExitClear(t) PROVE Clears(t)
  <2>1. CASE InitForget(t)
    <3>1. Goes(t, "open", packet[t]) BY <2>1, GotoDoes DEF InitForget, Label
    <3>2. QED BY <2>1, <3>1 DEF InitForget, Clears
  <2>2. CASE ExitClear(t)
    <3>1. Goes(t, "gone", packet[t]) BY <2>2, GotoDoes DEF ExitClear, Label
    <3>2. QED BY <2>2, <3>1 DEF ExitClear, Clears
  <2>3. QED BY <1>8, <2>1, <2>2
<1>9. ASSUME InitOpen(t) \/ SetpathOpen(t) PROVE Opens(t)
  <2>1. CASE InitOpen(t)
    <3>1. Goes(t, IF log_file' = NULL THEN "receive" ELSE "announce", packet[t])
      BY <2>1, GotoDoes DEF InitOpen, Label
    <3>2. QED BY <2>1, <3>1 DEF InitOpen, Opens
  <2>2. CASE SetpathOpen(t)
    <3>1. Goes(t, "receive", packet[t]) BY <2>2, GotoDoes DEF SetpathOpen, Label
    <3>2. QED BY <2>2, <3>1 DEF SetpathOpen, Opens
  <2>3. QED BY <1>9, <2>1, <2>2
<1>10. QED
  BY <1>1, <1>2, <1>3, <1>4, <1>5, <1>6, <1>7, <1>8, <1>9 DEF LogThread, Does

\* The rest of the type invariant.
LEMMA Typed == TypeOK <=>
  /\ FilesOK
  /\ queue \in Seq(Packets)
  /\ pc \in [Threads -> Label] /\ packet \in [Threads -> Packets]
  /\ cur \in Threads /\ \A t \in Threads : pc[t] = "none" <=> t > cur
  /\ cancelled \in {1 .. cur - 1, 1 .. cur}
  /\ main \in {"init", "loop", "cancel", "exit"}
  /\ heartbeat \in {"idle", "cancel", "create", "init", "announce"}
  /\ heartbeat \in {"cancel", "create"} => cur < MaxThreads
  /\ heartbeat = "create" => cancelled = 1 .. cur
  /\ sent \in Nat /\ commands \in Nat
  /\ {ended, undefined, overtaken, raced} \subseteq BOOLEAN
  /\ dropped \cup emptied \subseteq Nat /\ failed \in BOOLEAN
BY DEF TypeOK, FilesOK, Label

LEMMA ThreadTypes ==
  ASSUME TypeOK, Handling, NEW t \in Threads, LogThread(t), Outside, Meets(t)
  PROVE  TypeOK' /\ Handling'
<1>0. Does(t) BY ThreadDoes
<1>1. packet[t] \in Packets /\ queue \in Seq(Packets) /\ sent \in Nat
      /\ {ended, undefined, overtaken, raced} \subseteq BOOLEAN
      /\ dropped \subseteq Nat /\ emptied \subseteq Nat /\ failed \in BOOLEAN
  BY DEF TypeOK
<1>2. PICK l \in Label, m \in Packets : Goes(t, l, m)
  BY <1>0, <1>1 DEF Does, Receives, Passes, Announces, Prints, Flushes, Closes, Misuses,
     Clears, Opens, Label, Goes
<1>3. FilesOK'
  <2>1. FilesOK BY Typed
  <2>2. CASE Silent BY <2>1, <2>2 DEF Silent, FilesOK
  <2>3. CASE Clears(t)
    <3>1. NULL \in 0 .. Len(streams) BY Streams
    <3>2. QED BY <2>1, <2>3, <3>1 DEF Clears, FilesOK
  <2>4. CASE Opens(t)
    <3>1. packet[t].path \in Paths
      BY <1>1, <2>4, PacketTypes DEF Opens, Handling
    <3>2. pc[t] = "open" => packet[t].new \in BOOLEAN
      BY <1>1, PacketTypes DEF Handling
    <3>3. QED BY <2>4, <3>1, <3>2, OpenTypes DEF Opens
  <2>5. ASSUME NEW n \in Nat, Prints(t, n) PROVE FilesOK'
    BY <2>5, BecomesTypes DEF Prints
  <2>6. CASE Flushes(t) BY <2>6, BecomesTypes DEF Flushes
  <2>7. CASE Closes(t) BY <2>7, BecomesTypes DEF Closes
  <2>8. QED
    BY <1>0, <2>2, <2>3, <2>4, <2>5, <2>6, <2>7
    DEF Does, Receives, Passes, Announces, Misuses
<1>4. queue' \in Seq(Packets) /\ sent' \in Nat
  <2>1. sent + 1 \in Nat /\ Record(sent + 1) \in Packets BY <1>1, PacketTypes
  <2>2. Append(queue, Record(sent + 1)) \in Seq(Packets) BY <1>1, <2>1
  <2>3. queue # <<>> => Tail(queue) \in Seq(Packets) BY <1>1
  <2>4. QED
    BY <1>0, <1>1, <2>1, <2>2, <2>3
    DEF Does, Receives, Passes, Announces, Prints, Flushes, Closes, Misuses, Clears, Opens, Post
<1>5. dropped' \subseteq Nat /\ emptied' \subseteq Nat /\ failed' \in BOOLEAN
      /\ undefined' \in BOOLEAN
  <2>1. CASE Passes(t)
    <3>1. pc[t] = "log" => packet[t].id \in Nat BY <1>1, PacketTypes DEF Handling
    <3>2. QED BY <1>1, <2>1, <3>1 DEF Passes
  <2>2. CASE Opens(t)
    <3>1. packet[t].path \in Paths
      BY <1>1, <2>2, PacketTypes DEF Opens, Handling
    <3>2. ToSet(file[packet[t].path]) \subseteq Nat
      <4>1. file[packet[t].path] \in Seq(Nat) BY <3>1 DEF TypeOK
      <4>2. QED BY <4>1 DEF ToSet
    <3>3. pc[t] = "open" => packet[t].new \in BOOLEAN
      BY <1>1, PacketTypes DEF Handling
    <3>4. failed' \in BOOLEAN BY <2>2, <3>1, <3>3, OpenTypes DEF Opens
    <3>5. QED BY <1>1, <2>2, <3>2, <3>4 DEF Opens
  <2>3. QED
    BY <1>0, <1>1, <2>1, <2>2
    DEF Does, Receives, Announces, Prints, Flushes, Closes, Misuses, Clears, history
<1>6. TypeOK'
  <2>1. pc' \in [Threads -> Label] /\ packet' \in [Threads -> Packets]
    BY <1>2 DEF Goes
  <2>2. \A u \in Threads : pc'[u] = "none" <=> u > cur
    BY <1>2 DEF Goes, TypeOK
  <2>3. /\ cur \in Threads /\ cancelled \in {1 .. cur - 1, 1 .. cur}
        /\ main \in {"init", "loop", "cancel", "exit"} /\ commands \in Nat
        /\ heartbeat \in {"idle", "cancel", "create", "init", "announce"}
        /\ heartbeat \in {"cancel", "create"} => cur < MaxThreads
        /\ heartbeat = "create" => cancelled = 1 .. cur
    BY DEF TypeOK
  <2>4. UNCHANGED <<cancelled, cur, main, heartbeat, commands, ended>> BY DEF Outside
  <2>5. {ended', undefined', overtaken', raced'} \subseteq BOOLEAN
    BY <1>1, <1>5, <2>4 DEF Meets
  <2>6. /\ streams' \in Seq(Stream) /\ log_file' \in 0 .. Len(streams')
        /\ file' \in [Paths -> Seq(Nat)]
    BY <1>3 DEF FilesOK
  <2>7. /\ cur' \in Threads /\ \A u \in Threads : pc'[u] = "none" <=> u > cur'
        /\ cancelled' \in {1 .. cur' - 1, 1 .. cur'}
    BY <2>2, <2>3, <2>4
  <2>8. /\ main' \in {"init", "loop", "cancel", "exit"} /\ commands' \in Nat
        /\ heartbeat' \in {"idle", "cancel", "create", "init", "announce"}
        /\ heartbeat' \in {"cancel", "create"} => cur' < MaxThreads
        /\ heartbeat' = "create" => cancelled' = 1 .. cur'
        /\ dropped' \cup emptied' \subseteq Nat
    BY <1>5, <2>3, <2>4
  <2>9. QED BY <1>4, <1>5, <2>1, <2>5, <2>6, <2>7, <2>8 DEF TypeOK, Label
<1>7. Handling'
  <2>1. ASSUME NEW u \in Threads \ {t}
        PROVE  pc'[u] = pc[u] /\ packet'[u] = packet[u]
    BY <1>2 DEF Goes
  <2>2. CASE Receives(t)
    <3>1. Head(queue) \in Packets BY <1>1, <2>2 DEF Receives
    <3>2. Head(queue).cmd \in {"INIT", "LOG", "SETPATH", "KILL"}
          /\ packet'[t] = Head(queue)
          /\ pc'[t] = CASE Head(queue).cmd = "INIT"    -> "init"
               [] Head(queue).cmd = "LOG"     -> "log"
               [] Head(queue).cmd = "SETPATH" -> "setpath"
               [] Head(queue).cmd = "KILL"    -> "exit"
      BY <2>2, <3>1, PacketTypes DEF Receives, Goes
    <3>3. /\ pc'[t] \in {"init", "forget", "open", "announce"} => packet'[t].cmd = "INIT"
          /\ pc'[t] \in {"log", "print", "flush"} => packet'[t].cmd = "LOG"
          /\ pc'[t] \in {"setpath", "reopen"} => packet'[t].cmd = "SETPATH"
      BY <3>2
    <3>4. QED BY <2>1, <3>3 DEF Handling
  <2>3. CASE ~Receives(t)
    <3>1. packet'[t] = packet[t]
      BY <1>0, <2>3
      DEF Does, Passes, Announces, Prints, Flushes, Closes, Misuses, Clears, Opens, Goes
    <3>2. /\ pc'[t] \in {"init", "forget", "open", "announce"} =>
               pc[t] \in {"init", "forget", "open", "announce"}
          /\ pc'[t] \in {"log", "print", "flush"} => pc[t] \in {"log", "print", "flush"}
          /\ pc'[t] \in {"setpath", "reopen"} => pc[t] \in {"setpath", "reopen"}
      BY <1>0, <2>3
      DEF Does, Passes, Announces, Prints, Flushes, Closes, Misuses, Clears, Opens, Goes
    <3>3. QED BY <2>1, <3>1, <3>2 DEF Handling
  <2>4. QED BY <2>2, <2>3
<1>8. QED BY <1>6, <1>7

\* What the other threads and processes send: a record, another packet, or none.
LEMMA Posted ==
  ASSUME TypeOK, Others
  PROVE  /\ queue \in Seq(Packets) /\ sent \in Nat /\ sent + 1 \in Nat
         /\ Record(sent + 1) \in Packets /\ log_name \in Paths
         /\ \/ Log
            \/ sent' = sent /\ queue' = queue
            \/ sent' = sent /\ \E m \in Packets : queue' = Append(queue, m)
<1>1. queue \in Seq(Packets) /\ sent \in Nat BY DEF TypeOK
<1>2. sent + 1 \in Nat /\ log_name \in Paths BY <1>1, LogFileAssumption
<1>3. /\ Record(sent + 1) \in Packets /\ [cmd |-> "KILL"] \in Packets
      /\ \A p \in ClientPaths : [cmd |-> "SETPATH", path |-> p] \in Packets
      /\ \A p \in ReopenPaths : InitLog(FALSE, p) \in Packets
      /\ \A b \in BOOLEAN : InitLog(b, log_name) \in Packets
  BY <1>2, PacketTypes, LogFileAssumption
<1>4. CASE SendRecord \/ MissCheck \/ Reinitialized \/ MainExit
  BY <1>1, <1>2, <1>3, <1>4 DEF SendRecord, MissCheck, Reinitialized, MainExit
<1>5. CASE CancelLog \/ CreateLog \/ CancelTasks
  BY <1>1, <1>2, <1>3, <1>5 DEF CancelLog, CreateLog, CancelTasks
<1>6. CASE SetPath \/ Reopen \/ Kill \/ InitializeNew \/ InitializeLog
  BY <1>1, <1>2, <1>3, <1>6
  DEF SetPath, Reopen, Kill, Client, InitializeNew, InitializeLog, Post
<1>7. QED BY <1>4, <1>5, <1>6 DEF Others

\* The other threads and processes, and the end of the process.
LEMMA OthersType ==
  ASSUME TypeOK, Handling, Others, Inside
  PROVE  TypeOK' /\ Handling'
<1>0. queue \in Seq(Packets) /\ sent \in Nat /\ commands \in Nat /\ MaxThreads \in Nat
  BY LogFileAssumption DEF TypeOK
<1>a. cur \in 1 .. MaxThreads /\ cur \in Threads BY DEF TypeOK, Threads
<1>b. sent + 1 \in Nat /\ commands + 1 \in Nat BY <1>0
<1>1. /\ pc \in [Threads -> Label] /\ packet \in [Threads -> Packets]
      /\ main \in {"init", "loop", "cancel", "exit"}
      /\ heartbeat \in {"idle", "cancel", "create", "init", "announce"}
      /\ heartbeat \in {"cancel", "create"} => cur < MaxThreads
      /\ heartbeat = "create" => cancelled = 1 .. cur
      /\ {ended, undefined, overtaken, raced} \subseteq BOOLEAN
      /\ cancelled \in {1 .. cur - 1, 1 .. cur}
      /\ \A t \in Threads : pc[t] = "none" <=> t > cur
  BY DEF TypeOK, Label
<1>c. (1 .. cur - 1) \cup {cur} = 1 .. cur /\ (1 .. cur) \cup {cur} = 1 .. cur
  BY <1>0, <1>a
<1>2. queue' \in Seq(Packets) /\ sent' \in Nat
  <2>1. CASE Log BY <1>0, <1>b, <2>1, Posted DEF Log, Post
  <2>2. QED BY <1>0, <2>1, Posted
<1>d. /\ commands' \in Nat /\ main' \in {"init", "loop", "cancel", "exit"}
      /\ heartbeat' \in {"idle", "cancel", "create", "init", "announce"}
      /\ heartbeat' \in {"cancel", "create"} => cur' < MaxThreads
      /\ heartbeat' = "create" => cancelled' = 1 .. cur'
  <2>1. CASE SendRecord \/ SetPath \/ Reopen \/ Kill
    BY <1>0, <1>b, <1>1, <2>1 DEF SendRecord, SetPath, Reopen, Kill, Client
  <2>2. CASE MissCheck \/ CancelLog \/ CreateLog \/ InitializeLog \/ Reinitialized
    BY <1>0, <1>1, <1>c, <2>2 DEF MissCheck, CancelLog, CreateLog, InitializeLog, Reinitialized
  <2>3. CASE InitializeNew \/ MainExit \/ CancelTasks
    BY <1>0, <1>1, <1>c, <2>3 DEF InitializeNew, MainExit, CancelTasks
  <2>4. QED BY <2>1, <2>2, <2>3 DEF Others
<1>3. /\ cur' \in Threads /\ \A t \in Threads : pc'[t] = "none" <=> t > cur'
      /\ cancelled' \in {1 .. cur' - 1, 1 .. cur'} /\ pc' \in [Threads -> Label]
      /\ \A t \in Threads : pc'[t] = pc[t] \/ pc'[t] = "receive"
  <2>1. CASE CreateLog
    <3>1. /\ cur + 1 \in Threads /\ cur' = cur + 1 /\ cur' - 1 = cur
          /\ pc' = [pc EXCEPT ![cur + 1] = "receive"]
      <4>1. cur < MaxThreads /\ cur' = cur + 1 /\ pc' = [pc EXCEPT ![cur + 1] = "receive"]
        BY <1>1, <2>1 DEF CreateLog
      <4>2. cur + 1 \in 1 .. MaxThreads /\ (cur + 1) - 1 = cur BY <1>0, <1>a, <4>1
      <4>3. QED BY <4>1, <4>2 DEF Threads
    <3>2. cancelled' = 1 .. cur
      BY <1>1, <2>1 DEF CreateLog
    <3>3. pc' \in [Threads -> Label] BY <1>1, <3>1 DEF Label
    <3>4. \A t \in Threads : pc'[t] = "none" <=> t > cur + 1
      <4>1. pc'[cur + 1] = "receive" /\ \A t \in Threads : t # cur + 1 => pc'[t] = pc[t]
        BY <1>1, <3>1
      <4>2. \A t \in Threads : t \in Nat /\ (t # cur + 1 => (t > cur <=> t > cur + 1))
        BY <1>a DEF Threads
      <4>3. ~(cur + 1 > cur + 1) BY <1>a
      <4>4. QED BY <1>1, <4>1, <4>2, <4>3
    <3>5. QED BY <1>1, <3>1, <3>2, <3>3, <3>4
  <2>2. CASE CancelLog \/ CancelTasks
    <3>1. cur' = cur /\ pc' = pc /\ cancelled' = cancelled \cup {cur}
      BY <2>2 DEF CancelLog, CancelTasks
    <3>2. QED BY <1>a, <1>1, <1>c, <3>1
  <2>3. CASE UNCHANGED <<pc, cancelled, cur>> BY <1>a, <1>1, <2>3
  <2>4. QED
    BY <2>1, <2>2, <2>3
    DEF Others, SendRecord, SetPath, Reopen, Kill, Client, MissCheck, InitializeLog,
        Reinitialized, InitializeNew, MainExit
<1>4. UNCHANGED <<log_file, streams, file, packet, ended, undefined, dropped, emptied, failed,
                  overtaken, raced>>
  BY DEF Inside, history
<1>5. TypeOK'
  <2>1. /\ log_file' \in 0 .. Len(streams') /\ streams' \in Seq(Stream)
        /\ file' \in [Paths -> Seq(Nat)]
    BY <1>4 DEF TypeOK
  <2>2. packet' \in [Threads -> Packets] BY <1>1, <1>4
  <2>3. {ended', undefined', overtaken', raced'} \subseteq BOOLEAN BY <1>1, <1>4
  <2>4. dropped' \cup emptied' \subseteq Nat /\ failed' \in BOOLEAN BY <1>4 DEF TypeOK
  <2>5. QED BY <1>2, <1>d, <1>3, <2>1, <2>2, <2>3, <2>4 DEF TypeOK, Label
<1>6. Handling' BY <1>3, <1>4 DEF Handling
<1>7. QED BY <1>5, <1>6

LEMMA EndTypes ==
  ASSUME TypeOK, Handling, ProcessEnds \/ (\E h \in DOMAIN streams : CloseAtExit(h)) \/ UNCHANGED vars
  PROVE  TypeOK' /\ Handling'
<1>1. UNCHANGED <<log_file, queue, pc, packet, cancelled, cur, main, heartbeat, sent,
                  commands, undefined, dropped, emptied, failed, overtaken, raced>>
      /\ ended' \in BOOLEAN
  BY DEF ProcessEnds, CloseAtExit, vars, history, TypeOK
<1>2. FilesOK'
  <2>1. CASE UNCHANGED <<streams, file>> BY <1>1, <2>1 DEF FilesOK, TypeOK
  <2>2. ASSUME NEW h \in DOMAIN streams, CloseAtExit(h) PROVE FilesOK'
    <3>1. h \in 1 .. Len(streams) BY Streams
    <3>2. Becomes(h, <<>>, FALSE) /\ file' = Flushed(h)
      BY <2>2, <3>1, CloseDoes DEF CloseAtExit, Close
    <3>3. QED BY <1>1, <3>1, <3>2, BecomesTypes
  <2>3. QED BY <2>1, <2>2 DEF ProcessEnds, vars
<1>3. /\ log_file' \in 0 .. Len(streams') /\ streams' \in Seq(Stream)
      /\ file' \in [Paths -> Seq(Nat)]
  BY <1>2 DEF FilesOK
<1>4. {ended', undefined', overtaken', raced'} \subseteq BOOLEAN BY <1>1 DEF TypeOK
<1>5. TypeOK' BY <1>1, <1>3, <1>4 DEF TypeOK
<1>6. Handling' BY <1>1 DEF Handling
<1>7. QED BY <1>5, <1>6

LEMMA TypesKept == TypeOK /\ Handling /\ [Next]_vars => TypeOK' /\ Handling'
BY ThreadTypes, OthersType, EndTypes DEF Next

LEMMA InitTypes == Init => TypeOK /\ Handling
<1> SUFFICES ASSUME Init PROVE TypeOK /\ Handling
  OBVIOUS
<1>1. 1 \in Threads /\ MaxThreads \in Nat BY LogFileAssumption DEF Threads
<1>2. Record(0) \in Packets BY PacketTypes
<1>3. /\ log_file \in 0 .. Len(streams) /\ streams \in Seq(Stream)
      /\ file \in [Paths -> Seq(Nat)] /\ queue \in Seq(Packets)
      /\ packet \in [Threads -> Packets]
  BY <1>2 DEF Init
<1>4. /\ cur \in Threads /\ \A t \in Threads : pc[t] = "none" <=> t > cur
  BY <1>1 DEF Init, Threads
<1>5. cancelled \in {1 .. cur - 1, 1 .. cur} BY DEF Init
<1>6. TypeOK BY <1>3, <1>4, <1>5 DEF Init, TypeOK
<1>7. Handling BY DEF Init, Handling
<1>8. QED BY <1>6, <1>7

\* Every variable of the log task keeps its type; the stream in use is one
\* that fopen has made, and only threads that have a successor are cancelled,
\* or all once main exits: also while the exit handler of a cancelled thread
\* and the thread in its place run at the same time.
THEOREM LogTypeCorrect == Spec => []TypeOK
<1> DEFINE IInv == TypeOK /\ Handling
<1>1. Init => IInv BY InitTypes
<1>2. IInv /\ [Next]_vars => IInv' BY TypesKept
<1>3. IInv => TypeOK OBVIOUS
<1>4. QED BY <1>1, <1>2, <1>3, PTL DEF Spec

-----------------------------------------------------------------------------
(* Threads that take turns.                                                *)

\* Once raced, always raced.
LEMMA RacedStays == TypeOK /\ [Next]_vars => (raced => raced') /\ (overtaken => overtaken')
BY DEF TypeOK, Next, Meets, Inside, ProcessEnds, CloseAtExit, vars

\* As long as no two threads have raced, those that do not run are at rest.
LEMMA Alone ==
  ASSUME TypeOK, Handling, NEW t \in Threads, LogThread(t), Meets(t), ~raced'
  PROVE  /\ ~raced /\ Does(t) /\ pc[t] \notin {"none", "gone"}
         /\ \A u \in Threads \ {t} :
              /\ pc'[u] = pc[u] /\ packet'[u] = packet[u]
              /\ pc[u] \in {"none", "receive", "gone"}
<1>1. Does(t) BY ThreadDoes
<1>2. pc[t] \notin {"none", "gone"} /\ \E l, m : Goes(t, l, m)
  BY <1>1
  DEF Does, Receives, Passes, Announces, Prints, Flushes, Closes, Misuses, Clears, Opens
<1>3. ~raced /\ \A u \in Threads \ {t} : ~Busy(u) BY DEF Meets
<1>4. QED BY <1>1, <1>2, <1>3 DEF Goes, Busy

\* What the other threads and processes do to the log threads.
LEMMA OthersDo ==
  ASSUME TypeOK, Others, Inside
  PROVE  /\ cancelled \subseteq cancelled'
         /\ \A t \in Threads : pc'[t] = pc[t] \/ (pc[t] = "none" /\ pc'[t] = "receive")
         /\ \A t \in Threads : packet'[t] = packet[t]
         /\ UNCHANGED <<log_file, streams, file, ended, undefined, dropped, emptied, failed,
                         overtaken, raced>>
<1>1. CASE CreateLog
  <2>1. cur < MaxThreads /\ pc' = [pc EXCEPT ![cur + 1] = "receive"]
        /\ cancelled' = cancelled
    BY <1>1 DEF CreateLog, TypeOK
  <2>0. cur \in Threads BY DEF TypeOK
  <2>2. cur \in Nat /\ MaxThreads \in Nat /\ cur \in Threads
    BY <2>0, LogFileAssumption DEF Threads
  <2>3. cur + 1 \in Threads /\ cur + 1 > cur BY <2>1, <2>2 DEF Threads
  <2>4. pc[cur + 1] = "none" BY <2>3 DEF TypeOK
  <2>5. pc \in [Threads -> Label] BY DEF TypeOK, Label
  <2>6. QED BY <2>1, <2>3, <2>4, <2>5 DEF Inside, history
<1>2. CASE ~CreateLog
  BY <1>2
  DEF Others, SendRecord, SetPath, Reopen, Kill, Client, MissCheck, CancelLog, InitializeLog,
      Reinitialized, InitializeNew, MainExit, CancelTasks, Inside, history
<1>3. QED BY <1>1, <1>2

-----------------------------------------------------------------------------
(* The file in use.                                                        *)

\* A thread that has closed the file in use, and not yet taken note of that.
Excused(t) ==
  \/ pc[t] \in {"forget", "reopen", "clear"}
  \/ pc[t] \in {"exit", "last"} /\ t \in cancelled /\ packet[t].cmd = "SETPATH"

Unsettled == log_file # NULL /\ ~streams[log_file].open

InUse ==
  /\ \A t \in Threads :
       /\ pc[t] = "open" => log_file = NULL
       /\ pc[t] \in {"forget", "reopen", "clear"} =>
            log_file = NULL \/ ~streams[log_file].open
       /\ pc[t] \in {"print", "flush", "flush_last", "close"} =>
            log_file # NULL /\ streams[log_file].open
       /\ pc[t] \in {"announce", "last"} => log_file # NULL
  /\ Unsettled => \E t \in Threads : Excused(t)

\* NoLeak and HandleSound of threads that take turns.
Tidy  == \A h \in DOMAIN streams : streams[h].open => h = log_file
Sound == undefined => CutInSetpath

\* The invariant, as long as the process runs.
Handles == raced \/ (Tidy /\ Sound /\ (~ended /\ ~undefined => InUse))

LEMMA ThreadHandles ==
  ASSUME TypeOK, Handling, Handles, Running,
         NEW t \in Threads, LogThread(t), Outside, Meets(t)
  PROVE  Handles'
<1> SUFFICES ASSUME ~raced' PROVE Handles'
  BY DEF Handles
<1>0. InUse /\ Tidy BY Alone DEF Running, Handles
<1>1. /\ Does(t) /\ pc[t] \notin {"none", "gone"}
      /\ \A u \in Threads \ {t} :
           /\ pc'[u] = pc[u] /\ packet'[u] = packet[u]
           /\ pc[u] \in {"none", "receive", "gone"}
  BY Alone
<1>2. cancelled' = cancelled /\ ended' = ended /\ ~ended /\ ~undefined
  BY DEF Outside, Running
<1>3. Unsettled => Excused(t)
  BY <1>0, <1>1 DEF InUse, Excused
\* Only what thread t does decides.
<1>4. ASSUME /\ pc'[t] = "open" => log_file' = NULL
             /\ pc'[t] \in {"forget", "reopen", "clear"} =>
                  log_file' = NULL \/ ~streams'[log_file'].open
             /\ pc'[t] \in {"print", "flush", "flush_last", "close"} =>
                  log_file' # NULL /\ streams'[log_file'].open
             /\ pc'[t] \in {"announce", "last"} => log_file' # NULL
             /\ Unsettled' => Excused(t)',
             Tidy', undefined' = undefined
      PROVE  Handles'
  <2>1. \A u \in Threads \ {t} : pc'[u] \in {"none", "receive", "gone"} BY <1>1
  <2>2. InUse' BY <1>4, <2>1 DEF InUse
  <2>3. QED BY <1>2, <1>4, <2>2 DEF Handles, Sound
<1>5. CASE Receives(t) \/ Passes(t) \/ Announces(t)
  <2>0. Silent /\ undefined' = undefined BY <1>5 DEF Receives, Passes, Announces
  <2>1. Tidy' /\ (Unsettled' <=> Unsettled)
    BY <1>0, <2>0 DEF Silent, Tidy, Unsettled
  <2>2. CASE Receives(t)
    <3>1. pc'[t] \in {"init", "log", "setpath", "exit"} /\ pc[t] = "receive"
      <4>1. Head(queue) \in Packets
        <5>1. queue \in Seq(Packets) BY DEF TypeOK
        <5>2. QED BY <2>2, <5>1 DEF Receives
      <4>2. QED BY <2>2, <4>1, PacketTypes DEF Receives, Goes
    <3>2. ~Unsettled BY <1>3, <3>1 DEF Excused
    <3>3. QED BY <1>4, <2>0, <2>1, <3>1, <3>2
  <2>3. CASE Passes(t)
    <3>1. packet'[t] = packet[t] BY <2>3 DEF Passes, Goes
    <3>2. CASE pc[t] \in {"init", "setpath"} /\ log_file = NULL /\ pc'[t] \in {"open", "reopen"}
      BY <1>4, <2>0, <2>1, <3>2 DEF Silent, Unsettled
    <3>3. CASE pc[t] = "log" /\ pc'[t] = "receive"
      <4>1. ~Unsettled BY <1>3, <3>3 DEF Excused
      <4>2. QED BY <1>4, <2>0, <2>1, <3>3, <4>1
    <3>4. CASE pc[t] = "log" /\ log_file # NULL /\ pc'[t] = "print"
      <4>1. ~Unsettled BY <1>3, <3>4 DEF Excused
      <4>2. log_file' # NULL /\ streams'[log_file'].open
        BY <2>0, <3>4, <4>1 DEF Unsettled, Silent
      <4>3. QED BY <1>4, <2>0, <2>1, <3>4, <4>1, <4>2
    <3>5. CASE t \in cancelled /\ pc[t] \in {"receive", "open", "reopen", "flush", "announce"}
               /\ pc'[t] = "exit"
      <4>1. Unsettled => pc[t] = "reopen" BY <1>3, <3>5 DEF Excused
      <4>2. Unsettled => packet[t].cmd = "SETPATH" BY <4>1 DEF Handling
      <4>3. Unsettled' => Excused(t)' BY <1>2, <2>1, <3>1, <3>5, <4>2 DEF Excused
      <4>4. QED BY <1>4, <2>0, <2>1, <3>5, <4>3
    <3>6. CASE pc[t] = "exit" /\ log_file = NULL /\ pc'[t] = "gone"
      BY <1>4, <2>0, <2>1, <3>6 DEF Unsettled
    <3>7. CASE pc[t] = "exit" /\ log_file # NULL /\ pc'[t] = "last"
      <4>1. Unsettled' => Excused(t)' BY <1>2, <1>3, <2>1, <3>1, <3>7 DEF Excused
      <4>2. log_file' # NULL BY <2>0, <3>7 DEF Silent
      <4>3. QED BY <1>4, <2>0, <2>1, <3>7, <4>1, <4>2
    <3>8. QED BY <2>3, <3>2, <3>3, <3>4, <3>5, <3>6, <3>7 DEF Passes, Goes
  <2>4. CASE Announces(t)
    <3>1. pc[t] = "announce" /\ pc'[t] = "receive" BY <2>4 DEF Announces, Goes
    <3>2. ~Unsettled BY <1>3, <3>1 DEF Excused
    <3>3. QED BY <1>4, <2>0, <2>1, <3>1, <3>2
  <2>5. QED BY <1>5, <2>2, <2>3, <2>4
<1>6. ASSUME NEW b, NEW o, Becomes(log_file, b, o), log_file \in 1 .. Len(streams),
             log_file' = log_file
      PROVE  /\ Tidy' /\ log_file' # NULL /\ streams'[log_file'].open = o
  <2>1. /\ DOMAIN streams = 1 .. Len(streams) /\ DOMAIN streams' = 1 .. Len(streams)
        /\ log_file # NULL
    BY <1>6, Streams DEF Becomes
  <2>2. \A k \in 1 .. Len(streams) : k # log_file => streams'[k] = streams[k]
    BY <1>6 DEF Becomes
  <2>3. Tidy' BY <1>0, <1>6, <2>1, <2>2 DEF Tidy
  <2>4. QED BY <1>6, <2>1, <2>3 DEF Becomes
<1>7. CASE (\E n \in Nat : Prints(t, n)) \/ Flushes(t)
  <2>1. /\ Tidy' /\ log_file' # NULL /\ streams'[log_file'].open = TRUE
        /\ undefined' = undefined
    BY <1>6, <1>7 DEF Prints, Flushes
  <2>2. pc'[t] \in {"flush", "flush_last", "receive", "close"}
    BY <1>7 DEF Prints, Flushes, Goes
  <2>3. ~Unsettled' BY <2>1 DEF Unsettled
  <2>4. QED BY <1>4, <2>1, <2>2, <2>3
<1>8. CASE Closes(t)
  <2>1. /\ Tidy' /\ log_file' # NULL /\ streams'[log_file'].open = FALSE
        /\ undefined' = undefined
    BY <1>6, <1>8 DEF Closes
  <2>2. pc'[t] \in {"forget", "reopen", "clear"} BY <1>8 DEF Closes, Goes
  <2>3. Excused(t)' BY <2>2 DEF Excused
  <2>4. QED BY <1>4, <2>1, <2>2, <2>3
<1>9. CASE Clears(t)
  <2>1. pc[t] \in {"forget", "clear"} /\ pc'[t] \in {"open", "gone"} /\ log_file' = NULL
        /\ UNCHANGED <<streams, undefined>>
    BY <1>9 DEF Clears, Goes
  <2>2. log_file = NULL \/ ~streams[log_file].open BY <1>0, <2>1 DEF InUse
  <2>0. log_file \in 0 .. Len(streams) BY DEF TypeOK
  <2>3. log_file \in 0 .. Len(streams) /\ \A h \in DOMAIN streams : h # 0
    BY <2>0, Streams
  <2>4. Tidy' BY <1>0, <2>1, <2>2, <2>3 DEF Tidy
  <2>5. ~Unsettled' BY <2>1 DEF Unsettled
  <2>6. QED BY <1>4, <2>1, <2>4, <2>5
<1>10. CASE Opens(t)
  <2>1. pc[t] \in {"open", "reopen"} /\ pc'[t] \in {"receive", "announce"}
        /\ undefined' = undefined
        /\ (pc'[t] = "announce" => log_file' # NULL)
    BY <1>10 DEF Opens, Goes
  <2>2. log_file = NULL \/ ~streams[log_file].open BY <1>0, <2>1 DEF InUse
  <2>3. \A h \in DOMAIN streams : h # 0 /\ ~streams[h].open
    BY <1>0, <2>2, Streams DEF Tidy
  <2>4. PICK p \in Paths, b \in BOOLEAN : Open(p, b)
    <3>1. packet[t] \in Packets BY DEF TypeOK
    <3>2. packet[t].path \in Paths /\ (pc[t] = "open" => packet[t].new \in BOOLEAN)
      BY <2>1, <3>1, PacketTypes DEF Handling
    <3>3. QED BY <1>10, <3>2 DEF Opens
  <2>5. \/ /\ log_file' = Len(streams) + 1 /\ Len(streams') = Len(streams) + 1
           /\ \A h \in 1 .. Len(streams) : streams'[h] = streams[h]
           /\ streams'[Len(streams) + 1] = [path |-> p, buffer |-> <<>>, open |-> TRUE]
        \/ log_file' = NULL /\ UNCHANGED streams
    BY <2>4, OpenTypes
  <2>6. streams' \in Seq(Stream) BY <2>4, OpenTypes DEF FilesOK
  <2>7. CASE log_file' = NULL /\ UNCHANGED streams
    <3>1. Tidy' /\ ~Unsettled' BY <2>3, <2>7 DEF Tidy, Unsettled
    <3>2. QED BY <1>4, <2>1, <3>1
  <2>8. CASE log_file' # NULL
    <3>1. /\ DOMAIN streams = 1 .. Len(streams) /\ DOMAIN streams' = 1 .. Len(streams) + 1
          /\ Len(streams) \in Nat
      BY <2>5, <2>6, <2>8, Streams
    <3>2. Tidy'
      <4>1. \A h \in 1 .. Len(streams) + 1 : h \in 1 .. Len(streams) \/ h = Len(streams) + 1
        BY <3>1
      <4>2. \A h \in 1 .. Len(streams) : ~streams'[h].open BY <2>3, <2>5, <2>8, <3>1
      <4>3. QED BY <2>5, <2>8, <3>1, <4>1, <4>2 DEF Tidy
    <3>3. ~Unsettled' BY <2>5, <2>8 DEF Unsettled
    <3>4. QED BY <1>4, <2>1, <2>8, <3>2, <3>3
  <2>9. QED BY <2>5, <2>7, <2>8
<1>11. CASE Misuses(t)
  <2>1. /\ ~Usable(log_file) /\ undefined' = TRUE
        /\ UNCHANGED <<log_file, streams, pc, packet>>
        /\ (pc[t] \in {"init", "setpath"} => log_file # NULL)
    BY <1>11 DEF Misuses, Silent
  <2>2. log_file # NULL
    BY <1>0, <1>11, <2>1 DEF Misuses, InUse
  <2>3. Unsettled BY <2>1, <2>2 DEF Usable, Unsettled
  <2>4. pc[t] = "last" /\ t \in cancelled /\ packet[t].cmd = "SETPATH"
    <3>1. pc[t] \notin {"print", "flush", "flush_last", "close"}
      BY <1>0, <2>3 DEF InUse, Unsettled
    <3>2. QED BY <1>3, <1>11, <2>3, <3>1 DEF Misuses, Excused
  <2>5. CutInSetpath' BY <1>2, <2>1, <2>4 DEF CutInSetpath
  <2>6. Tidy' BY <1>0, <2>1 DEF Tidy
  <2>7. QED BY <2>1, <2>5, <2>6 DEF Handles, Sound
<1>12. QED BY <1>1, <1>5, <1>7, <1>8, <1>9, <1>10, <1>11 DEF Does

LEMMA OthersHandles ==
  ASSUME TypeOK, Handles, Running, Others, Inside
  PROVE  Handles'
<1>0. raced' = raced BY DEF Inside
<1> SUFFICES ASSUME ~raced PROVE Handles'
  BY <1>0 DEF Handles
<1>1. /\ cancelled \subseteq cancelled'
      /\ \A t \in Threads : pc'[t] = pc[t] \/ (pc[t] = "none" /\ pc'[t] = "receive")
      /\ \A t \in Threads : packet'[t] = packet[t]
      /\ UNCHANGED <<log_file, streams, ended, undefined>>
  BY OthersDo
<1>2. InUse BY DEF Handles, Running
<1>3. \A t \in Threads : Excused(t) => Excused(t)' BY <1>1 DEF Excused
<1>4. Unsettled' <=> Unsettled BY <1>1 DEF Unsettled
<1>5. InUse'
  <2>1. Unsettled' => \E t \in Threads : Excused(t)' BY <1>2, <1>3, <1>4 DEF InUse
  <2>2. QED BY <1>1, <1>2, <2>1 DEF InUse
<1>6. Tidy' BY <1>1 DEF Tidy, Handles
<1>7. QED BY <1>1, <1>5, <1>6 DEF Handles, Sound, Running

LEMMA EndHandles ==
  ASSUME TypeOK, Handles,
         (Running /\ ProcessEnds) \/ (\E h \in DOMAIN streams : CloseAtExit(h)) \/ UNCHANGED vars
  PROVE  Handles'
<1>0. raced' = raced BY DEF ProcessEnds, CloseAtExit, vars
<1> SUFFICES ASSUME ~raced PROVE Handles'
  BY <1>0 DEF Handles
<1>1. CASE UNCHANGED vars
  <2>1. UNCHANGED <<log_file, streams, pc, packet, cancelled, ended, undefined>>
    BY <1>1 DEF vars
  <2>2. Tidy' /\ Sound' BY <2>1 DEF Handles, Tidy, Sound, CutInSetpath
  <2>3. InUse => InUse' BY <2>1 DEF InUse, Unsettled, Excused
  <2>4. QED BY <2>1, <2>2, <2>3 DEF Handles
<1>2. CASE Running /\ ProcessEnds
  BY <1>2 DEF ProcessEnds, Handles, Tidy, Sound, CutInSetpath, Running
<1>3. ASSUME NEW h \in DOMAIN streams, CloseAtExit(h) PROVE Handles'
  <2>1. h \in 1 .. Len(streams) BY Streams
  <2>2. Becomes(h, <<>>, FALSE) BY <1>3, <2>1, CloseDoes DEF CloseAtExit
  <2>3. log_file' = log_file /\ ended' /\ ~undefined'
    BY <1>3 DEF CloseAtExit
  <2>4. DOMAIN streams = 1 .. Len(streams) /\ DOMAIN streams' = 1 .. Len(streams)
    BY <2>2, Streams DEF Becomes
  <2>5. Tidy' BY <2>2, <2>3, <2>4 DEF Becomes, Handles, Tidy
  <2>6. QED BY <2>3, <2>5 DEF Handles, Sound
<1>4. QED BY <1>1, <1>2, <1>3

LEMMA InitHandles == Init => Handles
<1> SUFFICES ASSUME Init PROVE Handles
  OBVIOUS
<1>1. \A t \in Threads : pc[t] \in {"none", "receive"} BY DEF Init
<1>2. InUse BY <1>1 DEF Init, InUse, Unsettled
<1>3. DOMAIN streams = {} BY DEF Init
<1>4. QED BY <1>2, <1>3 DEF Init, Handles, Tidy, Sound

\* What the theorems below rest on.
Later == main = "init" => heartbeat = "idle"
Kept == TypeOK /\ Handling /\ Later /\ Handles

LEMMA KeptStep == Kept /\ [Next]_vars => Kept'
<1> SUFFICES ASSUME Kept, [Next]_vars PROVE Kept'
  OBVIOUS
<1>1. TypeOK' /\ Handling' BY TypesKept DEF Kept
<1>2. Later'
  BY DEF Kept, Later, Next, Outside, Others, SendRecord, SetPath, Reopen, Kill, Client,
     MissCheck, CancelLog, CreateLog, InitializeLog, Reinitialized, InitializeNew, MainExit,
     CancelTasks, ProcessEnds, CloseAtExit, vars
<1>3. Handles'
  BY ThreadHandles, OthersHandles, EndHandles DEF Kept, Next
<1>4. QED BY <1>1, <1>2, <1>3 DEF Kept

LEMMA AlwaysKept == Spec => []Kept
<1>1. Init => Kept BY InitTypes, InitHandles DEF Kept, Init, Later
<1>2. Kept /\ [Next]_vars => Kept' BY KeptStep
<1>3. QED BY <1>1, <1>2, PTL DEF Spec

\* As long as log threads take turns, every open file is the one in log_file:
\* log_init, log_setpath and the exit handler, each of which a cancellation may
\* cut short at any cancellation point, leave no file open that nobody will
\* close, whichever thread runs next (log.c:57, 114, 161).
THEOREM NoFileLeaks == Spec => []NoLeak
<1>1. Kept => NoLeak BY DEF Kept, Handles, NoLeak, Tidy
<1>2. QED BY <1>1, AlwaysKept, PTL

\* No thread uses a closed file or none, except where two log threads have been
\* inside their handlers at once, and except the exit handler of a thread that
\* was cancelled between the fclose and the fopen of log_setpath (log.c:40-60,
\* 112-157, 160-163): there is no other way, also for an exit handler that runs
\* after its successor has opened the file.
THEOREM HandlesAreSound == Spec => []HandleSound
<1>1. Kept => HandleSound BY DEF Kept, Handles, HandleSound, Sound
<1>2. QED BY <1>1, AlwaysKept, PTL

-----------------------------------------------------------------------------
(* The INIT of main is the first packet that opens a file.                 *)

New(m)   == m.cmd = "INIT" /\ m.new
Plain(m) == m.cmd \in {"LOG", "KILL"}
AllPlain(q) == \A i \in DOMAIN q : Plain(q[i])
NoNew(q)    == \A i \in DOMAIN q : ~New(q[i])
FirstNew(q) == \A i \in DOMAIN q : New(q[i]) =>
                 \A j \in DOMAIN q : (j < i => Plain(q[j])) /\ (j > i => ~New(q[j]))

LEMMA AppendingTo ==
  ASSUME NEW q \in Seq(Packets), NEW m \in Packets
  PROVE  /\ AllPlain(q) /\ Plain(m) => AllPlain(Append(q, m))
         /\ NoNew(q) /\ ~New(m) => NoNew(Append(q, m))
         /\ FirstNew(q) /\ ~New(m) => FirstNew(Append(q, m))
         /\ AllPlain(q) => FirstNew(Append(q, m))
<1> DEFINE r == Append(q, m)
<1>1. /\ Len(q) \in Nat /\ DOMAIN q = 1 .. Len(q) /\ DOMAIN r = 1 .. Len(q) + 1
      /\ r[Len(q) + 1] = m /\ \A i \in 1 .. Len(q) : r[i] = q[i]
  OBVIOUS
<1> HIDE DEF r
<1>2. \A i \in DOMAIN r : i \in DOMAIN q \/ i = Len(q) + 1 BY <1>1
<1>3. AllPlain(q) /\ Plain(m) => AllPlain(r) BY <1>1, <1>2 DEF AllPlain
<1>4. NoNew(q) /\ ~New(m) => NoNew(r) BY <1>1, <1>2 DEF NoNew
<1>5. FirstNew(q) /\ ~New(m) => FirstNew(r)
  <2> SUFFICES ASSUME FirstNew(q), ~New(m), NEW i \in DOMAIN r, New(r[i]), NEW j \in DOMAIN r
               PROVE  (j < i => Plain(r[j])) /\ (j > i => ~New(r[j]))
    BY DEF FirstNew
  <2>1. i \in DOMAIN q /\ r[i] = q[i] BY <1>1, <1>2
  <2>2. CASE j \in DOMAIN q BY <1>1, <2>1, <2>2 DEF FirstNew
  <2>3. CASE j = Len(q) + 1 BY <1>1, <2>1, <2>3
  <2>4. QED BY <1>2, <2>2, <2>3
<1>6. AllPlain(q) => FirstNew(r)
  <2> SUFFICES ASSUME AllPlain(q), NEW i \in DOMAIN r, New(r[i]), NEW j \in DOMAIN r
               PROVE  (j < i => Plain(r[j])) /\ (j > i => ~New(r[j]))
    BY DEF FirstNew
  <2>1. i = Len(q) + 1
    <3>1. \A k \in DOMAIN q : ~New(r[k]) BY <1>1 DEF AllPlain, Plain, New
    <3>2. QED BY <1>2, <3>1
  <2>2. CASE j \in DOMAIN q BY <1>1, <2>1, <2>2 DEF AllPlain
  <2>3. CASE j = Len(q) + 1 BY <1>1, <2>1, <2>3
  <2>4. QED BY <1>2, <2>2, <2>3
<1>7. QED BY <1>3, <1>4, <1>5, <1>6 DEF r

LEMMA TakingFrom ==
  ASSUME NEW q \in Seq(Packets), q # <<>>
  PROVE  /\ AllPlain(q) => Plain(Head(q)) /\ AllPlain(Tail(q))
         /\ NoNew(q) => ~New(Head(q)) /\ NoNew(Tail(q))
         /\ FirstNew(q) => FirstNew(Tail(q)) /\ (New(Head(q)) => NoNew(Tail(q)))
         /\ FirstNew(q) /\ ~NoNew(Tail(q)) => Plain(Head(q))
<1> DEFINE r == Tail(q)
<1>1. /\ Len(q) \in Nat /\ Len(q) > 0 /\ DOMAIN q = 1 .. Len(q) /\ DOMAIN r = 1 .. Len(q) - 1
      /\ Head(q) = q[1] /\ \A i \in 1 .. Len(q) - 1 : r[i] = q[i + 1]
  OBVIOUS
<1> HIDE DEF r
<1>2. 1 \in DOMAIN q /\ \A i \in DOMAIN r : i + 1 \in DOMAIN q /\ i + 1 > 1 /\ r[i] = q[i + 1]
  BY <1>1
<1>3. AllPlain(q) => Plain(Head(q)) /\ AllPlain(r) BY <1>1, <1>2 DEF AllPlain
<1>4. NoNew(q) => ~New(Head(q)) /\ NoNew(r) BY <1>1, <1>2 DEF NoNew
<1>5. FirstNew(q) => FirstNew(r)
  <2> SUFFICES ASSUME FirstNew(q), NEW i \in DOMAIN r, New(r[i]), NEW j \in DOMAIN r
               PROVE  (j < i => Plain(r[j])) /\ (j > i => ~New(r[j]))
    BY DEF FirstNew
  <2>1. New(q[i + 1]) BY <1>2
  <2>2. (j < i <=> j + 1 < i + 1) /\ (j > i <=> j + 1 > i + 1) BY <1>1
  <2>3. (j + 1 < i + 1 => Plain(q[j + 1])) /\ (j + 1 > i + 1 => ~New(q[j + 1]))
    BY <1>2, <2>1 DEF FirstNew
  <2>4. QED BY <1>2, <2>2, <2>3
<1>6. FirstNew(q) /\ New(Head(q)) => NoNew(r) BY <1>1, <1>2 DEF FirstNew, NoNew
<1>7. FirstNew(q) /\ ~NoNew(r) => Plain(Head(q)) BY <1>1, <1>2 DEF FirstNew, NoNew
<1>8. QED BY <1>3, <1>4, <1>5, <1>6, <1>7 DEF r

\* No file has been opened.
Fresh == streams = <<>> /\ log_file = NULL /\ \A p \in Paths : file[p] = <<>>

\* A thread that has not got further than packets that need no file.
Early(t) == pc[t] \in {"none", "receive", "log", "exit", "gone"}

Untouched == Fresh /\ \A t \in Threads : Early(t)

NewFirst ==
  /\ main = "init" => Untouched /\ AllPlain(queue)
  /\ ~NoNew(queue) => Untouched /\ FirstNew(queue) /\ main # "init"
  /\ \A t \in Threads : pc[t] \in {"init", "forget", "open"} /\ packet[t].new =>
       Fresh /\ NoNew(queue) /\ main # "init"

LEMMA ThreadNewFirst ==
  ASSUME Kept, NewFirst, NEW t \in Threads, LogThread(t), Outside, Meets(t), ~raced'
  PROVE  NewFirst'
<1>1. /\ Does(t) /\ \A u \in Threads \ {t} :
           /\ pc'[u] = pc[u] /\ packet'[u] = packet[u]
           /\ pc[u] \in {"none", "receive", "gone"}
  BY Alone DEF Kept
<1>2. queue \in Seq(Packets) /\ sent \in Nat BY DEF Kept, TypeOK
<1>3. main' = main BY DEF Outside
<1>4. \A u \in Threads \ {t} : Early(u)' BY <1>1 DEF Early
\* Only a thread that has not used the file may still precede the INIT of main.
<1>6. ASSUME ~Early(t), queue' = queue \/ queue' = Append(queue, Record(sent + 1)),
             pc'[t] \in {"init", "forget", "open"} /\ packet'[t].new => Fresh'
      PROVE  NewFirst'
  <2>1. ~Untouched BY <1>6 DEF Untouched
  <2>2. main # "init" /\ NoNew(queue) BY <2>1 DEF NewFirst
  <2>3. NoNew(queue')
    <3>1. Record(sent + 1) \in Packets /\ ~New(Record(sent + 1))
      BY <1>2, PacketTypes DEF Record, New
    <3>2. QED BY <1>2, <1>6, <2>2, <3>1, AppendingTo
  <2>4. \A u \in Threads : pc'[u] \in {"init", "forget", "open"} /\ packet'[u].new =>
          Fresh' /\ NoNew(queue') /\ main' # "init"
    BY <1>1, <1>3, <1>6, <2>2, <2>3
  <2>5. QED BY <1>3, <2>2, <2>3, <2>4 DEF NewFirst
<1>7. CASE Receives(t)
  <2>1. /\ pc[t] = "receive" /\ queue # <<>> /\ queue' = Tail(queue) /\ Head(queue) \in Packets
        /\ packet'[t] = Head(queue) /\ UNCHANGED <<log_file, streams, file>>
    BY <1>2, <1>7 DEF Receives, Goes, Silent
  <2>2. /\ pc'[t] \in {"init", "log", "setpath", "exit"}
        /\ pc'[t] = "init" <=> Head(queue).cmd = "INIT"
        /\ pc'[t] = "setpath" <=> Head(queue).cmd = "SETPATH"
    BY <1>7, <2>1, PacketTypes DEF Receives, Goes
  <2>3. Fresh' <=> Fresh BY <2>1 DEF Fresh
  <2>4. main = "init" => AllPlain(queue') /\ Plain(Head(queue))
    BY <1>2, <2>1, TakingFrom DEF NewFirst
  <2>5. ~NoNew(queue') => ~NoNew(queue) /\ FirstNew(queue') /\ Plain(Head(queue))
    BY <1>2, <2>1, TakingFrom DEF NewFirst
  <2>6. New(Head(queue)) => Fresh /\ NoNew(queue') /\ main # "init"
    BY <1>2, <2>1, TakingFrom DEF NewFirst, Untouched
  <2>7. Untouched => Early(t) BY DEF Untouched
  <2>8. pc'[t] \in {"init", "forget", "open"} /\ packet'[t].new =>
          Fresh' /\ NoNew(queue') /\ main # "init"
    BY <2>1, <2>2, <2>3, <2>6 DEF New
  <2>9. Plain(Head(queue)) => Early(t)' BY <2>2 DEF Plain, Early
  <2>10. main' = "init" => Untouched' /\ AllPlain(queue')
    BY <1>3, <1>4, <2>3, <2>4, <2>9 DEF NewFirst, Untouched
  <2>11. ~NoNew(queue') => Untouched' /\ FirstNew(queue') /\ main' # "init"
    BY <1>3, <1>4, <2>3, <2>5, <2>9 DEF NewFirst, Untouched
  <2>12. QED BY <1>1, <1>3, <2>8, <2>10, <2>11 DEF NewFirst
<1>8. CASE Passes(t)
  <2>1. /\ packet'[t] = packet[t] /\ queue' = queue /\ UNCHANGED <<log_file, streams, file>>
        /\ pc'[t] \in {"init", "forget", "open"} => pc[t] \in {"init", "forget", "open"}
    BY <1>8 DEF Passes, Goes, Silent
  <2>2. Fresh' <=> Fresh BY <2>1 DEF Fresh
  <2>3. Early(t) /\ Fresh => Early(t)' BY <1>8 DEF Passes, Goes, Early, Fresh
  <2>4. pc'[t] \in {"init", "forget", "open"} /\ packet'[t].new =>
          Fresh' /\ NoNew(queue') /\ main # "init"
    BY <2>1, <2>2 DEF NewFirst
  <2>5. main' = "init" => Untouched' /\ AllPlain(queue')
    BY <1>3, <1>4, <2>1, <2>2, <2>3 DEF NewFirst, Untouched
  <2>6. ~NoNew(queue') => Untouched' /\ FirstNew(queue') /\ main' # "init"
    BY <1>3, <1>4, <2>1, <2>2, <2>3 DEF NewFirst, Untouched
  <2>7. QED BY <1>1, <1>3, <2>4, <2>5, <2>6 DEF NewFirst
<1>9. CASE \/ Announces(t) \/ (\E n \in Nat : Prints(t, n)) \/ Flushes(t) \/ Closes(t)
           \/ Misuses(t) \/ Clears(t) \/ Opens(t)
  <2>1. /\ packet'[t] = packet[t] /\ ~Early(t)
        /\ queue' = queue \/ queue' = Append(queue, Record(sent + 1))
    BY <1>9
    DEF Announces, Prints, Flushes, Closes, Misuses, Clears, Opens, Goes, Post, Early
  <2>2. CASE Clears(t)
    <3>1. pc'[t] \in {"init", "forget", "open"} => pc[t] = "forget"
      BY <2>2 DEF Clears, Goes
    <3>2. Fresh => Fresh' BY <2>2 DEF Clears, Fresh
    <3>3. QED BY <1>6, <2>1, <3>1, <3>2 DEF NewFirst
  <2>3. CASE Closes(t) \/ Misuses(t)
    <3>1. pc'[t] \in {"init", "forget", "open"} => pc[t] = "init" /\ log_file # NULL
      <4>1. CASE Closes(t)
        <5>1. log_file # NULL BY <4>1, Streams DEF Closes, Kept
        <5>2. QED BY <4>1, <5>1 DEF Closes, Goes
      <4>2. CASE Misuses(t) BY <4>2 DEF Misuses, Goes
      <4>3. QED BY <2>3, <4>1, <4>2
    <3>2. ~(pc'[t] \in {"init", "forget", "open"} /\ packet'[t].new)
      BY <2>1, <3>1 DEF NewFirst, Fresh
    <3>3. QED BY <1>6, <2>1, <3>2
  <2>4. CASE Announces(t) \/ (\E n \in Nat : Prints(t, n)) \/ Flushes(t) \/ Opens(t)
    <3>1. pc'[t] \notin {"init", "forget", "open"}
      BY <2>4 DEF Announces, Prints, Flushes, Opens, Goes
    <3>2. QED BY <1>6, <2>1, <3>1
  <2>5. QED BY <1>9, <2>2, <2>3, <2>4
<1>10. QED BY <1>1, <1>7, <1>8, <1>9 DEF Does

LEMMA OthersNewFirst ==
  ASSUME Kept, NewFirst, Others, Inside
  PROVE  NewFirst'
<1>1. /\ \A t \in Threads : pc'[t] = pc[t] \/ (pc[t] = "none" /\ pc'[t] = "receive")
      /\ \A t \in Threads : packet'[t] = packet[t]
      /\ UNCHANGED <<log_file, streams, file>>
  BY OthersDo DEF Kept
<1>2. /\ Fresh' <=> Fresh
      /\ \A t \in Threads : Early(t) => Early(t)'
      /\ \A t \in Threads : pc'[t] \in {"init", "forget", "open"} =>
           pc[t] \in {"init", "forget", "open"}
  BY <1>1 DEF Fresh, Early
<1>3. Untouched => Untouched' BY <1>2 DEF Untouched
<1>4. queue \in Seq(Packets) /\ sent \in Nat /\ log_name \in Paths
  BY LogFileAssumption DEF Kept, TypeOK
<1>5. Record(sent + 1) \in Packets /\ Plain(Record(sent + 1)) /\ ~New(Record(sent + 1))
  BY <1>4, PacketTypes DEF Record, Plain, New
\* A packet other than the INIT of main is sent.
<1>6. ASSUME NEW m \in Packets, ~New(m), queue' = Append(queue, m),
             main = "init" => Plain(m), main' # "init" \/ main' = main
      PROVE  NewFirst'
  <2>1. /\ NoNew(queue) => NoNew(queue')
        /\ FirstNew(queue) => FirstNew(queue')
        /\ AllPlain(queue) /\ Plain(m) => AllPlain(queue')
    BY <1>4, <1>6, AppendingTo
  <2>2. main' = "init" => Untouched' /\ AllPlain(queue')
    BY <1>3, <1>6, <2>1 DEF NewFirst
  <2>3. ~NoNew(queue') => Untouched' /\ FirstNew(queue') /\ main' # "init"
    BY <1>3, <1>6, <2>1 DEF NewFirst
  <2>4. \A t \in Threads : pc'[t] \in {"init", "forget", "open"} /\ packet'[t].new =>
          Fresh' /\ NoNew(queue') /\ main' # "init"
    BY <1>1, <1>2, <1>6, <2>1 DEF NewFirst
  <2>5. QED BY <2>2, <2>3, <2>4 DEF NewFirst
<1>7. CASE Log
  <2>1. queue' = Append(queue, Record(sent + 1)) BY <1>7 DEF Log, Post
  <2>2. main' # "init" \/ main' = main
    BY DEF Others, SendRecord, SetPath, Reopen, Kill, Client, MissCheck, CancelLog, CreateLog,
       InitializeLog, Reinitialized, InitializeNew, MainExit, CancelTasks
  <2>3. QED BY <1>5, <1>6, <2>1, <2>2
<1>8. CASE SetPath \/ Reopen \/ Kill \/ InitializeLog
  <2>1. PICK m \in Packets :
          /\ ~New(m) /\ queue' = Append(queue, m) /\ main' = main
          /\ main = "init" => Plain(m) \/ heartbeat = "init"
    <3>1. CASE SetPath
      <4>1. PICK p \in ClientPaths : Client([cmd |-> "SETPATH", path |-> p])
        BY <3>1 DEF SetPath
      <4>2. /\ [cmd |-> "SETPATH", path |-> p] \in Packets
            /\ ~New([cmd |-> "SETPATH", path |-> p])
        BY LogFileAssumption, PacketTypes DEF New
      <4>3. QED BY <3>1, <4>1, <4>2 DEF SetPath, Client, Post
    <3>2. CASE Reopen
      <4>1. PICK p \in ReopenPaths : Client(InitLog(FALSE, p)) BY <3>2 DEF Reopen
      <4>2. InitLog(FALSE, p) \in Packets /\ ~New(InitLog(FALSE, p))
        BY LogFileAssumption, PacketTypes DEF New, InitLog
      <4>3. QED BY <3>2, <4>1, <4>2 DEF Reopen, Client, Post
    <3>3. CASE Kill
      <4>1. /\ [cmd |-> "KILL"] \in Packets /\ ~New([cmd |-> "KILL"])
            /\ Plain([cmd |-> "KILL"])
        BY PacketTypes DEF New, Plain
      <4>2. QED BY <3>3, <4>1 DEF Kill, Client, Post
    <3>4. CASE InitializeLog
      <4>1. InitLog(FALSE, log_name) \in Packets /\ ~New(InitLog(FALSE, log_name))
        BY <1>4, PacketTypes DEF New, InitLog
      <4>2. QED BY <3>4, <4>1 DEF InitializeLog, Post
    <3>5. QED BY <1>8, <3>1, <3>2, <3>3, <3>4
  <2>2. QED BY <1>6, <2>1 DEF Kept, Later
<1>9. CASE InitializeNew
  <2>1. queue' = Append(queue, InitLog(TRUE, log_name)) /\ main' = "loop" /\ main = "init"
    BY <1>9 DEF InitializeNew, Post
  <2>2. Untouched /\ AllPlain(queue) BY <2>1 DEF NewFirst
  <2>3. FirstNew(queue')
    <3>1. InitLog(TRUE, log_name) \in Packets BY <1>4, PacketTypes
    <3>2. QED BY <1>4, <2>1, <2>2, <3>1, AppendingTo
  <2>4. \A t \in Threads : pc'[t] \notin {"init", "forget", "open"}
    BY <1>2, <2>2 DEF Untouched, Early
  <2>5. QED BY <1>3, <2>1, <2>2, <2>3, <2>4 DEF NewFirst
<1>10. CASE CancelLog \/ CreateLog \/ CancelTasks
  <2>1. queue' = queue /\ (main' # "init" \/ main' = main)
    BY <1>10 DEF CancelLog, CreateLog, CancelTasks
  <2>2. QED BY <1>1, <1>2, <1>3, <2>1 DEF NewFirst
<1>11. QED
  BY <1>7, <1>8, <1>9, <1>10
  DEF Others, SendRecord, MissCheck, Reinitialized, MainExit

LEMMA EndNewFirst ==
  ASSUME TypeOK, NewFirst,
         ProcessEnds \/ (\E h \in DOMAIN streams : CloseAtExit(h)) \/ UNCHANGED vars
  PROVE  NewFirst'
<1>1. UNCHANGED <<log_file, queue, pc, packet, main>>
  BY DEF ProcessEnds, CloseAtExit, vars
<1>2. CASE UNCHANGED <<streams, file>>
  <2>2. (Fresh' <=> Fresh) /\ (Untouched' <=> Untouched)
    BY <1>1, <1>2 DEF Fresh, Untouched, Early
  <2>3. QED BY <1>1, <2>2 DEF NewFirst
<1>3. CASE \E h \in DOMAIN streams : CloseAtExit(h)
  <2>1. ~Fresh BY <1>3 DEF Fresh
  <2>2. /\ main # "init" /\ NoNew(queue)
        /\ \A t \in Threads : ~(pc[t] \in {"init", "forget", "open"} /\ packet[t].new)
    BY <2>1 DEF NewFirst, Untouched
  <2>3. QED BY <1>1, <2>2 DEF NewFirst
<1>4. QED BY <1>2, <1>3 DEF ProcessEnds, vars

LEMMA InitNewFirst == Init => NewFirst
<1> SUFFICES ASSUME Init PROVE NewFirst
  OBVIOUS
<1>1. Fresh BY DEF Init, Fresh
<1>2. \A t \in Threads : pc[t] \in {"none", "receive"} BY DEF Init
<1>3. DOMAIN queue = {} BY DEF Init
<1>4. AllPlain(queue) /\ NoNew(queue) BY <1>3 DEF AllPlain, NoNew
<1>5. QED BY <1>1, <1>2, <1>4 DEF NewFirst, Untouched, Early

LEMMA NewFirstStep == Kept /\ (raced \/ NewFirst) /\ [Next]_vars => (raced \/ NewFirst)'
<1> SUFFICES ASSUME Kept, raced \/ NewFirst, [Next]_vars, ~raced' PROVE NewFirst'
  OBVIOUS
<1>1. NewFirst BY RacedStays DEF Kept
<1>2. QED BY <1>1, ThreadNewFirst, OthersNewFirst, EndNewFirst DEF Next, Kept

LEMMA AlwaysFirst == Spec => [](Kept /\ (raced \/ NewFirst))
<1>1. Init => Kept /\ NewFirst BY InitTypes, InitHandles, InitNewFirst DEF Kept, Init, Later
<1>2. Kept /\ (raced \/ NewFirst) /\ [Next]_vars => (Kept /\ (raced \/ NewFirst))'
  BY KeptStep, NewFirstStep
<1>3. QED BY <1>1, <1>2, PTL DEF Spec

-----------------------------------------------------------------------------
(* What the files hold.                                                    *)

\* A step leaves the files alone, writes a buffer to its file, or opens a file.
LEMMA FileSteps ==
  ASSUME Kept, [Next]_vars
  PROVE  \/ file' = file
         \/ \E h \in 1 .. Len(streams) : file' = Flushed(h)
         \/ \E t \in Threads : LogThread(t) /\ Opens(t)
<1>1. ASSUME NEW t \in Threads, LogThread(t)
      PROVE  \/ file' = file \/ (\E h \in 1 .. Len(streams) : file' = Flushed(h)) \/ Opens(t)
  <2>1. Does(t) BY <1>1, ThreadDoes DEF Kept
  <2>2. QED
    BY <2>1
    DEF Does, Receives, Passes, Announces, Prints, Flushes, Closes, Misuses, Clears, Silent
<1>2. ASSUME NEW h \in DOMAIN streams, CloseAtExit(h)
      PROVE  h \in 1 .. Len(streams) /\ file' = Flushed(h)
  BY <1>2, Streams DEF Kept, CloseAtExit, Close
<1>3. QED BY <1>1, <1>2 DEF Next, Inside, ProcessEnds, vars

LEMMA PrefixFacts ==
  ASSUME NEW s \in Seq(Nat), NEW u \in Seq(Nat)
  PROVE  IsPrefix(s, s \o u) /\ IsPrefix(<<>>, s) /\ IsPrefix(s, s)
<1>1. IsPrefix(s, s \o u)
  <2> DEFINE v == s \o u
             a == SubSeq(s, 1, Len(s))
             b == SubSeq(v, 1, Len(s))
  <2>1. v \in Seq(Nat) /\ Len(v) = Len(s) + Len(u) /\ \A i \in 1 .. Len(s) : v[i] = s[i]
    OBVIOUS
  <2>2. Len(s) \in Nat /\ Len(u) \in Nat /\ Len(s) <= Len(v) BY <2>1
  <2> HIDE DEF v
  <2>3. a \in Seq(Nat) /\ Len(a) = Len(s) /\ \A i \in 1 .. Len(s) : a[i] = s[i]
    BY <2>2
  <2>4. b \in Seq(Nat) /\ Len(b) = Len(s) /\ \A i \in 1 .. Len(s) : b[i] = v[i]
    BY <2>1, <2>2
  <2> HIDE DEF a, b
  <2>5. a = b BY <2>1, <2>3, <2>4, SeqEqual
  <2>6. QED BY <2>2, <2>5 DEF IsPrefix, v, a, b
<1>2. IsPrefix(<<>>, s)
  <2>1. SubSeq(<<>>, 1, 0) = <<>> /\ SubSeq(s, 1, 0) = <<>> OBVIOUS
  <2>2. Len(<<>>) = 0 /\ 0 <= Len(s) OBVIOUS
  <2>3. QED BY <2>1, <2>2 DEF IsPrefix
<1>3. IsPrefix(s, s) BY DEF IsPrefix
<1>4. QED BY <1>1, <1>2, <1>3

\* What a file holds stays in it, through kills, restarts and the end of the
\* process: only a thread in log_setpath empties a file, because the one INIT
\* that asks for an empty file comes before anything is written (main.c:270,
\* log.c:122), as long as log threads take turns.
THEOREM RecordsAreKept == Spec => RecordsKept
<1> DEFINE Keeps == \A p \in Paths : IsPrefix(file[p], file'[p]) \/ Reopening(p) \/ raced'
<1>1. Kept /\ (raced \/ NewFirst) /\ [Next]_vars => [Keeps]_vars
  <2> SUFFICES ASSUME Kept, raced \/ NewFirst, [Next]_vars, ~raced' PROVE Keeps
    OBVIOUS
  <2>0. NewFirst BY RacedStays DEF Kept
  <2>1. \A p \in Paths : file[p] \in Seq(Nat) BY DEF Kept, TypeOK
  <2>2. CASE file' = file BY <2>1, <2>2, PrefixFacts
  <2>3. ASSUME NEW h \in 1 .. Len(streams), file' = Flushed(h) PROVE Keeps
    <3>1. \A p \in Paths : file'[p] = IF p = streams[h].path
                                      THEN file[p] \o streams[h].buffer ELSE file[p]
      BY <2>3, FlushedIs DEF Kept
    <3>2. streams[h].buffer \in Seq(Nat) BY Streams DEF Kept
    <3>3. QED BY <2>1, <3>1, <3>2, PrefixFacts
  <2>4. ASSUME NEW t \in Threads, Opens(t) PROVE Keeps
    <3>0. packet[t] \in Packets BY DEF Kept, TypeOK
    <3>1. packet[t].path \in Paths /\ (pc[t] = "open" => packet[t].new \in BOOLEAN)
      BY <2>4, <3>0, PacketTypes DEF Opens, Kept, Handling
    <3>2. file \in [Paths -> Seq(Nat)] BY DEF Kept, TypeOK
    <3>3. CASE pc[t] = "open" /\ packet[t].new
      <4>1. \A p \in Paths : file[p] = <<>> BY <2>0, <3>3 DEF NewFirst, Fresh
      <4>2. FilesOK' BY <2>4, <3>1, OpenTypes DEF Opens, Kept
      <4>3. \A p \in Paths : file'[p] \in Seq(Nat) BY <4>2 DEF FilesOK
      <4>4. QED BY <4>1, <4>3, PrefixFacts
    <3>4. CASE pc[t] = "open" /\ ~packet[t].new
      <4>1. Open(packet[t].path, packet[t].new) BY <2>4, <3>4 DEF Opens
      <4>2. file' = file BY <3>4, <4>1 DEF Open
      <4>3. QED BY <2>2, <4>2
    <3>5. CASE pc[t] = "reopen"
      <4>1. Open(packet[t].path, TRUE) BY <2>4, <3>5 DEF Opens
      <4>2. \A p \in Paths : p # packet[t].path => file'[p] = file[p]
        BY <3>1, <3>2, <4>1 DEF Open
      <4>3. Reopening(packet[t].path) BY <3>5 DEF Reopening
      <4>4. QED BY <2>1, <4>2, <4>3, PrefixFacts
    <3>6. QED BY <2>4, <3>1, <3>3, <3>4, <3>5 DEF Opens
  <2>5. QED BY <2>2, <2>3, <2>4, FileSteps
<1>2. QED BY <1>1, AlwaysFirst, PTL DEF Spec, RecordsKept, Keeps

-----------------------------------------------------------------------------
(* Every record.                                                           *)

Held(n) == n \in dropped \cup emptied \/ Somewhere(n)

LEMMA InQueue ==
  ASSUME NEW q \in Seq(Packets), NEW m \in Packets
  PROVE  /\ \E i \in DOMAIN Append(q, m) : Append(q, m)[i] = m
         /\ \A x : (\E i \in DOMAIN q : q[i] = x) =>
                     \E i \in DOMAIN Append(q, m) : Append(q, m)[i] = x
         /\ \A x : q # <<>> /\ (\E i \in DOMAIN q : q[i] = x) =>
                     Head(q) = x \/ \E i \in DOMAIN Tail(q) : Tail(q)[i] = x
<1> DEFINE r == Append(q, m)
           s == Tail(q)
<1>1. /\ Len(q) \in Nat /\ DOMAIN q = 1 .. Len(q) /\ DOMAIN r = 1 .. Len(q) + 1
      /\ r[Len(q) + 1] = m /\ \A i \in 1 .. Len(q) : r[i] = q[i]
  OBVIOUS
<1>2. q # <<>> => /\ Len(q) > 0 /\ DOMAIN s = 1 .. Len(q) - 1 /\ Head(q) = q[1]
                  /\ \A i \in 1 .. Len(q) - 1 : s[i] = q[i + 1]
  OBVIOUS
<1> HIDE DEF r, s
<1>3. Len(q) + 1 \in DOMAIN r /\ \A i \in DOMAIN q : i \in DOMAIN r BY <1>1
<1>4. ASSUME NEW x, q # <<>>, NEW i \in DOMAIN q, q[i] = x
      PROVE  Head(q) = x \/ \E j \in DOMAIN s : s[j] = x
  <2>1. CASE i = 1 BY <1>2, <1>4, <2>1
  <2>2. CASE i # 1
    <3>1. i - 1 \in DOMAIN s /\ (i - 1) + 1 = i BY <1>1, <1>2, <1>4, <2>2
    <3>2. s[i - 1] = q[i] BY <1>2, <1>4, <3>1
    <3>3. QED BY <1>4, <3>1, <3>2
  <2>3. QED BY <2>1, <2>2
<1>5. QED BY <1>1, <1>3, <1>4 DEF r, s

LEMMA Contents ==
  ASSUME NEW s \in Seq(Nat), NEW u \in Seq(Nat), NEW n \in Nat
  PROVE  /\ ToSet(s) \subseteq ToSet(Append(s, n)) /\ n \in ToSet(Append(s, n))
         /\ ToSet(s) \subseteq ToSet(s \o u) /\ ToSet(u) \subseteq ToSet(s \o u)
<1>1. /\ Len(s) \in Nat /\ DOMAIN s = 1 .. Len(s)
      /\ DOMAIN Append(s, n) = 1 .. Len(s) + 1
      /\ Append(s, n)[Len(s) + 1] = n /\ \A i \in 1 .. Len(s) : Append(s, n)[i] = s[i]
  OBVIOUS
<1>2. Len(s) + 1 \in DOMAIN Append(s, n) /\ \A i \in DOMAIN s : i \in DOMAIN Append(s, n)
  BY <1>1
<1>3. ToSet(s) \subseteq ToSet(Append(s, n)) /\ n \in ToSet(Append(s, n))
  BY <1>1, <1>2 DEF ToSet
<1> DEFINE v == s \o u
<1>4. /\ Len(u) \in Nat /\ DOMAIN u = 1 .. Len(u) /\ DOMAIN v = 1 .. Len(s) + Len(u)
      /\ \A i \in 1 .. Len(s) : v[i] = s[i]
      /\ \A i \in 1 .. Len(u) : v[Len(s) + i] = u[i]
  OBVIOUS
<1> HIDE DEF v
<1>5. (\A i \in DOMAIN s : i \in DOMAIN v) /\ \A i \in DOMAIN u : Len(s) + i \in DOMAIN v
  BY <1>1, <1>4
<1>6. ToSet(s) \subseteq ToSet(v) /\ ToSet(u) \subseteq ToSet(v)
  BY <1>1, <1>4, <1>5 DEF ToSet
<1>7. QED BY <1>3, <1>6 DEF v

\* What is held where it was, or is moved on, stays held.
LEMMA HeldIf ==
  ASSUME NEW n, Held(n),
         dropped \subseteq dropped', emptied \subseteq emptied',
         (\E i \in DOMAIN queue : queue[i] = Record(n)) => Held(n)',
         (\E t \in Threads : pc[t] \in {"log", "print"} /\ packet[t] = Record(n)) => Held(n)',
         (\E h \in DOMAIN streams : n \in ToSet(streams[h].buffer)) => Held(n)',
         (\E p \in Paths : n \in ToSet(file[p])) => Held(n)'
  PROVE  Held(n)'
<1>1. CASE n \in dropped \cup emptied BY <1>1 DEF Held
<1>2. CASE Somewhere(n) BY <1>2 DEF Somewhere
<1>3. QED BY <1>1, <1>2 DEF Held

\* Appending to a file or to a buffer loses nothing, and emptying a buffer
\* into its file does not either.
LEMMA BufferKept ==
  ASSUME TypeOK, NEW h \in 1 .. Len(streams), NEW b, NEW o, Becomes(h, b, o),
         \/ file' = file /\ \E n \in Nat : b = Append(streams[h].buffer, n)
         \/ file' = Flushed(h) /\ b = <<>>,
         NEW n \in Nat
  PROVE  /\ (\E k \in DOMAIN streams : n \in ToSet(streams[k].buffer)) => Somewhere(n)'
         /\ (\E p \in Paths : n \in ToSet(file[p])) => Somewhere(n)'
<1>1. /\ DOMAIN streams = 1 .. Len(streams) /\ DOMAIN streams' = 1 .. Len(streams)
      /\ \A k \in 1 .. Len(streams) : streams[k].buffer \in Seq(Nat)
      /\ streams[h].path \in Paths /\ streams'[h].buffer = b
      /\ \A k \in 1 .. Len(streams) : k # h => streams'[k] = streams[k]
  BY Streams DEF Becomes
<1>2. \A p \in Paths : file[p] \in Seq(Nat) BY DEF TypeOK
<1>3. CASE file' = Flushed(h)
  <2>1. \A p \in Paths : file'[p] = IF p = streams[h].path
                                    THEN file[p] \o streams[h].buffer ELSE file[p]
    BY <1>3, FlushedIs
  <2>2. \A p \in Paths : ToSet(file[p]) \subseteq ToSet(file'[p])
    BY <1>1, <1>2, <2>1, Contents
  <2>3. ToSet(streams[h].buffer) \subseteq ToSet(file'[streams[h].path])
    BY <1>1, <1>2, <2>1, Contents
  <2>4. \A k \in 1 .. Len(streams) : n \in ToSet(streams[k].buffer) => Somewhere(n)'
    BY <1>1, <2>3 DEF Somewhere
  <2>5. QED BY <1>1, <2>2, <2>4 DEF Somewhere
<1>4. CASE file' = file /\ \E i \in Nat : b = Append(streams[h].buffer, i)
  <2>1. ToSet(streams[h].buffer) \subseteq ToSet(streams'[h].buffer)
    BY <1>1, <1>4, Contents
  <2>2. \A k \in 1 .. Len(streams) : n \in ToSet(streams[k].buffer) => Somewhere(n)'
    BY <1>1, <2>1 DEF Somewhere
  <2>3. QED BY <1>1, <1>4, <2>2 DEF Somewhere
<1>5. QED BY <1>3, <1>4

LEMMA ThreadHolds ==
  ASSUME Kept, NewFirst, NEW t \in Threads, LogThread(t),
         ~undefined', NEW n \in Nat, Held(n)
  PROVE  Held(n)'
<1>1. Does(t) BY ThreadDoes DEF Kept
<1>2. /\ TypeOK /\ queue \in Seq(Packets) /\ sent \in Nat /\ packet[t] \in Packets
      /\ file \in [Paths -> Seq(Nat)]
  BY DEF Kept, TypeOK
<1>4. CASE Receives(t)
  <2>1. /\ pc[t] = "receive" /\ queue # <<>> /\ queue' = Tail(queue) /\ Head(queue) \in Packets
        /\ packet'[t] = Head(queue) /\ UNCHANGED <<streams, file, dropped, emptied>>
        /\ \A u \in Threads \ {t} : pc'[u] = pc[u] /\ packet'[u] = packet[u]
    BY <1>2, <1>4 DEF Receives, Goes, Silent, history
  <2>2. Head(queue) = Record(n) => pc'[t] = "log"
    BY <1>4 DEF Receives, Goes, Record
  <2>3. (\E i \in DOMAIN queue : queue[i] = Record(n)) => Held(n)'
    <3>1. SUFFICES ASSUME \E i \in DOMAIN queue : queue[i] = Record(n) PROVE Held(n)'
      OBVIOUS
    <3>2. CASE Head(queue) = Record(n) BY <2>1, <2>2, <3>2 DEF Held, Somewhere
    <3>3. CASE \E i \in DOMAIN Tail(queue) : Tail(queue)[i] = Record(n)
      BY <2>1, <3>3 DEF Held, Somewhere
    <3>4. QED BY <1>2, <2>1, <3>1, <3>2, <3>3, InQueue
  <2>4. \A u \in Threads : pc[u] \in {"log", "print"} => pc'[u] = pc[u] /\ packet'[u] = packet[u]
    BY <2>1
  <2>5. QED BY <2>1, <2>3, <2>4, HeldIf DEF Held, Somewhere
<1>5. CASE Passes(t)
  <2>1. /\ UNCHANGED <<streams, file, queue, emptied>> /\ packet'[t] = packet[t]
        /\ \A u \in Threads \ {t} : pc'[u] = pc[u] /\ packet'[u] = packet[u]
        /\ dropped \subseteq dropped'
    BY <1>5 DEF Passes, Goes, Silent
  <2>2. pc[t] \in {"log", "print"} /\ packet[t] = Record(n) =>
          pc'[t] \in {"log", "print"} \/ n \in dropped'
    BY <1>5 DEF Passes, Goes, Record
  <2>3. \A u \in Threads : pc[u] \in {"log", "print"} /\ packet[u] = Record(n) =>
          n \in dropped' \/ (pc'[u] \in {"log", "print"} /\ packet'[u] = Record(n))
    BY <2>1, <2>2
  <2>4. QED BY <2>1, <2>3, HeldIf DEF Held, Somewhere
<1>6. CASE Announces(t)
  <2>1. /\ UNCHANGED <<streams, file, dropped, emptied>> /\ pc[t] = "announce"
        /\ \A u \in Threads \ {t} : pc'[u] = pc[u] /\ packet'[u] = packet[u]
        /\ queue' = Append(queue, Record(sent + 1)) /\ Record(sent + 1) \in Packets
    BY <1>2, <1>6, PacketTypes DEF Announces, Goes, Silent, history, Post
  <2>2. (\E i \in DOMAIN queue : queue[i] = Record(n)) =>
          \E i \in DOMAIN queue' : queue'[i] = Record(n)
    BY <1>2, <2>1, InQueue
  <2>3. \A u \in Threads : pc[u] \in {"log", "print"} => pc'[u] = pc[u] /\ packet'[u] = packet[u]
    BY <2>1
  <2>4. QED BY <2>1, <2>2, <2>3, HeldIf DEF Held, Somewhere
<1>7. ASSUME NEW i \in Nat, Prints(t, i) PROVE Held(n)'
  <2>1. /\ UNCHANGED <<file, queue, dropped, emptied>> /\ pc[t] \in {"print", "last"}
        /\ pc[t] = "print" => i = packet[t].id
        /\ \A u \in Threads \ {t} : pc'[u] = pc[u] /\ packet'[u] = packet[u]
        /\ log_file \in 1 .. Len(streams)
        /\ Becomes(log_file, Append(streams[log_file].buffer, i), TRUE)
    BY <1>7 DEF Prints, Goes, history
  <2>2. /\ (\E k \in DOMAIN streams : n \in ToSet(streams[k].buffer)) => Somewhere(n)'
        /\ (\E p \in Paths : n \in ToSet(file[p])) => Somewhere(n)'
    BY <1>2, <2>1, BufferKept
  <2>3. pc[t] \in {"log", "print"} /\ packet[t] = Record(n) => Somewhere(n)'
    <3>1. SUFFICES ASSUME pc[t] = "print", packet[t] = Record(n) PROVE Somewhere(n)'
      BY <2>1
    <3>2. i = n BY <2>1, <3>1 DEF Record
    <3>3. streams[log_file].buffer \in Seq(Nat) BY <1>2, <2>1, Streams
    <3>4. n \in ToSet(streams'[log_file].buffer)
      BY <2>1, <3>2, <3>3, Contents DEF Becomes
    <3>5. log_file \in DOMAIN streams' BY <2>1 DEF Becomes
    <3>6. QED BY <3>4, <3>5 DEF Somewhere
  <2>4. \A u \in Threads : pc[u] \in {"log", "print"} /\ packet[u] = Record(n) => Somewhere(n)'
    BY <2>1, <2>3 DEF Somewhere
  <2>5. QED BY <2>1, <2>2, <2>4, HeldIf DEF Held, Somewhere
<1>8. CASE Flushes(t) \/ Closes(t)
  <2>1. /\ UNCHANGED <<queue, dropped, emptied>> /\ pc[t] \notin {"log", "print"}
        /\ \A u \in Threads \ {t} : pc'[u] = pc[u] /\ packet'[u] = packet[u]
        /\ log_file \in 1 .. Len(streams) /\ file' = Flushed(log_file)
        /\ \E o : Becomes(log_file, <<>>, o)
    BY <1>8 DEF Flushes, Closes, Goes, history
  <2>2. /\ (\E k \in DOMAIN streams : n \in ToSet(streams[k].buffer)) => Somewhere(n)'
        /\ (\E p \in Paths : n \in ToSet(file[p])) => Somewhere(n)'
    BY <1>2, <2>1, BufferKept
  <2>3. \A u \in Threads : pc[u] \in {"log", "print"} => pc'[u] = pc[u] /\ packet'[u] = packet[u]
    BY <2>1
  <2>4. QED BY <2>1, <2>2, <2>3, HeldIf DEF Held, Somewhere
<1>9. CASE Clears(t)
  <2>1. /\ UNCHANGED <<streams, file, queue, dropped, emptied>> /\ pc[t] \notin {"log", "print"}
        /\ \A u \in Threads \ {t} : pc'[u] = pc[u] /\ packet'[u] = packet[u]
    BY <1>9 DEF Clears, Goes, history
  <2>2. \A u \in Threads : pc[u] \in {"log", "print"} => pc'[u] = pc[u] /\ packet'[u] = packet[u]
    BY <2>1
  <2>3. QED BY <2>1, <2>2, HeldIf DEF Held, Somewhere
<1>10. CASE Opens(t)
  <2>1. /\ UNCHANGED <<queue, dropped>> /\ pc[t] \in {"open", "reopen"}
        /\ \A u \in Threads \ {t} : pc'[u] = pc[u] /\ packet'[u] = packet[u]
        /\ emptied \subseteq emptied'
    BY <1>10 DEF Opens, Goes
  <2>2. packet[t].path \in Paths /\ (pc[t] = "open" => packet[t].new \in BOOLEAN)
    BY <1>2, <2>1, PacketTypes DEF Kept, Handling
  <2>3. PICK b \in BOOLEAN :
          /\ Open(packet[t].path, b)
          /\ b => (pc[t] = "open" /\ packet[t].new) \/ pc[t] = "reopen"
    BY <1>10, <2>2 DEF Opens
  <2>4. \/ /\ log_file' = Len(streams) + 1 /\ Len(streams') = Len(streams) + 1
           /\ \A h \in 1 .. Len(streams) : streams'[h] = streams[h]
           /\ file' = IF b THEN [file EXCEPT ![packet[t].path] = <<>>] ELSE file
        \/ log_file' = NULL /\ UNCHANGED <<streams, file>>
    BY <1>2, <2>2, <2>3, OpenTypes
  <2>5. FilesOK' BY <1>2, <2>2, <2>3, OpenTypes
  <2>6. (\E k \in DOMAIN streams : n \in ToSet(streams[k].buffer)) => Somewhere(n)'
    <3>1. CASE UNCHANGED streams BY <3>1 DEF Somewhere
    <3>2. CASE /\ Len(streams') = Len(streams) + 1
               /\ \A h \in 1 .. Len(streams) : streams'[h] = streams[h]
      <4>1. Len(streams) \in Nat /\ DOMAIN streams = 1 .. Len(streams)
            /\ DOMAIN streams' = 1 .. Len(streams')
        BY <1>2, <2>5, Streams DEF FilesOK
      <4>2. QED BY <3>2, <4>1 DEF Somewhere
    <3>3. QED BY <2>4, <3>1, <3>2
  <2>7. (\E p \in Paths : n \in ToSet(file[p])) => Held(n)'
    <3>1. CASE file' = file BY <3>1 DEF Held, Somewhere
    <3>2. CASE b /\ log_file' # NULL /\ file' = [file EXCEPT ![packet[t].path] = <<>>]
      <4>1. \A p \in Paths : p # packet[t].path => file'[p] = file[p] BY <1>2, <3>2
      <4>2. CASE pc[t] = "open"
        <5>1. \A p \in Paths : file[p] = <<>> BY <2>3, <3>2, <4>2 DEF NewFirst, Fresh
        <5>2. ToSet(<<>>) = {} BY DEF ToSet
        <5>3. QED BY <5>1, <5>2
      <4>3. CASE pc[t] = "reopen"
        <5>1. emptied' = emptied \cup ToSet(file[packet[t].path])
          BY <1>10, <3>2, <4>3 DEF Opens
        <5>2. QED BY <4>1, <5>1 DEF Held, Somewhere
      <4>4. QED BY <2>1, <4>2, <4>3
    <3>3. Len(streams) + 1 # NULL BY <1>2, Streams
    <3>4. QED BY <2>4, <3>1, <3>2, <3>3
  <2>8. \A u \in Threads : pc[u] \in {"log", "print"} => pc'[u] = pc[u] /\ packet'[u] = packet[u]
    BY <2>1
  <2>9. QED BY <2>1, <2>6, <2>7, <2>8, HeldIf DEF Held, Somewhere
<1>11. ~Misuses(t) BY <1>2 DEF Misuses
<1>12. QED BY <1>1, <1>4, <1>5, <1>6, <1>7, <1>8, <1>9, <1>10, <1>11 DEF Does

LEMMA OthersHold ==
  ASSUME Kept, Others, Inside, NEW n \in Nat
  PROVE  /\ Held(n) => Held(n)'
         /\ sent' # sent => sent' = sent + 1 /\ \A k \in {sent + 1} : Held(k)'
<1>1. /\ \A t \in Threads : pc'[t] = pc[t] \/ (pc[t] = "none" /\ pc'[t] = "receive")
      /\ \A t \in Threads : packet'[t] = packet[t]
      /\ UNCHANGED <<streams, file, dropped, emptied>>
  BY OthersDo DEF Kept
<1>2. /\ queue \in Seq(Packets) /\ sent \in Nat /\ sent + 1 \in Nat
      /\ Record(sent + 1) \in Packets
  BY Posted DEF Kept
<1>3. queue \in Seq(Packets) BY <1>2
<1>4. /\ \A x : (\E i \in DOMAIN queue : queue[i] = x) => \E i \in DOMAIN queue' : queue'[i] = x
      /\ sent' # sent =>
           sent' = sent + 1 /\ \E i \in DOMAIN queue' : queue'[i] = Record(sent + 1)
  <2>1. CASE Log
    <3> DEFINE m == Record(sent + 1)
    <3>1. queue' = Append(queue, m) /\ sent' = sent + 1 /\ m \in Packets
      BY <1>2, <2>1 DEF Log, Post
    <3> HIDE DEF m
    <3>2. /\ \A x : (\E i \in DOMAIN queue : queue[i] = x) =>
                     \E i \in DOMAIN queue' : queue'[i] = x
          /\ \E i \in DOMAIN queue' : queue'[i] = m
      BY <1>3, <3>1, InQueue
    <3>3. QED BY <3>1, <3>2 DEF m
  <2>2. CASE sent' = sent /\ \E m \in Packets : queue' = Append(queue, m)
    BY <1>2, <2>2, InQueue
  <2>3. CASE sent' = sent /\ queue' = queue BY <2>3
  <2>4. QED BY <2>1, <2>2, <2>3, Posted DEF Kept
<1>5. \A t \in Threads : pc[t] \in {"log", "print"} => pc'[t] = pc[t] /\ packet'[t] = packet[t]
  BY <1>1
<1>6. Held(n) => Held(n)'
  <2>1. SUFFICES ASSUME Held(n) PROVE Held(n)'
    OBVIOUS
  <2>2. QED BY <1>1, <1>4, <1>5, <2>1, HeldIf DEF Held, Somewhere
<1>7. \A k \in Nat : (\E i \in DOMAIN queue' : queue'[i] = Record(k)) => Held(k)'
  BY DEF Held, Somewhere
<1>8. QED BY <1>2, <1>4, <1>6, <1>7

LEMMA EndHolds ==
  ASSUME Kept, NEW n \in Nat, Held(n),
         ProcessEnds \/ (\E h \in DOMAIN streams : CloseAtExit(h)) \/ UNCHANGED vars
  PROVE  Held(n)'
<1>1. UNCHANGED <<queue, pc, packet, dropped, emptied>>
  BY DEF ProcessEnds, CloseAtExit, vars, history
<1>2. CASE UNCHANGED <<streams, file>> BY <1>1, <1>2 DEF Held, Somewhere
<1>3. ASSUME NEW h \in DOMAIN streams, CloseAtExit(h) PROVE Held(n)'
  <2>1. h \in 1 .. Len(streams) BY Streams DEF Kept
  <2>2. Becomes(h, <<>>, FALSE) /\ file' = Flushed(h)
    BY <1>3, <2>1, CloseDoes DEF Kept, CloseAtExit, Close
  <2>3. /\ (\E k \in DOMAIN streams : n \in ToSet(streams[k].buffer)) => Somewhere(n)'
        /\ (\E p \in Paths : n \in ToSet(file[p])) => Somewhere(n)'
    BY <2>1, <2>2, BufferKept DEF Kept
  <2>4. QED BY <1>1, <2>3, HeldIf DEF Held, Somewhere
<1>4. QED BY <1>2, <1>3 DEF ProcessEnds, vars

\* No record is lost half way: one that has been sent is in the queue, in the
\* hands of a thread about to print it, in a buffer or in a file, unless
\* log_log returned LOG_ERR_UNINIT or LOG_SETPATH emptied its file; also when
\* a thread is cancelled with a record in hand (log.c:55, 137-154), as long as
\* log threads take turns and nothing undefined has happened.
THEOREM NoRecordIsLost == Spec => []NothingLost
<1>1. Init => NothingLost BY DEF Init, NothingLost
<1>2. Kept /\ (raced \/ NewFirst) /\ NothingLost /\ [Next]_vars => NothingLost'
  <2> SUFFICES ASSUME Kept, raced \/ NewFirst, NothingLost, [Next]_vars, ~undefined', ~raced'
               PROVE  NothingLost'
    BY DEF NothingLost
  <2>0. ~raced /\ NewFirst BY RacedStays DEF Kept
  <2>1. sent \in Nat BY DEF Kept, TypeOK
  <2>2. ASSUME NEW t \in Threads, LogThread(t), Outside
        PROVE  /\ \A n \in Nat : Held(n) => Held(n)'
               /\ sent' # sent => sent' = sent + 1 /\ \A k \in {sent + 1} : Held(k)'
    <3>1. \A n \in Nat : Held(n) => Held(n)' BY <2>0, <2>2, ThreadHolds
    <3>2. sent' = sent \/ Announces(t)
      <4>1. Does(t) BY <2>2, ThreadDoes DEF Kept
      <4>2. QED
        BY <4>1 DEF Does, Receives, Passes, Prints, Flushes, Closes, Misuses, Clears, Opens
    <3>3. CASE Announces(t)
      <4>1. queue' = Append(queue, Record(sent + 1)) /\ sent' = sent + 1
        BY <3>3 DEF Announces, Post
      <4>2. queue \in Seq(Packets) /\ Record(sent + 1) \in Packets
        <5>1. queue \in Seq(Packets) BY DEF Kept, TypeOK
        <5>2. QED BY <2>1, <5>1, PacketTypes
      <4>3. \E i \in DOMAIN queue' : queue'[i] = Record(sent + 1) BY <4>1, <4>2, InQueue
      <4>4. \A k \in {sent + 1} : Held(k)' BY <4>3 DEF Held, Somewhere
      <4>5. QED BY <3>1, <4>1, <4>4
    <3>4. QED BY <3>1, <3>2, <3>3
  <2>3. ~undefined
    <3>1. CASE undefined /\ Running BY <3>1 DEF Running
    <3>2. CASE \E h \in DOMAIN streams : CloseAtExit(h) BY <3>2 DEF CloseAtExit
    <3>3. CASE UNCHANGED vars BY <3>3 DEF vars
    <3>4. QED BY <3>1, <3>2, <3>3 DEF Next
  <2>4. \A n \in 1 .. sent : Held(n) BY <2>0, <2>3 DEF NothingLost, Held
  <2>5. /\ \A n \in Nat : Held(n) => Held(n)'
        /\ sent' # sent => sent' = sent + 1 /\ \A k \in {sent + 1} : Held(k)'
    <3>1. CASE Others /\ Inside BY <3>1, <2>1, OthersHold
    <3>2. CASE ProcessEnds \/ (\E h \in DOMAIN streams : CloseAtExit(h)) \/ UNCHANGED vars
      <4>1. sent' = sent BY <3>2 DEF ProcessEnds, CloseAtExit, vars
      <4>2. QED BY <3>2, <4>1, EndHolds
    <3>3. QED BY <2>2, <3>1, <3>2 DEF Next
  <2>6. \A n \in 1 .. sent' : n \in Nat /\ (n \in 1 .. sent \/ (n = sent + 1 /\ sent' # sent))
    BY <2>1, <2>5
  <2>7. ASSUME NEW n \in 1 .. sent' PROVE Held(n)'
    <3>1. CASE n \in 1 .. sent BY <2>4, <2>5, <2>6, <3>1
    <3>2. CASE n = sent + 1 /\ sent' # sent BY <2>5, <3>2
    <3>3. QED BY <2>6, <3>1, <3>2
  <2>8. QED BY <2>7 DEF NothingLost, Held
<1>3. QED BY <1>1, <1>2, AlwaysFirst, PTL DEF Spec

-----------------------------------------------------------------------------
(* Records are dropped only until INIT comes.                              *)

InitIn(q) == \E i \in DOMAIN q : q[i].cmd = "INIT"

LEMMA InitInQueue ==
  ASSUME NEW q \in Seq(Packets), NEW m \in Packets
  PROVE  /\ InitIn(q) \/ m.cmd = "INIT" => InitIn(Append(q, m))
         /\ q # <<>> /\ InitIn(q) => Head(q).cmd = "INIT" \/ InitIn(Tail(q))
<1>1. InitIn(q) \/ m.cmd = "INIT" => InitIn(Append(q, m)) BY InQueue DEF InitIn
<1>2. ASSUME q # <<>>, NEW i \in DOMAIN q, q[i].cmd = "INIT"
      PROVE  Head(q).cmd = "INIT" \/ InitIn(Tail(q))
  <2> DEFINE x == q[i]
  <2>1. (\E k \in DOMAIN q : q[k] = x) /\ x.cmd = "INIT" BY <1>2
  <2> HIDE DEF x
  <2>2. Head(q) = x \/ \E k \in DOMAIN Tail(q) : Tail(q)[k] = x BY <1>2, <2>1, InQueue
  <2>3. QED BY <2>1, <2>2 DEF InitIn
<1>3. QED BY <1>1, <1>2 DEF InitIn

\* A thread waits for a packet as long as one of its predecessors has not ended.
Waiting ==
  \A t \in Threads : \A u \in 1 .. t - 1 :
    pc[u] # "gone" => pc[t] \in {"none", "receive"}

\* A thread without a file, or one that has a predecessor, has its INIT to come.
Coming ==
  /\ (\E t \in 1 .. cur - 1 : pc[t] # "gone") => InitComes
  /\ pc[cur] \in {"receive", "log", "setpath"} /\ log_file = NULL /\ ~failed => InitComes

\* The invariant, as long as no thread has overtaken its predecessor.
Orderly == overtaken \/ (~raced /\ Waiting /\ Coming)

LEMMA Ordered ==
  ASSUME Kept, Waiting, ~raced, NEW t \in Threads, LogThread(t), Meets(t), ~overtaken'
  PROVE  /\ Does(t) /\ pc[t] \notin {"none", "gone"}
         /\ \A u \in Threads \ {t} : pc'[u] = pc[u] /\ packet'[u] = packet[u]
         /\ \A u \in 1 .. t - 1 : pc[u] = "gone"
         /\ ~raced' /\ Waiting'
<1>1. \A u \in 1 .. t - 1 : pc[u] = "gone" BY DEF Meets
<1>2. Does(t) BY ThreadDoes DEF Kept
<1>3. pc[t] \notin {"none", "gone"} /\ \E l, m : Goes(t, l, m)
  BY <1>2
  DEF Does, Receives, Passes, Announces, Prints, Flushes, Closes, Misuses, Clears, Opens
<1>4. ASSUME NEW u \in Threads \ {t} PROVE ~Busy(u)
  <2>1. u \in Nat /\ t \in Nat /\ u >= 1 /\ t >= 1 /\ u # t
    BY LogFileAssumption DEF Threads
  <2>2. CASE u < t BY <1>1, <2>1, <2>2 DEF Busy
  <2>3. CASE u > t
    <3>1. t \in 1 .. u - 1 BY <2>1, <2>3
    <3>2. QED BY <1>3, <3>1 DEF Waiting, Busy
  <2>4. QED BY <2>1, <2>2, <2>3
<1>5. ~raced'
  <2>1. ~\E u \in Threads \ {t} : Busy(u) BY <1>4
  <2>2. QED BY <2>1 DEF Meets
<1>6. \A u \in Threads \ {t} : pc'[u] = pc[u] /\ packet'[u] = packet[u] BY <1>3 DEF Goes
<1>7. Waiting'
  <2>1. \A a \in Threads : \A u \in 1 .. a - 1 : u \in Threads /\ u # a
    BY LogFileAssumption DEF Threads
  <2>2. ASSUME NEW a \in Threads, NEW u \in 1 .. a - 1, pc'[u] # "gone"
        PROVE  pc'[a] \in {"none", "receive"}
    <3>1. CASE a = t BY <1>1, <1>6, <2>1, <2>2, <3>1
    <3>2. CASE a # t
      <4>1. pc[u] # "gone" BY <1>3, <1>6, <2>1, <2>2
      <4>2. QED BY <1>6, <3>2, <4>1 DEF Waiting
    <3>3. QED BY <3>1, <3>2
  <2>3. QED BY <2>2 DEF Waiting
<1>8. QED BY <1>1, <1>2, <1>3, <1>5, <1>6, <1>7

LEMMA ThreadComing ==
  ASSUME Kept, Waiting, Coming, ~raced, Running, NEW t \in Threads, LogThread(t), Outside,
         Meets(t), ~overtaken'
  PROVE  /\ ~raced' /\ Waiting' /\ Coming'
         /\ dropped' # dropped => InitComes \/ failed
<1>0. ~raced' /\ Waiting' BY Ordered
<1>1. /\ Does(t) /\ pc[t] \notin {"none", "gone"}
      /\ \A u \in Threads \ {t} : pc'[u] = pc[u] /\ packet'[u] = packet[u]
      /\ \A u \in 1 .. t - 1 : pc[u] = "gone"
  BY Ordered
<1>2. /\ cur' = cur /\ main' = main /\ heartbeat' = heartbeat /\ cancelled' = cancelled
  BY DEF Outside
<1>3. cur \in Threads /\ queue \in Seq(Packets) /\ sent \in Nat BY DEF Kept, TypeOK
<1>4. cur \in Nat /\ t \in Nat /\ t >= 1 /\ \A u \in 1 .. cur - 1 : u \in Threads /\ u # cur
  BY <1>3, LogFileAssumption DEF Threads
<1>5. t <= cur
  <2>1. ~(t > cur) BY <1>1 DEF Kept, TypeOK
  <2>2. QED BY <1>4, <2>1
<1>6. t # cur => t \in 1 .. cur - 1 /\ t \in cancelled
  <2>1. cancelled \in {1 .. cur - 1, 1 .. cur} BY DEF Kept, TypeOK
  <2>2. t # cur => t \in 1 .. cur - 1 /\ t \in 1 .. cur BY <1>4, <1>5
  <2>3. QED BY <2>1, <2>2
<1>7. t # cur => InitComes BY <1>1, <1>6 DEF Coming
<1>8. t = cur => \A u \in 1 .. cur - 1 : pc'[u] = "gone" BY <1>1, <1>4
<1>9. InUse BY DEF Kept, Handles, Running
<1>10. /\ Record(sent + 1) \in Packets BY <1>3, PacketTypes
<1>11. InitComes => InitComes' \/ (Receives(t) /\ Head(queue).cmd = "INIT")
  <2>1. CASE Receives(t)
    <3>1. queue # <<>> /\ queue' = Tail(queue) BY <2>1 DEF Receives
    <3>2. InitIn(queue) => Head(queue).cmd = "INIT" \/ InitIn(queue')
      BY <1>3, <1>10, <3>1, InitInQueue
    <3>3. QED BY <1>2, <2>1, <3>2 DEF InitComes, InitIn
  <2>2. CASE Announces(t)
    <3>1. queue' = Append(queue, Record(sent + 1)) BY <2>2 DEF Announces, Post
    <3>2. InitIn(queue) => InitIn(queue') BY <1>3, <1>10, <3>1, InitInQueue
    <3>3. QED BY <1>2, <3>2 DEF InitComes, InitIn
  <2>3. CASE queue' = queue BY <1>2, <2>3 DEF InitComes
  <2>4. QED
    BY <1>1, <2>1, <2>2, <2>3
    DEF Does, Passes, Prints, Flushes, Closes, Misuses, Clears, Opens
<1>12. Receives(t) => t = cur BY <1>6 DEF Receives
<1>13. CASE t # cur
  <2>1. InitComes' BY <1>7, <1>11, <1>12, <1>13
  <2>2. QED BY <1>0, <1>7, <1>13, <2>1 DEF Coming
<1>14. CASE t = cur
  <2>1. ~(\E u \in 1 .. cur' - 1 : pc'[u] # "gone") BY <1>2, <1>8, <1>14
  <2>2. pc'[cur] \in {"receive", "log", "setpath"} /\ log_file' = NULL /\ ~failed' => InitComes'
    <3> SUFFICES ASSUME pc'[cur] \in {"receive", "log", "setpath"}, log_file' = NULL, ~failed'
                 PROVE  InitComes'
      OBVIOUS
    <3>1. CASE Receives(t)
      <4>1. /\ pc[cur] = "receive" /\ log_file = NULL /\ failed' = failed
            /\ Head(queue).cmd = "INIT" => pc'[cur] = "init"
        BY <1>14, <3>1 DEF Receives, Goes, Silent, history
      <4>2. QED BY <1>11, <3>1, <4>1 DEF Coming
    <3>2. CASE Passes(t)
      <4>1. /\ pc[cur] = "log" /\ log_file = NULL /\ failed' = failed
        BY <1>14, <3>2 DEF Passes, Goes, Silent
      <4>2. InitComes BY <4>1 DEF Coming
      <4>3. QED BY <1>11, <1>14, <4>1, <4>2 DEF Receives
    <3>3. CASE Announces(t)
      BY <1>9, <1>14, <3>3 DEF Announces, Silent, InUse
    <3>4. CASE (\E n \in Nat : Prints(t, n)) \/ Flushes(t) \/ Closes(t)
      <4>1. log_file \in 1 .. Len(streams) /\ log_file' = log_file
        BY <3>4 DEF Prints, Flushes, Closes
      <4>2. QED BY <4>1, Streams DEF Kept
    <3>5. CASE Misuses(t)
      <4>1. pc[cur] = "setpath" /\ log_file = log_file' /\ log_file # NULL
        BY <1>14, <3>5 DEF Misuses, Goes, Silent
      <4>2. QED BY <4>1
    <3>6. CASE Clears(t) BY <1>14, <3>6 DEF Clears, Goes
    <3>7. CASE Opens(t)
      <4>1. \E p, b : Open(p, b) BY <3>7 DEF Opens
      <4>2. Len(streams) + 1 # NULL BY Streams DEF Kept
      <4>3. QED BY <4>1, <4>2 DEF Open
    <3>8. QED BY <1>1, <3>1, <3>2, <3>3, <3>4, <3>5, <3>6, <3>7 DEF Does
  <2>3. dropped' # dropped => InitComes \/ failed
    <3>1. dropped' # dropped => pc[t] = "log" /\ log_file = NULL
      BY <1>1
      DEF Does, Receives, Passes, Announces, Prints, Flushes, Closes, Misuses, Clears, Opens,
          history
    <3>2. QED BY <1>14, <3>1 DEF Coming
  <2>4. QED BY <1>0, <1>2, <2>1, <2>2, <2>3 DEF Coming
<1>15. QED BY <1>0, <1>13, <1>14

LEMMA OthersComing ==
  ASSUME Kept, Waiting, Coming, Others, Inside
  PROVE  Waiting' /\ Coming'
<1>1. /\ queue \in Seq(Packets) /\ sent \in Nat /\ sent + 1 \in Nat
      /\ Record(sent + 1) \in Packets /\ log_name \in Paths
  BY Posted DEF Kept
<1>2. log_file' = log_file /\ failed' = failed BY DEF Inside, history
<1>3. Waiting'
  <2>1. \A t \in Threads : pc'[t] = pc[t] \/ (pc[t] = "none" /\ pc'[t] = "receive")
    BY OthersDo DEF Kept
  <2>2. \A t \in Threads : \A u \in 1 .. t - 1 : u \in Threads
    BY LogFileAssumption DEF Threads
  <2>3. QED BY <2>1, <2>2 DEF Waiting
<1>4. CASE CreateLog BY <1>3, <1>4 DEF CreateLog, Coming, InitComes
<1>5. CASE InitializeNew \/ InitializeLog
  <2>1. PICK b \in BOOLEAN : queue' = Append(queue, InitLog(b, log_name))
    BY <1>5 DEF InitializeNew, InitializeLog, Post
  <2>2. InitLog(b, log_name) \in Packets /\ InitLog(b, log_name).cmd = "INIT"
    BY <1>1, PacketTypes DEF InitLog
  <2>3. InitIn(queue') BY <1>1, <2>1, <2>2, InitInQueue
  <2>4. InitComes' BY <2>3 DEF InitIn, InitComes
  <2>5. QED BY <1>3, <2>4 DEF Coming
<1>6. CASE ~CreateLog /\ ~InitializeNew /\ ~InitializeLog
  <2>1. UNCHANGED <<pc, cur>>
    BY <1>6
    DEF Others, SendRecord, SetPath, Reopen, Kill, Client, MissCheck, CancelLog,
        Reinitialized, MainExit, CancelTasks
  <2>2. (main = "init" => main' = "init") /\ (heartbeat = "init" => heartbeat' = "init")
    BY <1>6
    DEF Others, SendRecord, SetPath, Reopen, Kill, Client, MissCheck, CancelLog,
        Reinitialized, MainExit, CancelTasks
  <2>3. InitIn(queue) => InitIn(queue')
    <3>1. CASE Log BY <1>1, <3>1, InitInQueue DEF Log, Post
    <3>2. QED BY <1>1, <3>1, Posted, InitInQueue DEF Kept
  <2>4. InitComes => InitComes' BY <2>2, <2>3 DEF InitComes, InitIn
  <2>5. QED BY <1>2, <1>3, <2>1, <2>4 DEF Coming
<1>7. QED BY <1>4, <1>5, <1>6

\* As long as fopen does not fail and no log thread runs before its predecessor
\* has ended, records are dropped only until the task gets its INIT: a thread
\* that has only records to come writes them all, also one that the heartbeat
\* has created (log.c:137, main.c:267-275).
THEOREM DropsPrecedeInit == Spec => DroppedBeforeInit
<1> DEFINE Drops == dropped' # dropped => InitComes \/ failed \/ overtaken'
<1>1. Init => Orderly
  <2> SUFFICES ASSUME Init PROVE ~raced /\ Waiting /\ Coming
    BY DEF Orderly
  <2>1. \A t \in Threads : pc[t] \in {"none", "receive"} BY DEF Init
  <2>2. QED BY <2>1 DEF Init, Waiting, Coming, InitComes
<1>2. Kept /\ Orderly /\ [Next]_vars => Orderly' /\ [Drops]_vars
  <2> SUFFICES ASSUME Kept, Orderly, [Next]_vars, ~overtaken' PROVE Orderly' /\ Drops
    BY DEF Orderly
  <2>0. ~raced /\ Waiting /\ Coming BY RacedStays DEF Orderly, Kept
  <2>1. CASE Others /\ Inside
    <3>1. dropped' = dropped /\ raced' = raced BY <2>1 DEF Inside, history
    <3>2. QED BY <2>0, <2>1, <3>1, OthersComing DEF Orderly
  <2>2. CASE ProcessEnds \/ (\E h \in DOMAIN streams : CloseAtExit(h)) \/ UNCHANGED vars
    <3>1. UNCHANGED <<cur, pc, log_file, failed, main, heartbeat, queue, dropped, raced>>
      BY <2>2 DEF ProcessEnds, CloseAtExit, vars, history
    <3>2. QED BY <2>0, <3>1 DEF Orderly, Waiting, Coming, InitComes
  <2>3. ASSUME Running, NEW t \in Threads, LogThread(t), Outside, Meets(t)
        PROVE  Orderly' /\ Drops
    BY <2>0, <2>3, ThreadComing DEF Orderly
  <2>4. QED BY <2>1, <2>2, <2>3 DEF Next
<1>3. QED BY <1>1, <1>2, AlwaysKept, PTL DEF Spec, DroppedBeforeInit, Drops

=============================================================================
