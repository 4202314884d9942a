------------------------- MODULE LightSensorProofs --------------------------
(***************************************************************************)
(* Proofs about LightSensor, for any number of light threads, callback     *)
(* threads, commands and measurements.                                     *)
(***************************************************************************)
EXTENDS LightSensor, TLAPS

USE DEF LIGHT_REG_CTRL, LIGHT_REG_TIME, LIGHT_REG_INT, LIGHT_REG_ID, LIGHT_REG_DATA0L,
        LIGHT_REG_DATA0H, LIGHT_REG_DATA1L, LIGHT_REG_DATA1H

-----------------------------------------------------------------------------
(* Packets and bytes.                                                      *)

Reading == {"READREG", "WRITEIT", "ENABLEINT", "DISABLEINT", "READID"}
Writing == {"WRITEREG", "WRITEIT", "ENABLEINT", "DISABLEINT"}

LEMMA PacketFacts ==
  /\ \A p \in Packets :
       /\ p.cmd \in LightCommands
       /\ p.cmd = "READREG" => p.reg \in {LIGHT_REG_TIME, LIGHT_REG_DATA0L}
       /\ p.cmd = "WRITEREG" => p.reg \in Writable /\ p.val \in Values
       /\ p.cmd = "WRITEIT" => p.time \in 0 .. 3
  /\ NoPacket.cmd \notin LightCommands
BY LightAssumption DEF Packets, LightCommands, NoPacket

LEMMA Registered ==
  \A p \in Packets : p.cmd \in Reading \cup Writing => RegisterOf(p) \in Registers
BY PacketFacts DEF Reading, Writing, RegisterOf, Registers, Writable, Lows, Highs

LEMMA NumberIs == \A b \in Byte : Number(b) \in 0 .. 255
<1>1. \A n \in Nat : (16 * n + 1) % 256 \in 0 .. 255 OBVIOUS
<1>2. \A b \in Byte : b.reg \in Lows \cup Highs => b.val \in Nat
  BY DEF Byte, Writable, Lows, Highs, None
<1>3. \A b \in Byte : b.reg \notin Lows \cup Highs => b.val \in 0 .. 255 BY DEF Byte
<1>4. QED BY <1>1, <1>2, <1>3 DEF Number

\* What a handler writes is a byte, WRITEIT changes the lower two bits to what
\* is asked for, and WRITEREG writes what it is given.
LEMMA NewValueIs ==
  ASSUME NEW p \in Packets, p.cmd \in Writing, NEW b \in Byte
  PROVE  /\ NewValue(p, b) \in 0 .. 255
         /\ p.cmd = "WRITEIT" => NewValue(p, b) % 4 = p.time
         /\ p.cmd = "WRITEREG" => NewValue(p, b) = p.val
<1> DEFINE x == Number(b)
<1>1. x \in 0 .. 255 BY NumberIs
<1> HIDE DEF x
<1>2. CASE p.cmd = "WRITEREG"
  <2>1. p.val \in 0 .. 255 BY <1>2, PacketFacts, LightAssumption
  <2>2. NewValue(p, b) = p.val BY <1>2 DEF NewValue
  <2>3. QED BY <1>2, <2>1, <2>2
<1>3. CASE p.cmd = "WRITEIT"
  <2>1. p.time \in 0 .. 3 BY <1>3, PacketFacts
  <2>2. NewValue(p, b) = 4 * (x \div 4) + p.time BY <1>3 DEF NewValue, x
  <2>3. 4 * (x \div 4) + p.time \in 0 .. 255 BY <1>1, <2>1
  <2>4. (4 * (x \div 4) + p.time) % 4 = p.time BY <1>1, <2>1
  <2>5. QED BY <1>3, <2>2, <2>3, <2>4
<1>4. CASE p.cmd = "ENABLEINT"
  <2>1. NewValue(p, b) = x - 16 * ((x \div 16) % 4) + 16 BY <1>4 DEF NewValue, x
  <2>2. x - 16 * ((x \div 16) % 4) + 16 \in 0 .. 255 BY <1>1
  <2>3. QED BY <1>4, <2>1, <2>2
<1>5. CASE p.cmd = "DISABLEINT"
  <2>1. NewValue(p, b) = x - 16 * ((x \div 16) % 4) BY <1>5 DEF NewValue, x
  <2>2. x - 16 * ((x \div 16) % 4) \in 0 .. 255 BY <1>1
  <2>3. QED BY <1>5, <2>1, <2>2
<1>6. QED BY <1>2, <1>3, <1>4, <1>5 DEF Writing

LEMMA ByteReadIs ==
  ASSUME TypeOK, NEW ok \in BOOLEAN PROVE ByteRead(ok) \in Byte
<1>1. NoByte \in Byte BY DEF NoByte, Byte, None
<1>2. /\ selected \in Registers /\ reg \in [Writable -> 0 .. 255] /\ measured \in Nat
      /\ latched \in [Highs -> 0 .. measured]
  BY LightAssumption DEF TypeOK
<1>3. CASE selected \in Writable
  <2>1. Contents = reg[selected] BY <1>3 DEF Contents, Writable, Lows, Highs
  <2>2. Contents \in 0 .. 255 BY <1>2, <1>3, <2>1
  <2>3. [reg |-> selected, val |-> Contents] \in Byte BY <1>3, <2>2 DEF Byte
  <2>4. QED BY <1>1, <2>3 DEF ByteRead
<1>4. CASE selected = LIGHT_REG_ID
  <2>1. Contents = Identity BY <1>4 DEF Contents, Writable, Lows, Highs
  <2>2. Contents \in 0 .. 255 BY <2>1 DEF Identity
  <2>3. [reg |-> selected, val |-> Contents] \in Byte BY <1>4, <2>2 DEF Byte
  <2>4. QED BY <1>1, <2>3 DEF ByteRead
<1>5. CASE selected \in Lows \cup Highs
  <2>1. Contents \in Nat BY <1>2, <1>5 DEF Contents, Writable, Lows, Highs
  <2>2. [reg |-> selected, val |-> Contents] \in Byte BY <1>5, <2>1 DEF Byte
  <2>3. QED BY <1>1, <2>2 DEF ByteRead
<1>6. QED BY <1>2, <1>3, <1>4, <1>5 DEF Registers

-----------------------------------------------------------------------------
(* Types.                                                                  *)

Label == {"none", "start", "receive", "init", "address", "getlux", "select", "read", "log",
          "respond", "select_write", "write", "gone"}

Shapes ==
  /\ pc \in [Threads -> Label] /\ packet \in [Threads -> Packets \cup {NoPacket}]
  /\ contexts \in Nat

\* The packet in the hands of a thread is one its handler is for.
Handling ==
  \A t \in Threads :
    /\ pc[t] \in {"select", "read", "log", "select_write", "write"} =>
         packet[t] \in Packets /\ Valid(packet[t])
    /\ pc[t] \in {"select", "read", "log"} => packet[t].cmd \in Reading
    /\ pc[t] \in {"select_write", "write"} => packet[t].cmd \in Writing
    /\ pc[t] = "address" => i2c # 0

\* A callback has read one byte for every register it has gone through.
CallbackOK(c) ==
  /\ c = [at |-> c.at, n |-> c.n, bytes |-> c.bytes, calm |-> c.calm]
  /\ c.at \in {"idle", "select", "read", "store"} /\ c.calm \in BOOLEAN
  /\ c.n \in 1 .. 5 /\ (c.at = "store" <=> c.n = 5)
  /\ DOMAIN c.bytes = 1 .. c.n - 1
  /\ \A i \in 1 .. c.n - 1 : c.bytes[i] \in Byte

Sampling ==
  /\ callback = [k \in Callbacks |-> callback[k]]
  /\ \A k \in Callbacks : CallbackOK(callback[k])

Typed == TypeOK /\ Shapes /\ Handling /\ Sampling

\* A thread goes on at l with packet p and byte b.
Goes(t, l, p, b) ==
  /\ pc' \in [Threads -> Label] /\ pc'[t] = l /\ l # "none" /\ pc[t] # "none"
  /\ packet' \in [Threads -> Packets \cup {NoPacket}] /\ packet'[t] = p
  /\ data' \in [Threads -> Byte] /\ data'[t] = b
  /\ \A u \in Threads \ {t} : pc'[u] = pc[u] /\ packet'[u] = packet[u] /\ data'[u] = data[u]
  /\ UNCHANGED <<cancelled, cur>>

LEMMA GotoDoes ==
  ASSUME Typed, NEW t \in Threads, pc[t] # "none", NEW l \in Label \ {"none"}, Goto(t, l),
         UNCHANGED <<packet, data, cancelled, cur>>
  PROVE  Goes(t, l, packet[t], data[t])
BY DEF Typed, TypeOK, Shapes, Goto, Goes

LEMMA ReturnDoes ==
  ASSUME Typed, NEW t \in Threads, pc[t] # "none", Return(t)
  PROVE  Goes(t, "receive", NoPacket, NoByte) /\ commands' = commands
<1>1. NoByte \in Byte BY DEF NoByte, Byte, None
<1>2. QED BY <1>1 DEF Typed, TypeOK, Shapes, Return, Goto, Goes, Label

\* The kinds of steps a thread makes.
Quiet == UNCHANGED <<bus, chip, history>>

Starts(t) ==
  /\ pc[t] = "start" /\ Goes(t, "receive", NoPacket, NoByte) /\ Quiet
  /\ armed' = armed + 1 /\ UNCHANGED <<callback, commands>>
Takes(t) ==
  /\ pc[t] = "receive" /\ commands < MaxCommands /\ commands' = commands + 1
  /\ \E p \in Packets :
       \/ p.cmd = "INIT" /\ Goes(t, "init", p, data[t])
       \/ p.cmd = "GETLUX" /\ Goes(t, "getlux", p, data[t])
       \/ p.cmd = "WRITEREG" /\ Goes(t, "select_write", p, data[t])
       \/ p.cmd = "KILL" /\ Goes(t, "gone", p, data[t])
       \/ ~Valid(p) /\ Goes(t, "receive", p, data[t])
       \/ p.cmd \in Reading /\ Valid(p) /\ Goes(t, "select", p, data[t])
  /\ Quiet /\ UNCHANGED <<callback, armed>>
Passes(t) ==
  /\ \/ pc[t] = "getlux" /\ Goes(t, "receive", NoPacket, NoByte)
     \/ /\ pc[t] = "log" /\ packet[t].cmd \in {"READREG", "READID"}
        /\ Goes(t, "respond", packet[t], data[t])
     \/ /\ pc[t] = "log" /\ packet[t].cmd \notin {"READREG", "READID"}
        /\ Goes(t, "select_write", packet[t], data[t])
     \/ pc[t] = "respond" /\ Goes(t, "receive", NoPacket, NoByte)
     \/ /\ pc[t] \in {"receive", "getlux", "log", "respond"} /\ t \in cancelled
        /\ Goes(t, "gone", packet[t], data[t])
  /\ Quiet /\ UNCHANGED <<callback, armed, commands>>
Connects(t) ==
  /\ \/ /\ pc[t] = "init" /\ Goes(t, "address", packet[t], data[t])
        /\ contexts' = contexts + 1 /\ i2c' = contexts + 1 /\ UNCHANGED addressed
     \/ /\ pc[t] = "address" /\ Goes(t, "receive", NoPacket, NoByte)
        /\ addressed' = addressed \cup {i2c} /\ UNCHANGED <<i2c, contexts>>
  /\ callback' = Disturbing(0) /\ UNCHANGED <<failures, chip, history, armed, commands>>
Selects(t) ==
  /\ \E ok \in BOOLEAN :
       /\ Transfer(ok) /\ Select(RegisterOf(packet[t]), ok)
       /\ \/ pc[t] = "select" /\ Goes(t, "read", packet[t], data[t]) /\ UNCHANGED history
          \/ /\ pc[t] = "select_write" /\ Goes(t, "write", packet[t], data[t])
             /\ asked' = asked \cup TimesOf(packet[t])
             /\ missed' = (missed \/ (BusOk /\ ~ok))
  /\ callback' = Disturbing(0)
  /\ UNCHANGED <<i2c, addressed, contexts, reg, measured, latched, armed, commands>>
Reads(t) ==
  /\ \E ok \in BOOLEAN :
       /\ Transfer(ok) /\ Latch(ok)
       /\ pc[t] = "read" /\ Goes(t, "log", packet[t], ByteRead(ok))
  /\ callback' = Disturbing(0)
  /\ UNCHANGED <<i2c, addressed, contexts, selected, reg, measured, history, armed, commands>>
Writes(t) ==
  /\ pc[t] = "write" /\ Goes(t, "receive", NoPacket, NoByte)
  /\ \E ok \in BOOLEAN :
       /\ Transfer(ok)
       /\ reg' = IF ok /\ selected \in Writable
                 THEN [reg EXCEPT ![selected] = NewValue(packet[t], data[t])] ELSE reg
  /\ callback' = Disturbing(0)
  /\ UNCHANGED <<i2c, addressed, contexts, selected, measured, latched, history, armed, commands>>

Does(t) ==
  \/ Starts(t) \/ Takes(t) \/ Passes(t) \/ Connects(t) \/ Selects(t) \/ Reads(t) \/ Writes(t)

LEMMA TaskDoes ==
  ASSUME Typed, NEW t \in Threads, LightTask(t)
  PROVE  Does(t)
<1> USE DEF At
<1>1. CASE Start(t) BY <1>1, ReturnDoes DEF Start, Starts, Does, Quiet
<1>2. CASE Receive(t)
  <2>1. PICK p \in Packets :
          /\ packet' = [packet EXCEPT ![t] = p]
          /\ Goto(t, CASE p.cmd = "INIT"     -> "init"
                       [] p.cmd = "GETLUX"   -> "getlux"
                       [] p.cmd = "WRITEREG" -> "select_write"
                       [] p.cmd = "KILL"     -> "gone"
                       [] ~Valid(p)          -> "receive"
                       [] OTHER              -> "select")
    BY <1>2 DEF Receive
  <2>2. ASSUME NEW l \in Label \ {"none"}, Goto(t, l) PROVE Goes(t, l, p, data[t])
    BY <1>2, <2>1, <2>2 DEF Typed, TypeOK, Shapes, Goto, Goes, Receive
  <2>3. p.cmd \in LightCommands BY PacketFacts
  <2>4. \/ p.cmd = "INIT" /\ Goto(t, "init")
        \/ p.cmd = "GETLUX" /\ Goto(t, "getlux")
        \/ p.cmd = "WRITEREG" /\ Goto(t, "select_write")
        \/ p.cmd = "KILL" /\ Goto(t, "gone")
        \/ ~Valid(p) /\ Goto(t, "receive")
        \/ p.cmd \in Reading /\ Valid(p) /\ Goto(t, "select")
    BY <2>1, <2>3 DEF LightCommands, Reading, Valid
  <2>5. \/ p.cmd = "INIT" /\ Goes(t, "init", p, data[t])
        \/ p.cmd = "GETLUX" /\ Goes(t, "getlux", p, data[t])
        \/ p.cmd = "WRITEREG" /\ Goes(t, "select_write", p, data[t])
        \/ p.cmd = "KILL" /\ Goes(t, "gone", p, data[t])
        \/ ~Valid(p) /\ Goes(t, "receive", p, data[t])
        \/ p.cmd \in Reading /\ Valid(p) /\ Goes(t, "select", p, data[t])
    BY <2>2, <2>4 DEF Label
  <2>6. QED BY <1>2, <2>5 DEF Receive, Takes, Does, Quiet, sampling
<1>3. CASE InitContext(t)
  <2>1. Goes(t, "address", packet[t], data[t])
    BY <1>3, GotoDoes DEF InitContext, Same, Label
  <2>2. QED BY <1>3, <2>1 DEF InitContext, TaskDisturbs, Connects, Does, Same
<1>4. CASE InitAddress(t)
  BY <1>4, ReturnDoes DEF InitAddress, TaskDisturbs, Connects, Does
<1>5. CASE GetLux(t) \/ Respond(t)
  BY <1>5, ReturnDoes DEF GetLux, Respond, Passes, Does, Quiet, sampling
<1>6. CASE SelectRead(t)
  <2>1. Goes(t, "read", packet[t], data[t])
    BY <1>6, GotoDoes DEF SelectRead, Same, Label
  <2>2. QED BY <1>6, <2>1 DEF SelectRead, TaskDisturbs, Selects, Does, Same
<1>7. CASE ReadByte(t)
  <2>1. PICK ok \in BOOLEAN :
          Transfer(ok) /\ data' = [data EXCEPT ![t] = ByteRead(ok)] /\ Latch(ok)
    BY <1>7 DEF ReadByte
  <2>2. ByteRead(ok) \in Byte BY ByteReadIs DEF Typed
  <2>3. Goes(t, "log", packet[t], ByteRead(ok))
    BY <1>7, <2>1, <2>2 DEF Typed, TypeOK, Shapes, Goto, Goes, ReadByte, Label
  <2>4. QED BY <1>7, <2>1, <2>3 DEF ReadByte, TaskDisturbs, Reads, Does
<1>8. CASE ReadLog(t)
  <2>1. Goto(t, IF packet[t].cmd \in {"READREG", "READID"} THEN "respond" ELSE "select_write")
        /\ UNCHANGED <<packet, data, cancelled, cur>>
    BY <1>8 DEF ReadLog, Same
  <2>2. packet[t].cmd \in {"READREG", "READID"} => Goes(t, "respond", packet[t], data[t])
    BY <1>8, <2>1, GotoDoes DEF Label, ReadLog
  <2>3. packet[t].cmd \notin {"READREG", "READID"} => Goes(t, "select_write", packet[t], data[t])
    BY <1>8, <2>1, GotoDoes DEF Label, ReadLog
  <2>4. QED BY <1>8, <2>2, <2>3 DEF ReadLog, Passes, Does, Quiet, sampling, Same
<1>9. CASE SelectWrite(t)
  <2>1. Goes(t, "write", packet[t], data[t])
    BY <1>9, GotoDoes DEF SelectWrite, Same, Label
  <2>2. QED BY <1>9, <2>1 DEF SelectWrite, TaskDisturbs, Selects, Does, Same
<1>10. CASE WriteByte(t)
  BY <1>10, ReturnDoes DEF WriteByte, TaskDisturbs, Writes, Does
<1>11. CASE Cancelled(t)
  <2>1. Goes(t, "gone", packet[t], data[t])
    BY <1>11, GotoDoes DEF Cancelled, Same, Label
  <2>2. QED BY <1>11, <2>1 DEF Cancelled, Passes, Does, Quiet, sampling, Same
<1>12. QED
  BY <1>1, <1>2, <1>3, <1>4, <1>5, <1>6, <1>7, <1>8, <1>9, <1>10, <1>11 DEF LightTask

LEMMA Calmed ==
  ASSUME NEW A, NEW N, NEW B, NEW c \in [at : A, n : N, bytes : B, calm : BOOLEAN]
  PROVE  [c EXCEPT !.calm = FALSE] = [at |-> c.at, n |-> c.n, bytes |-> c.bytes, calm |-> FALSE]
<1> DEFINE S == [at : A, n : N, bytes : B, calm : BOOLEAN]
           d == [c EXCEPT !.calm = FALSE]
<1>1. d \in S /\ d.at = c.at /\ d.n = c.n /\ d.bytes = c.bytes /\ d.calm = FALSE OBVIOUS
<1>2. \A e \in S : e = [at |-> e.at, n |-> e.n, bytes |-> e.bytes, calm |-> e.calm] OBVIOUS
<1> HIDE DEF S, d
<1>3. d = [at |-> d.at, n |-> d.n, bytes |-> d.bytes, calm |-> d.calm] BY <1>1, <1>2
<1>4. QED BY <1>1, <1>3 DEF d

\* A callback that another thread has disturbed is as it was, but not calm.
LEMMA DisturbingIs ==
  ASSUME Sampling, NEW k
  PROVE  /\ Disturbing(k) = [j \in Callbacks |-> Disturbing(k)[j]]
         /\ \A j \in Callbacks :
              /\ j = k => Disturbing(k)[j] = callback[j]
              /\ j # k => Disturbing(k)[j] = [at |-> callback[j].at, n |-> callback[j].n,
                                              bytes |-> callback[j].bytes, calm |-> FALSE]
<1>1. \A j \in Callbacks :
        callback[j] = [at |-> callback[j].at, n |-> callback[j].n,
                       bytes |-> callback[j].bytes, calm |-> callback[j].calm]
  BY DEF Sampling, CallbackOK
<1>2. ASSUME NEW j \in Callbacks
      PROVE  [callback[j] EXCEPT !.calm = FALSE] =
               [at |-> callback[j].at, n |-> callback[j].n,
                bytes |-> callback[j].bytes, calm |-> FALSE]
  <2> DEFINE c == callback[j]
  <2>1. c = [at |-> c.at, n |-> c.n, bytes |-> c.bytes, calm |-> c.calm] BY <1>1
  <2> HIDE DEF c
  <2>2. c.calm \in BOOLEAN BY DEF Sampling, CallbackOK, c
  <2> DEFINE A == {c.at}
             N == {c.n}
             B == {c.bytes}
  <2>3. c \in [at : A, n : N, bytes : B, calm : BOOLEAN] BY <2>1, <2>2
  <2> HIDE DEF A, N, B
  <2>4. [c EXCEPT !.calm = FALSE] = [at |-> c.at, n |-> c.n, bytes |-> c.bytes, calm |-> FALSE]
    BY <2>3, Calmed
  <2>5. QED BY <2>4 DEF c
<1>3. QED BY <1>2 DEF Disturbing

LEMMA Disturbed ==
  ASSUME Sampling, callback' = Disturbing(0)
  PROVE  /\ Sampling'
         /\ \A k \in Callbacks : ~callback'[k].calm
<1>1. /\ callback' = [j \in Callbacks |-> callback'[j]]
      /\ \A j \in Callbacks :
           callback'[j] = [at |-> callback[j].at, n |-> callback[j].n,
                           bytes |-> callback[j].bytes, calm |-> FALSE]
  BY DisturbingIs, LightAssumption
<1>2. ASSUME NEW j \in Callbacks PROVE CallbackOK(callback'[j]) /\ ~callback'[j].calm
  <2> DEFINE c == callback[j]
             d == callback'[j]
  <2>0. d = [at |-> c.at, n |-> c.n, bytes |-> c.bytes, calm |-> FALSE] BY <1>1
  <2>2. CallbackOK(c) BY DEF Sampling
  <2> HIDE DEF c, d
  <2>1. /\ d.at = c.at /\ d.n = c.n /\ d.bytes = c.bytes /\ d.calm = FALSE
        /\ d = [at |-> d.at, n |-> d.n, bytes |-> d.bytes, calm |-> d.calm]
    BY <2>0
  <2>3. CallbackOK(d) /\ ~d.calm BY <2>1, <2>2 DEF CallbackOK
  <2>4. QED BY <2>3 DEF d
<1>3. QED BY <1>1, <1>2 DEF Sampling

LEMMA Latched ==
  ASSUME TypeOK, NEW ok \in BOOLEAN, Latch(ok), measured' = measured
  PROVE  /\ latched' \in [Highs -> 0 .. measured]
         /\ \A r \in Highs : latched'[r] = IF ok /\ selected \in Lows /\ r = selected + 1
                                           THEN measured ELSE latched[r]
<1>1. latched \in [Highs -> 0 .. measured] /\ measured \in 0 .. measured
  BY LightAssumption DEF TypeOK
<1>2. \A r \in Lows : r + 1 \in Highs BY DEF Lows, Highs
<1>3. QED BY <1>1, <1>2 DEF Latch

LEMMA Transferred ==
  ASSUME TypeOK, NEW ok \in BOOLEAN, Transfer(ok)
  PROVE  failures' \in 0 .. MaxFailures /\ (ok => BusOk)
BY LightAssumption DEF TypeOK, Transfer

LEMMA TaskTypes ==
  ASSUME Typed, NEW t \in Threads, LightTask(t)
  PROVE  Typed'
<1>1. Does(t) BY TaskDoes
<1>2. /\ i2c \in 0 .. contexts /\ addressed \subseteq 1 .. contexts /\ contexts \in Nat
      /\ selected \in Registers
      /\ reg \in [Writable -> 0 .. 255]
      /\ measured \in 0 .. MaxMeasured /\ latched \in [Highs -> 0 .. measured]
      /\ pc \in [Threads -> Label] /\ packet \in [Threads -> Packets \cup {NoPacket}]
      /\ data \in [Threads -> Byte]
      /\ cur \in Threads /\ \A u \in Threads : pc[u] = "none" <=> u > cur
      /\ armed \in Nat /\ commands \in 0 .. MaxCommands
      /\ failures \in 0 .. MaxFailures /\ missed \in BOOLEAN
      /\ Sampling
  BY DEF Typed, TypeOK, Shapes
<1>3. PICK l, p, b : Goes(t, l, p, b)
  BY <1>1 DEF Does, Starts, Takes, Passes, Connects, Selects, Reads, Writes
<1>4. /\ pc' \in [Threads -> Label] /\ packet' \in [Threads -> Packets \cup {NoPacket}]
      /\ data' \in [Threads -> Byte]
      /\ cur' \in Threads /\ \A u \in Threads : pc'[u] = "none" <=> u > cur'
  BY <1>2, <1>3 DEF Goes
<1>5. i2c' \in 0 .. contexts' /\ addressed' \subseteq 1 .. contexts' /\ contexts' \in Nat
      /\ (i2c' = i2c \/ i2c' # 0)
  <2>1. CASE Connects(t)
    <3>1. pc[t] = "address" => i2c # 0 BY DEF Typed, Handling
    <3>2. CASE i2c' = contexts + 1 /\ contexts' = contexts + 1 /\ addressed' = addressed
      BY <1>2, <3>2
    <3>3. CASE UNCHANGED <<i2c, contexts>> /\ addressed' = addressed \cup {i2c} /\ i2c # 0
      BY <1>2, <3>3
    <3>4. QED BY <2>1, <3>1, <3>2, <3>3 DEF Connects
  <2>2. CASE UNCHANGED <<i2c, addressed, contexts>> BY <1>2, <2>2
  <2>3. QED
    BY <1>1, <2>1, <2>2 DEF Does, Starts, Takes, Passes, Selects, Reads, Writes, Quiet, bus
<1>6. /\ selected' \in Registers /\ reg' \in [Writable -> 0 .. 255]
      /\ measured' \in 0 .. MaxMeasured /\ latched' \in [Highs -> 0 .. measured']
  <2>1. CASE Selects(t)
    <3>1. RegisterOf(packet[t]) \in Registers
      BY <2>1, Registered DEF Selects, Typed, Handling
    <3>2. QED BY <1>2, <2>1, <3>1 DEF Selects, Select
  <2>2. CASE Reads(t)
    <3>1. latched' \in [Highs -> 0 .. measured] BY <2>2, Latched DEF Reads, Typed
    <3>2. QED BY <1>2, <2>2, <3>1 DEF Reads
  <2>3. CASE Writes(t)
    <3>1. NewValue(packet[t], data[t]) \in 0 .. 255
      BY <1>2, <2>3, NewValueIs DEF Writes, Typed, Handling
    <3>2. QED BY <1>2, <2>3, <3>1 DEF Writes
  <2>4. CASE UNCHANGED chip BY <1>2, <2>4 DEF chip
  <2>5. QED
    BY <1>1, <2>1, <2>2, <2>3, <2>4 DEF Does, Starts, Takes, Passes, Connects, Quiet
<1>7. failures' \in 0 .. MaxFailures
  <2>1. CASE failures' = failures BY <1>2, <2>1
  <2>2. CASE \E ok \in BOOLEAN : Transfer(ok) BY <2>2, Transferred DEF Typed
  <2>3. QED
    BY <1>1, <2>1, <2>2 DEF Does, Starts, Takes, Passes, Connects, Selects, Reads, Writes, Quiet, bus
<1>8. missed' \in BOOLEAN
  <2>1. CASE missed' = missed BY <1>2, <2>1
  <2>2. CASE \E ok \in BOOLEAN : missed' = (missed \/ (BusOk /\ ~ok)) BY <2>2
  <2>3. QED
    BY <1>1, <2>1, <2>2
    DEF Does, Starts, Takes, Passes, Connects, Selects, Reads, Writes, Quiet, history
<1>9. armed' \in Nat /\ commands' \in 0 .. MaxCommands
  BY <1>1, <1>2, LightAssumption
  DEF Does, Starts, Takes, Passes, Connects, Selects, Reads, Writes
<1>10. Sampling'
  <2>1. CASE callback' = Disturbing(0) BY <1>2, <2>1, Disturbed
  <2>2. CASE callback' = callback BY <1>2, <2>2 DEF Sampling, CallbackOK
  <2>3. QED
    BY <1>1, <2>1, <2>2 DEF Does, Starts, Takes, Passes, Connects, Selects, Reads, Writes
<1>11. Handling'
  <2>1. \A u \in Threads \ {t} : pc'[u] = pc[u] /\ packet'[u] = packet[u]
    BY <1>3 DEF Goes
  <2>2. /\ pc'[t] \in {"select", "read", "log", "select_write", "write"} =>
             packet'[t] \in Packets /\ Valid(packet'[t])
        /\ pc'[t] \in {"select", "read", "log"} => packet'[t].cmd \in Reading
        /\ pc'[t] \in {"select_write", "write"} => packet'[t].cmd \in Writing
        /\ pc'[t] = "address" => i2c' # 0
    <3>1. CASE Takes(t)
      BY <3>1, PacketFacts DEF Takes, Goes, Valid, Writing
    <3>2. CASE ~Takes(t)
      <4>1. CASE Connects(t)
        <5>1. contexts + 1 # 0 BY <1>2
        <5>2. QED BY <4>1, <5>1 DEF Connects, Goes
      <4>2. CASE Passes(t)
        <5>1. pc[t] = "log" /\ packet[t].cmd \notin {"READREG", "READID"} =>
                packet[t].cmd \in Writing
          BY DEF Typed, Handling, Reading, Writing
        <5>2. QED BY <4>2, <5>1 DEF Passes, Goes, Typed, Handling
      <4>3. CASE Starts(t) \/ Selects(t) \/ Reads(t) \/ Writes(t)
        BY <4>3 DEF Starts, Selects, Reads, Writes, Goes, Typed, Handling
      <4>4. QED BY <1>1, <3>2, <4>1, <4>2, <4>3 DEF Does
    <3>3. QED BY <3>1, <3>2
  <2>3. ASSUME NEW u \in Threads \ {t} PROVE pc[u] = "address" => i2c' # 0
    BY <1>5 DEF Typed, Handling
  <2>4. QED BY <2>1, <2>2, <2>3 DEF Typed, Handling, Valid
<1>12. TypeOK' /\ Shapes'
  <2>1. \A k \in Callbacks : \A i \in DOMAIN callback'[k].bytes : callback'[k].bytes[i] \in Byte
    BY <1>10 DEF Sampling, CallbackOK
  <2>2. QED BY <1>4, <1>5, <1>6, <1>7, <1>8, <1>9, <2>1 DEF TypeOK, Shapes
<1>13. QED BY <1>10, <1>11, <1>12 DEF Typed

\* Callback k goes on as c; the others stay, or are disturbed.
Moves(k, c) ==
  /\ callback' = [j \in Callbacks |-> callback'[j]]
  /\ callback'[k] = c
  /\ \A j \in Callbacks \ {k} :
       \/ callback'[j] = callback[j]
       \/ callback'[j] = [at |-> callback[j].at, n |-> callback[j].n,
                          bytes |-> callback[j].bytes, calm |-> FALSE]

LEMMA MovesKeeps ==
  ASSUME Sampling, NEW k \in Callbacks, NEW c, Moves(k, c), CallbackOK(c)
  PROVE  Sampling'
<1>1. ASSUME NEW j \in Callbacks \ {k} PROVE CallbackOK(callback'[j])
  <2> DEFINE d == callback[j]
             e == callback'[j]
  <2>1. CallbackOK(d) BY DEF Sampling
  <2>2. e = d \/ e = [at |-> d.at, n |-> d.n, bytes |-> d.bytes, calm |-> FALSE]
    BY DEF Moves
  <2> HIDE DEF d, e
  <2>3. ASSUME e = [at |-> d.at, n |-> d.n, bytes |-> d.bytes, calm |-> FALSE]
        PROVE  CallbackOK(e)
    <3>1. /\ e.at = d.at /\ e.n = d.n /\ e.bytes = d.bytes /\ e.calm = FALSE
          /\ e = [at |-> e.at, n |-> e.n, bytes |-> e.bytes, calm |-> e.calm]
      BY <2>3
    <3>2. QED BY <2>1, <3>1 DEF CallbackOK
  <2>4. CallbackOK(e) BY <2>1, <2>2, <2>3
  <2>5. QED BY <2>4 DEF e
<1>2. QED BY <1>1 DEF Sampling, Moves

\* Callback k goes on as c, and the others have been disturbed.
LEMMA DisturbsOthers ==
  ASSUME Sampling, NEW k \in Callbacks, NEW c, callback' = [Disturbing(k) EXCEPT ![k] = c]
  PROVE  Moves(k, c) /\ \A j \in Callbacks \ {k} : ~callback'[j].calm
<1>1. Disturbing(k) = [j \in Callbacks |-> Disturbing(k)[j]] BY DisturbingIs
<1>2. /\ callback' = [j \in Callbacks |-> callback'[j]] /\ callback'[k] = c
      /\ \A j \in Callbacks \ {k} : callback'[j] = Disturbing(k)[j]
  BY <1>1
<1>3. \A j \in Callbacks \ {k} :
        callback'[j] = [at |-> callback[j].at, n |-> callback[j].n,
                        bytes |-> callback[j].bytes, calm |-> FALSE]
  BY <1>2, DisturbingIs
<1>4. ASSUME NEW j \in Callbacks \ {k} PROVE ~callback'[j].calm
  <2> DEFINE e == callback'[j]
             d == callback[j]
  <2>1. e = [at |-> d.at, n |-> d.n, bytes |-> d.bytes, calm |-> FALSE] BY <1>3
  <2> HIDE DEF d, e
  <2>2. ~e.calm BY <2>1
  <2>3. QED BY <2>2 DEF e
<1>5. QED BY <1>2, <1>3, <1>4 DEF Moves

LEMMA SelectDoes ==
  ASSUME Sampling, NEW k \in Callbacks, CheckSelect(k)
  PROVE  /\ callback[k].at = "select" /\ callback[k].n \in 1 .. 4
         /\ \A j \in Callbacks \ {k} : ~callback'[j].calm
         /\ \E ok \in BOOLEAN :
              /\ Transfer(ok) /\ Select(CheckReads[callback[k].n], ok)
              /\ Moves(k, [at |-> "read", n |-> callback[k].n, bytes |-> callback[k].bytes,
                           calm |-> callback[k].calm /\ ok])
<1> DEFINE c == callback[k]
<1>1. CallbackOK(c) /\ c.at = "select" BY DEF Sampling, CheckSelect
<1>2. Disturbing(k)[k] = c BY DisturbingIs
<1>3. PICK ok \in BOOLEAN :
        /\ Transfer(ok) /\ Select(CheckReads[c.n], ok)
        /\ callback' = [Disturbing(k) EXCEPT ![k] =
             [at |-> "read", n |-> Disturbing(k)[k].n, bytes |-> Disturbing(k)[k].bytes,
              calm |-> Disturbing(k)[k].calm /\ ok]]
  BY DEF CheckSelect
<1> DEFINE r == [at |-> "read", n |-> c.n, bytes |-> c.bytes, calm |-> c.calm /\ ok]
<1>4. callback' = [Disturbing(k) EXCEPT ![k] = r] BY <1>2, <1>3
<1> HIDE DEF r
<1>5. Moves(k, r) /\ \A j \in Callbacks \ {k} : ~callback'[j].calm BY <1>4, DisturbsOthers
<1> HIDE DEF c
<1>6. c.n \in 1 .. 4 BY <1>1 DEF CallbackOK
<1>7. QED BY <1>1, <1>3, <1>5, <1>6 DEF r, c

LEMMA ReadDoes ==
  ASSUME Sampling, NEW k \in Callbacks, CheckRead(k)
  PROVE  /\ callback[k].at = "read" /\ callback[k].n \in 1 .. 4
         /\ \A j \in Callbacks \ {k} : ~callback'[j].calm
         /\ \E ok \in BOOLEAN :
              /\ Transfer(ok) /\ Latch(ok)
              /\ Moves(k, [at |-> IF callback[k].n = 4 THEN "store" ELSE "select",
                           n |-> callback[k].n + 1,
                           bytes |-> [i \in 1 .. callback[k].n |->
                                        IF i = callback[k].n THEN ByteRead(ok)
                                        ELSE callback[k].bytes[i]],
                           calm |-> callback[k].calm /\ ok])
<1> DEFINE c == callback[k]
<1>1. CallbackOK(c) /\ c.at = "read" BY DEF Sampling, CheckRead
<1>2. Disturbing(k)[k] = c BY DisturbingIs
<1>3. PICK ok \in BOOLEAN :
        /\ Transfer(ok) /\ Latch(ok)
        /\ callback' = [Disturbing(k) EXCEPT ![k] =
             [at |-> IF c.n = 4 THEN "store" ELSE "select", n |-> c.n + 1,
              bytes |-> [i \in 1 .. c.n |-> IF i = c.n THEN ByteRead(ok)
                                            ELSE Disturbing(k)[k].bytes[i]],
              calm |-> Disturbing(k)[k].calm /\ ok]]
  BY DEF CheckRead
<1> DEFINE r == [at |-> IF c.n = 4 THEN "store" ELSE "select", n |-> c.n + 1,
                 bytes |-> [i \in 1 .. c.n |-> IF i = c.n THEN ByteRead(ok) ELSE c.bytes[i]],
                 calm |-> c.calm /\ ok]
<1>4. callback' = [Disturbing(k) EXCEPT ![k] = r] BY <1>2, <1>3
<1> HIDE DEF r
<1>5. Moves(k, r) /\ \A j \in Callbacks \ {k} : ~callback'[j].calm BY <1>4, DisturbsOthers
<1> HIDE DEF c
<1>6. c.n \in 1 .. 4 BY <1>1 DEF CallbackOK
<1>7. QED BY <1>1, <1>3, <1>5, <1>6 DEF r, c

LEMMA CallbackTypes ==
  ASSUME Typed, NEW k \in Callbacks,
         Expire(k) \/ CheckSelect(k) \/ CheckRead(k) \/ CheckStore(k)
  PROVE  Typed'
<1> DEFINE c == callback[k]
<1>1. CallbackOK(c) /\ Sampling BY DEF Typed, Sampling
<1>2. Sampling' /\ armed' \in Nat
  <2>1. armed \in Nat BY DEF Typed, TypeOK
  <2>2. CASE Expire(k)
    <3> DEFINE r == [at |-> "select", n |-> 1, bytes |-> <<>>, calm |-> BusOk]
    <3>1. Moves(k, r) BY <1>1, <2>2 DEF Expire, Moves, Sampling
    <3>2. DOMAIN <<>> = 1 .. 0 OBVIOUS
    <3>3. CallbackOK(r) BY <3>2 DEF CallbackOK, BusOk
    <3>4. armed' \in Nat BY <2>1, <2>2 DEF Expire
    <3>5. QED BY <1>1, <3>1, <3>3, <3>4, MovesKeeps
  <2>3. CASE CheckSelect(k)
    <3>1. PICK ok \in BOOLEAN :
            Moves(k, [at |-> "read", n |-> c.n, bytes |-> c.bytes, calm |-> c.calm /\ ok])
      BY <1>1, <2>3, SelectDoes
    <3> DEFINE r == [at |-> "read", n |-> c.n, bytes |-> c.bytes, calm |-> c.calm /\ ok]
    <3>2. Moves(k, r) /\ c.n \in 1 .. 4 BY <1>1, <2>3, <3>1, SelectDoes
    <3> HIDE DEF c
    <3>3. CallbackOK(r) BY <1>1, <3>2 DEF CallbackOK
    <3>4. armed' = armed BY <2>3 DEF CheckSelect
    <3>5. QED BY <1>1, <2>1, <3>2, <3>3, <3>4, MovesKeeps
  <2>4. CASE CheckRead(k)
    <3>1. PICK ok \in BOOLEAN :
            Moves(k, [at |-> IF c.n = 4 THEN "store" ELSE "select", n |-> c.n + 1,
                      bytes |-> [i \in 1 .. c.n |-> IF i = c.n THEN ByteRead(ok) ELSE c.bytes[i]],
                      calm |-> c.calm /\ ok])
      BY <1>1, <2>4, ReadDoes
    <3> DEFINE b == [i \in 1 .. c.n |-> IF i = c.n THEN ByteRead(ok) ELSE c.bytes[i]]
               r == [at |-> IF c.n = 4 THEN "store" ELSE "select", n |-> c.n + 1,
                     bytes |-> b, calm |-> c.calm /\ ok]
    <3>2. Moves(k, r) /\ c.n \in 1 .. 4 BY <1>1, <2>4, <3>1, ReadDoes
    <3>3. ByteRead(ok) \in Byte BY ByteReadIs DEF Typed
    <3> HIDE DEF c
    <3>4. DOMAIN b = 1 .. c.n /\ \A i \in 1 .. c.n : b[i] \in Byte
      BY <1>1, <3>2, <3>3 DEF CallbackOK
    <3> HIDE DEF b
    <3>5. CallbackOK(r) BY <1>1, <3>2, <3>4 DEF CallbackOK
    <3>6. armed' = armed BY <2>4 DEF CheckRead
    <3> HIDE DEF r
    <3>7. QED BY <1>1, <2>1, <3>2, <3>5, <3>6, MovesKeeps
  <2>5. CASE CheckStore(k)
    <3>1. Moves(k, Idle) BY <1>1, <2>5 DEF CheckStore, Moves, Sampling
    <3>2. DOMAIN <<>> = 1 .. 0 OBVIOUS
    <3>3. CallbackOK(Idle) BY <3>2 DEF CallbackOK, Idle
    <3>4. armed' \in Nat BY <2>1, <2>5 DEF CheckStore
    <3>5. QED BY <1>1, <3>1, <3>3, <3>4, MovesKeeps
  <2>6. QED BY <2>2, <2>3, <2>4, <2>5
<1>3. selected' \in Registers
  <2>1. selected \in Registers BY DEF Typed, TypeOK
  <2>2. \A n \in 1 .. 4 : CheckReads[n] \in Registers
    BY DEF CheckReads, Registers, Lows, Highs
  <2>3. CheckSelect(k) => CheckReads[callback[k].n] \in Registers
    BY <1>1, <2>2, SelectDoes
  <2>4. QED BY <2>1, <2>3 DEF Expire, CheckSelect, CheckRead, CheckStore, Select, chip
<1>4. /\ reg' = reg /\ measured' = measured
      /\ UNCHANGED <<i2c, addressed, contexts, task, history>>
  BY DEF Expire, CheckSelect, CheckRead, CheckStore, chip, bus
<1>5. failures' \in 0 .. MaxFailures
  <2>1. CASE failures' = failures BY <2>1 DEF Typed, TypeOK
  <2>2. CASE \E ok \in BOOLEAN : Transfer(ok) BY <2>2, Transferred DEF Typed
  <2>3. QED BY <2>1, <2>2 DEF Expire, CheckSelect, CheckRead, CheckStore, bus
<1>6. latched' \in [Highs -> 0 .. measured]
  <2>1. CASE CheckRead(k) BY <1>4, <2>1, Latched DEF CheckRead, Typed
  <2>2. CASE latched' = latched BY <2>2 DEF Typed, TypeOK
  <2>3. QED BY <2>1, <2>2 DEF Expire, CheckSelect, CheckStore, chip
<1>7. \A j \in Callbacks : \A i \in DOMAIN callback'[j].bytes : callback'[j].bytes[i] \in Byte
  BY <1>2 DEF Sampling, CallbackOK
<1>8. QED
  BY <1>2, <1>3, <1>4, <1>5, <1>6, <1>7
  DEF Typed, TypeOK, Shapes, Handling, task, history, Valid

LEMMA OtherTypes ==
  ASSUME Typed, Measure \/ Restart \/ UNCHANGED vars
  PROVE  Typed'
<1>1. Sampling' BY DEF Measure, Restart, vars, sampling, Typed, Sampling, CallbackOK
<1>2. \A k \in Callbacks : \A i \in DOMAIN callback'[k].bytes : callback'[k].bytes[i] \in Byte
  BY <1>1 DEF Sampling, CallbackOK
<1>3. CASE Measure
  <2>1. /\ measured' \in 0 .. MaxMeasured /\ latched' \in [Highs -> 0 .. measured']
        /\ UNCHANGED <<selected, reg, bus, task, sampling, history>>
    BY <1>3, LightAssumption DEF Measure, Typed, TypeOK
  <2>2. QED
    BY <1>1, <1>2, <2>1
    DEF Typed, TypeOK, Shapes, Handling, bus, task, sampling, history, Valid
<1>4. CASE Restart
  <2>1. cur \in Threads /\ MaxThreads \in Nat BY LightAssumption DEF Typed, TypeOK
  <2>2. cur + 1 \in Threads /\ cur' = cur + 1 /\ pc' = [pc EXCEPT ![cur + 1] = "start"]
    BY <1>4, <2>1 DEF Restart, Threads, Goto
  <2>3. pc \in [Threads -> Label] /\ \A t \in Threads : pc[t] = "none" <=> t > cur
    BY DEF Typed, TypeOK, Shapes
  <2>4. \A t \in Threads : t \in Nat /\ (t # cur + 1 => (t > cur <=> t > cur + 1))
    BY <2>1 DEF Threads
  <2>5. ~(cur + 1 > cur + 1) BY <2>1 DEF Threads
  <2>6. pc' \in [Threads -> Label] /\ pc'[cur + 1] = "start"
        /\ \A t \in Threads : t # cur + 1 => pc'[t] = pc[t]
    BY <2>2, <2>3 DEF Label
  <2>7. \A t \in Threads : pc'[t] = "none" <=> t > cur'
    BY <2>2, <2>3, <2>4, <2>5, <2>6
  <2>8. UNCHANGED <<packet, data, commands, bus, chip, sampling, history>> BY <1>4 DEF Restart
  <2>9. Handling'
    <3>1. \A t \in Threads : pc'[t] = pc[t] \/ pc'[t] = "start" BY <2>6
    <3>2. QED BY <2>8, <3>1 DEF Typed, Handling, Valid, bus
  <2>10. QED
    BY <1>1, <1>2, <2>2, <2>6, <2>7, <2>8, <2>9
    DEF Typed, TypeOK, Shapes, bus, chip, sampling, history
<1>5. CASE UNCHANGED vars
  BY <1>1, <1>2, <1>5
  DEF vars, Typed, TypeOK, Shapes, Handling, bus, chip, task, sampling, history, Valid
<1>6. QED BY <1>3, <1>4, <1>5

LEMMA TypesKept == Typed /\ [Next]_vars => Typed'
BY TaskTypes, CallbackTypes, OtherTypes DEF Next

LEMMA InitTypes == Init => Typed
<1> SUFFICES ASSUME Init PROVE Typed
  OBVIOUS
<1>1. 1 \in Threads BY LightAssumption DEF Threads
<1>2. reg \in [Writable -> 0 .. 255]
  BY DEF Init, Writable, PowerUp, AtReset
<1>3. NoByte \in Byte BY DEF NoByte, Byte, None
<1>4. DOMAIN <<>> = 1 .. 0 OBVIOUS
<1>5. CallbackOK(Idle) BY <1>4 DEF CallbackOK, Idle
<1>6. Sampling BY <1>5 DEF Init, Sampling
<1>7. \A t \in Threads : pc[t] = "none" <=> t > 1 BY <1>1 DEF Init, Threads
<1>8. Shapes /\ Handling BY DEF Init, Shapes, Handling, Label
<1>9. latched \in [Highs -> 0 .. measured] /\ measured \in 0 .. MaxMeasured
  BY LightAssumption DEF Init
<1>10. commands \in 0 .. MaxCommands /\ failures \in 0 .. MaxFailures
  BY LightAssumption DEF Init
<1>11. missed \in BOOLEAN BY DEF Init
<1>12. \A k \in Callbacks : \A i \in DOMAIN callback[k].bytes : callback[k].bytes[i] \in Byte
  BY <1>6 DEF Sampling, CallbackOK
<1>13. TypeOK
  BY <1>1, <1>2, <1>3, <1>7, <1>9, <1>10, <1>11, <1>12 DEF Init, TypeOK, Registers, Writable
<1>14. QED BY <1>6, <1>8, <1>13 DEF Typed

LEMMA AlwaysTyped == Spec => []Typed
BY InitTypes, TypesKept, PTL DEF Spec

\* The registers hold bytes, the latched high bytes belong to measurements
\* that have been made, only created threads run, and what a callback has
\* read are bytes of the sensor, whatever the callbacks and the threads of a
\* replaced task do to each other's transfers.
THEOREM LightTypeCorrect == Spec => []TypeOK
BY AlwaysTyped, PTL DEF Typed

-----------------------------------------------------------------------------
(* What the registers hold while there is one thread.                      *)

\* Between the two transfers of a write only callbacks select registers.
Aimed ==
  pc[1] = "write" =>
    /\ BusOk => selected \in {RegisterOf(packet[1])} \cup Lows \cup Highs
    /\ TimesOf(packet[1]) \subseteq asked

Honest == cur = 1 /\ ~missed => reg[LIGHT_REG_TIME] % 4 \in asked /\ Aimed

LEMMA OnlyFirst ==
  ASSUME Typed, cur = 1, NEW t \in Threads, pc[t] # "none" PROVE t = 1
<1>1. \A u \in Threads : u \in Nat /\ u >= 1 BY LightAssumption DEF Threads
<1>2. ~(t > cur) BY DEF Typed, TypeOK
<1>3. QED BY <1>1, <1>2

\* The only thread writes to the register its command is meant for, or to none
\* that can be written.
LEMMA WriteHits ==
  ASSUME Typed, Honest, cur = 1, ~missed, Writes(1)
  PROVE  /\ packet[1] \in Packets /\ packet[1].cmd \in Writing /\ Valid(packet[1])
         /\ data[1] \in Byte
         /\ \A r \in Writable :
              \/ reg'[r] = reg[r]
              \/ reg'[r] = NewValue(packet[1], data[1]) /\ MeantFor(packet[1]) = r
<1> DEFINE v == NewValue(packet[1], data[1])
<1>1. 1 \in Threads BY LightAssumption DEF Threads
<1>2. /\ packet[1] \in Packets /\ packet[1].cmd \in Writing /\ Valid(packet[1])
      /\ data[1] \in Byte /\ reg \in [Writable -> 0 .. 255]
  BY <1>1 DEF Writes, Typed, TypeOK, Handling
<1>3. BusOk /\ selected \in Writable => selected = RegisterOf(packet[1])
  BY DEF Writes, Honest, Aimed, Writable, Lows, Highs
<1>4. RegisterOf(packet[1]) = MeantFor(packet[1])
  BY <1>2 DEF RegisterOf, MeantFor, Writing
<1> HIDE DEF v
<1>5. PICK ok \in BOOLEAN :
        /\ Transfer(ok)
        /\ reg' = IF ok /\ selected \in Writable THEN [reg EXCEPT ![selected] = v] ELSE reg
  BY DEF Writes, v
<1>6. ok => BusOk BY <1>5, Transferred DEF Typed
<1>7. ASSUME NEW r \in Writable PROVE reg'[r] = reg[r] \/ (reg'[r] = v /\ MeantFor(packet[1]) = r)
  <2>1. CASE ok /\ selected \in Writable
    <3>1. selected = MeantFor(packet[1]) BY <1>3, <1>4, <1>6, <2>1
    <3>2. reg' = [reg EXCEPT ![selected] = v] BY <1>5, <2>1
    <3>3. QED BY <1>2, <2>1, <3>1, <3>2
  <2>2. CASE ~(ok /\ selected \in Writable)
    <3>1. reg' = reg BY <1>5, <2>2
    <3>2. QED BY <3>1
  <2>3. QED BY <2>1, <2>2
<1>8. QED BY <1>2, <1>7 DEF v

\* Only a write changes a register.
LEMMA OnlyWrites ==
  ASSUME Typed, NEW t \in Threads, Does(t), ~Writes(t)
  PROVE  reg' = reg
BY DEF Does, Starts, Takes, Passes, Connects, Selects, Reads, Quiet, chip

LEMMA HonestStep == Typed /\ Honest /\ [Next]_vars => Honest'
<1> SUFFICES ASSUME Typed, Honest, [Next]_vars, cur' = 1, ~missed'
             PROVE  reg'[LIGHT_REG_TIME] % 4 \in asked' /\ Aimed'
  BY DEF Honest
<1>1. cur \in Threads /\ 1 \in Threads /\ \A t \in Threads : t \in Nat /\ t >= 1
  BY LightAssumption DEF Typed, TypeOK, Threads
<1>2. cur = 1 /\ ~missed => reg[LIGHT_REG_TIME] % 4 \in asked /\ Aimed
  BY DEF Honest
<1>3. ASSUME NEW t \in Threads, LightTask(t)
      PROVE  reg'[LIGHT_REG_TIME] % 4 \in asked' /\ Aimed'
  <2>1. Does(t) BY <1>3, TaskDoes
  <2>2. cur = 1 /\ pc[t] # "none" /\ \E l, p, b : Goes(t, l, p, b)
    BY <2>1 DEF Does, Starts, Takes, Passes, Connects, Selects, Reads, Writes, Goes
  <2>3. t = 1 BY <2>2, OnlyFirst
  <2>4. ~missed /\ asked \subseteq asked'
    <3>1. asked \subseteq asked'
      BY <2>1 DEF Does, Starts, Takes, Passes, Connects, Selects, Reads, Writes, Quiet, history
    <3>2. ASSUME Selects(t) PROVE ~missed
      <4>1. PICK ok \in BOOLEAN : missed' = missed \/ missed' = (missed \/ (BusOk /\ ~ok))
        BY <3>2 DEF Selects, history
      <4>2. QED BY <4>1
    <3>3. ASSUME ~Selects(t) PROVE ~missed
      <4>1. missed' = missed
        BY <2>1, <3>3 DEF Does, Starts, Takes, Passes, Connects, Reads, Writes, Quiet, history
      <4>2. QED BY <4>1
    <3>4. QED BY <3>1, <3>2, <3>3
  <2>5. CASE Writes(t)
    <3> DEFINE v == NewValue(packet[1], data[1])
    <3>1. /\ packet[1] \in Packets /\ packet[1].cmd \in Writing /\ Valid(packet[1])
          /\ data[1] \in Byte
          /\ reg'[LIGHT_REG_TIME] = reg[LIGHT_REG_TIME]
             \/ (reg'[LIGHT_REG_TIME] = v /\ MeantFor(packet[1]) = LIGHT_REG_TIME)
      BY <2>2, <2>3, <2>4, <2>5, WriteHits DEF Writable
    <3>2. TimesOf(packet[1]) \subseteq asked
      BY <1>2, <2>2, <2>3, <2>4, <2>5 DEF Writes, Aimed
    <3>3. /\ packet[1].cmd = "WRITEIT" => v % 4 = packet[1].time
          /\ packet[1].cmd = "WRITEREG" => v = packet[1].val
      BY <3>1, NewValueIs
    <3> HIDE DEF v
    <3>4. MeantFor(packet[1]) = LIGHT_REG_TIME => v % 4 \in TimesOf(packet[1])
      <4>1. CASE packet[1].cmd = "WRITEIT"
        <5>1. packet[1].time \in 0 .. 3 /\ packet[1].time <= 2
          BY <3>1, <4>1, PacketFacts DEF Valid
        <5>2. TimesOf(packet[1]) = {packet[1].time} \cap 0 .. 2 BY <4>1 DEF TimesOf
        <5>3. packet[1].time \in 0 .. 2 BY <5>1
        <5>4. QED BY <3>3, <4>1, <5>2, <5>3
      <4>2. CASE packet[1].cmd = "WRITEREG"
        <5>1. MeantFor(packet[1]) = packet[1].reg BY <4>2 DEF MeantFor
        <5>2. packet[1].reg = LIGHT_REG_TIME => TimesOf(packet[1]) = {packet[1].val % 4}
          BY <4>2 DEF TimesOf
        <5>3. QED BY <3>3, <4>2, <5>1, <5>2
      <4>3. CASE packet[1].cmd \notin {"WRITEIT", "WRITEREG"}
        BY <4>3 DEF MeantFor
      <4>4. QED BY <4>1, <4>2, <4>3
    <3>5. asked' = asked /\ pc'[1] # "write" BY <2>3, <2>5 DEF Writes, Goes, history
    <3>6. QED BY <1>2, <2>2, <2>4, <3>1, <3>2, <3>4, <3>5 DEF Aimed
  <2>6. CASE Selects(t)
    <3>1. PICK ok \in BOOLEAN :
            /\ Transfer(ok) /\ Select(RegisterOf(packet[t]), ok)
            /\ \/ pc[t] = "select" /\ Goes(t, "read", packet[t], data[t]) /\ UNCHANGED history
               \/ /\ pc[t] = "select_write" /\ Goes(t, "write", packet[t], data[t])
                  /\ asked' = asked \cup TimesOf(packet[t])
                  /\ missed' = (missed \/ (BusOk /\ ~ok))
      BY <2>6 DEF Selects
    <3>2. reg' = reg /\ BusOk' = BusOk /\ packet'[1] = packet[1]
      BY <2>3, <2>6, <3>1 DEF Selects, Goes, BusOk
    <3>3. pc'[1] = "write" => /\ TimesOf(packet[1]) \subseteq asked'
                              /\ BusOk => selected' = RegisterOf(packet[1])
      BY <2>3, <3>1 DEF Goes, Select
    <3>4. Aimed' BY <3>2, <3>3 DEF Aimed, RegisterOf, TimesOf
    <3>5. QED BY <1>2, <2>2, <2>4, <3>2, <3>4
  <2>7. CASE ~Writes(t) /\ ~Selects(t)
    <3>1. reg' = reg BY <2>1, <2>7, OnlyWrites
    <3>2. pc'[1] # "write"
      BY <2>1, <2>3, <2>7 DEF Does, Starts, Takes, Passes, Connects, Reads, Goes
    <3>3. QED BY <1>2, <2>2, <2>4, <3>1, <3>2 DEF Aimed
  <2>8. QED BY <2>5, <2>6, <2>7
<1>4. ASSUME NEW k \in Callbacks, Expire(k) \/ CheckSelect(k) \/ CheckRead(k) \/ CheckStore(k)
      PROVE  reg'[LIGHT_REG_TIME] % 4 \in asked' /\ Aimed'
  <2>1. UNCHANGED <<reg, i2c, addressed, task, history>>
    BY <1>4 DEF Expire, CheckSelect, CheckRead, CheckStore, chip, bus
  <2>2. selected' = selected \/ selected' \in Lows \cup Highs
    <3>1. CASE CheckSelect(k)
      <4>1. callback[k].n \in 1 .. 4 BY <3>1, SelectDoes DEF Typed
      <4>2. \A n \in 1 .. 4 : CheckReads[n] \in Lows \cup Highs
        BY DEF CheckReads, Lows, Highs
      <4>3. QED BY <3>1, <4>1, <4>2 DEF CheckSelect, Select
    <3>2. QED BY <1>4, <3>1 DEF Expire, CheckRead, CheckStore, chip
  <2>3. Aimed => Aimed' BY <2>1, <2>2 DEF Aimed, BusOk, RegisterOf, TimesOf, task, history
  <2>4. QED BY <1>2, <2>1, <2>3 DEF task, history
<1>5. CASE Measure \/ UNCHANGED vars
  <2>1. UNCHANGED <<reg, selected, bus, task, history>>
    BY <1>5 DEF Measure, vars, chip
  <2>2. Aimed => Aimed' BY <2>1 DEF Aimed, BusOk, RegisterOf, TimesOf, bus, task, history
  <2>3. QED BY <1>2, <2>1, <2>2 DEF task, history
<1>6. ~Restart BY <1>1 DEF Restart
<1>7. QED BY <1>3, <1>4, <1>5, <1>6 DEF Next

LEMMA AlwaysHonest == Spec => []Honest
<1>1. Init => Honest
  <2> SUFFICES ASSUME Init PROVE Honest
    OBVIOUS
  <2>1. pc[1] # "write" BY LightAssumption DEF Init, Threads
  <2>2. reg[LIGHT_REG_TIME] = 2 BY DEF Init, Writable, AtReset
  <2>3. reg[LIGHT_REG_TIME] % 4 = 2 BY <2>2
  <2>4. QED BY <2>1, <2>3 DEF Init, Honest, Aimed, AtReset
<1>2. QED BY <1>1, HonestStep, AlwaysTyped, PTL DEF Spec

\* With one light thread the integration time is one that was asked for or
\* the one at reset, unless the selection of a register to write to fails: no
\* callback between the two transfers of a read or a write, and no byte of
\* another register or of a failed read, changes it (light.c:145-149, 276-287).
THEOREM TimeIsHonest == Spec => []TimeHonest
<1>1. Honest => TimeHonest BY DEF Honest, TimeHonest
<1>2. QED BY <1>1, AlwaysHonest, PTL

\* Under the same conditions no stray write changes a register, to zero or to
\* anything else: what changes it is a command that is meant for it, and
\* LIGHT_WRITEREG writes the byte it was given (light.c:145-149, 262-271).
THEOREM WritesAreHonest == Spec => WritesHonest
<1>1. ASSUME Typed, Honest, [Next]_vars, cur = 1, ~missed,
             NEW r \in Writable, reg'[r] # reg[r]
      PROVE  \E t \in Threads :
               /\ At(t, "write") /\ MeantFor(packet[t]) = r
               /\ packet[t].cmd = "WRITEREG" => reg'[r] = packet[t].val
  <2>1. PICK t \in Threads : LightTask(t)
    BY <1>1 DEF Next, Measure, Restart, Expire, CheckSelect, CheckRead, CheckStore, vars, chip
  <2>2. Does(t) BY <1>1, <2>1, TaskDoes
  <2>3. Writes(t) BY <1>1, <2>2, OnlyWrites
  <2>4. t = 1 /\ pc[1] = "write" BY <1>1, <2>3, OnlyFirst DEF Writes
  <2>5. /\ packet[1] \in Packets /\ packet[1].cmd \in Writing /\ data[1] \in Byte
        /\ reg'[r] = NewValue(packet[1], data[1]) /\ MeantFor(packet[1]) = r
    BY <1>1, <2>3, <2>4, WriteHits
  <2>6. packet[1].cmd = "WRITEREG" => reg'[r] = packet[1].val BY <2>5, NewValueIs
  <2>7. QED BY <2>4, <2>5, <2>6 DEF At
<1>2. Typed /\ Honest /\ [Next]_vars =>
        [cur = 1 /\ ~missed =>
           \A r \in Writable : reg'[r] # reg[r] =>
             \E t \in Threads :
               /\ At(t, "write") /\ MeantFor(packet[t]) = r
               /\ packet[t].cmd = "WRITEREG" => reg'[r] = packet[t].val]_vars
  BY <1>1
<1>3. QED BY <1>2, AlwaysTyped, AlwaysHonest, PTL DEF Spec, WritesHonest

-----------------------------------------------------------------------------
(* Samples.                                                                *)

\* What callback c has read, as long as no other thread has used the bus; the
\* bus, the selected register and the latched bytes are b, r and l.
Following(c, b, r, l) ==
  c.calm /\ c.at # "idle" =>
    /\ b
    /\ c.at = "read" => r = CheckReads[c.n]
    /\ \A i \in 1 .. c.n - 1 : c.bytes[i].reg = CheckReads[i]
    /\ c.n = 2 => l[LIGHT_REG_DATA0H] = c.bytes[1].val
    /\ c.n = 4 => l[LIGHT_REG_DATA1H] = c.bytes[3].val
    /\ c.n > 2 => c.bytes[2].val = c.bytes[1].val
    /\ c.n > 4 => c.bytes[4].val = c.bytes[3].val

Follows(c)     == Following(c, BusOk, selected, latched)
FollowsNext(c) == Following(c, BusOk', selected', latched')

InStep == \A k \in Callbacks : Follows(callback[k])

LEMMA Undisturbed ==
  ASSUME InStep, UNCHANGED <<callback, bus, selected, latched>>
  PROVE  InStep'
BY DEF InStep, Following, Follows, FollowsNext, BusOk, bus

LEMMA InStepTask ==
  ASSUME Typed, InStep, NEW t \in Threads, LightTask(t)
  PROVE  InStep'
<1>1. Does(t) BY TaskDoes
<1>2. CASE callback' = Disturbing(0)
  <2>1. \A k \in Callbacks : ~callback'[k].calm BY <1>2, Disturbed DEF Typed
  <2>2. QED BY <2>1 DEF InStep, Following, Follows, FollowsNext
<1>3. CASE callback' = callback /\ Quiet
  BY <1>3, Undisturbed DEF Quiet, chip
<1>4. QED
  BY <1>1, <1>2, <1>3 DEF Does, Starts, Takes, Passes, Connects, Selects, Reads, Writes

LEMMA InStepCallback ==
  ASSUME Typed, InStep, NEW k \in Callbacks,
         Expire(k) \/ CheckSelect(k) \/ CheckRead(k) \/ CheckStore(k)
  PROVE  InStep'
<1> DEFINE c == callback[k]
<1>1. CallbackOK(c) /\ Follows(c) /\ Sampling BY DEF Typed, Sampling, InStep
<1>2. UNCHANGED <<i2c, addressed>> BY DEF Expire, CheckSelect, CheckRead, CheckStore, bus
<1>3. ASSUME NEW d, callback'[k] = d, FollowsNext(d),
             \A j \in Callbacks \ {k} : ~callback'[j].calm
      PROVE  InStep'
  BY <1>3 DEF InStep, Following, Follows, FollowsNext
<1>4. CASE Expire(k) \/ CheckStore(k)
  <2>1. \A j \in Callbacks \ {k} : callback'[j] = callback[j]
    BY <1>1, <1>4 DEF Expire, CheckStore, Sampling
  <2>2. UNCHANGED <<selected, latched>> BY <1>4 DEF Expire, CheckStore, chip
  <2>3. \A j \in Callbacks \ {k} : FollowsNext(callback[j])
    BY <1>2, <2>1, <2>2 DEF InStep, Following, Follows, FollowsNext, BusOk
  <2>4. FollowsNext(callback'[k])
    <3>1. CASE Expire(k)
      <4>1. callback'[k] = [at |-> "select", n |-> 1, bytes |-> <<>>, calm |-> BusOk]
        BY <1>1, <3>1 DEF Expire, Sampling
      <4> DEFINE e == callback'[k]
      <4>2. e.at = "select" /\ e.n = 1 /\ e.calm = BusOk
        <5>1. e = [at |-> "select", n |-> 1, bytes |-> <<>>, calm |-> BusOk] BY <4>1
        <5> HIDE DEF e
        <5>2. QED BY <5>1
      <4>3. BusOk' <=> BusOk BY <1>2 DEF BusOk
      <4> HIDE DEF e
      <4>4. FollowsNext(e) BY <4>2, <4>3 DEF Following, FollowsNext
      <4>5. QED BY <4>4 DEF e
    <3>2. CASE CheckStore(k)
      <4>1. callback'[k] = Idle BY <1>1, <3>2 DEF CheckStore, Sampling
      <4>2. QED BY <4>1 DEF Following, Follows, FollowsNext, Idle
    <3>3. QED BY <1>4, <3>1, <3>2
  <2>5. QED BY <2>1, <2>3, <2>4 DEF InStep, Follows, FollowsNext
<1>5. CASE CheckSelect(k)
  <2>1. PICK ok \in BOOLEAN :
          /\ Select(CheckReads[c.n], ok)
          /\ Moves(k, [at |-> "read", n |-> c.n, bytes |-> c.bytes, calm |-> c.calm /\ ok])
    BY <1>1, <1>5, SelectDoes
  <2> DEFINE d == [at |-> "read", n |-> c.n, bytes |-> c.bytes, calm |-> c.calm /\ ok]
  <2>2. /\ c.at = "select" /\ c.n \in 1 .. 4 /\ callback'[k] = d
        /\ \A j \in Callbacks \ {k} : ~callback'[j].calm
    BY <1>1, <1>5, <2>1, SelectDoes DEF Moves
  <2>3. latched' = latched /\ selected' = IF ok THEN CheckReads[c.n] ELSE selected
    BY <1>5, <2>1 DEF CheckSelect, Select
  <2> HIDE DEF c
  <2>4. FollowsNext(d)
    BY <1>1, <1>2, <2>2, <2>3 DEF Following, Follows, FollowsNext, BusOk
  <2> HIDE DEF d
  <2>5. QED BY <1>3, <2>2, <2>4
<1>6. CASE CheckRead(k)
  <2>1. PICK ok \in BOOLEAN :
          /\ Transfer(ok) /\ Latch(ok)
          /\ Moves(k, [at |-> IF c.n = 4 THEN "store" ELSE "select", n |-> c.n + 1,
                       bytes |-> [i \in 1 .. c.n |-> IF i = c.n THEN ByteRead(ok) ELSE c.bytes[i]],
                       calm |-> c.calm /\ ok])
    BY <1>1, <1>6, ReadDoes
  <2> DEFINE b == [i \in 1 .. c.n |-> IF i = c.n THEN ByteRead(ok) ELSE c.bytes[i]]
             d == [at |-> IF c.n = 4 THEN "store" ELSE "select", n |-> c.n + 1,
                   bytes |-> b, calm |-> c.calm /\ ok]
  <2>2. /\ c.at = "read" /\ c.n \in 1 .. 4 /\ callback'[k] = d
        /\ \A j \in Callbacks \ {k} : ~callback'[j].calm
    BY <1>1, <1>6, <2>1, ReadDoes DEF Moves
  <2>3. Latch(ok) /\ measured' = measured /\ selected' = selected BY <1>6, <2>1 DEF CheckRead
  <2>4. \A r \in Highs : latched'[r] = IF ok /\ selected \in Lows /\ r = selected + 1
                                        THEN measured ELSE latched[r]
    BY <2>3, Latched DEF Typed
  <2> HIDE DEF c
  <2>5. /\ b[c.n] = ByteRead(ok) /\ \A i \in 1 .. c.n - 1 : b[i] = c.bytes[i]
    BY <2>2
  <2> HIDE DEF b
  <2>6. ASSUME c.calm /\ ok PROVE FollowsNext(d)
    <3>1. BusOk /\ selected = CheckReads[c.n] BY <1>1, <2>2, <2>6 DEF Following, Follows, FollowsNext
    <3>2. BusOk' BY <1>2, <3>1 DEF BusOk
    <3>3. /\ b[c.n].reg = CheckReads[c.n]
          /\ b[c.n].val = Contents
      BY <2>5, <2>6, <3>1 DEF ByteRead
    <3>4. \A i \in 1 .. c.n : b[i].reg = CheckReads[i]
      <4>1. \A i \in 1 .. c.n - 1 : c.bytes[i].reg = CheckReads[i]
        BY <1>1, <2>2, <2>6 DEF Following, Follows
      <4>2. SUFFICES ASSUME NEW i \in 1 .. c.n PROVE b[i].reg = CheckReads[i]
        OBVIOUS
      <4>3. CASE i = c.n BY <3>3, <4>3
      <4>4. CASE i # c.n
        <5>1. i \in 1 .. c.n - 1 BY <2>2, <4>4
        <5>2. QED BY <2>5, <4>1, <5>1
      <4>5. QED BY <4>3, <4>4
    <3>5. /\ c.n = 1 => selected = LIGHT_REG_DATA0L
          /\ c.n = 2 => selected = LIGHT_REG_DATA0H
          /\ c.n = 3 => selected = LIGHT_REG_DATA1L
          /\ c.n = 4 => selected = LIGHT_REG_DATA1H
      BY <3>1 DEF CheckReads
    <3>6. /\ c.n = 1 => Contents = measured /\ latched'[LIGHT_REG_DATA0H] = measured
          /\ c.n = 2 => Contents = latched[LIGHT_REG_DATA0H]
          /\ c.n = 3 => Contents = measured /\ latched'[LIGHT_REG_DATA1H] = measured
          /\ c.n = 4 => Contents = latched[LIGHT_REG_DATA1H]
      BY <2>4, <2>6, <3>1, <3>5 DEF Contents, Writable, Lows, Highs
    <3>7. /\ c.n = 1 => latched'[LIGHT_REG_DATA0H] = b[1].val
          /\ c.n = 3 => latched'[LIGHT_REG_DATA1H] = b[3].val
          /\ c.n = 2 => b[2].val = b[1].val
          /\ c.n > 2 => b[2].val = b[1].val
          /\ c.n = 4 => b[4].val = b[3].val
      <4>1. CASE c.n = 1 BY <3>3, <3>6, <4>1
      <4>2. CASE c.n = 2
        <5>1. latched[LIGHT_REG_DATA0H] = c.bytes[1].val
          BY <1>1, <2>2, <2>6, <4>2 DEF Following, Follows, FollowsNext
        <5>2. b[1] = c.bytes[1] BY <2>5, <4>2
        <5>3. QED BY <3>3, <3>6, <4>2, <5>1, <5>2
      <4>3. CASE c.n = 3
        <5>1. c.bytes[2].val = c.bytes[1].val
          BY <1>1, <2>2, <2>6, <4>3 DEF Following, Follows, FollowsNext
        <5>2. b[1] = c.bytes[1] /\ b[2] = c.bytes[2] BY <2>5, <4>3
        <5>3. QED BY <3>3, <3>6, <4>3, <5>1, <5>2
      <4>4. CASE c.n = 4
        <5>1. /\ c.bytes[2].val = c.bytes[1].val
              /\ latched[LIGHT_REG_DATA1H] = c.bytes[3].val
          BY <1>1, <2>2, <2>6, <4>4 DEF Following, Follows, FollowsNext
        <5>2. b[1] = c.bytes[1] /\ b[2] = c.bytes[2] /\ b[3] = c.bytes[3] BY <2>5, <4>4
        <5>3. QED BY <3>3, <3>6, <4>4, <5>1, <5>2
      <4>5. QED BY <2>2, <4>1, <4>2, <4>3, <4>4
    <3>8. /\ d.at # "read" /\ d.n = c.n + 1 /\ d.bytes = b
      OBVIOUS
    <3> HIDE DEF d
    <3>9. /\ \A i \in 1 .. d.n - 1 : d.bytes[i].reg = CheckReads[i]
          /\ d.n = 2 => latched'[LIGHT_REG_DATA0H] = d.bytes[1].val
          /\ d.n = 4 => latched'[LIGHT_REG_DATA1H] = d.bytes[3].val
          /\ d.n > 2 => d.bytes[2].val = d.bytes[1].val
          /\ d.n > 4 => d.bytes[4].val = d.bytes[3].val
      BY <2>2, <3>4, <3>7, <3>8
    <3>10. QED BY <3>2, <3>8, <3>9 DEF Following, Follows, FollowsNext
  <2>7. ASSUME ~(c.calm /\ ok) PROVE FollowsNext(d) BY <2>7 DEF Following, Follows, FollowsNext
  <2> HIDE DEF d
  <2>8. QED BY <1>3, <2>2, <2>6, <2>7
<1>7. QED BY <1>4, <1>5, <1>6

\* A sample during which no other thread has used the bus, and no transfer has
\* failed, is made of the right registers, and the two bytes of each channel
\* belong to one measurement, although the sensor measures between the
\* transfers (light.c:84-94).
THEOREM SamplesAreWhole == Spec => []SampleWhole
<1>1. Init => InStep BY DEF Init, InStep, Following, Follows, FollowsNext, Idle
<1>2. Typed /\ InStep /\ [Next]_vars => InStep'
  <2> SUFFICES ASSUME Typed, InStep, [Next]_vars PROVE InStep'
    OBVIOUS
  <2>1. CASE Measure \/ Restart \/ UNCHANGED vars
    BY <2>1, Undisturbed DEF Measure, Restart, vars, sampling, bus, chip
  <2>2. QED BY <2>1, InStepTask, InStepCallback DEF Next
<1>3. Typed /\ InStep => SampleWhole
  <2> SUFFICES ASSUME Typed, InStep, NEW k \in Callbacks, callback[k].at = "store",
                      callback[k].calm
               PROVE  Whole(callback[k].bytes)
    BY DEF SampleWhole
  <2> DEFINE c == callback[k]
  <2>1. CallbackOK(c) /\ Follows(c) /\ c.calm /\ c.at = "store"
    BY DEF Typed, Sampling, InStep
  <2> HIDE DEF c
  <2>2. c.n = 5 BY <2>1 DEF CallbackOK
  <2>3. /\ \A i \in 1 .. 4 : c.bytes[i].reg = CheckReads[i]
        /\ c.bytes[2].val = c.bytes[1].val /\ c.bytes[4].val = c.bytes[3].val
    BY <2>1, <2>2 DEF Following, Follows, FollowsNext
  <2>4. \A i \in 1 .. 4 : CheckReads[i] = LIGHT_REG_DATA0L + i - 1 BY DEF CheckReads
  <2>5. Whole(c.bytes) BY <2>3, <2>4 DEF Whole
  <2>6. QED BY <2>5 DEF c
<1>4. QED BY <1>1, <1>2, <1>3, AlwaysTyped, PTL DEF Spec

=============================================================================
