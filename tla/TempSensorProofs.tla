-------------------------- MODULE TempSensorProofs --------------------------
(***************************************************************************)
(* Proofs about TempSensor, for any number of temperature threads, timer   *)
(* threads, timers, commands and measurements.                             *)
(***************************************************************************)
EXTENDS TempSensor, FiniteSetTheorems, TLAPS

USE DEF TEMP_REG_TEMP, TEMP_REG_CTRL, TEMP_REG_HIGH, TEMP_REG_LOW

-----------------------------------------------------------------------------
(* Packets and words.                                                      *)

Writing == {"WRITEREG", "WRITECONFIG", "WRITEPTR"}
Reading == {"READREG", "SETCONV", "SHUTDOWN", "WAKEUP"}

\* The register a reading handler asks for.
Target(p) == IF p.cmd = "READREG" THEN p.reg ELSE TEMP_REG_CTRL

LEMMA PacketFacts ==
  /\ \A p \in Packets :
       /\ p.cmd \in TempCommands
       /\ p.cmd \in {"READREG", "WRITEPTR"} => p.reg \in 0 .. 3
       /\ p.cmd = "WRITEREG" => p.reg \in Limits /\ p.value \in {Limit(1), Limit(2)}
       /\ p.cmd = "WRITECONFIG" => p.value \in 0 .. 7
       /\ p.cmd = "SETCONV" => p.rate \in 0 .. 3
  /\ NoPacket.cmd \notin TempCommands
BY TempAssumption DEF Packets, TempCommands, NoPacket, Ctrl

LEMMA TargetIs == \A p \in Packets : p.cmd \in Reading => Target(p) \in 0 .. 3
BY PacketFacts DEF Target

LEMMA HeldWords ==
  /\ \A r \in 0 .. 3 : Holds(r) \subseteq Words /\ Holds(r) \subseteq Nat
  /\ Holds(TEMP_REG_TEMP) = Measured .. Measured + MaxMeasured
  /\ Holds(TEMP_REG_CTRL) = 0 .. 7
  /\ \A r \in Limits : Holds(r) = {Limit(v) : v \in 0 .. 2} \cup {One}
  /\ NoData \in Words /\ Words \subseteq Int /\ NoData \notin Nat
<1>1. Holds(TEMP_REG_TEMP) = Measured .. Measured + MaxMeasured BY DEF Holds
<1>2. Holds(TEMP_REG_CTRL) = 0 .. 7 BY DEF Holds
<1>3. \A r \in Limits : Holds(r) = {Limit(v) : v \in 0 .. 2} \cup {One} BY DEF Holds, Limits
<1>4. /\ Measured .. Measured + MaxMeasured \subseteq Nat
      /\ {Limit(v) : v \in 0 .. 2} \cup {One} \subseteq Nat
      /\ 0 .. 7 \subseteq Nat
  BY TempAssumption DEF Measured, Limit, One
<1>5. NoData \in Int /\ NoData \notin Nat BY DEF NoData
<1>6. Words \subseteq Int BY <1>4, <1>5 DEF Words
<1>7. \A r \in 0 .. 3 : r = TEMP_REG_TEMP \/ r = TEMP_REG_CTRL \/ r \in Limits BY DEF Limits
<1>8. \A r \in 0 .. 3 : Holds(r) \subseteq Words /\ Holds(r) \subseteq Nat
  BY <1>1, <1>2, <1>3, <1>4, <1>7 DEF Words
<1>9. NoData \in Words BY DEF Words
<1>10. QED BY <1>1, <1>2, <1>3, <1>5, <1>6, <1>8, <1>9

\* The word that SETCONV, SHUTDOWN or WAKEUP makes of a control word does not
\* name a limit register.
LEMMA NewCtrlIs ==
  ASSUME NEW p \in Packets, p.cmd \in Reading, p.cmd # "READREG", NEW w \in 0 .. 7
  PROVE  NewCtrl(p, w) \in 0 .. 7
<1>1. SD(w) \in 0 .. 1 /\ CR(w) \in 0 .. 3 BY DEF SD, CR
<1>2. \A s \in 0 .. 1, c \in 0 .. 3 : Ctrl(s, c) \in 0 .. 7 BY DEF Ctrl
<1>3. CASE p.cmd = "SETCONV"
  <2>1. p.rate \in 0 .. 3 BY <1>3, PacketFacts
  <2>2. 2 * (p.rate % 2) \in 0 .. 3 BY <2>1
  <2>3. NewCtrl(p, w) = WithRate(w, p.rate) BY <1>3 DEF NewCtrl
  <2>4. CASE p.rate >= 2
    <3>1. WithRate(w, p.rate) = Ctrl(1, 2 * (p.rate % 2)) BY <2>4 DEF WithRate
    <3>2. QED BY <1>2, <2>2, <2>3, <3>1
  <2>5. CASE ~(p.rate >= 2)
    <3>1. WithRate(w, p.rate) = Ctrl(SD(w), 2 * (p.rate % 2)) BY <2>5 DEF WithRate
    <3>2. QED BY <1>1, <1>2, <2>2, <2>3, <3>1
  <2>6. QED BY <2>4, <2>5
<1>4. CASE p.cmd = "SHUTDOWN"
  <2>1. NewCtrl(p, w) = Ctrl(1, CR(w)) BY <1>4 DEF NewCtrl
  <2>2. QED BY <1>1, <1>2, <2>1
<1>5. CASE p.cmd = "WAKEUP"
  <2>1. NewCtrl(p, w) = Ctrl(0, CR(w)) BY <1>5 DEF NewCtrl
  <2>2. QED BY <1>1, <1>2, <2>1
<1>6. QED BY <1>3, <1>4, <1>5 DEF Reading

-----------------------------------------------------------------------------
(* Types.                                                                  *)

Label == {"none", "start", "receive", "init", "address", "write", "gettemp",
          "read", "log", "respond", "modify", "gone"}

Shapes ==
  /\ pc \in [Threads -> Label] /\ packet \in [Threads -> Packets \cup {NoPacket}]
  /\ contexts \in Nat /\ limits \in [Limits -> Nat]

\* What a thread has read comes from the register its packet asks for.
ThreadOK(l, p, d) ==
  /\ l = "write" => p \in Packets /\ p.cmd \in Writing
  /\ l \in {"read", "log", "respond", "modify"} => p \in Packets /\ p.cmd \in Reading
  /\ l = "respond" => p.cmd = "READREG"
  /\ l = "modify" => p.cmd # "READREG"
  /\ l \in {"log", "respond", "modify"} => d \in Holds(Target(p)) \cup {NoData}

Handling ==
  \A t \in Threads : ThreadOK(pc[t], packet[t], data[t]) /\ (pc[t] = "address" => i2c # 0)

Contents == \A r \in 0 .. 3 : reg[r] \in Holds(r)

\* What a callback stores it has read from the temperature register.
Sampling ==
  \A k \in Callbacks :
    callback[k].at = "store" => callback[k].data \in Holds(TEMP_REG_TEMP) \cup {NoData}

Typed == TypeOK /\ Shapes /\ Handling /\ Contents /\ Sampling

LEMMA WordAtIs ==
  ASSUME Typed, NEW r \in 0 .. 3, NEW ok \in Outcomes
  PROVE  WordAt(r, ok) \in Holds(r) \cup {NoData}
BY DEF Typed, Contents, WordAt

LEMMA OutcomeIs == ASSUME NEW ok \in Outcomes PROVE ok \in BOOLEAN /\ (ok => BusOk)
BY DEF Outcomes

\* A thread goes on at l with packet p and word d.
Goes(t, l, p, d) ==
  /\ pc' \in [Threads -> Label] /\ pc'[t] = l /\ l # "none" /\ pc[t] # "none"
  /\ packet' \in [Threads -> Packets \cup {NoPacket}] /\ packet'[t] = p
  /\ data' \in [Threads -> Words] /\ data'[t] = d
  /\ \A u \in Threads \ {t} : pc'[u] = pc[u] /\ packet'[u] = packet[u] /\ data'[u] = data[u]
  /\ UNCHANGED <<cancelled, cur>>

LEMMA GotoDoes ==
  ASSUME Typed, NEW t \in Threads, pc[t] # "none", NEW l \in Label \ {"none"}, Goto(t, l),
         UNCHANGED <<packet, data, cancelled, cur>>
  PROVE  Goes(t, l, packet[t], data[t])
BY DEF Typed, TypeOK, Shapes, Goto, Goes

\* What such a step must leave true.
LEMMA ThreadStep ==
  ASSUME Typed, NEW t \in Threads, NEW l, NEW p, NEW d, Goes(t, l, p, d), ThreadOK(l, p, d),
         commands' \in 0 .. MaxCommands,
         l = "address" => i2c' # 0, i2c' = i2c \/ i2c' # 0
  PROVE  /\ Handling' /\ cur' \in Threads /\ commands' \in 0 .. MaxCommands
         /\ pc' \in [Threads -> Label] /\ packet' \in [Threads -> Packets \cup {NoPacket}]
         /\ data' \in [Threads -> Words]
         /\ \A u \in Threads : packet'[u] = NoPacket \/ packet'[u] \in Packets
         /\ \A u \in Threads : pc'[u] = "none" <=> u > cur'
<1>1. \A u \in Threads : pc'[u] = "none" <=> u > cur'
  <2> SUFFICES ASSUME NEW u \in Threads PROVE pc'[u] = "none" <=> u > cur'
    OBVIOUS
  <2>1. pc'[u] = "none" <=> pc[u] = "none" BY DEF Goes
  <2>2. pc[u] = "none" <=> u > cur BY DEF Typed, TypeOK
  <2>3. cur' = cur BY DEF Goes
  <2>4. QED BY <2>1, <2>2, <2>3
<1>2. Handling'
  <2> SUFFICES ASSUME NEW u \in Threads
               PROVE  ThreadOK(pc'[u], packet'[u], data'[u]) /\ (pc'[u] = "address" => i2c' # 0)
    BY DEF Handling
  <2>1. CASE u = t BY <2>1 DEF Goes
  <2>2. CASE u # t
    <3>1. pc'[u] = pc[u] /\ packet'[u] = packet[u] /\ data'[u] = data[u] BY <2>2 DEF Goes
    <3>2. ThreadOK(pc[u], packet[u], data[u]) /\ (pc[u] = "address" => i2c # 0)
      BY DEF Typed, Handling
    <3>3. QED BY <3>1, <3>2
  <2>3. QED BY <2>1, <2>2
<1>3. cur' \in Threads BY DEF Goes, Typed, TypeOK
<1>4. QED BY <1>1, <1>2, <1>3 DEF Goes

\* The rest of Typed, when the variables of the others do not change.
BusTyped == i2c' \in 0 .. contexts' /\ addressed' \subseteq 1 .. contexts' /\ contexts' \in Nat
ChipTyped == reg' \in [0 .. 3 -> Words] /\ Contents' /\ pointer' \in 0 .. 3
SamplingTyped ==
  /\ temperature_c' \in Words \cup {Unset} /\ Sampling'
  /\ callback' \in [Callbacks -> [at : {"idle", "read", "store"}, data : Words]]
  /\ armed' \in Nat /\ made' \in 0 .. MaxTimers

LEMMA StaysTyped ==
  ASSUME Typed
  PROVE  /\ UNCHANGED bus => BusTyped /\ i2c' = i2c
         /\ UNCHANGED chip => ChipTyped
         /\ UNCHANGED sampling => SamplingTyped
<1>1. UNCHANGED bus => BusTyped /\ i2c' = i2c BY DEF Typed, TypeOK, Shapes, bus, BusTyped
<1>2. UNCHANGED chip => ChipTyped BY DEF Typed, TypeOK, Contents, chip, ChipTyped
<1>3. UNCHANGED sampling => SamplingTyped
  <2> SUFFICES ASSUME UNCHANGED sampling PROVE SamplingTyped
    OBVIOUS
  <2>1. callback' = callback /\ temperature_c' = temperature_c /\ armed' = armed /\ made' = made
    BY DEF sampling
  <2>2. Sampling' BY <2>1 DEF Typed, Sampling
  <2>3. QED BY <2>1, <2>2 DEF Typed, TypeOK, SamplingTyped
<1>4. QED BY <1>1, <1>2, <1>3

LEMMA TaskStep ==
  ASSUME Typed, NEW t \in Threads, NEW l, NEW p, NEW d, Goes(t, l, p, d), ThreadOK(l, p, d),
         commands' \in 0 .. MaxCommands, l = "address" => i2c' # 0, i2c' = i2c \/ i2c' # 0,
         BusTyped, ChipTyped, SamplingTyped, limits' \in [Limits -> Nat], misread' \in BOOLEAN
  PROVE  Typed'
<1>1. /\ Handling' /\ cur' \in Threads
      /\ pc' \in [Threads -> Label] /\ packet' \in [Threads -> Packets \cup {NoPacket}]
      /\ data' \in [Threads -> Words]
      /\ \A u \in Threads : packet'[u] = NoPacket \/ packet'[u] \in Packets
      /\ \A u \in Threads : pc'[u] = "none" <=> u > cur'
  BY ThreadStep
<1>2. TypeOK' BY <1>1 DEF TypeOK, BusTyped, ChipTyped, SamplingTyped, Label
<1>3. Shapes' BY <1>1 DEF Shapes, BusTyped
<1>4. QED BY <1>1, <1>2, <1>3 DEF Typed, ChipTyped, SamplingTyped

-----------------------------------------------------------------------------
(* Every step keeps the types.                                             *)

LEMMA InitTyped == Init => Typed
<1> SUFFICES ASSUME Init PROVE Typed
  OBVIOUS
<1>1. AtReset \in 0 .. 7 BY DEF AtReset, Ctrl
<1>2. Measured \in Measured .. Measured + MaxMeasured BY TempAssumption DEF Measured
<1>3. Contents
  <2> SUFFICES ASSUME NEW r \in 0 .. 3 PROVE reg[r] \in Holds(r)
    BY DEF Contents
  <2>1. CASE r = TEMP_REG_TEMP
    <3>1. reg[r] = Measured BY <2>1 DEF Init
    <3>2. QED BY <1>2, <2>1, <3>1, HeldWords
  <2>2. CASE r = TEMP_REG_CTRL
    <3>1. reg[r] = AtReset BY <2>2 DEF Init
    <3>2. QED BY <1>1, <2>2, <3>1, HeldWords
  <2>3. CASE r \in Limits
    <3>1. r # TEMP_REG_TEMP /\ r # TEMP_REG_CTRL BY <2>3 DEF Limits
    <3>2. reg[r] = Limit(0) BY <3>1 DEF Init
    <3>3. QED BY <2>3, <3>2, HeldWords
  <2>4. QED BY <2>1, <2>2, <2>3 DEF Limits
<1>4. reg \in [0 .. 3 -> Words]
  <2>1. reg = [r \in 0 .. 3 |-> reg[r]] BY DEF Init
  <2>2. QED BY <1>3, <2>1, HeldWords DEF Contents
<1>5. 1 \in Threads /\ Threads \subseteq Nat BY TempAssumption DEF Threads
<1>6. pc \in [Threads -> Label] BY DEF Init, Label
<1>7. \A t \in Threads : pc[t] = "none" <=> t > cur
  BY <1>5 DEF Init, Threads
<1>8. callback \in [Callbacks -> [at : {"idle", "read", "store"}, data : Words]]
  BY HeldWords DEF Init, Idle
<1>9. data \in [Threads -> Words] /\ packet \in [Threads -> Packets \cup {NoPacket}]
  BY HeldWords DEF Init
<1>10. misread \in BOOLEAN BY DEF Init
<1>11. TypeOK
  BY <1>10, <1>4, <1>5, <1>6, <1>7, <1>8, <1>9, TempAssumption DEF TypeOK, Init, Label
<1>12. Shapes BY <1>6, <1>9 DEF Shapes, Init, Limit
<1>13. Handling BY DEF Handling, ThreadOK, Init
<1>14. Sampling BY DEF Sampling, Init, Idle
<1>15. QED BY <1>3, <1>11, <1>12, <1>13, <1>14 DEF Typed

\* A write to a register that holds such a word.
LEMMA WriteIs ==
  ASSUME Typed, NEW r \in 0 .. 3, NEW w, r # TEMP_REG_TEMP => w \in Holds(r),
         NEW ok \in Outcomes, WriteWord(w, r, ok)
  PROVE  ChipTyped
<1>1. reg \in [0 .. 3 -> Words] /\ Contents /\ pointer \in 0 .. 3 BY DEF Typed, TypeOK
<1>2. pointer' \in 0 .. 3 BY <1>1 DEF WriteWord, Pointed
<1>3. CASE ok /\ r # TEMP_REG_TEMP
  <2>1. reg' = [reg EXCEPT ![r] = w] BY <1>3 DEF WriteWord
  <2>2. w \in Holds(r) /\ w \in Words BY <1>3, HeldWords
  <2>3. reg' \in [0 .. 3 -> Words] BY <1>1, <2>1, <2>2
  <2>4. Contents' BY <1>1, <2>1, <2>2 DEF Contents
  <2>5. QED BY <1>2, <2>3, <2>4 DEF ChipTyped
<1>4. CASE ~(ok /\ r # TEMP_REG_TEMP)
  <2>1. reg' = reg BY <1>4 DEF WriteWord
  <2>2. QED BY <1>1, <1>2, <2>1 DEF ChipTyped, Contents
<1>5. QED BY <1>3, <1>4

LEMMA PointedIs ==
  ASSUME Typed, NEW r \in 0 .. 3, NEW ok \in Outcomes, Pointed(r, ok), UNCHANGED reg
  PROVE  ChipTyped
<1>1. reg \in [0 .. 3 -> Words] /\ Contents /\ pointer \in 0 .. 3 BY DEF Typed, TypeOK
<1>2. QED BY <1>1 DEF ChipTyped, Pointed, Contents

LEMMA TimerInitIs ==
  TypeOK /\ TimerInit => armed' \in {armed, armed + 1} /\ armed' \in Nat /\ made' \in 0 .. MaxTimers
BY TempAssumption DEF TypeOK, TimerInit

LEMMA StartTyped ==
  ASSUME Typed, NEW t \in Threads, Start(t) PROVE Typed'
<1>1. pc[t] = "start" BY DEF Start, At
<1>2. Goes(t, "receive", packet[t], data[t]) BY <1>1, GotoDoes DEF Start, Same, Label
<1>3. BusTyped /\ i2c' = i2c /\ ChipTyped BY StaysTyped DEF Start
<1>4. SamplingTyped
  <2>1. TypeOK /\ callback' = callback /\ temperature_c' = temperature_c BY DEF Start, Typed
  <2>2. armed' \in Nat /\ made' \in 0 .. MaxTimers BY <2>1, TimerInitIs DEF Start
  <2>3. Sampling' BY <2>1 DEF Typed, Sampling
  <2>4. QED BY <2>1, <2>2, <2>3 DEF TypeOK, SamplingTyped
<1>5. commands' \in 0 .. MaxCommands /\ limits' \in [Limits -> Nat] /\ misread' \in BOOLEAN
  BY DEF Start, Same, history, Typed, TypeOK, Shapes
<1>6. ThreadOK("receive", packet[t], data[t]) BY DEF ThreadOK
<1>7. QED BY <1>2, <1>3, <1>4, <1>5, <1>6, TaskStep

LEMMA ReceiveTyped ==
  ASSUME Typed, NEW t \in Threads, Receive(t) PROVE Typed'
<1>1. PICK p \in Packets :
        /\ packet' = [packet EXCEPT ![t] = p]
        /\ Goto(t, CASE p.cmd = "INIT" -> "init"
                     [] p.cmd = "GETTEMP" -> "gettemp"
                     [] p.cmd \in {"WRITEREG", "WRITECONFIG", "WRITEPTR"} -> "write"
                     [] p.cmd = "KILL" -> "gone"
                     [] OTHER -> "read")
  BY DEF Receive
<1>2. PICK l \in {"init", "gettemp", "write", "gone", "read"} :
        /\ Goto(t, l)
        /\ l = "write" => p.cmd \in Writing
        /\ l = "read" => p.cmd \in Reading
  <2>1. p.cmd \in TempCommands BY PacketFacts
  <2>2. CASE p.cmd = "INIT" BY <1>1, <2>2
  <2>3. CASE p.cmd = "GETTEMP" BY <1>1, <2>3
  <2>4. CASE p.cmd \in Writing BY <1>1, <2>4 DEF Writing
  <2>5. CASE p.cmd = "KILL" BY <1>1, <2>5
  <2>6. CASE p.cmd \in Reading BY <1>1, <2>6 DEF Reading
  <2>7. QED BY <2>1, <2>2, <2>3, <2>4, <2>5, <2>6 DEF TempCommands, Reading, Writing
<1>3. Goes(t, l, p, data[t])
  BY <1>1, <1>2 DEF Goes, Goto, Receive, At, Typed, TypeOK, Shapes, Label
<1>4. BusTyped /\ i2c' = i2c /\ ChipTyped /\ SamplingTyped BY StaysTyped DEF Receive
<1>5. commands' \in 0 .. MaxCommands /\ limits' \in [Limits -> Nat] /\ misread' \in BOOLEAN
  <2>1. commands \in 0 .. MaxCommands /\ limits \in [Limits -> Nat] /\ misread \in BOOLEAN
    BY DEF Typed, TypeOK, Shapes
  <2>2. /\ commands < MaxCommands /\ commands' = commands + 1
        /\ limits' = limits /\ misread' = misread
    BY DEF Receive, history
  <2>3. QED BY <2>1, <2>2, TempAssumption
<1>6. ThreadOK(l, p, data[t]) BY <1>2 DEF ThreadOK
<1>7. QED BY <1>2, <1>3, <1>4, <1>5, <1>6, TaskStep

LEMMA InitContextTyped ==
  ASSUME Typed, NEW t \in Threads, InitContext(t) PROVE Typed'
<1>1. pc[t] = "init" BY DEF InitContext, At
<1>2. Goes(t, "address", packet[t], data[t]) BY <1>1, GotoDoes DEF InitContext, Same, Label
<1>3. ChipTyped /\ SamplingTyped BY StaysTyped DEF InitContext
<1>4. contexts \in Nat /\ i2c \in 0 .. contexts /\ addressed \subseteq 1 .. contexts
  BY DEF Typed, TypeOK, Shapes
<1>5. contexts' = contexts + 1 /\ i2c' = contexts + 1 /\ addressed' = addressed BY DEF InitContext
<1>6. BusTyped /\ i2c' # 0 BY <1>4, <1>5 DEF BusTyped
<1>7. commands' \in 0 .. MaxCommands /\ limits' \in [Limits -> Nat] /\ misread' \in BOOLEAN
  BY DEF InitContext, Same, history, Typed, TypeOK, Shapes
<1>8. ThreadOK("address", packet[t], data[t]) BY DEF ThreadOK
<1>9. QED BY <1>2, <1>3, <1>6, <1>7, <1>8, TaskStep

LEMMA InitAddressTyped ==
  ASSUME Typed, NEW t \in Threads, InitAddress(t) PROVE Typed'
<1>1. pc[t] = "address" BY DEF InitAddress, At
<1>2. Goes(t, "receive", packet[t], data[t]) BY <1>1, GotoDoes DEF InitAddress, Same, Label
<1>3. ChipTyped /\ SamplingTyped BY StaysTyped DEF InitAddress
<1>4. contexts \in Nat /\ i2c \in 0 .. contexts /\ addressed \subseteq 1 .. contexts /\ i2c # 0
  BY <1>1 DEF Typed, TypeOK, Shapes, Handling
<1>5. contexts' = contexts /\ i2c' = i2c /\ addressed' = addressed \cup {i2c} BY DEF InitAddress
<1>6. BusTyped /\ i2c' = i2c BY <1>4, <1>5 DEF BusTyped
<1>7. commands' \in 0 .. MaxCommands /\ limits' \in [Limits -> Nat] /\ misread' \in BOOLEAN
  BY DEF InitAddress, Same, history, Typed, TypeOK, Shapes
<1>8. ThreadOK("receive", packet[t], data[t]) BY DEF ThreadOK
<1>9. QED BY <1>2, <1>3, <1>6, <1>7, <1>8, TaskStep

LEMMA WriteRegTyped ==
  ASSUME Typed, NEW t \in Threads, WriteReg(t) PROVE Typed'
<1>1. pc[t] = "write" BY DEF WriteReg, At
<1>2. Goes(t, "receive", packet[t], data[t]) BY <1>1, GotoDoes DEF WriteReg, Same, Label
<1>3. BusTyped /\ i2c' = i2c /\ SamplingTyped BY StaysTyped DEF WriteReg
<1>4. commands' \in 0 .. MaxCommands /\ limits \in [Limits -> Nat] /\ misread' \in BOOLEAN
  BY DEF WriteReg, Same, Typed, TypeOK, Shapes
<1>5. packet[t] \in Packets /\ packet[t].cmd \in Writing
  BY <1>1 DEF Typed, Handling, ThreadOK
<1>6. PICK ok \in Outcomes :
        CASE packet[t].cmd = "WRITEREG" ->
               /\ WriteWord(packet[t].value, packet[t].reg, ok)
               /\ limits' = IF ok THEN [limits EXCEPT ![packet[t].reg] = packet[t].value] ELSE limits
          [] packet[t].cmd = "WRITECONFIG" ->
               WriteWord(packet[t].value, TEMP_REG_CTRL, ok) /\ UNCHANGED limits
          [] packet[t].cmd = "WRITEPTR" ->
               Pointed(packet[t].reg, ok) /\ UNCHANGED <<reg, limits>>
  BY DEF WriteReg
<1>7. ChipTyped /\ limits' \in [Limits -> Nat]
  <2>1. CASE packet[t].cmd = "WRITEREG"
    <3>1. /\ packet[t].reg \in Limits
          /\ packet[t].value \in {Limit(v) : v \in 0 .. 2} \cup {One} /\ packet[t].value \in Nat
      BY <1>5, <2>1, PacketFacts DEF Limit
    <3>2. packet[t].reg \in 0 .. 3 BY <3>1 DEF Limits
    <3>3. /\ WriteWord(packet[t].value, packet[t].reg, ok)
          /\ limits' = IF ok THEN [limits EXCEPT ![packet[t].reg] = packet[t].value] ELSE limits
      BY <1>6, <2>1
    <3>4. ChipTyped BY <3>1, <3>2, <3>3, HeldWords, WriteIs
    <3>5. limits' \in [Limits -> Nat] BY <1>4, <3>1, <3>3
    <3>6. QED BY <3>4, <3>5
  <2>2. CASE packet[t].cmd = "WRITECONFIG"
    <3>1. packet[t].value \in Holds(TEMP_REG_CTRL) BY <1>5, <2>2, PacketFacts, HeldWords
    <3>2. WriteWord(packet[t].value, TEMP_REG_CTRL, ok) /\ limits' = limits BY <1>6, <2>2
    <3>3. TEMP_REG_CTRL \in 0 .. 3 OBVIOUS
    <3>4. ChipTyped BY <3>1, <3>2, <3>3, WriteIs
    <3>5. QED BY <1>4, <3>2, <3>4
  <2>3. CASE packet[t].cmd = "WRITEPTR"
    <3>1. packet[t].reg \in 0 .. 3 BY <1>5, <2>3, PacketFacts
    <3>2. Pointed(packet[t].reg, ok) /\ reg' = reg /\ limits' = limits BY <1>6, <2>3
    <3>3. QED BY <1>4, <3>1, <3>2, PointedIs
  <2>4. QED BY <1>5, <2>1, <2>2, <2>3 DEF Writing
<1>8. ThreadOK("receive", packet[t], data[t]) BY DEF ThreadOK
<1>9. QED BY <1>2, <1>3, <1>4, <1>7, <1>8, TaskStep

LEMMA ReadWordTyped ==
  ASSUME Typed, NEW t \in Threads, ReadWord(t) PROVE Typed'
<1> DEFINE r == Target(packet[t])
<1>1. pc[t] = "read" BY DEF ReadWord, At
<1>2. packet[t] \in Packets /\ packet[t].cmd \in Reading
  BY <1>1 DEF Typed, Handling, ThreadOK
<1>3. r \in 0 .. 3 BY <1>2, TargetIs
<1>4. PICK ok \in Outcomes :
        /\ data' = [data EXCEPT ![t] = WordAt(r, ok)] /\ Pointed(r, ok)
        /\ misread' = (misread \/ (packet[t].cmd # "READREG" /\ BusOk /\ ~ok))
  BY DEF ReadWord, Target
<1> HIDE DEF r
<1>5. WordAt(r, ok) \in Holds(r) \cup {NoData} BY <1>3, WordAtIs
<1>6. WordAt(r, ok) \in Words BY <1>3, <1>5, HeldWords
<1>7. Goes(t, "log", packet[t], WordAt(r, ok))
  BY <1>1, <1>4, <1>6 DEF Goes, Goto, ReadWord, Typed, TypeOK, Shapes, Label
<1>8. BusTyped /\ i2c' = i2c /\ SamplingTyped BY StaysTyped DEF ReadWord
<1>9. ChipTyped BY <1>3, <1>4, PointedIs DEF ReadWord
<1>10. commands' \in 0 .. MaxCommands /\ limits' \in [Limits -> Nat] /\ misread' \in BOOLEAN
  BY <1>4 DEF ReadWord, Typed, TypeOK, Shapes
<1>11. ThreadOK("log", packet[t], WordAt(r, ok)) BY <1>2, <1>5 DEF ThreadOK, r
<1>12. QED BY <1>7, <1>8, <1>9, <1>10, <1>11, TaskStep

LEMMA ReadLogTyped ==
  ASSUME Typed, NEW t \in Threads, ReadLog(t) PROVE Typed'
<1> DEFINE l == IF packet[t].cmd = "READREG" THEN "respond" ELSE "modify"
<1>1. pc[t] = "log" /\ Goto(t, l) BY DEF ReadLog, At
<1>2. ThreadOK("log", packet[t], data[t]) BY <1>1 DEF Typed, Handling
<1>3. l \in Label \ {"none"} /\ ThreadOK(l, packet[t], data[t])
  BY <1>2 DEF Label, ThreadOK
<1>4. l # "address" OBVIOUS
<1> HIDE DEF l
<1>5. Goes(t, l, packet[t], data[t]) BY <1>1, <1>3, GotoDoes DEF ReadLog, Same
<1>6. BusTyped /\ i2c' = i2c /\ ChipTyped /\ SamplingTyped BY StaysTyped DEF ReadLog
<1>7. commands' \in 0 .. MaxCommands /\ limits' \in [Limits -> Nat] /\ misread' \in BOOLEAN
  BY DEF ReadLog, Same, history, Typed, TypeOK, Shapes
<1>8. QED BY <1>3, <1>4, <1>5, <1>6, <1>7, TaskStep

LEMMA ModifyTyped ==
  ASSUME Typed, NEW t \in Threads, Modify(t) PROVE Typed'
<1>1. pc[t] = "modify" BY DEF Modify, At
<1>2. Goes(t, "receive", packet[t], data[t]) BY <1>1, GotoDoes DEF Modify, Same, Label
<1>3. BusTyped /\ i2c' = i2c /\ SamplingTyped BY StaysTyped DEF Modify
<1>4. PICK w : \E ok \in Outcomes : WriteWord(One, AsAddress(w), ok) BY DEF Modify
<1>5. AsAddress(w) = TEMP_REG_LOW \/ AsAddress(w) = TEMP_REG_TEMP BY DEF AsAddress
<1>6. AsAddress(w) \in 0 .. 3 /\ (AsAddress(w) # TEMP_REG_TEMP => AsAddress(w) \in Limits)
  BY <1>5 DEF Limits
<1>7. ChipTyped BY <1>4, <1>6, HeldWords, WriteIs
<1>8. commands' \in 0 .. MaxCommands /\ limits' \in [Limits -> Nat] /\ misread' \in BOOLEAN
  BY DEF Modify, Same, history, Typed, TypeOK, Shapes
<1>9. ThreadOK("receive", packet[t], data[t]) BY DEF ThreadOK
<1>10. QED BY <1>2, <1>3, <1>7, <1>8, <1>9, TaskStep

\* GetTemp, Respond and Cancelled change nothing but the thread's place.
LEMMA LeavesTyped ==
  ASSUME Typed, NEW t \in Threads, pc[t] # "none", NEW l \in {"receive", "gone"}, Goto(t, l),
         Same, UNCHANGED <<limits, misread, bus, chip, sampling>>
  PROVE  Typed'
<1>1. Goes(t, l, packet[t], data[t]) BY GotoDoes DEF Same, Label
<1>2. BusTyped /\ i2c' = i2c /\ ChipTyped /\ SamplingTyped BY StaysTyped
<1>3. commands' \in 0 .. MaxCommands /\ limits' \in [Limits -> Nat] /\ misread' \in BOOLEAN
  BY DEF Same, Typed, TypeOK, Shapes
<1>4. ThreadOK(l, packet[t], data[t]) /\ l # "address" BY DEF ThreadOK
<1>5. QED BY <1>1, <1>2, <1>3, <1>4, TaskStep

LEMMA TempTaskTyped ==
  ASSUME Typed, NEW t \in Threads, TempTask(t) PROVE Typed'
<1>1. CASE Start(t) BY <1>1, StartTyped
<1>2. CASE Receive(t) BY <1>2, ReceiveTyped
<1>3. CASE InitContext(t) BY <1>3, InitContextTyped
<1>4. CASE InitAddress(t) BY <1>4, InitAddressTyped
<1>5. CASE WriteReg(t) BY <1>5, WriteRegTyped
<1>6. CASE GetTemp(t) BY <1>6, LeavesTyped DEF GetTemp, At
<1>7. CASE ReadWord(t) BY <1>7, ReadWordTyped
<1>8. CASE ReadLog(t) BY <1>8, ReadLogTyped
<1>9. CASE Respond(t) BY <1>9, LeavesTyped DEF Respond, At
<1>10. CASE Modify(t) BY <1>10, ModifyTyped
<1>11. CASE Cancelled(t) BY <1>11, LeavesTyped DEF Cancelled, history
<1>12. QED BY <1>1, <1>2, <1>3, <1>4, <1>5, <1>6, <1>7, <1>8, <1>9, <1>10, <1>11 DEF TempTask

LEMMA RestartTyped ==
  ASSUME Typed, Restart PROVE Typed'
<1>1. /\ cur \in Threads /\ cur < MaxThreads /\ cur' = cur + 1
      /\ pc \in [Threads -> Label] /\ pc' = [pc EXCEPT ![cur + 1] = "start"]
      /\ UNCHANGED <<packet, data, commands, bus, chip, sampling, history>>
  BY DEF Restart, Goto, Typed, TypeOK, Shapes
<1>2. cur + 1 \in Threads /\ cur \in Nat /\ Threads \subseteq Nat
  BY <1>1, TempAssumption DEF Threads
<1>3. pc' \in [Threads -> Label] BY <1>1, <1>2 DEF Label
<1>4. \A t \in Threads : pc'[t] = "none" <=> t > cur'
  <2> SUFFICES ASSUME NEW t \in Threads PROVE pc'[t] = "none" <=> t > cur'
    OBVIOUS
  <2>1. t \in Nat /\ (pc[t] = "none" <=> t > cur) BY <1>2 DEF Typed, TypeOK
  <2>2. CASE t = cur + 1
    <3>1. pc'[t] = "start" BY <1>1, <1>2, <2>2
    <3>2. ~(t > cur') BY <1>1, <1>2, <2>2
    <3>3. QED BY <3>1, <3>2
  <2>3. CASE t # cur + 1
    <3>1. pc'[t] = pc[t] BY <1>1, <2>3
    <3>2. t > cur' <=> t > cur BY <1>1, <1>2, <2>1, <2>3
    <3>3. QED BY <2>1, <3>1, <3>2
  <2>4. QED BY <2>2, <2>3
<1>5. BusTyped /\ i2c' = i2c /\ ChipTyped /\ SamplingTyped BY <1>1, StaysTyped
<1>6. Handling'
  <2> SUFFICES ASSUME NEW t \in Threads
               PROVE  ThreadOK(pc'[t], packet'[t], data'[t]) /\ (pc'[t] = "address" => i2c' # 0)
    BY DEF Handling
  <2>1. packet' = packet /\ data' = data BY <1>1
  <2>2. CASE t = cur + 1
    <3>1. pc'[t] = "start" BY <1>1, <1>2, <2>2
    <3>2. QED BY <3>1 DEF ThreadOK
  <2>3. CASE t # cur + 1
    <3>1. pc'[t] = pc[t] BY <1>1, <2>3
    <3>2. QED BY <1>5, <2>1, <3>1 DEF Typed, Handling
  <2>4. QED BY <2>2, <2>3
<1>7. TypeOK'
  <2>1. /\ data' \in [Threads -> Words] /\ cur' \in Threads /\ commands' \in 0 .. MaxCommands
        /\ \A t \in Threads : packet'[t] = NoPacket \/ packet'[t] \in Packets
        /\ misread' \in BOOLEAN
    BY <1>1, <1>2 DEF Typed, TypeOK, history
  <2>2. QED
    BY <1>3, <1>4, <1>5, <2>1 DEF TypeOK, BusTyped, ChipTyped, SamplingTyped, Label
<1>8. Shapes' BY <1>1, <1>3, <1>5 DEF Typed, Shapes, BusTyped, history
<1>9. QED BY <1>5, <1>6, <1>7, <1>8 DEF Typed, ChipTyped, SamplingTyped

\* When no thread moves, the rest decides.
LEMMA OthersTyped ==
  ASSUME Typed, UNCHANGED task, UNCHANGED history, BusTyped, i2c' = i2c, ChipTyped, SamplingTyped
  PROVE  Typed'
<1>1. pc' = pc /\ packet' = packet /\ data' = data /\ cur' = cur /\ commands' = commands
  BY DEF task
<1>2. Handling' BY <1>1 DEF Typed, Handling
<1>3. /\ pc' \in [Threads -> Label] /\ data' \in [Threads -> Words] /\ cur' \in Threads
      /\ commands' \in 0 .. MaxCommands
      /\ \A t \in Threads : packet'[t] = NoPacket \/ packet'[t] \in Packets
      /\ \A t \in Threads : pc'[t] = "none" <=> t > cur'
      /\ misread' \in BOOLEAN
  BY <1>1 DEF Typed, TypeOK, Label, history
<1>4. TypeOK' BY <1>3 DEF TypeOK, BusTyped, ChipTyped, SamplingTyped, Label
<1>5. Shapes' BY <1>1, <1>3 DEF Typed, Shapes, BusTyped, history
<1>6. QED BY <1>2, <1>4, <1>5 DEF Typed, ChipTyped, SamplingTyped

LEMMA MeasureTyped ==
  ASSUME Typed, Measure PROVE Typed'
<1>1. reg \in [0 .. 3 -> Words] /\ Contents /\ pointer \in 0 .. 3 BY DEF Typed, TypeOK
<1>2. reg[TEMP_REG_TEMP] \in Measured .. Measured + MaxMeasured
  <2>1. TEMP_REG_TEMP \in 0 .. 3 OBVIOUS
  <2>2. reg[TEMP_REG_TEMP] \in Holds(TEMP_REG_TEMP) BY <1>1, <2>1 DEF Contents
  <2>3. QED BY <2>2, HeldWords
<1>3. reg[TEMP_REG_TEMP] + 1 \in Measured .. Measured + MaxMeasured
  BY <1>2, TempAssumption DEF Measure, Measured
<1>4. reg' = [reg EXCEPT ![TEMP_REG_TEMP] = reg[TEMP_REG_TEMP] + 1] BY DEF Measure
<1>5. reg' \in [0 .. 3 -> Words] BY <1>1, <1>3, <1>4, HeldWords
<1>6. Contents' BY <1>1, <1>3, <1>4, HeldWords DEF Contents
<1>7. ChipTyped BY <1>1, <1>5, <1>6 DEF ChipTyped, Measure
<1>8. BusTyped /\ i2c' = i2c /\ SamplingTyped BY StaysTyped DEF Measure
<1>9. QED BY <1>7, <1>8, OthersTyped DEF Measure

LEMMA IdleIs == Idle \in [at : {"idle", "read", "store"}, data : Words] /\ Idle.at = "idle"
BY HeldWords DEF Idle

\* A callback is where it has been told to be, and the others are where they were.
LEMMA CallbackGoes ==
  ASSUME Typed, NEW k \in Callbacks, NEW c \in [at : {"idle", "read", "store"}, data : Words],
         c.at = "store" => c.data \in Holds(TEMP_REG_TEMP) \cup {NoData},
         callback' = [callback EXCEPT ![k] = c]
  PROVE  /\ callback' \in [Callbacks -> [at : {"idle", "read", "store"}, data : Words]]
         /\ Sampling'
<1>1. callback \in [Callbacks -> [at : {"idle", "read", "store"}, data : Words]]
  BY DEF Typed, TypeOK
<1>2. callback'[k] = c /\ \A j \in Callbacks \ {k} : callback'[j] = callback[j] BY <1>1
<1>3. Sampling' BY <1>2 DEF Typed, Sampling
<1>4. QED BY <1>1, <1>3

LEMMA ExpireDoes ==
  ASSUME Typed, NEW k \in Callbacks, Expire(k)
  PROVE  \E c \in [at : {"read"}, data : Words] : callback' = [callback EXCEPT ![k] = c]
<1>1. callback[k] \in [at : {"idle", "read", "store"}, data : Words]
  BY DEF Typed, TypeOK
<1> DEFINE c == [at |-> "read", data |-> callback[k].data]
<1>2. callback' = [callback EXCEPT ![k] = [callback[k] EXCEPT !.at = "read"]] BY DEF Expire
<1>3. \A e \in [at : {"idle", "read", "store"}, data : Words] :
        [e EXCEPT !.at = "read"] = [at |-> "read", data |-> e.data]
  OBVIOUS
<1>4. callback' = [callback EXCEPT ![k] = c] BY <1>1, <1>2, <1>3
<1>5. c \in [at : {"read"}, data : Words] BY <1>1
<1>6. QED BY <1>4, <1>5

LEMMA ExpireTyped ==
  ASSUME Typed, NEW k \in Callbacks, Expire(k) PROVE Typed'
<1>1. PICK c \in [at : {"read"}, data : Words] : callback' = [callback EXCEPT ![k] = c]
  BY ExpireDoes
<1>2. c \in [at : {"idle", "read", "store"}, data : Words] /\ c.at = "read" BY <1>1
<1>3. /\ callback' \in [Callbacks -> [at : {"idle", "read", "store"}, data : Words]]
      /\ Sampling'
  BY <1>1, <1>2, CallbackGoes
<1>4. armed' \in Nat /\ made' \in 0 .. MaxTimers /\ temperature_c' \in Words \cup {Unset}
  BY DEF Expire, Typed, TypeOK
<1>5. SamplingTyped BY <1>3, <1>4 DEF SamplingTyped
<1>6. BusTyped /\ i2c' = i2c /\ ChipTyped BY StaysTyped DEF Expire
<1>7. QED BY <1>5, <1>6, OthersTyped DEF Expire

LEMMA SampleReadTyped ==
  ASSUME Typed, NEW k \in Callbacks, SampleRead(k) PROVE Typed'
<1>1. PICK ok \in Outcomes :
        /\ callback' = [callback EXCEPT ![k] = [at |-> "store", data |-> WordAt(TEMP_REG_TEMP, ok)]]
        /\ Pointed(TEMP_REG_TEMP, ok)
  BY DEF SampleRead
<1> DEFINE w == WordAt(TEMP_REG_TEMP, ok)
           c == [at |-> "store", data |-> w]
<1>2. w \in Holds(TEMP_REG_TEMP) \cup {NoData} BY WordAtIs
<1>3. w \in Words BY <1>2, HeldWords
<1>4. callback' = [callback EXCEPT ![k] = c] BY <1>1
<1>5. c \in [at : {"idle", "read", "store"}, data : Words] /\ c.data = w BY <1>3
<1> HIDE DEF w, c
<1>6. /\ callback' \in [Callbacks -> [at : {"idle", "read", "store"}, data : Words]]
      /\ Sampling'
  BY <1>2, <1>4, <1>5, CallbackGoes
<1>7. armed' \in Nat /\ made' \in 0 .. MaxTimers /\ temperature_c' \in Words \cup {Unset}
  BY DEF SampleRead, Typed, TypeOK
<1>8. SamplingTyped BY <1>6, <1>7 DEF SamplingTyped
<1>9. BusTyped /\ i2c' = i2c BY StaysTyped DEF SampleRead
<1>10. ChipTyped BY <1>1, PointedIs DEF SampleRead
<1>11. QED BY <1>8, <1>9, <1>10, OthersTyped DEF SampleRead

LEMMA SampleStoreTyped ==
  ASSUME Typed, NEW k \in Callbacks, SampleStore(k) PROVE Typed'
<1>1. callback' = [callback EXCEPT ![k] = Idle] BY DEF SampleStore
<1>2. /\ callback' \in [Callbacks -> [at : {"idle", "read", "store"}, data : Words]]
      /\ Sampling'
  BY <1>1, IdleIs, CallbackGoes
<1>3. temperature_c' \in Words \cup {Unset}
  <2>1. callback[k] \in [at : {"idle", "read", "store"}, data : Words] BY DEF Typed, TypeOK
  <2>2. callback[k].data \in Words BY <2>1
  <2>3. QED BY <2>2 DEF SampleStore
<1>4. armed' \in Nat /\ made' \in 0 .. MaxTimers BY TimerInitIs DEF SampleStore, Typed
<1>5. SamplingTyped BY <1>2, <1>3, <1>4 DEF SamplingTyped
<1>6. BusTyped /\ i2c' = i2c /\ ChipTyped BY StaysTyped DEF SampleStore
<1>7. QED BY <1>5, <1>6, OthersTyped DEF SampleStore

LEMMA NextTyped ==
  ASSUME Typed, [Next]_vars PROVE Typed'
<1>1. CASE Measure BY <1>1, MeasureTyped
<1>2. CASE Restart BY <1>2, RestartTyped
<1>3. CASE \E t \in Threads : TempTask(t) BY <1>3, TempTaskTyped
<1>4. CASE \E k \in Callbacks : Expire(k) BY <1>4, ExpireTyped
<1>5. CASE \E k \in Callbacks : SampleRead(k) BY <1>5, SampleReadTyped
<1>6. CASE \E k \in Callbacks : SampleStore(k) BY <1>6, SampleStoreTyped
<1>7. CASE UNCHANGED vars
  <2>1. BusTyped /\ i2c' = i2c /\ ChipTyped /\ SamplingTyped BY <1>7, StaysTyped DEF vars
  <2>2. QED BY <1>7, <2>1, OthersTyped DEF vars
<1>8. QED BY <1>1, <1>2, <1>3, <1>4, <1>5, <1>6, <1>7 DEF Next

LEMMA AlwaysTyped == Spec => []Typed
<1>1. Init => Typed BY InitTyped
<1>2. Typed /\ [Next]_vars => Typed' BY NextTyped
<1>3. QED BY <1>1, <1>2, PTL DEF Spec

(* Every variable of the temperature task keeps its type, for any number   *)
(* of threads, timers and commands: a register only ever holds one of the  *)
(* words it can have, and only the threads made so far are somewhere       *)
(* (temp.c:35-134, 150-340).                                               *)
THEOREM TempTypeCorrect == Spec => []TypeOK
<1>1. Typed => TypeOK BY DEF Typed
<1>2. QED BY <1>1, AlwaysTyped, PTL

-----------------------------------------------------------------------------
(* What TEMP_READREG answers.                                              *)

LEMMA RespondIsHonest ==
  ASSUME Typed, NEW t \in Threads, Respond(t) PROVE ReadregHonest'
<1>1. pc[t] = "respond" BY DEF Respond, At
<1>2. packet[t].cmd = "READREG" /\ data[t] \in Holds(Target(packet[t])) \cup {NoData}
  BY <1>1 DEF Typed, Handling, ThreadOK
<1>3. Target(packet[t]) = packet[t].reg BY <1>2 DEF Target
<1>4. answer' = [cmd |-> "READREG", reg |-> packet[t].reg, value |-> data[t]] BY DEF Respond
<1>5. answer'.reg = packet[t].reg /\ answer'.value = data[t] BY <1>4
<1>6. QED BY <1>2, <1>3, <1>5 DEF ReadregHonest

LEMMA NextHonest ==
  ASSUME Typed, ReadregHonest, [Next]_vars PROVE ReadregHonest'
<1>1. CASE answer' = answer BY <1>1 DEF ReadregHonest
<1>2. CASE \E t \in Threads : GetTemp(t)
  <2>1. answer'.cmd = "GETTEMP" BY <1>2 DEF GetTemp
  <2>2. QED BY <2>1 DEF ReadregHonest
<1>3. CASE \E t \in Threads : Respond(t) BY <1>3, RespondIsHonest
<1>4. CASE \E t \in Threads : TempTask(t) /\ ~GetTemp(t) /\ ~Respond(t)
  <2>1. answer' = answer
    BY <1>4 DEF TempTask, Start, Receive, InitContext, InitAddress, WriteReg, ReadWord, ReadLog,
                Modify, Cancelled, history
  <2>2. QED BY <1>1, <2>1
<1>5. CASE Measure \/ Restart
  <2>1. answer' = answer BY <1>5 DEF Measure, Restart, history
  <2>2. QED BY <1>1, <2>1
<1>6. CASE \E k \in Callbacks : Expire(k) \/ SampleRead(k) \/ SampleStore(k)
  <2>1. answer' = answer BY <1>6 DEF Expire, SampleRead, SampleStore, history
  <2>2. QED BY <1>1, <2>1
<1>7. CASE UNCHANGED vars BY <1>1, <1>7 DEF vars, history
<1>8. QED BY <1>2, <1>3, <1>4, <1>5, <1>6, <1>7 DEF Next

(* Without a lock around the bus, a response to TEMP_READREG never carries *)
(* the contents of another register than the one asked for: a word is read *)
(* in one transfer with its register, so the callbacks and a cancelled     *)
(* task cannot come in between (temp.c:48, 205-220).                       *)
THEOREM ReadregIsHonest == Spec => []ReadregHonest
<1>1. Init => ReadregHonest BY DEF Init, NoPacket, ReadregHonest
<1>2. Typed /\ ReadregHonest /\ [Next]_vars => ReadregHonest' BY NextHonest
<1>3. QED BY <1>1, <1>2, AlwaysTyped, PTL DEF Spec

-----------------------------------------------------------------------------
(* The limit registers.                                                    *)

\* While the first thread is the only one and the sensor answers, a failed read
\* means that there is no device to write to either, until the thread has used
\* what it has read.
Matched ==
  /\ LimitsKept
  /\ /\ cur = 1 /\ ~misread
     /\ pc[1] \in {"log", "modify"} /\ packet[1].cmd # "READREG" /\ data[1] = NoData
     => ~BusOk

LEMMA OnlyFirst ==
  ASSUME Typed, NEW t \in Threads, cur = 1, pc[t] # "none" PROVE t = 1
BY DEF Typed, TypeOK, Threads

LEMMA WorkerIsMade ==
  ASSUME Typed, NEW t \in Threads, TempTask(t)
  PROVE  pc[t] # "none" /\ cur' = cur
BY DEF TempTask, Start, Receive, InitContext, InitAddress, WriteReg, GetTemp, ReadWord, ReadLog,
       Respond, Modify, Cancelled, At, Same

\* A step that leaves the limit registers alone and the thread elsewhere.
LEMMA MatchedQuietly ==
  ASSUME Typed, Matched, NEW t \in Threads, pc[t] # "none", NEW l \in Label \ {"none", "log", "modify"},
         Goto(t, l), UNCHANGED <<cur, reg, limits, misread>>
  PROVE  Matched'
<1>1. LimitsKept' BY DEF Matched, LimitsKept
<1>2. CASE cur = 1
  <2>1. t = 1 BY <1>2, OnlyFirst
  <2>2. pc'[1] = l BY <2>1 DEF Goto, Typed, Shapes
  <2>3. QED BY <1>1, <2>2 DEF Matched
<1>3. CASE cur # 1 BY <1>1, <1>3 DEF Matched
<1>4. QED BY <1>2, <1>3

LEMMA MatchedWrite ==
  ASSUME Typed, Matched, NEW t \in Threads, WriteReg(t) PROVE Matched'
<1>1. pc[t] = "write" /\ cur' = cur /\ misread' = misread BY DEF WriteReg, At, Same
<1>2. Goto(t, "receive") BY DEF WriteReg
<1>3. packet[t] \in Packets /\ packet[t].cmd \in Writing
  BY <1>1 DEF Typed, Handling, ThreadOK
<1>4. /\ reg \in [0 .. 3 -> Words] /\ limits \in [Limits -> Nat] /\ LimitsKept
  BY DEF Typed, TypeOK, Shapes, Matched
<1>5. PICK ok \in Outcomes :
        CASE packet[t].cmd = "WRITEREG" ->
               /\ WriteWord(packet[t].value, packet[t].reg, ok)
               /\ limits' = IF ok THEN [limits EXCEPT ![packet[t].reg] = packet[t].value] ELSE limits
          [] packet[t].cmd = "WRITECONFIG" ->
               WriteWord(packet[t].value, TEMP_REG_CTRL, ok) /\ UNCHANGED limits
          [] packet[t].cmd = "WRITEPTR" ->
               Pointed(packet[t].reg, ok) /\ UNCHANGED <<reg, limits>>
  BY DEF WriteReg
<1>6. LimitsKept'
  <2>1. CASE packet[t].cmd = "WRITEREG"
    <3>1. packet[t].reg \in Limits BY <1>3, <2>1, PacketFacts
    <3>2. packet[t].reg # TEMP_REG_TEMP BY <3>1 DEF Limits
    <3>3. /\ WriteWord(packet[t].value, packet[t].reg, ok)
          /\ limits' = IF ok THEN [limits EXCEPT ![packet[t].reg] = packet[t].value] ELSE limits
      BY <1>5, <2>1
    <3>4. CASE ok
      <4>1. /\ reg' = [reg EXCEPT ![packet[t].reg] = packet[t].value]
            /\ limits' = [limits EXCEPT ![packet[t].reg] = packet[t].value]
        BY <3>2, <3>3, <3>4 DEF WriteWord
      <4>2. QED BY <1>1, <1>4, <3>1, <4>1 DEF LimitsKept, Limits
    <3>5. CASE ~ok
      <4>1. reg' = reg /\ limits' = limits BY <3>3, <3>5 DEF WriteWord
      <4>2. QED BY <1>1, <1>4, <4>1 DEF LimitsKept
    <3>6. QED BY <3>4, <3>5
  <2>2. CASE packet[t].cmd = "WRITECONFIG"
    <3>1. WriteWord(packet[t].value, TEMP_REG_CTRL, ok) /\ limits' = limits BY <1>5, <2>2
    <3>2. reg' = reg \/ reg' = [reg EXCEPT ![TEMP_REG_CTRL] = packet[t].value]
      BY <3>1 DEF WriteWord
    <3>3. QED BY <1>1, <1>4, <3>1, <3>2 DEF LimitsKept
  <2>3. CASE packet[t].cmd = "WRITEPTR"
    <3>1. reg' = reg /\ limits' = limits BY <1>5, <2>3
    <3>2. QED BY <1>1, <1>4, <3>1 DEF LimitsKept
  <2>4. QED BY <1>3, <2>1, <2>2, <2>3 DEF Writing
<1>7. CASE cur = 1
  <2>1. t = 1 BY <1>1, <1>7, OnlyFirst
  <2>2. pc'[1] = "receive" BY <1>2, <2>1 DEF Goto, Typed, Shapes
  <2>3. QED BY <1>6, <2>2 DEF Matched
<1>8. CASE cur # 1 BY <1>1, <1>6, <1>8 DEF Matched
<1>9. QED BY <1>7, <1>8

LEMMA MatchedRead ==
  ASSUME Typed, Matched, NEW t \in Threads, ReadWord(t) PROVE Matched'
<1> DEFINE r == Target(packet[t])
<1>1. pc[t] = "read" /\ cur' = cur /\ packet' = packet BY DEF ReadWord, At
<1>2. packet[t] \in Packets /\ packet[t].cmd \in Reading
  BY <1>1 DEF Typed, Handling, ThreadOK
<1>3. r \in 0 .. 3 BY <1>2, TargetIs
<1>4. PICK ok \in Outcomes :
        /\ data' = [data EXCEPT ![t] = WordAt(r, ok)]
        /\ misread' = (misread \/ (packet[t].cmd # "READREG" /\ BusOk /\ ~ok))
  BY DEF ReadWord, Target
<1> HIDE DEF r
<1>5. BusOk' = BusOk /\ reg' = reg /\ limits' = limits BY DEF ReadWord, bus, BusOk
<1>6. misread => misread' BY <1>4
<1>7. LimitsKept' BY <1>1, <1>5, <1>6 DEF Matched, LimitsKept
<1>8. CASE cur = 1 /\ ~misread' /\ packet[t].cmd # "READREG" /\ data'[1] = NoData
  <2>1. t = 1 BY <1>1, <1>8, OnlyFirst
  <2>2. data'[1] = WordAt(r, ok) BY <1>4, <2>1 DEF Typed, TypeOK
  <2>3. reg[r] # NoData BY <1>3, HeldWords DEF Typed, Contents
  <2>4. ~ok BY <1>8, <2>2, <2>3 DEF WordAt
  <2>5. ~BusOk BY <1>4, <1>8, <2>4
  <2>6. QED BY <1>5, <1>7, <2>5 DEF Matched
<1>9. CASE cur = 1 /\ packet[t].cmd = "READREG"
  <2>1. t = 1 BY <1>1, <1>9, OnlyFirst
  <2>2. pc'[1] = "log" BY <2>1 DEF ReadWord, Goto, Typed, Shapes
  <2>3. packet'[1].cmd = "READREG" BY <1>1, <1>9, <2>1
  <2>4. QED BY <1>7, <2>2, <2>3 DEF Matched
<1>10. QED BY <1>1, <1>7, <1>8, <1>9 DEF Matched

LEMMA MatchedLog ==
  ASSUME Typed, Matched, NEW t \in Threads, ReadLog(t) PROVE Matched'
<1>1. pc[t] = "log" /\ cur' = cur /\ packet' = packet BY DEF ReadLog, At, Same
<1>2. BusOk' = BusOk /\ reg' = reg /\ limits' = limits /\ data' = data /\ misread' = misread
  BY DEF ReadLog, bus, chip, history, BusOk, Same
<1>3. LimitsKept' BY <1>1, <1>2 DEF Matched, LimitsKept
<1>4. CASE cur = 1
  <2>1. t = 1 BY <1>1, <1>4, OnlyFirst
  <2>2. pc'[1] = IF packet[1].cmd = "READREG" THEN "respond" ELSE "modify"
    BY <2>1 DEF ReadLog, Goto, Typed, Shapes
  <2>3. QED BY <1>1, <1>2, <1>3, <2>1, <2>2 DEF Matched
<1>5. CASE cur # 1 BY <1>1, <1>3, <1>5 DEF Matched
<1>6. QED BY <1>4, <1>5

LEMMA MatchedModify ==
  ASSUME Typed, Matched, NEW t \in Threads, Modify(t) PROVE Matched'
<1>1. pc[t] = "modify" /\ cur' = cur BY DEF Modify, At, Same
<1>2. limits' = limits /\ misread' = misread BY DEF Modify, history
<1>3. /\ packet[t] \in Packets /\ packet[t].cmd \in Reading /\ packet[t].cmd # "READREG"
      /\ data[t] \in Holds(Target(packet[t])) \cup {NoData}
  BY <1>1 DEF Typed, Handling, ThreadOK
<1>4. reg \in [0 .. 3 -> Words] /\ LimitsKept BY DEF Typed, TypeOK, Matched
<1>5. PICK ok \in Outcomes :
        WriteWord(One, AsAddress(IF data[t] = NoData THEN NoData ELSE NewCtrl(packet[t], data[t])), ok)
  BY DEF Modify
<1>6. LimitsKept'
  <2>1. CASE data[t] # NoData
    <3>1. data[t] \in 0 .. 7 BY <1>3, <2>1, HeldWords DEF Target
    <3>2. NewCtrl(packet[t], data[t]) \in 0 .. 7 BY <1>3, <3>1, NewCtrlIs
    <3>3. AsAddress(NewCtrl(packet[t], data[t])) = TEMP_REG_TEMP BY <3>2 DEF AsAddress, NoData
    <3>4. WriteWord(One, AsAddress(NewCtrl(packet[t], data[t])), ok) BY <1>5, <2>1
    <3>5. reg' = reg BY <3>3, <3>4 DEF WriteWord
    <3>6. QED BY <1>1, <1>2, <1>4, <3>5 DEF LimitsKept
  <2>2. CASE data[t] = NoData
    <3>1. WriteWord(One, TEMP_REG_LOW, ok) BY <1>5, <2>2 DEF AsAddress
    <3>2. reg' = reg \/ (BusOk /\ reg' = [reg EXCEPT ![TEMP_REG_LOW] = One])
      BY <3>1, OutcomeIs DEF WriteWord
    <3>3. cur = 1 => t = 1 BY <1>1, OnlyFirst
    <3>4. BusOk => misread \/ cur # 1 BY <1>1, <1>3, <2>2, <3>3 DEF Matched
    <3>5. cur # 1 => cur > 1 BY TempAssumption DEF Typed, TypeOK, Threads
    <3>6. QED BY <1>1, <1>2, <1>4, <3>2, <3>4, <3>5 DEF LimitsKept
  <2>3. QED BY <2>1, <2>2
<1>7. CASE cur = 1
  <2>1. t = 1 BY <1>1, <1>7, OnlyFirst
  <2>2. pc'[1] = "receive" BY <2>1 DEF Modify, Goto, Typed, Shapes
  <2>3. QED BY <1>6, <2>2 DEF Matched
<1>8. CASE cur # 1 BY <1>1, <1>6, <1>8 DEF Matched
<1>9. QED BY <1>7, <1>8

LEMMA NextMatched ==
  ASSUME Typed, Matched, [Next]_vars PROVE Matched'
<1>1. CASE \E t \in Threads : TempTask(t)
  <2> SUFFICES ASSUME NEW t \in Threads, TempTask(t) PROVE Matched'
    BY <1>1
  <2>1. pc[t] # "none" /\ cur' = cur BY WorkerIsMade
  <2>2. CASE Start(t)
    <3>1. UNCHANGED <<reg, limits, misread>> BY <2>2 DEF Start, chip, history
    <3>2. QED BY <2>1, <2>2, <3>1, MatchedQuietly DEF Start, Label
  <2>3. CASE Receive(t)
    <3>1. UNCHANGED <<reg, limits, misread>> BY <2>3 DEF Receive, chip, history
    <3>2. PICK p \in Packets :
            Goto(t, CASE p.cmd = "INIT" -> "init"
                      [] p.cmd = "GETTEMP" -> "gettemp"
                      [] p.cmd \in {"WRITEREG", "WRITECONFIG", "WRITEPTR"} -> "write"
                      [] p.cmd = "KILL" -> "gone"
                      [] OTHER -> "read")
      BY <2>3 DEF Receive
    <3>3. PICK l \in {"init", "gettemp", "write", "gone", "read"} : Goto(t, l)
      <4>1. CASE p.cmd = "INIT" BY <3>2, <4>1
      <4>2. CASE p.cmd = "GETTEMP" BY <3>2, <4>2
      <4>3. CASE p.cmd \in {"WRITEREG", "WRITECONFIG", "WRITEPTR"} BY <3>2, <4>3
      <4>4. CASE p.cmd = "KILL" BY <3>2, <4>4
      <4>5. CASE p.cmd \notin {"INIT", "GETTEMP", "WRITEREG", "WRITECONFIG", "WRITEPTR", "KILL"}
        BY <3>2, <4>5
      <4>6. QED BY <4>1, <4>2, <4>3, <4>4, <4>5
    <3>4. QED BY <2>1, <3>1, <3>3, MatchedQuietly DEF Label
  <2>4. CASE InitContext(t)
    <3>1. UNCHANGED <<reg, limits, misread>> BY <2>4 DEF InitContext, chip, history
    <3>2. QED BY <2>1, <2>4, <3>1, MatchedQuietly DEF InitContext, Label
  <2>5. CASE InitAddress(t)
    <3>1. UNCHANGED <<reg, limits, misread>> BY <2>5 DEF InitAddress, chip, history
    <3>2. QED BY <2>1, <2>5, <3>1, MatchedQuietly DEF InitAddress, Label
  <2>6. CASE WriteReg(t) BY <2>6, MatchedWrite
  <2>7. CASE GetTemp(t)
    <3>1. UNCHANGED <<reg, limits, misread>> BY <2>7 DEF GetTemp, chip
    <3>2. QED BY <2>1, <2>7, <3>1, MatchedQuietly DEF GetTemp, Label
  <2>8. CASE ReadWord(t) BY <2>8, MatchedRead
  <2>9. CASE ReadLog(t) BY <2>9, MatchedLog
  <2>10. CASE Respond(t)
    <3>1. UNCHANGED <<reg, limits, misread>> BY <2>10 DEF Respond, chip
    <3>2. QED BY <2>1, <2>10, <3>1, MatchedQuietly DEF Respond, Label
  <2>11. CASE Modify(t) BY <2>11, MatchedModify
  <2>12. CASE Cancelled(t)
    <3>1. UNCHANGED <<reg, limits, misread>> BY <2>12 DEF Cancelled, chip, history
    <3>2. QED BY <2>1, <2>12, <3>1, MatchedQuietly DEF Cancelled, Label
  <2>13. QED
    BY <2>2, <2>3, <2>4, <2>5, <2>6, <2>7, <2>8, <2>9, <2>10, <2>11, <2>12 DEF TempTask
<1>2. CASE Measure
  <2>1. reg \in [0 .. 3 -> Words] BY DEF Typed, TypeOK
  <2>2. \A r \in Limits : reg'[r] = reg[r] BY <1>2, <2>1 DEF Measure, Limits
  <2>3. UNCHANGED <<limits, data, pc, packet, cur, misread>> /\ BusOk' = BusOk
    BY <1>2 DEF Measure, bus, history, task, BusOk
  <2>4. QED BY <2>2, <2>3 DEF Matched, LimitsKept, Limits
<1>3. CASE Restart
  <2>1. cur' = cur + 1 /\ cur \in 1 .. MaxThreads BY <1>3 DEF Restart, Typed, TypeOK, Threads
  <2>2. cur' # 1 /\ cur' > 1 BY <2>1
  <2>3. UNCHANGED <<reg, limits, misread>> BY <1>3 DEF Restart, chip, history
  <2>4. LimitsKept' BY <2>2, <2>3 DEF Matched, LimitsKept
  <2>5. QED BY <2>2, <2>4 DEF Matched
<1>4. CASE \/ \E k \in Callbacks : Expire(k) \/ SampleRead(k) \/ SampleStore(k)
           \/ UNCHANGED vars
  <2>1. BusOk' = BusOk /\ UNCHANGED <<reg, limits, data, pc, packet, cur, misread>>
    BY <1>4 DEF Expire, SampleRead, SampleStore, vars, bus, chip, history, task, BusOk
  <2>2. QED BY <2>1 DEF Matched, LimitsKept
<1>5. QED BY <1>1, <1>2, <1>3, <1>4 DEF Next

(* Nothing but TEMP_WRITEREG ever changes the upper limit, and the lower   *)
(* one holds what TEMP_WRITEREG has written or the word 1, although the    *)
(* handlers of SETCONV, SHUTDOWN and WAKEUP exchange register and word of  *)
(* their write: a good word names the temperature register, and the word   *)
(* of a failed read names the lower limit.  With one task and a sensor     *)
(* that answers once it has its address, the lower limit is kept as well   *)
(* (temp.c:48, 60-75, 280, 289, 298).                                      *)
THEOREM LimitsAreKept == Spec => []LimitsKept
<1>1. Init => Matched
  <2>1. Init => LimitsKept BY DEF Init, Limits, LimitsKept
  <2>2. Init => pc[1] \notin {"log", "modify"} BY TempAssumption DEF Init, Threads
  <2>3. QED BY <2>1, <2>2 DEF Matched
<1>2. Typed /\ Matched /\ [Next]_vars => Matched' BY NextMatched
<1>3. Matched => LimitsKept BY DEF Matched
<1>4. QED BY <1>1, <1>2, <1>3, AlwaysTyped, PTL DEF Spec

-----------------------------------------------------------------------------
(* The chains of samples.                                                  *)

\* The threads that have set the first timer of their chain.
Begun == {t \in 1 .. cur : pc[t] # "start"}

LEMMA FiniteChains ==
  ASSUME Typed PROVE IsFiniteSet(Active) /\ IsFiniteSet(Begun) /\ Begun \subseteq Threads
<1>1. IsFiniteSet(Active) BY TempAssumption, FS_Subset DEF Active
<1>2. cur \in Int /\ 1 .. cur \subseteq Threads
  BY TempAssumption DEF Typed, TypeOK, Threads
<1>3. IsFiniteSet(1 .. cur) BY <1>2, FS_Interval
<1>4. Begun \subseteq 1 .. cur BY DEF Begun
<1>5. IsFiniteSet(Begun) BY <1>3, <1>4, FS_Subset
<1>6. QED BY <1>1, <1>2, <1>4, <1>5

\* How a callback becomes active and idle again.
LEMMA ExpireActive ==
  ASSUME Typed, NEW k \in Callbacks, Expire(k)
  PROVE  k \notin Active /\ Active' = Active \cup {k}
<1>1. PICK c \in [at : {"read"}, data : Words] : callback' = [callback EXCEPT ![k] = c]
  BY ExpireDoes
<1>2. c.at # "idle" BY <1>1
<1>3. callback'[k] = c /\ \A j \in Callbacks \ {k} : callback'[j] = callback[j]
  BY <1>1 DEF Typed, TypeOK
<1>4. callback[k].at = "idle" BY DEF Expire
<1>5. QED BY <1>2, <1>3, <1>4 DEF Active

LEMMA SampleReadActive ==
  ASSUME Typed, NEW k \in Callbacks, SampleRead(k)
  PROVE  /\ Active' = Active /\ callback'[k].at = "store"
         /\ callback'[k].data \in {reg[TEMP_REG_TEMP], NoData}
         /\ \A j \in Callbacks \ {k} : callback'[j] = callback[j]
<1>1. PICK ok \in Outcomes :
        callback' = [callback EXCEPT ![k] = [at |-> "store", data |-> WordAt(TEMP_REG_TEMP, ok)]]
  BY DEF SampleRead
<1> DEFINE c == [at |-> "store", data |-> WordAt(TEMP_REG_TEMP, ok)]
<1>2. c.at = "store" /\ c.data \in {reg[TEMP_REG_TEMP], NoData} BY DEF WordAt
<1>3. callback' = [callback EXCEPT ![k] = c] BY <1>1
<1> HIDE DEF c
<1>4. callback'[k] = c /\ \A j \in Callbacks \ {k} : callback'[j] = callback[j]
  BY <1>3 DEF Typed, TypeOK
<1>5. callback[k].at = "read" BY DEF SampleRead
<1>6. Active' = Active BY <1>2, <1>4, <1>5 DEF Active
<1>7. QED BY <1>2, <1>4, <1>6

LEMMA SampleStoreActive ==
  ASSUME Typed, NEW k \in Callbacks, SampleStore(k)
  PROVE  /\ k \in Active /\ Active' = Active \ {k} /\ callback'[k].at = "idle"
         /\ \A j \in Callbacks \ {k} : callback'[j] = callback[j]
<1>1. callback'[k] = Idle /\ \A j \in Callbacks \ {k} : callback'[j] = callback[j]
  BY DEF SampleStore, Typed, TypeOK
<1>2. callback[k].at = "store" BY DEF SampleStore
<1>3. QED BY <1>1, <1>2, IdleIs DEF Active

LEMMA StartBegun ==
  ASSUME Typed, NEW t \in Threads, Start(t)
  PROVE  t \notin Begun /\ Begun' = Begun \cup {t}
<1>1. pc[t] = "start" /\ cur' = cur /\ cur \in Threads BY DEF Start, At, Same, Typed, TypeOK
<1>2. t \in 1 .. cur BY <1>1 DEF Typed, TypeOK, Threads
<1>3. pc'[t] = "receive" /\ \A u \in Threads \ {t} : pc'[u] = pc[u]
  BY DEF Start, Goto, Typed, Shapes
<1>4. 1 .. cur \subseteq Threads BY <1>1, TempAssumption DEF Threads
<1>5. QED BY <1>1, <1>2, <1>3, <1>4 DEF Begun

\* No other step of a thread starts it.
LEMMA WorkBegun ==
  ASSUME Typed, NEW t \in Threads, TempTask(t), ~Start(t)
  PROVE  /\ Begun' = Begun /\ pc[t] # "start" /\ pc'[t] # "start"
         /\ UNCHANGED <<temperature_c, callback, armed, made>>
<1>1. /\ pc[t] # "start" /\ cur' = cur
      /\ \E l \in Label \ {"none", "start"} : Goto(t, l)
      /\ UNCHANGED sampling
  <2>1. CASE Receive(t)
    <3>1. PICK p \in Packets :
            Goto(t, CASE p.cmd = "INIT" -> "init"
                      [] p.cmd = "GETTEMP" -> "gettemp"
                      [] p.cmd \in {"WRITEREG", "WRITECONFIG", "WRITEPTR"} -> "write"
                      [] p.cmd = "KILL" -> "gone"
                      [] OTHER -> "read")
      BY <2>1 DEF Receive
    <3>2. PICK l \in {"init", "gettemp", "write", "gone", "read"} : Goto(t, l)
      <4>1. CASE p.cmd = "INIT" BY <3>1, <4>1
      <4>2. CASE p.cmd = "GETTEMP" BY <3>1, <4>2
      <4>3. CASE p.cmd \in {"WRITEREG", "WRITECONFIG", "WRITEPTR"} BY <3>1, <4>3
      <4>4. CASE p.cmd = "KILL" BY <3>1, <4>4
      <4>5. CASE p.cmd \notin {"INIT", "GETTEMP", "WRITEREG", "WRITECONFIG", "WRITEPTR", "KILL"}
        BY <3>1, <4>5
      <4>6. QED BY <4>1, <4>2, <4>3, <4>4, <4>5
    <3>3. l \in Label \ {"none", "start"} BY <3>2 DEF Label
    <3>4. QED BY <2>1, <3>2, <3>3 DEF Receive, At
  <2>2. CASE ReadLog(t)
    <3>1. Goto(t, "respond") \/ Goto(t, "modify") BY <2>2 DEF ReadLog
    <3>2. QED BY <2>2, <3>1 DEF ReadLog, At, Same, Label
  <2>3. CASE \/ InitContext(t) \/ InitAddress(t) \/ WriteReg(t) \/ GetTemp(t)
    BY <2>3 DEF InitContext, InitAddress, WriteReg, GetTemp, At, Same, Label
  <2>4. CASE ReadWord(t) \/ Respond(t) \/ Modify(t) \/ Cancelled(t)
    BY <2>4 DEF ReadWord, Respond, Modify, Cancelled, At, Same, Label
  <2>5. QED BY <2>1, <2>2, <2>3, <2>4 DEF TempTask
<1>2. PICK l \in Label \ {"none", "start"} : Goto(t, l) BY <1>1
<1>3. pc'[t] = l /\ \A u \in Threads \ {t} : pc'[u] = pc[u]
  BY <1>2 DEF Goto, Typed, Shapes
<1>4. 1 .. cur \subseteq Threads BY TempAssumption DEF Typed, TypeOK, Threads
<1>5. Begun' = Begun BY <1>1, <1>2, <1>3, <1>4 DEF Begun
<1>6. QED BY <1>1, <1>2, <1>3, <1>5 DEF sampling

LEMMA RestartBegun ==
  ASSUME Typed, Restart PROVE Begun' = Begun
<1>1. /\ cur \in Threads /\ cur < MaxThreads /\ cur' = cur + 1
      /\ pc' = [pc EXCEPT ![cur + 1] = "start"] /\ pc \in [Threads -> Label]
  BY DEF Restart, Goto, Typed, TypeOK, Shapes
<1>2. cur \in Nat /\ cur + 1 \in Threads /\ 1 .. cur + 1 \subseteq Threads
  BY <1>1, TempAssumption DEF Threads
<1>3. pc'[cur + 1] = "start" /\ \A t \in Threads \ {cur + 1} : pc'[t] = pc[t]
  BY <1>1, <1>2
<1>4. 1 .. cur' = (1 .. cur) \cup {cur + 1} /\ cur + 1 \notin 1 .. cur BY <1>1, <1>2
<1>5. QED BY <1>2, <1>3, <1>4 DEF Begun

LEMMA NextChain ==
  ASSUME Typed, ChainPerTask, [Next]_vars PROVE ChainPerTask'
<1> SUFFICES ASSUME made' < MaxTimers
             PROVE  armed' + Cardinality(Active') = Cardinality(Begun')
  BY DEF ChainPerTask, Started, Begun
<1>1. /\ armed \in Nat /\ made \in 0 .. MaxTimers /\ MaxTimers \in Nat
      /\ IsFiniteSet(Active) /\ IsFiniteSet(Begun)
      /\ Cardinality(Active) \in Nat /\ Cardinality(Begun) \in Nat
  BY TempAssumption, FiniteChains, FS_CardinalityType DEF Typed, TypeOK
<1>2. made < MaxTimers => armed + Cardinality(Active) = Cardinality(Begun)
  BY DEF ChainPerTask, Started, Begun
<1>3. TimerInit => made < MaxTimers /\ armed' = armed + 1 BY <1>1 DEF TimerInit
<1>4. CASE \E t \in Threads : Start(t)
  <2>1. PICK t \in Threads : Start(t) BY <1>4
  <2>2. t \notin Begun /\ Begun' = Begun \cup {t} BY <2>1, StartBegun
  <2>3. Cardinality(Begun') = Cardinality(Begun) + 1 BY <1>1, <2>2, FS_AddElement
  <2>4. callback' = callback /\ TimerInit BY <2>1 DEF Start
  <2>5. Active' = Active BY <2>4 DEF Active
  <2>6. QED BY <1>1, <1>2, <1>3, <2>3, <2>4, <2>5
<1>5. CASE \E t \in Threads : TempTask(t) /\ ~Start(t)
  <2>1. Begun' = Begun /\ callback' = callback /\ armed' = armed /\ made' = made
    BY <1>5, WorkBegun
  <2>2. Active' = Active BY <2>1 DEF Active
  <2>3. QED BY <1>2, <2>1, <2>2
<1>6. CASE Restart
  <2>1. Begun' = Begun BY <1>6, RestartBegun
  <2>2. callback' = callback /\ armed' = armed /\ made' = made BY <1>6 DEF Restart, sampling
  <2>3. Active' = Active BY <2>2 DEF Active
  <2>4. QED BY <1>2, <2>1, <2>2, <2>3
<1>7. CASE \E k \in Callbacks : Expire(k)
  <2>1. PICK k \in Callbacks : Expire(k) BY <1>7
  <2>2. k \notin Active /\ Active' = Active \cup {k} BY <2>1, ExpireActive
  <2>3. Cardinality(Active') = Cardinality(Active) + 1 BY <1>1, <2>2, FS_AddElement
  <2>4. armed > 0 /\ armed' = armed - 1 /\ made' = made BY <2>1 DEF Expire
  <2>5. Begun' = Begun BY <2>1 DEF Expire, task, Begun
  <2>6. QED BY <1>1, <1>2, <2>3, <2>4, <2>5
<1>8. CASE \E k \in Callbacks : SampleRead(k)
  <2>1. PICK k \in Callbacks : SampleRead(k) BY <1>8
  <2>2. Active' = Active BY <2>1, SampleReadActive
  <2>3. armed' = armed /\ made' = made BY <2>1 DEF SampleRead
  <2>4. Begun' = Begun BY <2>1 DEF SampleRead, task, Begun
  <2>5. QED BY <1>2, <2>2, <2>3, <2>4
<1>9. CASE \E k \in Callbacks : SampleStore(k)
  <2>1. PICK k \in Callbacks : SampleStore(k) BY <1>9
  <2>2. k \in Active /\ Active' = Active \ {k} BY <2>1, SampleStoreActive
  <2>3. Cardinality(Active') = Cardinality(Active) - 1 BY <1>1, <2>2, FS_RemoveElement
  <2>4. TimerInit BY <2>1 DEF SampleStore
  <2>5. Begun' = Begun BY <2>1 DEF SampleStore, task, Begun
  <2>6. QED BY <1>1, <1>2, <1>3, <2>3, <2>4, <2>5
<1>10. CASE Measure \/ UNCHANGED vars
  <2>1. callback' = callback /\ armed' = armed /\ made' = made /\ pc' = pc /\ cur' = cur
    BY <1>10 DEF Measure, vars, sampling, task
  <2>2. Active' = Active /\ Begun' = Begun BY <2>1 DEF Active, Begun
  <2>3. QED BY <1>2, <2>1, <2>2
<1>11. QED BY <1>4, <1>5, <1>6, <1>7, <1>8, <1>9, <1>10 DEF Next

(* Every start of the task starts one chain of samples, and no chain ends  *)
(* or doubles, whatever is read: a chain is a timer that is set or a       *)
(* callback on its way, until there are too many timers to set another     *)
(* (temp.c:45-58, 108-114, 131).                                           *)
THEOREM OneChainPerTask == Spec => []ChainPerTask
<1>1. Init => ChainPerTask
  <2> SUFFICES ASSUME Init PROVE ChainPerTask
    OBVIOUS
  <2>1. Active = {} BY DEF Init, Idle, Active
  <2>2. pc[1] = "start" /\ cur = 1 BY TempAssumption DEF Init, Threads
  <2>3. Begun = {} BY <2>2 DEF Begun
  <2>4. armed = 0 /\ Cardinality({}) = 0 BY FS_EmptySet DEF Init
  <2>5. Started = Cardinality(Begun) BY DEF Started, Begun
  <2>6. Started = 0 /\ Cardinality(Active) = 0 BY <2>1, <2>3, <2>4, <2>5
  <2>7. QED BY <2>4, <2>6 DEF ChainPerTask
<1>2. Typed /\ ChainPerTask /\ [Next]_vars => ChainPerTask' BY NextChain
<1>3. QED BY <1>1, <1>2, AlwaysTyped, PTL DEF Spec

-----------------------------------------------------------------------------
(* Samples in order.                                                       *)

\* Before the first restart there is one chain, at one place.
Alone ==
  cur = 1 =>
    /\ armed \in {0, 1} /\ (armed = 1 => Active = {})
    /\ \A j, k \in Active : j = k
    /\ pc[1] = "start" => armed = 0 /\ Active = {}

\* What is stored, what is about to be stored, and what the sensor holds, in
\* the order they were measured.
Rising ==
  cur = 1 =>
    /\ temperature_c <= reg[TEMP_REG_TEMP]
    /\ \A k \in Callbacks : callback[k].at = "store" =>
         /\ callback[k].data <= reg[TEMP_REG_TEMP]
         /\ callback[k].data = NoData \/ temperature_c <= callback[k].data

Ordered == Alone /\ Rising

LEMMA FirstThread == Typed => 1 \in Threads /\ pc \in [Threads -> Label]
BY TempAssumption DEF Typed, Shapes, Threads

LEMMA Numbers ==
  ASSUME Typed
  PROVE  /\ temperature_c \in Int /\ reg[TEMP_REG_TEMP] \in Nat
         /\ \A k \in Callbacks : callback[k].data \in Int
<1>1. TEMP_REG_TEMP \in 0 .. 3 OBVIOUS
<1>2. reg[TEMP_REG_TEMP] \in Nat BY <1>1, HeldWords DEF Typed, Contents
<1>3. temperature_c \in Int BY HeldWords DEF Typed, TypeOK, Unset
<1>4. ASSUME NEW k \in Callbacks PROVE callback[k].data \in Int
  <2>1. callback[k] \in [at : {"idle", "read", "store"}, data : Words] BY DEF Typed, TypeOK
  <2>2. callback[k].data \in Words BY <2>1
  <2>3. QED BY <2>2, HeldWords
<1>5. QED BY <1>2, <1>3, <1>4

LEMMA NextAlone ==
  ASSUME Typed, Alone, [Next]_vars PROVE Alone'
<1> SUFFICES ASSUME cur' = 1 PROVE Alone'
  BY DEF Alone
<1>1. CASE Restart
  <2>1. cur' = cur + 1 /\ cur \in 1 .. MaxThreads BY <1>1 DEF Restart, Typed, TypeOK, Threads
  <2>2. QED BY <2>1
<1>2. CASE \E t \in Threads : TempTask(t)
  <2>1. PICK t \in Threads : TempTask(t) BY <1>2
  <2>2. pc[t] # "none" /\ cur = 1 BY <2>1, WorkerIsMade
  <2>3. t = 1 BY <2>2, OnlyFirst
  <2>4. CASE Start(t)
    <3>1. pc[1] = "start" /\ callback' = callback /\ TimerInit BY <2>3, <2>4 DEF Start, At
    <3>2. armed = 0 /\ Active = {} BY <2>2, <3>1 DEF Alone
    <3>3. armed' \in {0, 1} BY <3>1, <3>2 DEF TimerInit
    <3>4. Active' = {} BY <3>1, <3>2 DEF Active
    <3>5. pc'[1] = "receive" BY <2>3, <2>4, FirstThread DEF Start, Goto
    <3>6. QED BY <3>3, <3>4, <3>5 DEF Alone
  <2>5. CASE ~Start(t)
    <3>1. pc'[1] # "start" /\ callback' = callback /\ armed' = armed
      BY <2>1, <2>3, <2>5, WorkBegun
    <3>2. Active' = Active BY <3>1 DEF Active
    <3>3. QED BY <2>2, <3>1, <3>2 DEF Alone
  <2>6. QED BY <2>4, <2>5
<1>3. CASE \E k \in Callbacks : Expire(k)
  <2>1. PICK k \in Callbacks : Expire(k) BY <1>3
  <2>2. Active' = Active \cup {k} BY <2>1, ExpireActive
  <2>3. armed > 0 /\ armed' = armed - 1 /\ pc' = pc /\ cur = 1 BY <2>1 DEF Expire, task
  <2>4. armed = 1 /\ Active = {} /\ pc[1] # "start" BY <2>3 DEF Alone
  <2>5. armed' = 0 /\ Active' = {k} BY <2>2, <2>3, <2>4
  <2>6. QED BY <2>3, <2>4, <2>5 DEF Alone
<1>4. CASE \E k \in Callbacks : SampleRead(k)
  <2>1. PICK k \in Callbacks : SampleRead(k) BY <1>4
  <2>2. Active' = Active BY <2>1, SampleReadActive
  <2>3. armed' = armed /\ pc' = pc /\ cur = 1 BY <2>1 DEF SampleRead, task
  <2>4. QED BY <2>2, <2>3 DEF Alone
<1>5. CASE \E k \in Callbacks : SampleStore(k)
  <2>1. PICK k \in Callbacks : SampleStore(k) BY <1>5
  <2>2. k \in Active /\ Active' = Active \ {k} BY <2>1, SampleStoreActive
  <2>3. TimerInit /\ pc' = pc /\ cur = 1 BY <2>1 DEF SampleStore, task
  <2>4. armed = 0 /\ Active = {k} /\ pc[1] # "start" BY <2>2, <2>3 DEF Alone
  <2>5. armed' \in {0, 1} BY <2>3, <2>4 DEF TimerInit
  <2>6. Active' = {} BY <2>2, <2>4
  <2>7. QED BY <2>3, <2>4, <2>5, <2>6 DEF Alone
<1>6. CASE Measure \/ UNCHANGED vars
  <2>1. callback' = callback /\ armed' = armed /\ pc' = pc /\ cur' = cur
    BY <1>6 DEF Measure, vars, sampling, task
  <2>2. Active' = Active BY <2>1 DEF Active
  <2>3. QED BY <2>1, <2>2 DEF Alone
<1>7. QED BY <1>1, <1>2, <1>3, <1>4, <1>5, <1>6 DEF Next

\* Only the sensor changes the temperature register.
LEMMA TempKept ==
  ASSUME Typed, NEW t \in Threads, TempTask(t)
  PROVE  reg'[TEMP_REG_TEMP] = reg[TEMP_REG_TEMP] /\ UNCHANGED <<temperature_c, callback>>
<1>1. \A r, w, ok : WriteWord(w, r, ok) => reg'[TEMP_REG_TEMP] = reg[TEMP_REG_TEMP]
  BY DEF WriteWord, Typed, TypeOK
<1>2. CASE WriteReg(t)
  <2>1. pc[t] = "write" BY <1>2 DEF WriteReg, At
  <2>2. packet[t].cmd \in Writing BY <2>1 DEF Typed, Handling, ThreadOK
  <2>3. reg' = reg \/ \E r, w, ok : WriteWord(w, r, ok)
    <3>1. CASE packet[t].cmd = "WRITEREG" BY <1>2, <3>1 DEF WriteReg
    <3>2. CASE packet[t].cmd = "WRITECONFIG" BY <1>2, <3>2 DEF WriteReg
    <3>3. CASE packet[t].cmd = "WRITEPTR" BY <1>2, <3>3 DEF WriteReg
    <3>4. QED BY <2>2, <3>1, <3>2, <3>3 DEF Writing
  <2>4. UNCHANGED <<temperature_c, callback>> BY <1>2 DEF WriteReg, sampling
  <2>5. QED BY <1>1, <2>3, <2>4
<1>3. CASE Modify(t)
  <2>1. \E r, w, ok : WriteWord(w, r, ok) BY <1>3 DEF Modify
  <2>2. UNCHANGED <<temperature_c, callback>> BY <1>3 DEF Modify, sampling
  <2>3. QED BY <1>1, <2>1, <2>2
<1>4. CASE ~WriteReg(t) /\ ~Modify(t)
  <2>1. reg' = reg /\ UNCHANGED <<temperature_c, callback>>
    BY <1>4 DEF TempTask, Start, Receive, InitContext, InitAddress, GetTemp, ReadWord, ReadLog,
                Respond, Cancelled, chip, sampling
  <2>2. QED BY <2>1
<1>5. QED BY <1>2, <1>3, <1>4

LEMMA NextRising ==
  ASSUME Typed, Ordered, [Next]_vars PROVE Rising'
<1> SUFFICES ASSUME cur' = 1 PROVE Rising'
  BY DEF Rising
<1>1. /\ temperature_c \in Int /\ reg[TEMP_REG_TEMP] \in Nat
      /\ \A k \in Callbacks : callback[k].data \in Int
  BY Numbers
<1>2. CASE Restart
  <2>1. cur' = cur + 1 /\ cur \in 1 .. MaxThreads BY <1>2 DEF Restart, Typed, TypeOK, Threads
  <2>2. QED BY <2>1
<1>3. CASE \E t \in Threads : TempTask(t)
  <2>1. cur = 1 BY <1>3, WorkerIsMade
  <2>2. reg'[TEMP_REG_TEMP] = reg[TEMP_REG_TEMP] /\ temperature_c' = temperature_c /\ callback' = callback
    BY <1>3, TempKept
  <2>3. QED BY <2>1, <2>2 DEF Ordered, Rising
<1>4. CASE Measure
  <2>1. reg \in [0 .. 3 -> Words] /\ TEMP_REG_TEMP \in 0 .. 3 BY DEF Typed, TypeOK
  <2>2. reg'[TEMP_REG_TEMP] = reg[TEMP_REG_TEMP] + 1 BY <1>4, <2>1 DEF Measure
  <2>3. cur = 1 /\ temperature_c' = temperature_c /\ callback' = callback
    BY <1>4 DEF Measure, task, sampling
  <2>4. temperature_c' <= reg'[TEMP_REG_TEMP]
    BY <1>1, <2>2, <2>3 DEF Ordered, Rising
  <2>5. ASSUME NEW k \in Callbacks, callback'[k].at = "store"
        PROVE  /\ callback'[k].data <= reg'[TEMP_REG_TEMP]
               /\ callback'[k].data = NoData \/ temperature_c' <= callback'[k].data
    <3>1. callback[k].at = "store" BY <2>3, <2>5
    <3>2. /\ callback[k].data <= reg[TEMP_REG_TEMP]
          /\ callback[k].data = NoData \/ temperature_c <= callback[k].data
      BY <2>3, <3>1 DEF Ordered, Rising
    <3>3. callback[k].data <= reg[TEMP_REG_TEMP] + 1 BY <1>1, <3>2
    <3>4. QED BY <2>2, <2>3, <3>2, <3>3
  <2>6. QED BY <2>4, <2>5 DEF Rising
<1>5. CASE \E k \in Callbacks : Expire(k)
  <2>1. PICK k \in Callbacks : Expire(k) BY <1>5
  <2>2. PICK c \in [at : {"read"}, data : Words] : callback' = [callback EXCEPT ![k] = c]
    BY <2>1, ExpireDoes
  <2>3. c.at # "store" BY <2>2
  <2>4. callback'[k] = c /\ \A j \in Callbacks \ {k} : callback'[j] = callback[j]
    BY <2>2 DEF Typed, TypeOK
  <2>5. reg' = reg /\ temperature_c' = temperature_c /\ cur = 1
    BY <2>1 DEF Expire, chip, task
  <2>6. QED BY <2>3, <2>4, <2>5 DEF Ordered, Rising
<1>6. CASE \E k \in Callbacks : SampleRead(k)
  <2>1. PICK k \in Callbacks : SampleRead(k) BY <1>6
  <2>2. /\ callback'[k].data \in {reg[TEMP_REG_TEMP], NoData}
        /\ \A j \in Callbacks \ {k} : callback'[j] = callback[j]
    BY <2>1, SampleReadActive
  <2>3. reg' = reg /\ temperature_c' = temperature_c /\ cur = 1
    BY <2>1 DEF SampleRead, chip, task
  <2>4. temperature_c <= reg[TEMP_REG_TEMP] BY <2>3 DEF Ordered, Rising
  <2>5. NoData <= reg[TEMP_REG_TEMP] BY <1>1 DEF NoData
  <2>6. /\ callback'[k].data <= reg[TEMP_REG_TEMP]
        /\ callback'[k].data = NoData \/ temperature_c <= callback'[k].data
    BY <1>1, <2>2, <2>4, <2>5
  <2>7. ASSUME NEW j \in Callbacks, callback'[j].at = "store"
        PROVE  /\ callback'[j].data <= reg'[TEMP_REG_TEMP]
               /\ callback'[j].data = NoData \/ temperature_c' <= callback'[j].data
    <3>1. CASE j = k BY <2>2, <2>3, <2>6, <3>1
    <3>2. CASE j # k
      <4>1. callback'[j] = callback[j] BY <2>2, <3>2
      <4>2. QED BY <2>3, <2>7, <4>1 DEF Ordered, Rising
    <3>3. QED BY <3>1, <3>2
  <2>8. QED BY <2>3, <2>4, <2>7 DEF Rising
<1>7. CASE \E k \in Callbacks : SampleStore(k)
  <2>1. PICK k \in Callbacks : SampleStore(k) BY <1>7
  <2>2. /\ k \in Active /\ callback'[k].at = "idle"
        /\ \A j \in Callbacks \ {k} : callback'[j] = callback[j]
    BY <2>1, SampleStoreActive
  <2>3. /\ reg' = reg /\ temperature_c' = callback[k].data /\ cur = 1
        /\ callback[k].at = "store"
    BY <2>1 DEF SampleStore, chip, task
  <2>4. callback[k].data <= reg[TEMP_REG_TEMP] BY <2>3 DEF Ordered, Rising
  <2>5. \A j \in Callbacks : callback'[j].at # "store"
    <3>1. \A j \in Active : j = k BY <2>2, <2>3 DEF Ordered, Alone
    <3>2. ASSUME NEW j \in Callbacks, j # k PROVE callback[j].at = "idle"
      BY <3>1, <3>2 DEF Active
    <3>3. QED BY <2>2, <3>2
  <2>6. QED BY <2>3, <2>4, <2>5 DEF Rising
<1>8. CASE UNCHANGED vars
  <2>1. UNCHANGED <<cur, reg, temperature_c, callback>>
    BY <1>8 DEF vars, chip, sampling, task
  <2>2. QED BY <2>1 DEF Ordered, Rising
<1>9. QED BY <1>2, <1>3, <1>4, <1>5, <1>6, <1>7, <1>8 DEF Next

LEMMA InitOrdered == Init => Ordered
<1> SUFFICES ASSUME Init PROVE Ordered
  OBVIOUS
<1>1. Active = {} BY DEF Init, Idle, Active
<1>2. Alone BY <1>1 DEF Init, Alone
<1>3. \A k \in Callbacks : callback[k].at # "store" BY DEF Init, Idle
<1>4. temperature_c = Unset /\ reg[TEMP_REG_TEMP] = Measured BY DEF Init
<1>5. temperature_c <= reg[TEMP_REG_TEMP] BY <1>4 DEF Unset, Measured
<1>6. QED BY <1>2, <1>3, <1>5 DEF Ordered, Rising

LEMMA AlwaysOrdered == Spec => []Ordered
<1>1. Init => Ordered BY InitOrdered
<1>2. Typed /\ Ordered /\ [Next]_vars => Ordered' BY NextAlone, NextRising DEF Ordered
<1>3. QED BY <1>1, <1>2, AlwaysTyped, PTL DEF Spec

\* A sample is stored by a callback, and is at least what was stored before.
LEMMA StepForwards ==
  ASSUME Typed, Ordered, [Next]_vars, cur = 1,
         temperature_c >= Measured, temperature_c' >= Measured
  PROVE  temperature_c' >= temperature_c
<1>1. temperature_c \in Int BY Numbers
<1>2. CASE temperature_c' = temperature_c BY <1>1, <1>2
<1>3. CASE \E k \in Callbacks : SampleStore(k)
  <2>1. PICK k \in Callbacks : SampleStore(k) BY <1>3
  <2>2. temperature_c' = callback[k].data /\ callback[k].at = "store"
    BY <2>1 DEF SampleStore
  <2>3. callback[k].data = NoData \/ temperature_c <= callback[k].data
    BY <2>2 DEF Ordered, Rising
  <2>4. callback[k].data # NoData BY <2>2 DEF NoData, Measured
  <2>5. callback[k].data \in Int BY Numbers
  <2>6. QED BY <1>1, <2>2, <2>3, <2>4, <2>5
<1>4. CASE \E t \in Threads : TempTask(t) BY <1>2, <1>4, TempKept
<1>5. CASE \E k \in Callbacks : Expire(k) \/ SampleRead(k)
  BY <1>2, <1>5 DEF Expire, SampleRead
<1>6. CASE Measure \/ Restart \/ UNCHANGED vars
  BY <1>2, <1>6 DEF Measure, Restart, vars, sampling
<1>7. QED BY <1>3, <1>4, <1>5, <1>6 DEF Next

(* Before the first restart a stored sample is never replaced by an older  *)
(* one, although a callback may wait for the log queue between reading and *)
(* storing: the next timer is set only after the store, so the callbacks   *)
(* of the chain do not overlap (temp.c:53, 108-114).                       *)
THEOREM SamplesInOrder == Spec => NeverBackwards
<1>1. Typed /\ Ordered /\ [Next]_vars =>
        [cur = 1 /\ temperature_c >= Measured /\ temperature_c' >= Measured
           => temperature_c' >= temperature_c]_vars
  BY StepForwards
<1>2. QED BY <1>1, AlwaysTyped, AlwaysOrdered, PTL DEF Spec, NeverBackwards

=============================================================================
