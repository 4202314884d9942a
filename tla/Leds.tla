-------------------------------- MODULE Leds --------------------------------
(***************************************************************************)
(* What the LEDs show (src/main.c).  LED 0 is too hot, LED 1 too cold,     *)
(* LED 2 too bright, LED 3 a task that missed a heartbeat check.  Three    *)
(* threads write them without a lock: main when it starts, the callback of *)
(* the logic timer, and the callback of the heartbeat.  What the logic     *)
(* acts upon has come a long way: it asks for the temperature in three     *)
(* formats and for the brightness, the tasks answer with their last        *)
(* sample, and main stores the answers for the next round.                 *)
(*                                                                         *)
(* The state begins where main has set both timers.  Records are left out, *)
(* and that rounds do not overlap is taken from Project1.  Temperatures    *)
(* are whole degrees.                                                      *)
(***************************************************************************)
EXTENDS Integers, Sequences, SequencesExt

CONSTANTS
  Degrees,    \* the temperatures that are measured, in Celsius
  Lux,        \* the brightnesses
  Capacity    \* packets a queue holds

\* float temperature_c = 123.456: no sixteenth of a degree, so it is never measured.
Unmeasured == 123

ASSUME LedsAssumption ==
  /\ Degrees \subseteq Int \ {Unmeasured} /\ Lux \subseteq Nat /\ Capacity \in Nat \ {0}

VARIABLES
  led,           \* the four LEDs
  starting,      \* the LED main switches off next, -1 in its command loop
  local_temp,    \* the last temperature main has stored
  local_lux,     \* and the last brightness
  temperature_c, \* the last sample of the temperature task
  current_lux,   \* and of the light task
  asking,        \* requests the temperature task has to answer
  askingLux,     \* requests the light task has to answer
  answers,       \* answers main has to store
  logic,         \* where the callback of the logic timer is
  measured,      \* history: the temperatures measured
  lit            \* history: the temperature for which LED 0 is on, 0 when it is off

stored   == <<local_temp, local_lux>>
samples  == <<temperature_c, current_lux, measured>>
messages == <<asking, askingLux, answers>>
vars == <<led, lit, starting, stored, samples, messages, logic>>

MAIN_TOOCOLD   == 10
MAIN_TOOHOT    == 30
MAIN_TOOBRIGHT == 50

Formats == {"CEL", "FAR", "KEL"}

\* temp_gettemp
InFormat(c, fmt) ==
  CASE fmt = "CEL" -> c
    [] fmt = "FAR" -> (c * 9) \div 5 + 32
    [] fmt = "KEL" -> c + 273

\* The steps of __main_logic, in their order; "wait" is the timer.
Rounds == <<"hot", "cold", "bright", "CEL", "FAR", "KEL", "lux", "wait">>

Init ==
  /\ led = [i \in 0 .. 3 |-> "boot"]
  /\ starting = 3
  /\ local_temp = 0 /\ local_lux = 0
  /\ temperature_c = Unmeasured /\ current_lux = 0
  /\ asking = <<>> /\ askingLux = 0 /\ answers = <<>>
  /\ logic = "wait"
  /\ measured = {} /\ lit = 0

-----------------------------------------------------------------------------
(* main                                                                    *)

\* main switches the LEDs off, from 3 to 0.
SwitchOff ==
  /\ starting >= 0
  /\ led' = [led EXCEPT ![starting] = "off"]
  /\ starting' = starting - 1
  /\ lit' = IF starting = 0 THEN 0 ELSE lit
  /\ UNCHANGED <<stored, samples, messages, logic>>

\* Mutant of Stores: the format is not looked at.
StoresAll(a) == a.of = "temp"

\* Of the three answers only the one in degrees Celsius is stored.
Stores(a) == a.of = "temp" /\ a.fmt = "CEL"

\* The command loop
Store ==
  /\ starting = -1 /\ answers # <<>>
  /\ LET a == Head(answers) IN
     /\ local_temp' = IF Stores(a) THEN a.value ELSE local_temp
     /\ local_lux'  = IF a.of = "lux" THEN a.value ELSE local_lux
  /\ answers' = Tail(answers)
  /\ UNCHANGED <<led, lit, starting, samples, asking, askingLux, logic>>

-----------------------------------------------------------------------------
(* __main_logic.  It reads local_temp twice.                               *)

Hot ==
  /\ logic = "hot"
  /\ IF local_temp > MAIN_TOOHOT
     THEN led' = [led EXCEPT ![0] = "on"] /\ lit' = local_temp /\ logic' = "bright"
     ELSE UNCHANGED <<led, lit>> /\ logic' = "cold"

\* Mutant of Cold: the LEDs are not switched off.
NeverOff ==
  /\ logic = "cold"
  /\ led' = IF local_temp < MAIN_TOOCOLD THEN [led EXCEPT ![1] = "on"] ELSE led
  /\ logic' = "bright" /\ UNCHANGED lit

Cold ==
  /\ logic = "cold"
  /\ led' = IF local_temp < MAIN_TOOCOLD THEN [led EXCEPT ![1] = "on"]
                                         ELSE [led EXCEPT ![0] = "off", ![1] = "off"]
  /\ lit' = IF local_temp < MAIN_TOOCOLD THEN lit ELSE 0
  /\ logic' = "bright"

Bright ==
  /\ logic = "bright"
  /\ led' = [led EXCEPT ![2] = IF local_lux > MAIN_TOOBRIGHT THEN "on" ELSE "off"]
  /\ logic' = "CEL" /\ UNCHANGED lit

SetLeds == (Hot \/ Cold \/ Bright) /\ UNCHANGED <<starting, stored, samples, messages>>

\* Mutant of NextStep: the timer is not set again.
NoTimer == [s \in {"CEL", "FAR", "KEL", "lux"} |->
              IF s = "lux" THEN "ended" ELSE Rounds[1 + CHOOSE i \in 1 .. 7 : Rounds[i] = s]]

\* The requests, each of which may have to wait for room.
NextStep == [s \in {"CEL", "FAR", "KEL", "lux"} |->
               Rounds[1 + CHOOSE i \in 1 .. 7 : Rounds[i] = s]]
Ask ==
  /\ \/ /\ logic \in Formats /\ Len(asking) < Capacity
        /\ asking' = Append(asking, logic) /\ UNCHANGED askingLux
     \/ /\ logic = "lux" /\ askingLux < Capacity
        /\ askingLux' = askingLux + 1 /\ UNCHANGED asking
  /\ logic' = NextStep[logic]
  /\ UNCHANGED <<led, lit, starting, stored, samples, answers>>

\* The timer expires.
Expire ==
  /\ logic = "wait" /\ logic' = "hot"
  /\ UNCHANGED <<led, lit, starting, stored, samples, messages>>

-----------------------------------------------------------------------------
(* The tasks, and the callback of the heartbeat.                           *)

\* Mutant of Answer: sent without waiting for room.
AnswerAnyhow(a) == answers' = Append(answers, a)

Answer(a) == Len(answers) < Capacity /\ answers' = Append(answers, a)

TempAnswers ==
  /\ asking # <<>> /\ asking' = Tail(asking)
  /\ Answer([of |-> "temp", fmt |-> Head(asking), value |-> InFormat(temperature_c, Head(asking))])
  /\ UNCHANGED <<led, lit, starting, stored, samples, askingLux, logic>>

LightAnswers ==
  /\ askingLux > 0 /\ askingLux' = askingLux - 1
  /\ Answer([of |-> "lux", value |-> current_lux])
  /\ UNCHANGED <<led, lit, starting, stored, samples, asking, logic>>

Sample ==
  /\ temperature_c' \in Degrees /\ current_lux' \in Lux
  /\ measured' = measured \cup {temperature_c'}
  /\ UNCHANGED <<led, lit, starting, stored, messages, logic>>

\* __main_heartbeat: a task missed a check.
Miss ==
  /\ led' = [led EXCEPT ![3] = "on"]
  /\ UNCHANGED <<lit, starting, stored, samples, messages, logic>>

Next == SwitchOff \/ Store \/ SetLeds \/ Ask \/ Expire
          \/ TempAnswers \/ LightAnswers \/ Sample \/ Miss

Spec == Init /\ [][Next]_vars

\* Threads that can go on do so, and timers expire.
FairSpec == Spec /\ WF_vars(SwitchOff) /\ WF_vars(Store) /\ WF_vars(SetLeds)
              /\ WF_vars(Ask) /\ WF_vars(Expire) /\ SF_vars(TempAnswers) /\ SF_vars(LightAnswers)

-----------------------------------------------------------------------------
(* Properties.                                                             *)

Temperatures == Degrees \cup {Unmeasured}
Numbers == Temperatures \cup Lux \cup {0} \cup {InFormat(c, f) : c \in Temperatures, f \in Formats}

TypeOK ==
  /\ led \in [0 .. 3 -> {"boot", "on", "off"}]
  /\ starting \in -1 .. 3
  /\ local_temp \in Temperatures \cup {0} /\ local_lux \in Lux \cup {0}
  /\ asking \in Seq(Formats) /\ Len(asking) <= Capacity /\ askingLux \in 0 .. Capacity
  /\ Len(answers) <= Capacity
  /\ \A i \in DOMAIN answers : answers[i].value \in Numbers
  /\ logic \in ToSet(Rounds) /\ measured \subseteq Degrees

(* "It is too hot in here!" (main.c:165) is shown for a temperature above  *)
(* the threshold that has been measured, although the numbers of the other *)
(* formats pass through the same code (main.c:384-392) - or for the        *)
(* 123.456 with which temp.c:41 starts, if the task answers before its     *)
(* first sample.                                                           *)
HotIsMeasured ==
  led[0] = "on" => lit > MAIN_TOOHOT /\ lit \in measured \cup {Unmeasured}

(* When it has become and stays hot, temperate or bright, the LEDs show it *)
(* in the end and for good: the answers of earlier rounds, still on their  *)
(* way, and main switching LEDs off at its start do not (main.c:163-184).  *)
Shown(i, s) == <>[](led[i] = s)
StaysHot  == <>[](temperature_c > MAIN_TOOHOT) => Shown(0, "on")
StaysMild == <>[](temperature_c \in MAIN_TOOCOLD .. MAIN_TOOHOT) => Shown(0, "off") /\ Shown(1, "off")
=============================================================================
