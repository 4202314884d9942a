----------------------------- MODULE LedsProofs -----------------------------
(***************************************************************************)
(* Proofs about Leds, for any temperatures, brightnesses and any capacity  *)
(* of the queues.                                                          *)
(***************************************************************************)
EXTENDS Leds, TLAPS

-----------------------------------------------------------------------------
(* The answers on their way.                                               *)

Answering ==
  [of : {"temp"}, fmt : {"CEL"}, value : Temperatures]
    \cup [of : {"temp"}, fmt : {"FAR", "KEL"}, value : Numbers]
    \cup [of : {"lux"}, value : Lux \cup {0}]

LEMMA AnswerFacts ==
  \A a \in Answering :
    /\ a.of \in {"temp", "lux"} /\ a.value \in Numbers
    /\ Stores(a) => a.value \in Temperatures
    /\ a.of = "lux" => a.value \in Lux \cup {0}
BY DEF Answering, Stores, Numbers

\* What a task answers to a request in one of the formats.
LEMMA TempAnswer ==
  ASSUME NEW c \in Temperatures, NEW fmt \in Formats
  PROVE  /\ [of |-> "temp", fmt |-> fmt, value |-> InFormat(c, fmt)] \in Answering
         /\ fmt = "CEL" => InFormat(c, fmt) = c
<1>1. InFormat(c, fmt) \in Numbers BY DEF Numbers
<1>2. CASE fmt = "CEL"
  <2>1. InFormat(c, fmt) = c BY <1>2 DEF InFormat
  <2>2. QED BY <1>2, <2>1 DEF Answering
<1>3. CASE fmt \in {"FAR", "KEL"} BY <1>1, <1>3 DEF Answering
<1>4. QED BY <1>2, <1>3 DEF Formats

LEMMA SeqFacts ==
  ASSUME NEW S, NEW q \in Seq(S), NEW e \in S
  PROVE  /\ Append(q, e) \in Seq(S) /\ Len(Append(q, e)) = Len(q) + 1 /\ Len(q) \in Nat
         /\ \A i \in DOMAIN Append(q, e) :
              (i \in DOMAIN q /\ Append(q, e)[i] = q[i]) \/ Append(q, e)[i] = e
         /\ q # <<>> => /\ Tail(q) \in Seq(S) /\ Len(Tail(q)) = Len(q) - 1
                        /\ Head(q) \in S /\ Head(q) = q[1] /\ 1 \in DOMAIN q
                        /\ \A i \in DOMAIN Tail(q) : i + 1 \in DOMAIN q /\ Tail(q)[i] = q[i + 1]
OBVIOUS

-----------------------------------------------------------------------------
(* Types, and where temperatures come from.                                *)

Steps == {"hot", "cold", "bright", "CEL", "FAR", "KEL", "lux", "wait"}

LEMMA RoundSteps == ToSet(Rounds) = Steps
<1>1. Rounds = <<"hot", "cold", "bright", "CEL", "FAR", "KEL", "lux", "wait">> BY DEF Rounds
<1>2. DOMAIN Rounds = 1 .. 8 BY <1>1
<1>3. ToSet(Rounds) = {Rounds[i] : i \in 1 .. 8} BY <1>2 DEF ToSet
<1>4. /\ Rounds[1] = "hot" /\ Rounds[2] = "cold" /\ Rounds[3] = "bright" /\ Rounds[4] = "CEL"
      /\ Rounds[5] = "FAR" /\ Rounds[6] = "KEL" /\ Rounds[7] = "lux" /\ Rounds[8] = "wait"
  BY <1>1
<1>5. 1 .. 8 = {1, 2, 3, 4, 5, 6, 7, 8} OBVIOUS
<1>6. QED BY <1>3, <1>4, <1>5 DEF Steps

\* A round asks in its order, and ends with the timer set again.
LEMMA NextSteps ==
  /\ NextStep["CEL"] = "FAR" /\ NextStep["FAR"] = "KEL"
  /\ NextStep["KEL"] = "lux" /\ NextStep["lux"] = "wait"
<1>1. Rounds = <<"hot", "cold", "bright", "CEL", "FAR", "KEL", "lux", "wait">> BY DEF Rounds
<1>2. /\ Rounds[1] = "hot" /\ Rounds[2] = "cold" /\ Rounds[3] = "bright" /\ Rounds[4] = "CEL"
      /\ Rounds[5] = "FAR" /\ Rounds[6] = "KEL" /\ Rounds[7] = "lux" /\ Rounds[8] = "wait"
  BY <1>1
<1>3. 1 .. 7 = {1, 2, 3, 4, 5, 6, 7} OBVIOUS
<1>4. (CHOOSE i \in 1 .. 7 : Rounds[i] = "CEL") = 4 BY <1>2, <1>3
<1>5. (CHOOSE i \in 1 .. 7 : Rounds[i] = "FAR") = 5 BY <1>2, <1>3
<1>6. (CHOOSE i \in 1 .. 7 : Rounds[i] = "KEL") = 6 BY <1>2, <1>3
<1>7. (CHOOSE i \in 1 .. 7 : Rounds[i] = "lux") = 7 BY <1>2, <1>3
<1>8. NextStep["CEL"] = "FAR" BY <1>2, <1>4 DEF NextStep
<1>9. NextStep["FAR"] = "KEL" BY <1>2, <1>5 DEF NextStep
<1>10. NextStep["KEL"] = "lux" BY <1>2, <1>6 DEF NextStep
<1>11. NextStep["lux"] = "wait" BY <1>2, <1>7 DEF NextStep
<1>12. QED BY <1>8, <1>9, <1>10, <1>11

\* What is stored, sampled or on its way, and what the LED is on for, has been
\* measured, or is what the task starts with.
Known(v) == v \in measured \cup {Unmeasured}

Values ==
  /\ temperature_c \in Temperatures /\ current_lux \in Lux \cup {0}
  /\ answers \in Seq(Answering)

Honest ==
  /\ Known(temperature_c) /\ (local_temp = 0 \/ Known(local_temp))
  /\ \A i \in DOMAIN answers : Stores(answers[i]) => Known(answers[i].value)
  /\ HotIsMeasured

Typed == TypeOK /\ Values

IInv == Typed /\ Honest

LEMMA InitInv == Init => IInv
<1> SUFFICES ASSUME Init PROVE IInv
  OBVIOUS
<1>1. Typed
  <2>1. answers = <<>> /\ asking = <<>> BY DEF Init
  <2>2. answers \in Seq(Answering) /\ asking \in Seq(Formats) /\ Len(answers) = 0 /\ Len(asking) = 0
        /\ DOMAIN answers = {}
    BY <2>1
  <2>3. "wait" \in ToSet(Rounds) BY RoundSteps DEF Steps
  <2>4. TypeOK BY <2>2, <2>3, LedsAssumption DEF TypeOK, Init
  <2>5. Values BY <2>2 DEF Values, Init, Temperatures
  <2>6. QED BY <2>4, <2>5 DEF Typed
<1>2. Honest
  <2>1. DOMAIN answers = {} BY DEF Init
  <2>2. led[0] = "boot" BY DEF Init
  <2>3. QED BY <2>1, <2>2 DEF Init, Honest, Known, HotIsMeasured, MAIN_TOOHOT
<1>3. QED BY <1>1, <1>2 DEF IInv

-----------------------------------------------------------------------------
(* The steps.                                                              *)

LEMMA SwitchOffInv == ASSUME IInv, SwitchOff PROVE IInv'
<1>1. led' \in [0 .. 3 -> {"boot", "on", "off"}] /\ starting' \in -1 .. 3
  BY DEF IInv, Typed, TypeOK, SwitchOff
<1>2. led'[0] = "on" => led[0] = "on" /\ lit' = lit BY DEF IInv, Typed, TypeOK, SwitchOff
<1>3. UNCHANGED <<local_temp, local_lux, temperature_c, current_lux, measured, asking, askingLux,
                  answers, logic>>
  BY DEF SwitchOff, stored, samples, messages
<1>4. Typed' BY <1>1, <1>3 DEF IInv, Typed, TypeOK, Values
<1>5. Honest' BY <1>2, <1>3 DEF IInv, Honest, Known, HotIsMeasured, Stores
<1>6. QED BY <1>4, <1>5 DEF IInv

LEMMA StoreInv == ASSUME IInv, Store PROVE IInv'
<1> DEFINE a == Head(answers)
<1>1. answers \in Seq(Answering) /\ answers # <<>> /\ Len(answers) <= Capacity
  BY DEF IInv, Typed, TypeOK, Values, Store
<1>2. PICK e \in Answering : e = a BY <1>1
<1>3. /\ answers' \in Seq(Answering) /\ Len(answers') <= Capacity
      /\ a \in Answering /\ a = answers[1] /\ 1 \in DOMAIN answers
      /\ \A i \in DOMAIN answers' : i + 1 \in DOMAIN answers /\ answers'[i] = answers[i + 1]
  <2>1. answers' = Tail(answers) BY DEF Store
  <2>2. Capacity \in Nat BY LedsAssumption
  <2>3. QED BY <1>1, <1>2, <2>1, <2>2, SeqFacts
<1>4. /\ local_temp' = IF Stores(a) THEN a.value ELSE local_temp
      /\ local_lux' = IF a.of = "lux" THEN a.value ELSE local_lux
      /\ UNCHANGED <<led, starting, temperature_c, current_lux, measured, lit, asking, askingLux, logic>>
  BY DEF Store, samples
<1> HIDE DEF a
<1>5. local_temp' \in Temperatures \cup {0} /\ local_lux' \in Lux \cup {0}
  BY <1>3, <1>4, AnswerFacts DEF IInv, Typed, TypeOK
<1>6. \A i \in DOMAIN answers' : answers'[i].value \in Numbers
  BY <1>3 DEF IInv, Typed, TypeOK
<1>7. Typed' BY <1>3, <1>4, <1>5, <1>6 DEF IInv, Typed, TypeOK, Values
<1>8. local_temp' = 0 \/ local_temp' \in measured' \cup {Unmeasured}
  <2>1. Stores(a) => Known(a.value) BY <1>3 DEF IInv, Honest
  <2>2. measured' = measured BY <1>4
  <2>3. QED BY <1>4, <2>1, <2>2 DEF IInv, Honest, Known
<1>9. \A i \in DOMAIN answers' : Stores(answers'[i]) => Known(answers'[i].value)
  BY <1>3 DEF IInv, Honest
<1>10. Honest' BY <1>4, <1>8, <1>9 DEF IInv, Honest, Known, HotIsMeasured
<1>11. QED BY <1>7, <1>10 DEF IInv

LEMMA SetLedsInv == ASSUME IInv, SetLeds PROVE IInv'
<1>1. UNCHANGED <<starting, local_temp, local_lux, temperature_c, current_lux, measured, asking,
                  askingLux, answers>>
  BY DEF SetLeds, stored, samples, messages
<1>2. /\ led' \in [0 .. 3 -> {"boot", "on", "off"}]
      /\ logic' \in Steps
      /\ led'[0] = "on" => (led[0] = "on" /\ lit' = lit)
                             \/ (lit' = local_temp /\ local_temp > MAIN_TOOHOT)
  <2>0. led \in [0 .. 3 -> {"boot", "on", "off"}] BY DEF IInv, Typed, TypeOK
  <2>1. CASE Hot BY <2>0, <2>1 DEF Hot, Steps
  <2>2. CASE Cold BY <2>0, <2>2 DEF Cold, Steps
  <2>3. CASE Bright BY <2>0, <2>3 DEF Bright, Steps
  <2>4. QED BY <2>1, <2>2, <2>3 DEF SetLeds
<1>3. Typed' BY <1>1, <1>2, RoundSteps DEF IInv, Typed, TypeOK, Values
<1>4. HotIsMeasured'
  <2>1. HotIsMeasured /\ (local_temp = 0 \/ Known(local_temp)) BY DEF IInv, Honest
  <2>2. QED BY <1>1, <1>2, <2>1 DEF Known, HotIsMeasured, MAIN_TOOHOT
<1>5. Honest' BY <1>1, <1>4 DEF IInv, Honest, Known
<1>6. QED BY <1>3, <1>5 DEF IInv

LEMMA AskInv == ASSUME IInv, Ask PROVE IInv'
<1>1. UNCHANGED <<led, starting, local_temp, local_lux, temperature_c, current_lux, measured, lit, answers>>
  BY DEF Ask, stored, samples
<1>2. asking \in Seq(Formats) /\ Len(asking) <= Capacity /\ askingLux \in 0 .. Capacity
      /\ Capacity \in Nat
  BY LedsAssumption DEF IInv, Typed, TypeOK
<1>3. asking' \in Seq(Formats) /\ Len(asking') <= Capacity /\ askingLux' \in 0 .. Capacity
  <2>1. CASE logic \in Formats /\ Len(asking) < Capacity /\ asking' = Append(asking, logic)
             /\ askingLux' = askingLux
    <3>1. /\ asking' \in Seq(Formats) /\ Len(asking') = Len(asking) + 1 /\ Len(asking) \in Nat
      BY <1>2, <2>1, SeqFacts
    <3>2. QED BY <1>2, <2>1, <3>1
  <2>2. CASE askingLux < Capacity /\ askingLux' = askingLux + 1 /\ asking' = asking
    BY <1>2, <2>2
  <2>3. QED BY <2>1, <2>2 DEF Ask
<1>4. logic' \in Steps
  <2>1. logic \in {"CEL", "FAR", "KEL", "lux"} /\ logic' = NextStep[logic]
    BY DEF Ask, Formats
  <2>2. QED BY <2>1, NextSteps DEF Steps
<1>5. Typed' BY <1>1, <1>3, <1>4, RoundSteps DEF IInv, Typed, TypeOK, Values
<1>6. Honest' BY <1>1 DEF IInv, Honest, Known, HotIsMeasured
<1>7. QED BY <1>5, <1>6 DEF IInv

LEMMA ExpireInv == ASSUME IInv, Expire PROVE IInv'
<1>1. UNCHANGED <<led, starting, local_temp, local_lux, temperature_c, current_lux, measured, lit, asking,
                  askingLux, answers>>
  BY DEF Expire, stored, samples, messages
<1>2. logic' \in Steps BY DEF Expire, Steps
<1>3. Typed' BY <1>1, <1>2, RoundSteps DEF IInv, Typed, TypeOK, Values
<1>4. Honest' BY <1>1 DEF IInv, Honest, Known, HotIsMeasured
<1>5. QED BY <1>3, <1>4 DEF IInv

\* An answer joins the others.
LEMMA AnswerJoins ==
  ASSUME IInv, NEW a \in Answering, Answer(a), Stores(a) => Known(a.value), measured' = measured
  PROVE  /\ answers' \in Seq(Answering) /\ Len(answers') <= Capacity
         /\ \A i \in DOMAIN answers' :
              answers'[i].value \in Numbers
         /\ \A i \in DOMAIN answers' : Stores(answers'[i]) => answers'[i].value \in measured' \cup {Unmeasured}
<1>1. answers \in Seq(Answering) /\ Len(answers) < Capacity /\ answers' = Append(answers, a)
      /\ Capacity \in Nat
  BY LedsAssumption DEF IInv, Typed, Values, Answer
<1>2. /\ answers' \in Seq(Answering) /\ Len(answers') = Len(answers) + 1 /\ Len(answers) \in Nat
      /\ \A i \in DOMAIN answers' : (i \in DOMAIN answers /\ answers'[i] = answers[i]) \/ answers'[i] = a
  BY <1>1, SeqFacts
<1>3. Len(answers') <= Capacity BY <1>1, <1>2
<1>4. \A i \in DOMAIN answers' : answers'[i].value \in Numbers
  BY <1>2, AnswerFacts DEF IInv, Typed, TypeOK
<1>5. \A i \in DOMAIN answers' : Stores(answers'[i]) => answers'[i].value \in measured' \cup {Unmeasured}
  BY <1>2 DEF IInv, Honest, Known
<1>6. QED BY <1>2, <1>3, <1>4, <1>5

LEMMA TempAnswersInv == ASSUME IInv, TempAnswers PROVE IInv'
<1> DEFINE fmt == Head(asking)
           a == [of |-> "temp", fmt |-> fmt, value |-> InFormat(temperature_c, fmt)]
<1>1. UNCHANGED <<led, starting, local_temp, local_lux, temperature_c, current_lux, measured, lit, askingLux,
                  logic>>
  BY DEF TempAnswers, stored, samples
<1>2. asking \in Seq(Formats) /\ asking # <<>> /\ asking' = Tail(asking) /\ Len(asking) <= Capacity
      /\ Capacity \in Nat
  BY LedsAssumption DEF IInv, Typed, TypeOK, TempAnswers
<1>3. fmt \in Formats BY <1>2
<1>4. asking' \in Seq(Formats) /\ Len(asking') <= Capacity BY <1>2
<1>5. a \in Answering /\ (fmt = "CEL" => InFormat(temperature_c, fmt) = temperature_c)
  BY <1>3, TempAnswer DEF IInv, Typed, Values
<1>6. Stores(a) => Known(a.value)
  <2>1. a.fmt = fmt /\ a.value = InFormat(temperature_c, fmt) OBVIOUS
  <2>2. Known(temperature_c) BY DEF IInv, Honest
  <2>3. QED BY <1>5, <2>1, <2>2 DEF Stores, Known
<1>7. Answer(a) BY DEF TempAnswers
<1> HIDE DEF a, fmt
<1>8. /\ answers' \in Seq(Answering) /\ Len(answers') <= Capacity
      /\ \A i \in DOMAIN answers' : answers'[i].value \in Numbers
      /\ \A i \in DOMAIN answers' : Stores(answers'[i]) => answers'[i].value \in measured' \cup {Unmeasured}
  BY <1>1, <1>5, <1>6, <1>7, AnswerJoins
<1>9. Typed' BY <1>1, <1>4, <1>8 DEF IInv, Typed, TypeOK, Values
<1>10. Honest' BY <1>1, <1>8 DEF IInv, Honest, Known, HotIsMeasured
<1>11. QED BY <1>9, <1>10 DEF IInv

LEMMA LightAnswersInv == ASSUME IInv, LightAnswers PROVE IInv'
<1> DEFINE a == [of |-> "lux", value |-> current_lux]
<1>1. UNCHANGED <<led, starting, local_temp, local_lux, temperature_c, current_lux, measured, lit, asking,
                  logic>>
  BY DEF LightAnswers, stored, samples
<1>2. askingLux' \in 0 .. Capacity
  BY LedsAssumption DEF IInv, Typed, TypeOK, LightAnswers
<1>3. a \in Answering BY DEF IInv, Typed, Values, Answering
<1>4. ~Stores(a) BY DEF Stores
<1>5. Answer(a) BY DEF LightAnswers
<1> HIDE DEF a
<1>6. /\ answers' \in Seq(Answering) /\ Len(answers') <= Capacity
      /\ \A i \in DOMAIN answers' : answers'[i].value \in Numbers
      /\ \A i \in DOMAIN answers' : Stores(answers'[i]) => answers'[i].value \in measured' \cup {Unmeasured}
  BY <1>1, <1>3, <1>4, <1>5, AnswerJoins
<1>7. Typed' BY <1>1, <1>2, <1>6 DEF IInv, Typed, TypeOK, Values
<1>8. Honest' BY <1>1, <1>6 DEF IInv, Honest, Known, HotIsMeasured
<1>9. QED BY <1>7, <1>8 DEF IInv

LEMMA SampleInv == ASSUME IInv, Sample PROVE IInv'
<1>1. UNCHANGED <<led, starting, local_temp, local_lux, asking, askingLux, answers, logic>>
  BY DEF Sample, stored, messages
<1>2. /\ temperature_c' \in Degrees /\ current_lux' \in Lux
      /\ measured' = measured \cup {temperature_c'} /\ measured' \subseteq Degrees
  BY DEF Sample, IInv, Typed, TypeOK, Values
<1>3. Typed' BY <1>1, <1>2 DEF IInv, Typed, TypeOK, Values, Temperatures
<1>4. Honest'
  <2>1. UNCHANGED lit BY DEF Sample
  <2>2. HotIsMeasured' BY <1>1, <1>2, <2>1 DEF IInv, Honest, HotIsMeasured
  <2>3. QED BY <1>1, <1>2, <2>2 DEF IInv, Honest, Known
<1>5. QED BY <1>3, <1>4 DEF IInv

LEMMA MissInv == ASSUME IInv, Miss PROVE IInv'
<1>1. UNCHANGED <<starting, local_temp, local_lux, temperature_c, current_lux, measured, lit, asking,
                  askingLux, answers, logic>>
  BY DEF Miss, stored, samples, messages
<1>2. led' \in [0 .. 3 -> {"boot", "on", "off"}] /\ led'[0] = led[0]
  BY DEF Miss, IInv, Typed, TypeOK
<1>3. Typed' BY <1>1, <1>2 DEF IInv, Typed, TypeOK, Values
<1>4. Honest' BY <1>1, <1>2 DEF IInv, Honest, Known, HotIsMeasured
<1>5. QED BY <1>3, <1>4 DEF IInv

LEMMA NextInv == ASSUME IInv, [Next]_vars PROVE IInv'
<1>1. CASE SwitchOff BY <1>1, SwitchOffInv
<1>2. CASE Store BY <1>2, StoreInv
<1>3. CASE SetLeds BY <1>3, SetLedsInv
<1>4. CASE Ask BY <1>4, AskInv
<1>5. CASE Expire BY <1>5, ExpireInv
<1>6. CASE TempAnswers BY <1>6, TempAnswersInv
<1>7. CASE LightAnswers BY <1>7, LightAnswersInv
<1>8. CASE Sample BY <1>8, SampleInv
<1>9. CASE Miss BY <1>9, MissInv
<1>10. CASE UNCHANGED vars
  <2>1. UNCHANGED <<led, starting, local_temp, local_lux, temperature_c, current_lux, measured, lit, asking,
                    askingLux, answers, logic>>
    BY <1>10 DEF vars, stored, samples, messages
  <2>2. Typed' BY <2>1 DEF IInv, Typed, TypeOK, Values
  <2>3. Honest' BY <2>1 DEF IInv, Honest, Known, HotIsMeasured
  <2>4. QED BY <2>2, <2>3 DEF IInv
<1>11. QED BY <1>1, <1>2, <1>3, <1>4, <1>5, <1>6, <1>7, <1>8, <1>9, <1>10 DEF Next

LEMMA AlwaysInv == Spec => []IInv
<1>1. Init => IInv BY InitInv
<1>2. IInv /\ [Next]_vars => IInv' BY NextInv
<1>3. QED BY <1>1, <1>2, PTL DEF Spec

(* Every variable keeps its type, whatever is measured: the logic goes     *)
(* through its round and sets its timer again, and no queue is overfilled  *)
(* (main.c:150-228, 380-400).                                              *)
THEOREM LedsTypeCorrect == Spec => []TypeOK
<1>1. IInv => TypeOK BY DEF IInv, Typed
<1>2. QED BY <1>1, AlwaysInv, PTL

(* "It is too hot in here!" (main.c:165) is shown for a temperature above  *)
(* the threshold that has been measured, or for the 123.456 the task has   *)
(* before its first sample (temp.c:41), whatever is asked for, answered    *)
(* and stored in which order: of the three answers of a round only the one *)
(* in degrees Celsius is stored (main.c:384-392).                          *)
THEOREM HotHasBeenMeasured == Spec => []HotIsMeasured
<1>1. IInv => HotIsMeasured BY DEF IInv, Honest
<1>2. QED BY <1>1, AlwaysInv, PTL
=============================================================================
