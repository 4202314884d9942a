---------------------------- MODULE Conversions -----------------------------
(***************************************************************************)
(* What the program computes from the words and bytes of the sensors:      *)
(* degrees (src/temp.c), lux (src/light.c), and the order of bytes on the  *)
(* bus and in packets.  The behaviours step through the inputs: a word     *)
(* for the temperature, two channel counts for the light.                  *)
(*                                                                         *)
(* Degrees are counted in sixteenths (TEMP_RES), lux in hundred-           *)
(* thousandths.  Floating point is exact for the former; for the latter    *)
(* the comparisons with 0.61 and 0.8 are those of the nearest float, which *)
(* is larger, so that the ratios 61/100 and 8/10 are above the bounds.     *)
(***************************************************************************)
EXTENDS Integers

CONSTANTS
  WordStep,  \* the temperature words checked: every WordStep-th
  MaxCount   \* the largest channel count checked

ASSUME ConversionsAssumption == WordStep \in Nat \ {0} /\ MaxCount \in Nat

VARIABLES word, ch0, ch1
vars == <<word, ch0, ch1>>

-----------------------------------------------------------------------------
(* Temperature.                                                            *)

\* Mutant of Complement: the complement has sixteen bits, as data has.
Complement16(d) == (65535 - d) % 65536

\* (~data) & 0x0fff, of a twelve bit value
Complement(d) == (65535 - d) % 4096

\* __temp_conv
TempConv(w) ==
  LET d == w \div 16
  IN  IF (d \div 2048) % 2 = 1 THEN -(Complement(d) + 1) ELSE d

\* The data sheet: the upper twelve bits are a two's complement number.
Degrees(w) == IF w >= 32768 THEN (w - 65536) \div 16 ELSE w \div 16

\* Mutant of Swap: the halves are not exchanged.
NoSwap(w) == w

\* __bswap_16
Swap(w) == (w % 256) * 256 + w \div 256

\* mraa transfers the lower byte of a word first, the sensor its higher byte.
OnBus(w)    == <<w % 256, w \div 256>>
FromBus(bs) == bs[1] + 256 * bs[2]
InChip(bs)  == 256 * bs[1] + bs[2]
FromChip(w) == <<w \div 256, w % 256>>

\* temp_writereg with data bytes 1 and 2, up to what the register holds; and
\* temp_readreg of that register, up to data bytes 0 and 1 of the response.
Written(d1, d2) == InChip(OnBus(Swap(d1 + 256 * d2)))
ReadBack(w) == LET data == Swap(FromBus(FromChip(w))) IN <<data % 256, data \div 256>>

-----------------------------------------------------------------------------
(* Light.                                                                  *)

\* Mutant of Range: the last bound is 1.35.
RangeTooWide(c0, c1) ==
  IF c1 = 0 THEN 0 ELSE IF 2 * c1 <= c0 THEN 1 ELSE IF 100 * c1 < 61 * c0 THEN 2
  ELSE IF 10 * c1 < 8 * c0 THEN 3 ELSE IF 100 * c1 <= 135 * c0 THEN 4 ELSE 0

\* The range of div = ch1 / ch0 that __light_convert_lux is in, 0 for none.
Range(c0, c1) ==
  IF c1 = 0 THEN 0 ELSE IF 2 * c1 <= c0 THEN 1 ELSE IF 100 * c1 < 61 * c0 THEN 2
  ELSE IF 10 * c1 < 8 * c0 THEN 3 ELSE IF 10 * c1 <= 13 * c0 THEN 4 ELSE 0

\* Mutant of LuxAtLeast: a coefficient of the third range is misprinted.
LuxMisprint(c0, c1) ==
  CASE c0 = 0 \/ Range(c0, c1) = 0 -> 0
    [] Range(c0, c1) = 1 -> 3040 * c0 - 4699 * c1
    [] Range(c0, c1) = 2 -> 2240 * c0 - 3100 * c1
    [] Range(c0, c1) = 3 -> 1280 * c0 - 153 * c1
    [] Range(c0, c1) = 4 -> 146 * c0 - 112 * c1

\* __light_convert_lux: exact except in the first range, where it is a lower
\* bound: there pow(div, 1.4) <= 0.7579 * div, because 0.5 ^ 0.4 < 0.7579.
LuxAtLeast(c0, c1) ==
  CASE c0 = 0 \/ Range(c0, c1) = 0 -> 0
    [] Range(c0, c1) = 1 -> 3040 * c0 - 4699 * c1
    [] Range(c0, c1) = 2 -> 2240 * c0 - 3100 * c1
    [] Range(c0, c1) = 3 -> 1280 * c0 - 1530 * c1
    [] Range(c0, c1) = 4 -> 146 * c0 - 112 * c1

-----------------------------------------------------------------------------

Init == word = 0 /\ ch0 = 0 /\ ch1 = 0

NextWord ==
  /\ ch0 = 0 /\ ch1 = 0
  /\ word + WordStep <= 65535 /\ word' = word + WordStep
  /\ UNCHANGED <<ch0, ch1>>

NextCounts ==
  /\ word = 0
  /\ \/ ch1 < MaxCount /\ ch1' = ch1 + 1 /\ UNCHANGED ch0
     \/ ch1 = MaxCount /\ ch0 < MaxCount /\ ch0' = ch0 + 1 /\ ch1' = 0
  /\ UNCHANGED word

Next == NextWord \/ NextCounts

Spec == Init /\ [][Next]_vars

-----------------------------------------------------------------------------
(* Properties.                                                             *)

(* __temp_conv, which complements a negative word in a sixteen bit         *)
(* variable and masks it, is two's complement division for every word, at  *)
(* 0x7ff0, 0x8000 and 0xfff0 too (temp.c:61-75).                           *)
TempConvRight == TempConv(word) = Degrees(word)

(* The three orders of bytes on the way (packet, bus, sensor) fit: a       *)
(* register written by TEMP_WRITEREG holds the number sent, and            *)
(* TEMP_READREG answers with the bytes that were sent (temp.c:46-59,       *)
(* 206-232).                                                               *)
BytesFit ==
  LET d1 == word % 256 d2 == word \div 256
  IN  Written(d1, d2) = word /\ ReadBack(Written(d1, d2)) = <<d1, d2>>

(* Lux is never negative: each formula of __light_convert_lux is used only *)
(* in the range where it is positive (light.c:118-131).                    *)
LuxNotNegative == LuxAtLeast(ch0, ch1) >= 0

(* More infrared at the same total never means more light, from the border *)
(* of the first range on, except in the step past 0.8: that one raises the *)
(* result by at most 0.4 hundred-thousandths for each count of the total,  *)
(* 0.27 lux for sixteen bit counts (light.c:120-129).  What the last       *)
(* formulas give is exact, so it is enough to compare them with a lower    *)
(* bound in the first range.  Left out are steps inside the first range,   *)
(* whose pow() is no sum of counts, and the step from no infrared, which   *)
(* raises the result: for ch1 = 0 the code gives 0 lux.                    *)
LuxFalls ==
  ch0 > 0 /\ ch1 > 0 /\ Range(ch0, ch1 + 1) # 1 =>
    IF Range(ch0, ch1) = 3 /\ Range(ch0, ch1 + 1) = 4
    THEN 10 * LuxAtLeast(ch0, ch1 + 1) <= 10 * LuxAtLeast(ch0, ch1) + 4 * ch0
    ELSE LuxAtLeast(ch0, ch1 + 1) <= LuxAtLeast(ch0, ch1)
=============================================================================
