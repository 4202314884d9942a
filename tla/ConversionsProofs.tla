-------------------------- MODULE ConversionsProofs -------------------------
(***************************************************************************)
(* Proofs about Conversions: the lemmas are about every word of sixteen    *)
(* bits and all channel counts, the theorems about the behaviours that     *)
(* step through them.                                                      *)
(***************************************************************************)
EXTENDS Conversions, TLAPS

-----------------------------------------------------------------------------
(* Temperature.                                                            *)

\* The quotient is the one with a remainder, and of a negative number the one
\* that rounds down.
LEMMA Sixteenths ==
  ASSUME NEW w \in Nat, w < 65536
  PROVE  /\ w \div 16 \in Nat /\ w \div 16 < 4096
         /\ w >= 32768 <=> (w \div 16) \div 2048 = 1
         /\ (w - 65536) \div 16 = w \div 16 - 4096
         /\ (w \div 16) \div 2048 \in {0, 1}
OBVIOUS

LEMMA ComplementIs ==
  ASSUME NEW d \in Nat, d < 4096 PROVE Complement(d) = 4095 - d
<1>1. (65535 - d) % 4096 = 4095 - d OBVIOUS
<1>2. QED BY <1>1 DEF Complement

LEMMA TempConvIsDegrees ==
  ASSUME NEW w \in Nat, w < 65536 PROVE TempConv(w) = Degrees(w)
<1> DEFINE d == w \div 16
<1>1. /\ d \in Nat /\ d < 4096 /\ (w >= 32768 <=> d \div 2048 = 1)
      /\ (w - 65536) \div 16 = d - 4096 /\ d \div 2048 \in {0, 1}
  BY Sixteenths
<1>2. TempConv(w) = IF (d \div 2048) % 2 = 1 THEN -(Complement(d) + 1) ELSE d BY DEF TempConv
<1>3. Degrees(w) = IF w >= 32768 THEN (w - 65536) \div 16 ELSE d BY DEF Degrees
<1> HIDE DEF d
<1>4. Complement(d) = 4095 - d BY <1>1, ComplementIs
<1>5. CASE d \div 2048 = 1
  <2>1. TempConv(w) = -(4095 - d + 1) BY <1>2, <1>4, <1>5
  <2>2. Degrees(w) = d - 4096 BY <1>1, <1>3, <1>5
  <2>3. QED BY <1>1, <2>1, <2>2
<1>6. CASE d \div 2048 = 0
  <2>1. TempConv(w) = d BY <1>2, <1>6
  <2>2. Degrees(w) = d BY <1>1, <1>3, <1>6
  <2>3. QED BY <2>1, <2>2
<1>7. QED BY <1>1, <1>5, <1>6

\* The halves of a word, and the word of two halves.
LEMMA Halves ==
  ASSUME NEW w \in Nat, w < 65536
  PROVE  /\ w % 256 \in Nat /\ w % 256 < 256
         /\ w \div 256 \in Nat /\ w \div 256 < 256
         /\ (w % 256) + 256 * (w \div 256) = w
OBVIOUS

LEMMA Whole ==
  ASSUME NEW lo \in Nat, NEW hi \in Nat, lo < 256, hi < 256
  PROVE  /\ lo + 256 * hi \in Nat /\ lo + 256 * hi < 65536
         /\ (lo + 256 * hi) % 256 = lo /\ (lo + 256 * hi) \div 256 = hi
OBVIOUS

LEMMA SwapIs ==
  ASSUME NEW lo \in Nat, NEW hi \in Nat, lo < 256, hi < 256
  PROVE  Swap(lo + 256 * hi) = hi + 256 * lo
<1>1. (lo + 256 * hi) % 256 = lo /\ (lo + 256 * hi) \div 256 = hi BY Whole
<1>2. Swap(lo + 256 * hi) = lo * 256 + hi BY <1>1 DEF Swap
<1>3. QED BY <1>2

LEMMA WrittenIs ==
  ASSUME NEW lo \in Nat, NEW hi \in Nat, lo < 256, hi < 256
  PROVE  Written(lo, hi) = lo + 256 * hi
<1>1. Swap(lo + 256 * hi) = hi + 256 * lo BY SwapIs
<1>2. OnBus(hi + 256 * lo) = <<hi, lo>> BY Whole DEF OnBus
<1>3. InChip(<<hi, lo>>) = 256 * hi + lo BY DEF InChip
<1>4. QED BY <1>1, <1>2, <1>3 DEF Written

LEMMA ReadBackIs ==
  ASSUME NEW lo \in Nat, NEW hi \in Nat, lo < 256, hi < 256
  PROVE  ReadBack(lo + 256 * hi) = <<lo, hi>>
<1>1. FromChip(lo + 256 * hi) = <<hi, lo>> BY Whole DEF FromChip
<1>2. FromBus(<<hi, lo>>) = hi + 256 * lo BY DEF FromBus
<1>3. Swap(hi + 256 * lo) = lo + 256 * hi BY SwapIs
<1>4. (lo + 256 * hi) % 256 = lo /\ (lo + 256 * hi) \div 256 = hi BY Whole
<1>5. QED BY <1>1, <1>2, <1>3, <1>4 DEF ReadBack

LEMMA BytesFitAlways ==
  ASSUME NEW w \in Nat, w < 65536
  PROVE  /\ Written(w % 256, w \div 256) = w
         /\ ReadBack(Written(w % 256, w \div 256)) = <<w % 256, w \div 256>>
<1>1. /\ w % 256 \in Nat /\ w % 256 < 256
      /\ w \div 256 \in Nat /\ w \div 256 < 256
      /\ (w % 256) + 256 * (w \div 256) = w
  BY Halves
<1>2. Written(w % 256, w \div 256) = w BY <1>1, WrittenIs
<1>3. ReadBack(w) = <<w % 256, w \div 256>> BY <1>1, ReadBackIs
<1>4. QED BY <1>2, <1>3

-----------------------------------------------------------------------------
(* Light.                                                                  *)

\* The range by the two counts.
LEMMA Ranges ==
  ASSUME NEW c0 \in Nat \ {0}, NEW c1 \in Nat
  PROVE  /\ Range(c0, c1) \in 0 .. 4
         /\ Range(c0, c1) = 0 => c1 = 0 \/ 10 * c1 > 13 * c0
         /\ Range(c0, c1) = 1 => 2 * c1 <= c0
         /\ Range(c0, c1) = 2 => 2 * c1 > c0 /\ 100 * c1 < 61 * c0
         /\ Range(c0, c1) = 3 => 100 * c1 >= 61 * c0 /\ 10 * c1 < 8 * c0
         /\ Range(c0, c1) = 4 => 10 * c1 >= 8 * c0 /\ 10 * c1 <= 13 * c0
BY DEF Range

LEMMA LuxByRange ==
  ASSUME NEW c0 \in Nat \ {0}, NEW c1 \in Nat
  PROVE  /\ Range(c0, c1) = 0 => LuxAtLeast(c0, c1) = 0
         /\ Range(c0, c1) = 1 => LuxAtLeast(c0, c1) = 3040 * c0 - 4699 * c1
         /\ Range(c0, c1) = 2 => LuxAtLeast(c0, c1) = 2240 * c0 - 3100 * c1
         /\ Range(c0, c1) = 3 => LuxAtLeast(c0, c1) = 1280 * c0 - 1530 * c1
         /\ Range(c0, c1) = 4 => LuxAtLeast(c0, c1) = 146 * c0 - 112 * c1
<1>1. c0 # 0 OBVIOUS
<1>2. ASSUME Range(c0, c1) = 0 PROVE LuxAtLeast(c0, c1) = 0 BY <1>2 DEF LuxAtLeast
<1>3. ASSUME Range(c0, c1) = 1 PROVE LuxAtLeast(c0, c1) = 3040 * c0 - 4699 * c1
  BY <1>1, <1>3 DEF LuxAtLeast
<1>4. ASSUME Range(c0, c1) = 2 PROVE LuxAtLeast(c0, c1) = 2240 * c0 - 3100 * c1
  BY <1>1, <1>4 DEF LuxAtLeast
<1>5. ASSUME Range(c0, c1) = 3 PROVE LuxAtLeast(c0, c1) = 1280 * c0 - 1530 * c1
  BY <1>1, <1>5 DEF LuxAtLeast
<1>6. ASSUME Range(c0, c1) = 4 PROVE LuxAtLeast(c0, c1) = 146 * c0 - 112 * c1
  BY <1>1, <1>6 DEF LuxAtLeast
<1>7. QED BY <1>2, <1>3, <1>4, <1>5, <1>6

\* In every range the formula is positive as far as the range goes.
LEMMA LuxIsPositive ==
  ASSUME NEW c0 \in Nat, NEW c1 \in Nat PROVE LuxAtLeast(c0, c1) >= 0 /\ LuxAtLeast(c0, c1) \in Int
<1>1. CASE c0 = 0
  <2>1. Range(c0, c1) = 0 BY <1>1 DEF Range
  <2>2. LuxAtLeast(c0, c1) = 0 BY <2>1 DEF LuxAtLeast
  <2>3. QED BY <2>2
<1>2. CASE c0 # 0
  <2>1. c0 \in Nat \ {0} BY <1>2
  <2> DEFINE r == Range(c0, c1)
             x == LuxAtLeast(c0, c1)
  <2>2. /\ r \in 0 .. 4
        /\ r = 1 => 2 * c1 <= c0
        /\ r = 2 => 100 * c1 < 61 * c0
        /\ r = 3 => 10 * c1 < 8 * c0
        /\ r = 4 => 10 * c1 <= 13 * c0
    BY <2>1, Ranges
  <2>3. /\ r = 0 => x = 0
        /\ r = 1 => x = 3040 * c0 - 4699 * c1
        /\ r = 2 => x = 2240 * c0 - 3100 * c1
        /\ r = 3 => x = 1280 * c0 - 1530 * c1
        /\ r = 4 => x = 146 * c0 - 112 * c1
    BY <2>1, LuxByRange
  <2> HIDE DEF r, x
  <2>4. x >= 0 /\ x \in Int BY <2>2, <2>3
  <2>5. QED BY <2>4 DEF x
<1>3. QED BY <1>1, <1>2

\* One more count of infrared, in the same range or a later one.
LEMMA LuxFallsAlways ==
  ASSUME NEW c0 \in Nat \ {0}, NEW c1 \in Nat \ {0}, Range(c0, c1 + 1) # 1
  PROVE  IF Range(c0, c1) = 3 /\ Range(c0, c1 + 1) = 4
         THEN 10 * LuxAtLeast(c0, c1 + 1) <= 10 * LuxAtLeast(c0, c1) + 4 * c0
         ELSE LuxAtLeast(c0, c1 + 1) <= LuxAtLeast(c0, c1)
<1> DEFINE r == Range(c0, c1)
           s == Range(c0, c1 + 1)
           x == LuxAtLeast(c0, c1)
           y == LuxAtLeast(c0, c1 + 1)
<1>1. c1 \in Nat /\ c1 + 1 \in Nat /\ c0 \in Nat /\ c1 > 0 /\ c0 > 0 /\ s # 1 OBVIOUS
<1>2. /\ r \in 0 .. 4
      /\ r = 0 => c1 = 0 \/ 10 * c1 > 13 * c0
      /\ r = 1 => 2 * c1 <= c0
      /\ r = 2 => 2 * c1 > c0 /\ 100 * c1 < 61 * c0
      /\ r = 3 => 100 * c1 >= 61 * c0 /\ 10 * c1 < 8 * c0
      /\ r = 4 => 10 * c1 >= 8 * c0 /\ 10 * c1 <= 13 * c0
  BY <1>1, Ranges
<1>3. /\ s \in 0 .. 4
      /\ s = 1 => 2 * (c1 + 1) <= c0
      /\ s = 2 => 2 * (c1 + 1) > c0 /\ 100 * (c1 + 1) < 61 * c0
      /\ s = 3 => 100 * (c1 + 1) >= 61 * c0 /\ 10 * (c1 + 1) < 8 * c0
      /\ s = 4 => 10 * (c1 + 1) >= 8 * c0 /\ 10 * (c1 + 1) <= 13 * c0
  BY <1>1, Ranges
<1>4. /\ r = 0 => x = 0
      /\ r = 1 => x = 3040 * c0 - 4699 * c1
      /\ r = 2 => x = 2240 * c0 - 3100 * c1
      /\ r = 3 => x = 1280 * c0 - 1530 * c1
      /\ r = 4 => x = 146 * c0 - 112 * c1
  BY <1>1, LuxByRange
<1>5. /\ s = 0 => y = 0
      /\ s = 1 => y = 3040 * c0 - 4699 * (c1 + 1)
      /\ s = 2 => y = 2240 * c0 - 3100 * (c1 + 1)
      /\ s = 3 => y = 1280 * c0 - 1530 * (c1 + 1)
      /\ s = 4 => y = 146 * c0 - 112 * (c1 + 1)
  BY <1>1, LuxByRange
<1> HIDE DEF r, s, x, y
<1>6. r = 3 /\ s = 4 => 10 * y <= 10 * x + 4 * c0 BY <1>1, <1>2, <1>3, <1>4, <1>5
<1>7. ~(r = 3 /\ s = 4) => y <= x
  <2> SUFFICES ASSUME ~(r = 3 /\ s = 4) PROVE y <= x
    OBVIOUS
  <2>1. CASE r = 0 BY <1>1, <1>2, <1>3, <1>4, <1>5, <2>1
  <2>2. CASE r = 1 BY <1>1, <1>2, <1>3, <1>4, <1>5, <2>2
  <2>3. CASE r = 2 BY <1>1, <1>2, <1>3, <1>4, <1>5, <2>3
  <2>4. CASE r = 3 BY <1>1, <1>2, <1>3, <1>4, <1>5, <2>4
  <2>5. CASE r = 4 BY <1>1, <1>2, <1>3, <1>4, <1>5, <2>5
  <2>6. QED BY <1>2, <2>1, <2>2, <2>3, <2>4, <2>5
<1>8. QED BY <1>6, <1>7 DEF r, s, x, y

-----------------------------------------------------------------------------
(* The behaviours.                                                         *)

Inputs == word \in Nat /\ word < 65536 /\ ch0 \in Nat /\ ch1 \in Nat

LEMMA AlwaysInputs == Spec => []Inputs
<1>1. Init => Inputs BY DEF Init, Inputs
<1>2. Inputs /\ [Next]_vars => Inputs'
  BY ConversionsAssumption DEF Inputs, Next, NextWord, NextCounts, vars
<1>3. QED BY <1>1, <1>2, PTL DEF Spec

(* __temp_conv, which complements a negative word in a sixteen bit         *)
(* variable and masks it, is two's complement division for every word, at  *)
(* 0x7ff0, 0x8000 and 0xfff0 too (temp.c:61-75).                           *)
THEOREM TempConvIsRight == Spec => []TempConvRight
<1>1. Inputs => TempConvRight BY TempConvIsDegrees DEF Inputs, TempConvRight
<1>2. QED BY <1>1, AlwaysInputs, PTL

(* The three orders of bytes on the way (packet, bus, sensor) fit for      *)
(* every word: what TEMP_WRITEREG sends the register holds, and            *)
(* TEMP_READREG sends it back (temp.c:46-59, 206-232).                     *)
THEOREM BytesDoFit == Spec => []BytesFit
<1>1. Inputs => BytesFit BY BytesFitAlways DEF Inputs, BytesFit
<1>2. QED BY <1>1, AlwaysInputs, PTL

(* Lux is never negative, for any two counts: each formula of              *)
(* __light_convert_lux is used only in the range where it is positive      *)
(* (light.c:118-131).                                                      *)
THEOREM LuxIsNotNegative == Spec => []LuxNotNegative
<1>1. Inputs => LuxNotNegative BY LuxIsPositive DEF Inputs, LuxNotNegative
<1>2. QED BY <1>1, AlwaysInputs, PTL

(* More infrared at the same total never means more light, from the border *)
(* of the first range on and for any two counts, except in the step past   *)
(* 0.8, which raises the result by at most 0.4 hundred-thousandths for     *)
(* each count (light.c:120-129).  Steps inside the first range, which uses *)
(* pow(), and the step from no infrared are not included.                  *)
THEOREM LuxDoesFall == Spec => []LuxFalls
<1>1. Inputs => LuxFalls BY LuxFallsAlways DEF Inputs, LuxFalls
<1>2. QED BY <1>1, AlwaysInputs, PTL
=============================================================================
