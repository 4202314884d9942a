------------------------------- MODULE MCLeds -------------------------------
(***************************************************************************)
(* A small instance of Leds: a temperature and a brightness on each side   *)
(* of the upper thresholds.                                                *)
(***************************************************************************)
EXTENDS Leds

MildOrHot == {20, 35}
DimBright == {0, 60}
=============================================================================
