---------------------------- MODULE MCTempSensor ----------------------------
(***************************************************************************)
(* A small instance of TempSensor: all commands, and two threads of the    *)
(* timer library, which are alike.                                         *)
(***************************************************************************)
EXTENDS TempSensor, TLC

CONSTANTS c1, c2

AllCommands == TempCommands
Alike       == Permutations({c1, c2})
=============================================================================
