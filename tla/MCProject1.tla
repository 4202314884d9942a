----------------------------- MODULE MCProject1 -----------------------------
(***************************************************************************)
(* Small instances of Project1: one or two tasks, one or two threads that  *)
(* run callbacks and are alike.                                            *)
(***************************************************************************)
EXTENDS Project1, TLC

CONSTANTS s1, s2

One       == {s1}
Two       == {s1, s2}
None      == {}
All       == {LIGHT, TEMP, LOG}
LightLog  == {LIGHT, LOG}
TempOnly  == {TEMP}
LogOnly   == {LOG}
Beat      == {"heartbeat"}
EveryTimer == Timer
KillOrExit == {<<LOG, "KILL">>, <<MAIN, "EXIT">>}
NoCreate  == {"create"}
AnyFails  == {"create", "timer", "fopen"}
Workers   == Permutations(Two)
=============================================================================
