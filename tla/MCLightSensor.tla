--------------------------- MODULE MCLightSensor ----------------------------
(***************************************************************************)
(* A small instance of LightSensor: all commands.                          *)
(***************************************************************************)
EXTENDS LightSensor

AllCommands == LightCommands
=============================================================================
