----------------------------- MODULE MCLogFile -----------------------------
(***************************************************************************)
(* Small instances of LogFile: one or two files, two log threads.          *)
(***************************************************************************)
EXTENDS LogFile

CONSTANTS project1_log, other_log

OneFile   == {project1_log}
TwoFiles  == {project1_log, other_log}
Nobody    == {}

\* A state in which threads have raced is not explored further: from there on
\* the properties of logfile.cfg say nothing, but TypeOK, which is proved.
TakingTurns == ~raced
=============================================================================
