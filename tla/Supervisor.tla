----------------------------- MODULE Supervisor -----------------------------
(***************************************************************************)
(* What supervision promises (src/main.c), without queues, threads and     *)
(* messages: while the program runs there is one monitor, which waits for  *)
(* its period to end and then examines every task once.  A task that has   *)
(* confirmed since it was last examined is left alone and its confirmation *)
(* is used up, in one step; any other is condemned, and started again      *)
(* before the monitor waits for its next period.  Nobody else starts one.  *)
(* Project1 implements this (Supervises).                                  *)
(***************************************************************************)
CONSTANT Tasks   \* the tasks that are supervised

VARIABLES
  running,    \* whether the program runs
  waiting,    \* the monitor waits for its period to end
  due,        \* the tasks it has yet to examine in this period
  condemned,  \* the tasks it is about to start again
  confirmed,  \* the tasks that have confirmed since they were examined
  alive       \* the tasks that exist

vars == <<running, waiting, due, condemned, confirmed, alive>>

Launched ==
  /\ running = TRUE /\ waiting = FALSE
  /\ due = {} /\ condemned = {} /\ confirmed = {} /\ alive = Tasks

Init == Launched

Launch == ~running /\ Launched'

End ==
  /\ running /\ running' = FALSE /\ waiting' = FALSE
  /\ {due', condemned', confirmed', alive'} = {{}}

\* The monitor is done with a period, and waits.
Wait ==
  /\ running /\ ~waiting /\ waiting' = TRUE
  /\ due = {} /\ condemned = {}
  /\ UNCHANGED <<running, due, condemned, confirmed, alive>>

Begin ==
  /\ running /\ waiting
  /\ waiting' = FALSE /\ due' = Tasks
  /\ UNCHANGED <<running, condemned, confirmed, alive>>

Examine(t) ==
  /\ t \in due /\ condemned = {}
  /\ due' = due \ {t}
  /\ confirmed' = confirmed \ {t}
  /\ condemned' = IF t \in confirmed THEN {} ELSE {t}
  /\ UNCHANGED <<running, waiting, alive>>

\* The old thread ends; the new one may fail to start.
StartAgain(t) ==
  /\ t \in condemned
  /\ condemned' = condemned \ {t}
  /\ alive' \in {alive \cup {t}, alive \ {t}}
  /\ UNCHANGED <<running, waiting, due, confirmed>>

Confirm(t) ==
  /\ running /\ t \notin confirmed
  /\ confirmed' = confirmed \cup {t}
  /\ UNCHANGED <<running, waiting, due, condemned, alive>>

\* A task is killed by a command, or cancelled by EXIT.
Leave(t) ==
  /\ t \in alive /\ alive' = alive \ {t}
  /\ UNCHANGED <<running, waiting, due, condemned, confirmed>>

Next ==
  \/ Launch \/ End \/ Wait \/ Begin
  \/ \E t \in Tasks : Examine(t) \/ StartAgain(t) \/ Confirm(t) \/ Leave(t)

Spec == Init /\ [][Next]_vars
=============================================================================
