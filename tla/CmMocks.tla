------------------------------- MODULE CmMocks -------------------------------
(***************************************************************************)
(* The queues in which cmocka keeps what a test announces to its mocks:    *)
(* return values by function, parameter checks by function and parameter,  *)
(* and the order of calls.  The linked lists of the code are sequences and *)
(* the two levels of symbol names one key; a key whose list becomes empty  *)
(* is removed there and maps to the empty sequence here.                   *)
(*                                                                         *)
(* count is the refcount of the node: so many uses left, or Always, which  *)
(* the first use turns into Maybe.  asked and used are history: what was   *)
(* announced and how often it was used.                                    *)
(***************************************************************************)
EXTENDS Integers, FiniteSetsExt, SequencesExt

Always == -1    \* WILL_RETURN_ALWAYS
Maybe  == -2    \* WILL_RETURN_ONCE

Entries(What, Counts, MaxUses) ==
  [what : What, count : {Always, Maybe} \cup Nat, asked : Counts, used : 0 .. MaxUses]

list_add_value(queue, what, n) ==
  Append(queue, [what |-> what, count |-> n, asked |-> n, used |-> 0])

list_remove_free(queue, j) == RemoveAt(queue, j)

\* One use of the entry at position j.
\* Mutant: the count of an endless entry goes on falling.
FallsOn(queue, j) ==
  IF queue[j].count = 1
  THEN list_remove_free(queue, j)
  ELSE [queue EXCEPT ![j].used = @ + 1, ![j].count = @ - 1]

UseAt(queue, j) ==
  LET entry == queue[j]
  IN  IF entry.count = 1
      THEN list_remove_free(queue, j)
      ELSE [queue EXCEPT ![j].used = @ + 1,
                         ![j].count = IF @ > Maybe THEN @ - 1 ELSE @]

\* The queues of return values and checks are found by symbol.
add_symbol_value(map, symbol, what, n) ==
  [map EXCEPT ![symbol] = list_add_value(@, what, n)]

get_symbol_value(map, symbol) == [map EXCEPT ![symbol] = UseAt(@, 1)]

\* It gives the count before the use, and 0 if nothing is queued: its callers
\* take a count of 0 for an empty queue.
Found(map, symbol) == map[symbol] # <<>> /\ Head(map[symbol]).count # 0

\* The entry that serves a call of function f in the queue of calls: the
\* first one for f, provided that every entry before it may be passed over;
\* 0 when there is none (beyond the end the code reads the head of the list
\* and fails or crashes).
\* Mutant: the search passes over entries that are still owed a call.
PassesOver(queue, f) ==
  LET named == {j \in DOMAIN queue : queue[j].what = f}
  IN  IF named = {} THEN 0 ELSE Min(named)

Serving(queue, f) ==
  LET stops == {j \in DOMAIN queue : queue[j].count > Maybe \/ queue[j].what = f}
  IN  IF stops # {} /\ queue[Min(stops)].what = f THEN Min(stops) ELSE 0

-----------------------------------------------------------------------------
\* What is left when the function ends.  In the map of a symbol only the first
\* entry may be endless, all others behind it are left over.
\* Mutant: an Always that was never used is removed as well.
RemoveUnused(queue) ==
  IF queue # <<>> /\ Head(queue).count < 0 THEN list_remove_free(queue, 1) ELSE queue

remove_always_return_values(queue) ==
  IF queue # <<>> /\ Head(queue).count < Always THEN list_remove_free(queue, 1) ELSE queue

\* The order of calls loses every endless entry; the positions that stay.
remove_always_return_values_from_list(queue) ==
  {j \in DOMAIN queue : queue[j].count >= Always}

check_for_leftover_values(map) ==
  \E symbol \in DOMAIN map : remove_always_return_values(map[symbol]) # <<>>

check_for_leftover_values_list(queue) ==
  remove_always_return_values_from_list(queue) # {}

fail_if_leftover_values(results, params, calls) ==
  \/ check_for_leftover_values(results)
  \/ check_for_leftover_values(params)
  \/ check_for_leftover_values_list(calls)

-----------------------------------------------------------------------------
\* The reference: every use announced was made, an Always at least once.
Honoured(entry) ==
  \/ entry.asked \in {Maybe, 0}
  \/ entry.asked = Always /\ entry.used > 0

Met(queue) == \A j \in DOMAIN queue : Honoured(queue[j])

\* Nothing is queued that no use can reach: behind an endless entry, or for no
\* use at all.
Reachable(queue) ==
  \A j \in DOMAIN queue :
    queue[j].asked # 0 /\ (queue[j].asked < 0 => j = Len(queue))
=============================================================================
