------------------------------- MODULE MCCmocka -------------------------------
\* The instance of Cmocka that TLC checks.
EXTENDS Cmocka

CONSTANTS f, g, p, a, b

F == {f, g}
P == {p}
A == {a, b}

\* A check of every kind; sets with a member that is there twice.
Check(kind, data) == [kind |-> kind, data |-> data]
EveryKind ==
  {Check("value", <<1>>), Check("not_value", <<1>>), Check("any", <<>>),
   Check("in_set", <<1, 1>>), Check("not_in_set", <<1, 1>>),
   Check("in_range", <<1, 2>>), Check("not_in_range", <<1, 2>>),
   Check("in_range", <<-1, 1>>), Check("not_in_range", <<-1, 1>>),
   Check("string", <<1, 0, 2>>), Check("not_string", <<1, 0, 2>>),
   Check("memory", <<1, 0>>), Check("not_memory", <<1, 0>>),
   Check("return_code", <<1>>)}

SomeKinds == {Check("in_set", <<1, 1>>), Check("memory", <<>>)}

\* Numbers and bytes: 1 and "", 1 and "\1", 2 and "\2", -1.
SomeValues == {<<0, 0>>, <<1, 0>>, <<2, 0>>, <<-1, 0>>}
SomeCounts == {Always, Maybe, 0, 1, 2}

Bare == [setup |-> FALSE, teardown |-> FALSE]
Full == [setup |-> TRUE, teardown |-> TRUE]
SomeGroups ==
  {[setup |-> FALSE, teardown |-> FALSE, tests |-> <<Bare, Bare>>],
   [setup |-> FALSE, teardown |-> TRUE, tests |-> <<Full>>],
   [setup |-> TRUE, teardown |-> FALSE, tests |-> <<Bare>>]}

Alike == Permutations(F) \cup Permutations(A)
=============================================================================
