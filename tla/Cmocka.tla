-------------------------------- MODULE Cmocka --------------------------------
(***************************************************************************)
(* cmocka, the library this program's tests run under: groups of tests one *)
(* after the other in one process, as in test/test_main.c.  The runner     *)
(* calls a function of the program (a fixture or a test), the function     *)
(* calls cmocka in any order it likes, and either returns or is left by a  *)
(* jump: the failed check, the skip or the signal that ends it.            *)
(***************************************************************************)
EXTENDS CmChecks, CmMocks, CmHeap

CONSTANTS
  Functions,     \* the mock functions
  Parameters,    \* pairs of a mock function and one of its parameters
  Checks,        \* the checks a program may assert, [kind, data]
  Queued,        \* the checks it may queue for a parameter
  Values,        \* the values it may check
  Counts,        \* the counts it may announce
  Addresses,     \* where test_malloc() may put a block
  Groups,        \* the groups it may run: [setup, teardown, tests]
  NumGroups,     \* how many of them, one after the other
  MaxCalls       \* how many calls its functions make to cmocka, together

NoPoint == -1    \* no check point was handed in

ASSUME CmockaAssumption ==
  /\ Counts \subseteq ({Always, Maybe} \cup Nat)
  /\ Addresses \cap {ListHead, NoPoint} = {}
  /\ \A c \in Checks \cup Queued, v \in Values : Fits(c, v)
  /\ \A c \in Queued : c.kind # "return_code"
  /\ Groups \subseteq [setup : BOOLEAN, teardown : BOOLEAN,
                       tests : Seq([setup : BOOLEAN, teardown : BOOLEAN])]
  /\ NumGroups \in Nat \ {0}
  /\ MaxCalls \in Nat

VARIABLES
  pc,          \* what the runner is at: a function by its role, or a step of its own
  inside,      \* "call", "body" or "back": before, in and after that function
  budget,      \* calls to cmocka left to the program
  group,       \* the group that runs
  round,       \* how many groups were started
  test,        \* the index of the test that runs
  points,      \* the check points of the group, of the test's setup and of the function
  heap,        \* global_allocated_blocks
  results,     \* global_function_result_map_head
  params,      \* global_function_parameter_map_head
  calls,       \* global_call_ordering_head
  skip_test,   \* global_skip_test
  rc,          \* what the last function gave the runner
  cm_tests,    \* the status of the tests started
  total,       \* total_passed, total_failed, total_errors, total_skipped
  returned     \* what the last group gave its caller

VARIABLES      \* history, which only properties read
  truth,       \* what the function really did, a member of Truths
  log,         \* the same of every test of the group
  overrun,     \* some function wrote beyond a block
  stale        \* global_skip_test was set when the group started

program == <<budget, heap, results, params, calls, skip_test>>
runner  == <<group, round, test, points, cm_tests, total, returned>>
history == <<log, stale>>
vars == <<pc, inside, rc, truth, overrun, program, runner, history>>

Fixtures == {"group_setup", "setup", "teardown", "group_teardown"}
None == "none"
NoResults == [f \in Functions |-> <<>>]
NoParams  == [p \in Parameters |-> <<>>]
Nothing == [passed |-> 0, failed |-> 0, errors |-> 0, skipped |-> 0]
Statuses == {"not_started", "passed", "skipped", "failed", "error"}

\* What a function did: all it checked and announced was right ("good"), or not
\* ("bad"); it left by skip() ("skip"); it freed the block of its check point
\* ("lost"); it made a check that the code does not decide by its meaning
\* ("misled"); it announced what no use can reach ("unfair").
Truths == {None, "good", "bad", "skip", "lost", "misled", "unfair"}

Init ==
  /\ pc = "start" /\ inside = "back" /\ budget = MaxCalls
  /\ group \in Groups /\ round = 0 /\ test = 0
  /\ points = [group |-> ListHead, setup |-> NoPoint, function |-> ListHead]
  /\ heap = <<>> /\ results = NoResults /\ params = NoParams /\ calls = <<>>
  /\ skip_test = FALSE /\ rc = 0 /\ cm_tests = <<>> /\ total = Nothing
  /\ returned = 0 /\ truth = None /\ log = <<>> /\ overrun = FALSE /\ stale = FALSE

-----------------------------------------------------------------------------
(* A function of the program and the calls it makes. *)

\* The check point of a fixture is handed in by the runner if there is one; a
\* test, and a teardown without a setup, take the heap as they find it.
\* Mutant: a test is measured from the start of its group.
GroupPoint == IF pc = "group_setup" \/ pc = "group_teardown" \/ pc = "test"
              THEN points.group ELSE CheckPoint(heap)

FunctionPoint ==
  CASE pc \in {"group_setup", "group_teardown"} -> points.group
    [] pc \in {"setup", "teardown"} /\ points.setup # NoPoint -> points.setup
    [] OTHER -> CheckPoint(heap)

\* initialize_testing() and the call.
Call ==
  /\ inside = "call"
  /\ inside' = "body"
  /\ points' = [points EXCEPT !.function = FunctionPoint]
  /\ heap' = Disowned(heap)
  /\ results' = NoResults /\ params' = NoParams /\ calls' = <<>>
  /\ truth' = "good"
  /\ UNCHANGED <<pc, budget, group, round, test, skip_test, rc, cm_tests, total,
                 returned, overrun, history>>

\* teardown_testing(): whatever was queued is freed.
teardown_testing == results' = NoResults /\ params' = NoParams /\ calls' = <<>>

\* The function makes one more call to cmocka, which comes back to it.
Continue(queues, h, t) ==
  /\ results' = queues.results /\ params' = queues.params /\ calls' = queues.calls
  /\ heap' = h
  /\ truth' = t
  /\ UNCHANGED <<pc, inside, skip_test, rc, overrun, runner, history>>

queued == [results |-> results, params |-> params, calls |-> calls]

\* Or the call ends it: exit_test() jumps back into the runner.
exit_test(h, t) ==
  /\ inside' = "back" /\ rc' = -1
  /\ teardown_testing
  /\ heap' = h
  /\ truth' = t
  /\ UNCHANGED <<pc, overrun, runner, history>>

Calling == inside = "body" /\ budget > 0 /\ budget' = budget - 1

fail == exit_test(heap, "bad") /\ UNCHANGED skip_test

\* _fail() itself, or a signal caught by exception_handler().
Fail == Calling /\ fail

Skip == Calling /\ skip_test' = TRUE /\ exit_test(heap, "skip")

\* What a check of the value v says of the function that makes it.
Checked(c, v) == IF Odd(c, v) THEN "misled" ELSE IF Means(c, v) THEN truth ELSE "bad"

AssertThat ==
  /\ Calling
  /\ \E c \in Checks, v \in Values :
       IF AssertHolds(c, v)
       THEN Continue(queued, heap, Checked(c, v))
       ELSE exit_test(heap, Checked(c, v)) /\ UNCHANGED skip_test

\* will_return(): a count of 0 is refused.
WillReturn ==
  /\ Calling
  /\ \E f \in Functions, n \in Counts :
       IF n = 0 THEN fail
       ELSE Continue([queued EXCEPT !.results = add_symbol_value(@, f, None, n)], heap, truth)

Mock ==
  /\ Calling
  /\ \E f \in Functions :
       IF ~ Found(results, f) THEN fail
       ELSE Continue([queued EXCEPT !.results = get_symbol_value(@, f)], heap, truth)

\* expect_*(): a count of 0 is not refused.
ExpectCheck ==
  /\ Calling
  /\ \E p \in Parameters, c \in Queued, n \in Counts :
       IF Queueable(c)
       THEN Continue([queued EXCEPT !.params = add_symbol_value(@, p, c, n)], heap, truth)
       ELSE fail

CheckExpected ==
  /\ Calling
  /\ \E p \in Parameters, v \in Values :
       IF ~ Found(params, p) THEN fail
       ELSE LET c == Head(params[p]).what
            IN  IF CheckPasses(c, v)
                THEN Continue([queued EXCEPT !.params = get_symbol_value(@, p)], heap,
                              Checked(c, v))
                ELSE exit_test(heap, Checked(c, v)) /\ UNCHANGED skip_test

\* expect_function_calls(): a count of 0 is refused.
ExpectFunctionCall ==
  /\ Calling
  /\ \E f \in Functions, n \in Counts :
       IF n = 0 THEN fail
       ELSE Continue([queued EXCEPT !.calls = list_add_value(@, f, n)], heap, truth)

FunctionCalled ==
  /\ Calling
  /\ \E f \in Functions :
       IF Serving(calls, f) = 0 THEN fail
       ELSE Continue([queued EXCEPT !.calls = UseAt(@, Serving(@, f))], heap, truth)

\* test_malloc() and test_calloc().  Without memory assert_non_null() fails.
Malloc ==
  /\ Calling
  /\ IF Unused(heap, Addresses) = {} THEN fail
     ELSE \E a \in Unused(heap, Addresses) : Continue(queued, Allocate(heap, a), truth)

\* Freeing the block of the check point loses the check point.
Losing(i) == IF heap[i].at = points.function THEN "lost" ELSE truth

\* test_free(), and test_realloc() to size 0, of a block of the program.
Free ==
  /\ Calling
  /\ \E i \in DOMAIN heap :
       IF heap[i].intact THEN Continue(queued, RemoveAt(heap, i), Losing(i))
                         ELSE fail

\* test_realloc(): the new block is allocated before the old one is freed.
Realloc ==
  /\ Calling
  /\ \E i \in DOMAIN heap :
       IF Unused(heap, Addresses) = {} THEN fail
       ELSE \E a \in Unused(heap, Addresses) :
              IF heap[i].intact
              THEN Continue(queued, RemoveAt(Allocate(heap, a), i), Losing(i))
              ELSE exit_test(Allocate(heap, a), "bad") /\ UNCHANGED skip_test

\* The program writes beyond a block: no call, but counted like one.
Overrun ==
  /\ Calling
  /\ \E i \in DOMAIN heap : heap' = [heap EXCEPT ![i].intact = FALSE]
  /\ overrun' = TRUE
  /\ UNCHANGED <<pc, inside, results, params, calls, skip_test, rc, truth, runner, history>>

\* The function returns r.  All but setups are charged with the blocks behind
\* their check point; nothing may be left in the queues.  Both failures jump.
Return(r) ==
  LET charged == pc \in {"test", "teardown", "group_teardown"}
      lost    == LostPoint(heap, points.function)
      kept    == \/ \E i \in DOMAIN heap : heap[i].mine
                 \/ ~ \A f \in Functions : Met(results[f])
                 \/ ~ \A p \in Parameters : Met(params[p])
                 \/ ~ Met(calls)
      fair    == /\ \A f \in Functions : Reachable(results[f])
                 /\ \A p \in Parameters : Reachable(params[p])
  IN  /\ inside = "body"
      /\ inside' = "back"
      /\ rc' = IF \/ charged /\ fail_if_blocks_allocated(heap, points.function)
                  \/ fail_if_leftover_values(results, params, calls)
               THEN -1 ELSE r
      /\ heap' = IF charged /\ ~ lost THEN FreeBehind(heap, points.function) ELSE heap
      /\ truth' = IF truth = "good" /\ kept THEN "bad"
                  ELSE IF truth = "good" /\ ~ fair THEN "unfair" ELSE truth
      /\ teardown_testing
      /\ UNCHANGED <<pc, budget, skip_test, overrun, runner, history>>

ReturnFromTest == pc = "test" /\ Return(0)

ReturnFromFixture == pc \in Fixtures /\ \E r \in {0, 1} : Return(r)

Program ==
  \/ Fail \/ Skip \/ AssertThat
  \/ WillReturn \/ Mock \/ ExpectCheck \/ CheckExpected
  \/ ExpectFunctionCall \/ FunctionCalled
  \/ Malloc \/ Free \/ Realloc \/ Overrun
  \/ ReturnFromTest \/ ReturnFromFixture

-----------------------------------------------------------------------------
(* The runner: _cmocka_run_group_tests() and cmocka_run_one_tests(). *)

Quiet == UNCHANGED <<budget, heap, results, params, calls, truth, overrun>>

\* The step of the runner is over: next it calls a function, or takes a step.
ThenCall(role) == pc' = role /\ inside' = "call"
ThenStep(step) == pc' = step /\ inside' = "back"

ThenTeardown ==
  IF group.teardown THEN ThenCall("group_teardown") ELSE ThenStep("finish")

Back(role) == pc = role /\ inside = "back"

StartGroup ==
  /\ pc = "start" /\ round < NumGroups
  /\ round' = round + 1
  /\ group' \in Groups
  /\ points' = [points EXCEPT !.group = CheckPoint(heap)]
  /\ test' = 0 /\ total' = Nothing /\ rc' = 0
  /\ cm_tests' = <<>> /\ log' = <<>> /\ stale' = skip_test
  /\ IF group'.setup THEN ThenCall("group_setup") ELSE ThenStep("next")
  /\ UNCHANGED <<skip_test, returned>> /\ Quiet

\* There is no memory for the states of the tests.
NoMemory ==
  /\ pc = "start" /\ round < NumGroups
  /\ round' = round + 1
  /\ returned' = -1
  /\ UNCHANGED <<pc, inside, group, test, points, total, rc, log, stale, skip_test, cm_tests>>
  /\ Quiet

AfterGroupSetup ==
  /\ Back("group_setup")
  /\ IF rc = 0
     THEN ThenStep("next") /\ UNCHANGED total
     ELSE ThenTeardown /\ total' = [total EXCEPT !.errors = @ + 1]
  /\ UNCHANGED <<rc, group, round, test, points, cm_tests, returned, skip_test, history>> /\ Quiet

NextTest ==
  /\ pc = "next"
  /\ IF test = Len(group.tests)
     THEN ThenTeardown /\ UNCHANGED <<test, cm_tests, points, log>>
     ELSE LET next == group.tests[test + 1]
          IN  /\ test' = test + 1
              /\ cm_tests' = Append(cm_tests, "not_started")
              /\ log' = Append(log, None)
              /\ points' = [points EXCEPT !.setup = IF next.setup THEN CheckPoint(heap) ELSE NoPoint]
              /\ ThenCall(IF next.setup THEN "setup" ELSE "test")
  /\ UNCHANGED <<rc, group, round, total, returned, skip_test, stale>> /\ Quiet

\* A setup that fails takes the test and its teardown with it.
AfterSetup ==
  /\ Back("setup")
  /\ IF rc = 0
     THEN ThenCall("test") /\ UNCHANGED cm_tests
     ELSE ThenStep("record") /\ cm_tests' = [cm_tests EXCEPT ![test] = "error"]
  /\ UNCHANGED <<rc, group, round, test, points, total, returned, skip_test, history>> /\ Quiet

Verdict == IF rc = 0 THEN "passed" ELSE IF skip_test THEN "skipped" ELSE "failed"

\* The flag is cleared only here, when a test did not pass.
\* Mutant: it is not, and every test that fails after a skip is skipped too.
KeepsSkip ==
  /\ Back("test")
  /\ cm_tests' = [cm_tests EXCEPT ![test] = Verdict]
  /\ log' = [log EXCEPT ![test] = truth]
  /\ rc' = 0
  /\ IF group.tests[test].teardown THEN ThenCall("teardown") ELSE ThenStep("record")
  /\ UNCHANGED <<skip_test, group, round, test, points, total, returned, stale>> /\ Quiet

AfterTest ==
  /\ Back("test")
  /\ cm_tests' = [cm_tests EXCEPT ![test] = Verdict]
  /\ log' = [log EXCEPT ![test] = truth]
  /\ skip_test' = (skip_test /\ rc = 0)
  /\ rc' = 0
  /\ IF group.tests[test].teardown THEN ThenCall("teardown") ELSE ThenStep("record")
  /\ UNCHANGED <<group, round, test, points, total, returned, stale>> /\ Quiet

AfterTeardown ==
  /\ Back("teardown")
  /\ cm_tests' = IF rc = 0 THEN cm_tests ELSE [cm_tests EXCEPT ![test] = "error"]
  /\ ThenStep("record")
  /\ UNCHANGED <<rc, skip_test, group, round, test, points, total, returned, history>> /\ Quiet

Record ==
  /\ pc = "record"
  /\ total' = CASE rc # 0 -> [total EXCEPT !.errors = @ + 1]
                [] rc = 0 /\ cm_tests[test] = "passed"  -> [total EXCEPT !.passed = @ + 1]
                [] rc = 0 /\ cm_tests[test] = "skipped" -> [total EXCEPT !.skipped = @ + 1]
                [] rc = 0 /\ cm_tests[test] = "failed"  -> [total EXCEPT !.failed = @ + 1]
  /\ ThenStep("next")
  /\ UNCHANGED <<rc, skip_test, group, round, test, points, cm_tests, returned, log, stale>> /\ Quiet

AfterGroupTeardown ==
  /\ Back("group_teardown")
  /\ ThenStep("finish")
  /\ UNCHANGED <<rc, skip_test, group, round, test, points, cm_tests, total, returned, history>>
  /\ Quiet

Results == total.failed + total.errors

\* Blocks left at the end: no function runs, so exit_test() ends the process.
\* Mutant: the blocks are only displayed.
OnlyDisplays ==
  /\ pc = "finish"
  /\ ThenStep("start") /\ returned' = Results
  /\ UNCHANGED <<heap, rc, skip_test, group, round, test, points, cm_tests, total, history,
                 budget, results, params, calls, truth, overrun>>

Finish ==
  /\ pc = "finish"
  /\ heap' = FreeBehind(heap, points.group)
  /\ IF Behind(heap, points.group) # {}
     THEN ThenStep("over") /\ UNCHANGED returned
     ELSE ThenStep("start") /\ returned' = Results
  /\ UNCHANGED <<rc, skip_test, group, round, test, points, cm_tests, total, history,
                 budget, results, params, calls, truth, overrun>>

Runner ==
  \/ StartGroup \/ NoMemory \/ AfterGroupSetup
  \/ NextTest \/ AfterSetup \/ AfterTest \/ AfterTeardown \/ Record
  \/ AfterGroupTeardown \/ Finish

Next == Call \/ Program \/ Runner

Spec == Init /\ [][Next]_vars
-----------------------------------------------------------------------------
(* Properties. *)

TypeOK ==
  /\ pc \in Fixtures \cup {"start", "next", "test", "record", "finish", "over"}
  /\ inside \in {"call", "body", "back"}
  /\ budget \in 0 .. MaxCalls /\ round \in 0 .. NumGroups
  /\ group \in Groups /\ test \in 0 .. Len(group.tests)
  /\ points \in [group : {ListHead}, setup : Addresses \cup {ListHead, NoPoint},
                function : Addresses \cup {ListHead}]
  /\ heap \in Seq(Blocks(Addresses))
  /\ \A i, j \in DOMAIN heap : heap[i].at = heap[j].at => i = j
  /\ results \in [Functions -> Seq(Entries({None}, Counts, MaxCalls))]
  /\ params \in [Parameters -> Seq(Entries(Queued, Counts, MaxCalls))]
  /\ calls \in Seq(Entries(Functions, Counts, MaxCalls))
  /\ skip_test \in BOOLEAN /\ rc \in {-1, 0, 1}
  /\ truth \in Truths /\ log \in Seq(Truths) /\ Len(log) = test
  /\ cm_tests \in Seq(Statuses) /\ Len(cm_tests) = test
  /\ overrun \in BOOLEAN /\ stale \in BOOLEAN
  /\ total \in [passed : Nat, failed : Nat, errors : Nat, skipped : Nat]
  /\ returned \in Int
  /\ total.passed + total.failed + total.errors + total.skipped <= test + 1

\* A test is reported as passed only if it was good: every assertion and check
\* it made holds by the meaning of its kind, every use it announced was made
\* (an Always at least once), and no block it allocated is left.  There are two
\* exceptions: a test that frees the block its own check point names ("lost"),
\* whose address may come back as a block of the test, and one that checks a
\* range with numbers on both sides of zero ("misled"): assert_not_in_range(0,
\* -1, 1) passes, for -1 is the largest number there.
PassedIsGood ==
  \A i \in DOMAIN log :
    cm_tests[i] = "passed" => log[i] \in {"good", "lost", "misled"}

\* And a good test is not charged with what others left: blocks of its setup or
\* of a test that failed before, announcements of a fixture, a skip.  It is
\* reported as passed unless its own teardown failed afterwards.  Not good here
\* are, besides the exceptions above, a test that checks a return code as large
\* as the limit of its width, which is refused ("misled"), and one that
\* announces what no use can reach, which is left over ("unfair").
GoodIsPassed ==
  \A i \in DOMAIN log :
    log[i] = "good" => \/ cm_tests[i] = "passed"
                       \/ cm_tests[i] = "error" /\ group.tests[i].teardown

\* A group that gives 0 to its caller started every test, and none was bad:
\* each was good, skipped by itself or one of the exceptions of PassedIsGood.
\* global_skip_test is not cleared by a fixture that skips:
\* inside the group the fixture counts as an error, but a group whose own
\* teardown skipped gives 0 and leaves the flag to the next one (stale).
FailureShows ==
  pc = "start" /\ round > 0 /\ returned = 0 /\ ~ stale =>
    /\ Len(log) = Len(group.tests)
    /\ \A i \in DOMAIN log : log[i] # "bad"

\* A group that returns at all leaves no block allocated, and no function of it
\* ever wrote beyond a block: a corrupt block cannot be freed, whoever tries, so
\* it is still there at the end and ends the process.
CleanReturn == pc = "start" => heap = <<>> /\ ~ overrun

\* Calls are accepted in the order in which they were announced: when an entry
\* was used, every entry before it that is still queued is endless and, unless
\* it may be left out, was used too.
CallsInOrder ==
  \A j \in DOMAIN calls : \A i \in 1 .. j - 1 :
    calls[j].used > 0 => calls[i].asked < 0 /\ Honoured(calls[i])
=============================================================================
