------------------------------ MODULE Executor ------------------------------
(***************************************************************************)
(* One execution of tests after another: run_tests of src/aicoverage/      *)
(* executor.py, on the host or in a container.                             *)
(*                                                                         *)
(* pytest and gcov are inputs: how each test file fares, and whether the   *)
(* run is cut off.  The .gcda counters are the set of executions that have *)
(* counts in them, and so is a report made from them.                      *)
(***************************************************************************)
EXTENDS Naturals, FiniteSets

CONSTANTS
  Tests,      \* test files
  OldTests,   \* those in the test directory from the start
  MaxRuns     \* executions (a bound of the model)

ASSUME ExecutorConstants == OldTests \subseteq Tests /\ MaxRuns \in Nat

VARIABLES
  xstep,          \* "idle", "pytest", "collect" or "judge"
  runs, request,  \* how many executions have begun, and what the last was asked
  dir,            \* the files in the test directory
  counters,       \* the executions counted in the .gcda files
  orphans,        \* what goes on of executions that were killed: [run, writes],
                  \* writes: junit.xml of this very directory
  junit,          \* junit.xml: whose it is, and whether it counts any test
  coverage,       \* coverage.json: the executions counted in it
  rc, verdict,
  results,        \* history: how the files fared in the last execution
  excused         \* history: executions whose counters could not be removed, or
                  \* that have been counted anew since

execVars == <<xstep, runs, request, dir, counters, orphans, junit, coverage, rc, verdict,
              results, excused>>

NoFile == [run |-> 0, tests |-> FALSE]

InitExecutor ==
  /\ xstep = "idle" /\ runs = 0 /\ request = [files |-> {}, collect |-> FALSE, container |-> FALSE]
  /\ dir = OldTests /\ counters = {} /\ orphans = {}
  /\ junit = NoFile /\ coverage = {} /\ rc = 0 /\ verdict = "none"
  /\ results = [f \in {} |-> "pass"] /\ excused = {}

Requests == [files : SUBSET Tests, collect : BOOLEAN, container : BOOLEAN]

\* (mutant) a container is taken to start without counters
CleansHostOnly(req) == req.collect /\ ~req.container

\* counters are removed for an execution that collects coverage
Cleans(req) == req.collect

\* .gcda files that cannot be unlinked stay, silently
run_tests(req, new_directory) ==
  /\ xstep = "idle" /\ runs < MaxRuns
  /\ xstep' = "pytest" /\ runs' = runs + 1 /\ request' = req
  /\ IF Cleans(req)
     THEN \E kept \in SUBSET counters : counters' = kept /\ excused' = kept
     ELSE UNCHANGED <<counters, excused>>
  /\ IF new_directory
     THEN junit' = NoFile /\ coverage' = {} /\ orphans' = {[o EXCEPT !.writes = FALSE] : o \in orphans}
     ELSE UNCHANGED <<junit, coverage, orphans>>
  /\ verdict' = "none" /\ rc' = 0 /\ results' = [f \in {} |-> "pass"]
  /\ UNCHANGED dir

Counted == counters' \in {counters, counters \cup {runs}}
AfterPytest == xstep' = IF request.collect THEN "collect" ELSE "judge"

Selected == IF request.files = {} THEN dir ELSE request.files

ExitCode(res) ==
  IF DOMAIN res = {} THEN 5
  ELSE IF \E f \in DOMAIN res : res[f] = "broken" THEN 2
  ELSE IF \E f \in DOMAIN res : res[f] = "fail" THEN 1 ELSE 0

\* A file that cannot be imported stops the session before any test runs.  The cases
\* of a file may all be skipped, as the fixture of the installed conftest.py does when
\* it finds no binary; pytest counts them, and ends as if they had passed.
PytestEnds ==
  /\ xstep = "pytest" /\ AfterPytest
  /\ results' \in [Selected -> {"pass", "skip", "fail", "broken"}]
  /\ rc' = ExitCode(results')
  /\ junit' = [run |-> runs, tests |-> Selected # {}]
  /\ IF rc' \in {0, 1} THEN Counted ELSE UNCHANGED counters
  /\ UNCHANGED <<runs, request, dir, orphans, coverage, verdict, excused>>

\* Killed by the timeout (124), an internal or usage error of pytest (3, 4), no
\* interpreter or a crash (127): a junit.xml is left as it was or not to be read.
\* The kill reaches pytest and not what it started; of a container it reaches the
\* client only, and pytest goes on.
PytestBreaks ==
  /\ xstep = "pytest" /\ AfterPytest
  /\ rc' \in {3, 4, 124, 127}
  /\ junit' \in {junit, [run |-> runs, tests |-> FALSE]}
  /\ Counted
  /\ orphans' \in IF rc' = 124
                 THEN {orphans, orphans \cup {[run |-> runs, writes |-> request.container]}}
                 ELSE {orphans}
  /\ UNCHANGED <<runs, request, dir, coverage, verdict, results, excused>>

\* a program that outlived its test writes its counters when it ends
OrphanEnds ==
  /\ \E o \in orphans :
       /\ orphans' = orphans \ {o}
       /\ counters' = counters \cup {o.run} /\ excused' = excused \cup {o.run}
       /\ junit' \in {junit} \cup (IF o.writes THEN {[run |-> o.run, tests |-> TRUE]} ELSE {})
  /\ UNCHANGED <<xstep, runs, request, dir, coverage, rc, verdict, results>>

\* in the container, or on the host also when the container failed; a gcov of
\* another version reads nothing
Collect ==
  /\ xstep = "collect" /\ xstep' = "judge"
  /\ coverage' \in {counters, {}}
  /\ UNCHANGED <<runs, request, dir, counters, orphans, junit, rc, verdict, results, excused>>

\* an output of gcov that is cut short raises: no report, no verdict
CollectRaises ==
  /\ xstep = "collect" /\ xstep' = "idle"
  /\ UNCHANGED <<runs, request, dir, counters, orphans, junit, coverage, rc, verdict, results,
                 excused>>

\* (mutant) every other exit code is a failed case
VerdictByCode ==
  CASE rc = 124 -> "BLOCKED" [] rc = 0 -> "PASS" [] rc \in {3, 4, 5} -> "BLOCKED" [] OTHER -> "FAIL"

Verdict ==
  CASE rc = 124 -> "BLOCKED"
    [] rc = 0   -> "PASS"
    [] rc \in {3, 4, 5} \/ (rc \notin {0, 124} /\ ~junit.tests) -> "BLOCKED"
    [] OTHER    -> "FAIL"

\* execution.json
JudgeRun ==
  /\ xstep = "judge" /\ xstep' = "idle" /\ verdict' = Verdict
  /\ UNCHANGED <<runs, request, dir, counters, orphans, junit, coverage, rc, results, excused>>

Execution == PytestEnds \/ PytestBreaks \/ OrphanEnds \/ Collect \/ CollectRaises \/ JudgeRun

RestExecutor == xstep = "idle" /\ runs = MaxRuns /\ UNCHANGED execVars

\* rounds of the coverage loop, a round redone in the same directory included
NextExecutor ==
  \/ \E req \in Requests, new \in BOOLEAN : run_tests(req, new)
  \/ Execution \/ RestExecutor

SpecExecutor == InitExecutor /\ [][NextExecutor]_execVars

-----------------------------------------------------------------------------
(* Correctness *)

\* A round's coverage is its own: besides this execution, a report counts only
\* those whose counters could not be removed or that were written after the
\* counters were, by a program that outlived a timeout.  The reproductions of the
\* scan track, which clean nothing, never show in a round.  (executor.py: the
\* cleaning before pytest, "so this round's coverage reflects only this round's
\* tests".)
CoverageOfThisRound ==
  xstep = "judge" /\ request.collect => coverage \subseteq {runs} \cup excused

=============================================================================
