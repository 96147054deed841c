# TLA+ verification of the coverage loop

This directory models AI_Tese (`aicoverage/`), a program that raises the test
coverage of a C/C++, Go or Java project with language-model agents: it measures
coverage, has an agent write tests for what is uncovered, has another review
them, runs them in a sandbox, measures again, and goes on until thresholds are
reached or going on is pointless. The modules are translated from the Python
source; paths below are relative to the repository's root.

What is checked comes in three strengths, and this document says which is which:

- **proved** by TLAPS, for every value of the constants;
- **model-checked** by TLC, for the instances the `.cfg` files give;
- **refuted**: what a comment or document says, and a run of TLC shows not to be so.

Where a document says more than holds and no run of its own refutes it, the property
states what does hold; section 5 lists these places.

## 1. Inventory of the system

### 1.1 Components

| Component | Code | State it keeps | Operations | What makes it correct |
|---|---|---|---|---|
| Coverage loop | `loop.py` `run_loop` | locals of one process: round, stage, reports, spent budget, review attempts | analyse, build, baseline, then per round gap, generate, review and repair, execute, quality check, measure, judge; close; resume | closes once, for a true reason; runs only reviewed tests; respects limits and budget |
| Durable run state | `state.py` | `loop_state.json`, rewritten as a whole; `iter_N/` artifacts | `init_loop_state`, `start_iteration`, `update_iteration`, `set_exit`, `mark_resumed`, `check_threshold`, `check_early_stop` | a crash between writes loses nothing that was recorded; a resumption goes on where it must |
| Agent call | `agent_call.py` | attempt, restarts, time waited | classify a failure, compact, back off, retry | bounded attempts and waits, gives up only for cause, is charged in full |
| Agent runner | `runner.py` | one SDK session | run a prompt, watch for idleness, judge the result | the result tells what happened |
| Test executor | `executor.py` | `junit.xml`, `execution.json`, `coverage.json` | run pytest with a timeout, collect coverage, give a verdict | the verdict is about this execution |
| Coverage collection | `gcov.py`, `backends/*` | coverage reports | run gcov on every object, merge over translation units, percentages, delta | merging does not depend on order; rounded percentages neither meet a threshold nor hide a gain |
| Incremental scope | `incremental.py` | - | restrict a report to target functions, find missing targets | a target is never dropped silently |
| MR loop | `mr_loop.py` | batches, records of runs, baseline handed on | diff to functions, batches, one coverage loop per batch, split what fails, summary | every changed function is tried exactly once in the end; the summary is true |
| Diff extraction | `mrdiff.py`, `diffextract.py` | - | parse `git diff`, attribute lines to functions | every changed line belongs to a function or is reported |
| Call graph | `callgraph.py` | an index read from SQLite | reverse search to the entry points, batching | terminates, paths are real, batches are a partition |
| Scan track | `scanverify.py`, `ocrscan.py` | issues, manifest, verdicts | scan, generate reproductions, review, execute, judge in four states | a confirmed issue was reproduced by its own case |
| Bad cases | `badcase.py` | numbered markdown files | append a case | numbers are unique |
| Build | `build.py` | build log, artifacts, the listing of sources | clean, build, freshness test | stale artifacts are never measured |
| Sandbox | `sandbox.py`, `sandbox_shim.py` | cache of the container runtime probe | pick a runtime, wrap commands | the cache never says more than the last probe |
| Dashboard | `dashboard/*` | - | read the state files of live runs | tolerates a file being rewritten |
| Others | `kb.py`, `hooks.py`, `observability.py`, `docstyle.py`, `finalreport.py`, `htmlreport.py`, `config.py`, `cli.py`, `agents.py`, `templates.py`, `source.py`, `globutil.py`, `env.py` | logs, documents, settings | rendering, parsing, I/O | no decision of the loops depends on their state |

### 1.2 How they interact

One process runs `run_loop` (or `run_mr_loop`, which calls `run_loop` once per
batch, one after the other). It is `async`, but never has two stages in
flight: every agent call is awaited before the next statement. What makes it
hard is therefore not interleaving inside the process but

- **what outlives it.** The state file and the artifacts of a round survive a
  crash; locals do not. A resumption reconstructs the latter from the former,
  and each artifact was written at another point of the round.
- **agents that do not do what they say.** An agent communicates through files
  (`manifest.json`, `verify_report.json`), and a call that reports success may
  have written none, while a file of an earlier attempt is still there.
- **a dozen ways out of a round**, in a fixed order of precedence: thresholds,
  vacuous thresholds, budget, ceiling, limits, empty generation, failed review.
- **boundaries**: a view without branches or without functions, the last
  round, zero progress rounds, an exhausted budget, an odd batch.
- **retries** of calls that fail for several reasons at once.
- **other processes** beside it: the dashboard reads what is being rewritten;
  two runs may append a bad case or fill the runtime cache at the same time.

The hazards, each at its line and with the properties that would catch it, are
listed in `PROJECT.json`.

## 2. Modules

| Module | Contents |
|---|---|
| `LoopPromise` | abstract: what one coverage loop promises, in four variables |
| `CoverageLoop` | detailed: `run_loop` and the durable state, crashes and resumptions |
| `LoopRefinement` | the refinement mapping from `CoverageLoop` to `LoopPromise` |
| `AgentCall` | one agent call: classification, compaction, backoff, charge |
| `MRLoop` | the MR loop, composed with `LoopPromise` for the runs it makes |
| `DiffExtract` | from hunks to changed functions |
| `CallGraph` | reverse search to the entry points, batches |
| `ChangeBatches` | the two composed: from a diff to the batches `MRLoop` starts from |
| `Executor` | executions of tests that follow each other: counters, exit codes, verdicts |
| `ScanTrack` | the scan track, composed with `Executor` |
| `BuildFresh` | stage [1]: builds that fail or outlive their timeout, the freshness test |
| `GcovCollect` | parallel gcov workers, reading and merging of their outputs |
| `CoverageReport` | what is read off a report: scope, missing targets, percentages, delta |
| `Badcase` | several runs appending to one library |
| `SandboxRuntime` | the two caches of the runtime probe; where a forwarded command runs |
| `Dashboard` | the listing of runs beside a run that rewrites its state |
| `MCCoverageLoop`, `MCMRLoop`, `MCParts`, `MCSandboxRuntime` | instances for TLC |
| `NatLemmas`, `CoverageLoop_proofs`, `FreshRun_proofs`, `AgentCall_proofs`, `MRLoop_proofs`, `ChangeBatches_proofs`, `Coverage_proofs`, `SharedFiles_proofs` | lemmas and proofs (section 4) |

Three modules stack: `CoverageLoop` implements `LoopPromise` (its safety is proved,
its liveness checked by TLC), and `MRLoop` uses `LoopPromise` as the loop it runs
(`INSTANCE ... WITH Limit <- MaxIter`). So the MR loop is analysed with few
variables, and what it assumes of a run is what the run was shown to provide. What
`MRLoop` assumes of the batches a strategy makes (`Batching`) is what
`ChangeBatches` shows them to be. Both have the fallback as it is: where the
strategy fails, `mr_loop.py:206` takes the pair `split_batches` returns for the list
of batches (`FallBack`), and neither assumes anything better. `ScanTrack` runs its
cases through `Executor`.

The other parts share no state while they run. `MCParts` puts them side by side:
in a behaviour the part named by `part` moves, the others rest.

Operators named as variants of another (`check_threshold_either`,
`SplitsTooDeep`), marked *(mutant)*, are plausible mistakes in the code they
stand beside; nothing uses them. With one put in its place, the property listed
with it in `PROJECT.json` fails: that is how each property was tried.

### 2.1 CoverageLoop

The variables are in three groups. `stateFile` is `loop_state.json` field by
field, plus `torn`, a write cut off by a crash. `artifacts` are the files of
`iter_N/`, each as the set of rounds that have it (or the report it holds).
A torn state file holds nothing any more: `CutState` puts every field back.
`locals` are `run_loop`'s. `history` variables (`reviewed`, `overdrawn`) are
read by properties only; `shape` is the view under test.

A coverage report is the number of functions and branches of the view that are
hit, each percentage the truncated quotient. The view may be scoped, may have
no branches, and its targets may be missing from the data. In scoped runs the
figures that close a run at its last round (`loop.py:958-960`) are those of the
whole report, which the loop otherwise does not look at: `FinalFigures` takes any
of `WholePcts`.

| Action | Code |
|---|---|
| `Init` | `run_loop` up to the first stage, `init_loop_state` |
| `Analyze`, `BuildOk`, `BuildFails`, `Baseline` | [0] to [2] |
| `StartIteration`, `RoundsExhausted` | the `for` over rounds, its `else` |
| `AlreadyCovered`, `NothingToAim`, `WorkToDo` | the head of a round |
| `Gap`, `Gen`, `TestsGenerated`, `GenEmpty`, `GenGivesUp` | generation |
| `DocGateFails`, `VerifyAgent`, `GenFix` | review and repair loop |
| `Execute`, `PersistExecution`, `RecordVerdict`, `Quality`, `RecordCoverage` | `run_tests`, then the record of the round |
| `JudgeMet`, `JudgeVacuous`, `JudgeStop`, `JudgeContinue` | the end of a round |
| `SetExit`, `ReportMissing`, `Finalize` | the end of the run |
| `Crash` | the process dies between two steps, or in the middle of writing the state file |
| `CrashInCall` | it dies in a call: the agent's file is there, what the call cost is not saved |
| `Resume`, `ResumeFails` | `run_loop(resume_run_id=...)` |

The steps are cut where the code writes something durable, since those are the
places a crash can tell apart. An agent call is one step that leaves any output
its caller handles: none, or new content. An exception that escapes `run_loop`
leaves the same state as a crash at that place.

### 2.2 AgentCall

One action per outcome of an attempt. The summary of a failed attempt is the
set of word classes found in it (six lists of key words in the code), so an
error page that belongs to several classes is one of the inputs. Time counts
in seconds; the jitter of a fifth is any whole number in its range. `Charge`
is what `_call` in `loop.py` adds to the run's usage.

### 2.3 MRLoop

`todo` is the call stack of the recursive `_run_batch`: the batch being run,
then the second halves that wait. `CloseRun` is what follows `run_loop`'s
return: the record is appended, and the batch is split or done with.
`Extract` is [M0] and [M1] with their early exits, `NextBatch` and
`BatchesDone` the loop over batches, `Scan` [M3], `Summarize` [M4].

A coverage report is here the set of names it hits, which lets the model
speak about *which* tests hit what. A function is looked up by file and bare name
(`NameOf`), which overloads share; a name that is not in the coverage data
(`Measured` leaves it out) is no part of a target, which is what
`CoverageLoop!MissingTargetsReported` is about. A run is met when the share
`Threshold` of its target is hit, or all of it at the head of a round. Tests are
only added, never taken away, so what they hit only grows (`actual`); the repairs
that rewrite a test belong to the round in which it was generated. A report shows
what they hit or less (`Measure`): an execution that its timeout ended is
collected like any other (`executor.py:193-227`).

`FallBack` is [M1] when the strategy fails. The first of the two "batches" it
leaves consists of lists of targets: a list of two passes for a file and a name
that no report knows, so that the scope is empty; any other raises (`Malformed`).
The second is empty, and its run has the whole program as its scope. `Raise` is
what escapes: a failing `git diff`, gcov output that breaks off, a malformed
batch, a scan backend that is not there.

### 2.4 DiffExtract, CallGraph, ChangeBatches

A diff is a sequence of files with their hunks, a hunk is where it starts, how
long it is and the function named in its header. `ExtractFile` does one file as
`extract` does: the lines of its hunks, the innermost function around each (the
index's rows may be nested, overloaded, broken, or of a file that the name is a
suffix of), and the comparison with the hunk headers that makes a function
trusted or a conflict. Of hit ranges with the same qualified name and first line
one is kept, as the code's dictionary does; what is kept comes in the order of
first lines, equal ones in any order. So `functions_covering_lines` is the set of
answers the code may give.

The search goes caller by caller: `BeginSearch`, `ExtendPath`, then `Follow` or
`Skip` for each caller in any order (the code iterates over a set), or
`GiveUpSearch` at the depth limit. `GroupFunction` puts one function into its
batch, by file, by size or by call chain. `visited` holds what a search has
queued, and is empty between two searches.

### 2.5 Executor and ScanTrack

An execution has a number, and the counters in the `.gcda` files are the set of
executions that have counted there; a report is that set too. `run_tests` begins
one: it cleans the directory or not, as the request says, and the cleaning may
leave counters behind that it cannot remove. `PytestEnds` gives each selected
file an outcome, skipped being one of them, and takes the exit code and
`junit.xml` from them: a session whose cases were all skipped, as the installed
`conftest.py` does without a binary (`templates.py:113`), ends as one that passed;
`PytestBreaks` is the timeout, a crash of pytest and a command that cannot be
started. What the timeout did not kill (`orphans`) counts later (`OrphanEnds`).
`excused` remembers the executions whose counters could not be removed or came
late; it is read by the property only.

`ScanTrack` has one action per stage S1 to S5, the review tool and the agent
being two ways through the first. An agent may write no manifest, or no report.

### 2.6 BuildFresh

Files carry times, all different, so that the time of a source is also its
version. The build command is the project's own; here it works as make does:
it compiles what is older than its source and links when an object is newer
than the binary. Between any two of its steps a source may be written or
added. A build may fail anywhere; one that hits its timeout fails the stage,
but only its shell is killed (`build.py:85-112`, `sandbox.py:85-99`), and the
rest goes on as `orphan`, beside the next build. `source_files` is listed once
for each process (`config.py:301`) and not listed again, although
`invalidate_source_files` exists: a source added later is not watched.

### 2.7 GcovCollect and CoverageReport

`GcovCollect` lets the workers end in any order, well or badly, and the outputs
be read in any order. An output killed in the middle of a write is `cut`;
reading it raises, as `gzip` does with a file that ends early, and the report
is lost. `bestE2e` is the maximum over objects that are no unit tests. `from` is the
copy whose count was taken for an item; with it come the branches of a line
(`KeptBranches`), and of copies that count alike it is the one read first.

`CoverageReport` has programs of up to 20 000 functions, of which a few have
names and the others are only counted. `Pct` is `round(hit * 100 / total, 2)`
in hundredths of a per cent; of a quotient half way between two figures it has
both, since the binary fraction decides.

### 2.8 Badcase, SandboxRuntime, Dashboard

Three files that several processes share without a lock, each with the steps a
process can be overtaken between: read, adjudicate and append; read the cache,
probe, read it back, merge, truncate and fill it; truncate and fill a state
file while another process looks for it, reads it and tries again. A state file
grows in pieces, so what a reader or a crash finds may end inside a character of
several bytes (`TornInside`), which `_read_json` does not handle (`DecodeFails`).
`SandboxRuntime` goes on to what a forwarded command meets: `execvp` on the
host, or the container, each with the shims in its `PATH`.

## 3. Runs

| Run | Module | Asks |
|---|---|---|
| `LoopFresh` | `MCCoverageLoop` | is an uninterrupted run closed, for a true reason, with a bounded overdraft, running only reviewed tests, as `LoopPromise` says? |
| `LoopResume` | `MCCoverageLoop` | do crashes and resumptions lose, recount or cut off anything? |
| `MRLoop` | `MCMRLoop` | does splitting lose functions, is the summary true, are failures isolated at bounded cost? |
| `Parts` | `MCParts` | each part on its own: are attempts and waits of a call bounded, and failures given up for cause; is a diff cut into batches without loss; are verdicts and coverage those of this execution; is the binary that of the sources; does a merge depend on order; what do rounded figures say; do files shared without a lock mislead? |
| `LoopMissingTargets` | `MCCoverageLoop` | finding 1 |
| `ResumeMissedThreshold` | `MCCoverageLoop` | finding 2 |
| `ResumeUnreviewed` | `MCCoverageLoop` | finding 3 |
| `AgentCharge` | `AgentCall` | finding 4 |
| `MRBaseline` | `MCMRLoop` | finding 5 |
| `ScanConfirmed` | `ScanTrack` | finding 6 |
| `ShimFallback` | `MCSandboxRuntime` | finding 7 |
| `MRFallback` | `MCMRLoop` | finding 8 |

### 3.1 Properties

`LoopFresh`: `DoneMeansMet` (a run closed as done has a report at its targets,
and shows that report), `NoMissedThreshold` (a run closed for another reason
has no such report), `CeilingIsReal` (the ceiling was observed over enough
measured rounds, compared with reports and not with the recorded deltas the
code uses), `BudgetOverrunBounded` (at most two rounds are opened beyond the
budget: a bound found while modelling, since the code asks for the budget only
at the end of a round that generated tests), `ReviewedBeforeExecution`,
`RunCloses` (liveness) and `KeepsPromise` (the refinement).

`LoopResume`: `TypeOK`, `DoneMeansMet`, `AllRoundsUsed` (`max_iter_reached`
means every round was used, across crashes), `ResumeLosesNothing` (an action
property: executions stay; recorded costs, granted rounds and completions too,
unless a crash cuts the state file, which loses all of them; and the rounds that
are complete from the first one on are neither run nor recorded again).
`NoMissedThreshold`, `ReviewedBeforeExecution` and the promise that *every*
complete round is skipped do not hold here: findings 2 and 3, and section 5.1.

`MRLoop`: `TypeOK`, `EveryTargetHeldOnce` (each changed function, or list by file
on the fallback, is at any time in exactly one place: tried by a run that was not
split, waiting, or to come), `AllMetIsReal` (unless batching fell back, "all
batches met" is true of the tests in the end, although every run only knows the
report it started from and those it made; on the fallback it need not be, finding
8), `FailureIsolated` (what fails in the end is at most a quarter, rounded up, of
its batch), `RunsBounded` (at most seven runs for a batch),
`BaselineNeverRetreats` (the report handed from batch to batch is never dropped,
and falls back behind an earlier one only if the measurement that made it was cut
short), `MRCloses` (liveness: an end with a summary, unless an exception escapes).

`Parts`, by part:

- call: `CallTypeOK`, `AttemptsBounded`, `WaitBounded`, `GivesUpForCause` (a call
  is given up for an overflowed context, whatever stands beside it, for a request
  that can never work with no sign of a passing fault, or because attempts or time
  are used up), `WaitsGrow`.
- batches: `BatchesAreTheChange` (every changed line inside a function has that
  function in exactly one batch or reported as a conflict, and nothing else is
  in a batch), `ChainsReal` (a function is batched by a real chain of calls from
  an entry), `ExpandedOnce` (the search looks at every function once, also on
  cycles), `UnreachableIsReal` (a function called unreachable has no chain
  within the depth limit, and a chain found is a shortest one).
- rounds: `CoverageOfThisRound` (a report counts its own execution and, besides
  it, only counters that could not be removed or that came late).
- scan: `VerdictsFollowExecution` (an issue is confirmed or refuted only after
  an approved review, confirmed by an execution in which some file failed,
  refuted by one in which none did; skipped ones count as not failed, finding 6).
- build: `MeasuresTheSource` (what is measured was built of the sources found
  when stage [1] began, except those written while it was built or within the
  second the test allows).
- gcov: `MergeIsMaximum` (the counts of the merged report are the largest ones,
  whatever the order of workers and outputs, its branches are those of a copy with
  that count, and "only unit tests hit it" is true but for unit tests whose gcov
  failed; which copy it is depends on the order; a collection fails only if
  a gcov was killed and left a file cut short; both in section 5.1).
- report: `ThresholdHonest` (a whole per cent shown as reached is reached in
  views of less than 200 functions, 100 in views of less than 20 000; 296 of
  299 are shown as 99.00), `FlatMeansFlat` (a round that shows no gain has none,
  in views of up to 10 000 functions).
- badcases: `ClashOnlyByOverlap` (numbers and titles repeat only between merges
  that overlapped in time).
- sandbox: `AnswersRecent` (an answer a process takes, from the file or from a
  probe, was found by a probe less than the time to live ago).
- dashboard: `ListingTrue` (a listed run shows a saved state, none older than
  the last one saved before; a run left out was in the middle of a save at
  every attempt; the listing fails only over a file that ends inside a character,
  section 5.1).

### 3.2 Bounds

- `LoopFresh` gives three rounds, a ceiling after two flat ones and one repair:
  enough for a round that stops short of its limit, a ceiling that is not the
  limit, an empty round between two measured ones, two empty rounds in a row,
  and a review that fails before and after a repair. Costs of 0 or 1 against a
  budget of 1 let the budget run out at any call. Three views: partial targets
  reached with one of two functions; a scope without branches; a scope with
  nothing in the data. The runs have
  the verdicts `PASS` and `FAIL`. `BLOCKED` is like the second in that a quality
  check follows, and like the first in that its rounds count towards
  `coverage_ceiling` (`state.py:166-169`); the proofs are about all three.
- `LoopResume` gives two rounds, one more by resumption (`RoundBound = 3` caps
  repeated extensions), crashes at every step, any number of crashes. One
  function, hit or not, tells all stages of a resumption apart. No repair and a
  ceiling after one flat round keep it small; `LoopFresh` has both.
- `MRLoop` takes five functions (two uneven bisections: 5 = 2 + 3, 3 = 1 + 2),
  two of them overloads and one not in the data, no batch to two batches, two
  rounds a run and a target of 60 per cent, which two of three names reach and one
  of two does not. `MRBaseline` needs one round only; `MRFallback` one round, a
  target of 50 per cent and a program with names that are not in the diff, half of
  which the second, empty batch can hit instead.

- `Parts` has 1.9 million states. Calls: delays 6, 10, 15 such that the exponential
  is capped at its second step and the total timeout cuts a third wait off; two
  tokens are context pressure, so compaction competes with retries. Batches: five
  diffs of up to two files over two indexes with nested, overloaded, equal and
  broken ranges, one of which knows a file only by names it is a suffix of, and
  every graph made of some of nine calls among five names, with cycles and a method
  named like a function; a depth limit of one, so that chains that are one call too
  long exist; batches of two. Rounds: two executions, the first of which may leave
  counters to the second, and three test files. Scan: two issues and a test file
  that was there before. Build: two sources, of which one may be added later, five
  units of time and a tolerance of one; enough to compile, link, edit within the
  tolerance and after it, and to build again after a failure. Gcov: three objects,
  one of them a unit test's, counts 0 to 2. Report: programs of up to 4, 199, 10 000
  and 19 999 functions, on either side of the limits that `ThresholdHonest` and
  `FlatMeansFlat` name, the others hit by none, one, or all but up to three. Bad
  cases: three merges with up to two candidates, titles that are new, alike,
  malformed or the tool's own. Sandbox: a loop and a shim, two runtimes, a time to
  live of two and a clock up to two: an answer may turn too old once. Dashboard:
  three saves, three attempts as in the code.

`MaxIter`, `RoundBound`, `MaxVerifyRetry`, `NoProgress`, `MaxCost`, `MaxSplitDepth`,
`RetryLimits` and the delays are all constants of the specifications; `RoundBound`
is one the code does not have, and so are `MaxRuns`, `MaxClock`, `MaxTime`,
`MaxSaves` and `MaxCandidates`, which only end the behaviours of the parts.
`WholePcts` are two figures a whole report may have. Usage is capped at the budget
(`Capped`), beyond which no comparison tells it apart.

### 3.3 Fairness and deadlock

`CoverageLoop` and `MRLoop` have `WF_vars(Step)`: there is one process, whose
every call returns, agent sessions after their idle timeout, pytest and builds
after theirs; nothing ever waits for another actor. `Crash`, `Resume` and
`ResumeFails` are not fair: nobody is obliged to kill or to resume a run. So
`RunCloses` is about uninterrupted runs, and is checked where `AllowCrash` is
false. The parts state safety only. `ShimFallback` is
about an end that must come and is checked under `FairRuntime`: a process that
can take a step does, as the operating system's scheduler provides; the clock
need not go on. A finished model stutters by a `Rest` action, so deadlock is
checked in every run but `ShimFallback`, whose processes end.

## 4. Proofs

TLAPS checks thirty-four results, for every value of the constants that satisfies
the assumptions of the modules (`LoopConstants`, `CallConstants`, `MRConstants`,
`GraphConstants`, `DiffInputs`, `ExecutorConstants`, `IssuesHaveCases`,
`BuildConstants`, `CollectConstants`, `ReportConstants`, `BadcaseConstants`,
`RuntimeConstants`, `DashboardConstants`), which only say what kind of value each
is, of a batching by a strategy that it holds a function once, of a diff that it
names a file once, and of an index that no two functions of a name begin on the same
line of a file. Every invariant and every action property that a run checks is
stated by one of them. The parts are proved each on its own specification, not on
`MCParts`.

An invariant is seldom inductive as it stands; what was added to each, and why:

**`CoverageLoop_proofs`: what holds through crashes and resumptions.**

- **TypeCorrect**: `Spec => []TypeOK`. That a round's number, report and verdict
  are there when they are used follows only from where the process is. `PlaceInv`
  says so stage by stage (in a round, `iter_n` is a round; once executed, its
  report and verdict exist; a repair is begun only while attempts are left). That
  the `CHOOSE`s of the module pick something (first open round, last report)
  comes from well-foundedness of `<`.
- **BudgetOverrun**: `Spec => []BudgetOverrunBounded`. The bound of two alone
  says nothing of how it comes about: `BudgetInv` ties `overdrawn` to the number
  of empty rounds in a row, stage by stage. An overdrawn round that generates
  tests ends the run, and of two empty rounds in a row the second does.
- **NothingLost**: `Spec => ResumeLosesNothing`, by cases on the actions under
  the type invariant and two more. `PaidInv`: while the process lives, what it
  holds as spent is what the file says, so that saving it never lowers the file's
  figure. And `CourseInv` (below): the rounds begun have no gap, so a resumption
  starts after the rounds in `Kept`, those that are complete from the first one on
  (`ResumeAfterKept`), and no step touches what lies before the round at hand
  (`KeptUntouched`). `CutTypes` and `CrashLeaves` deal with the two crashes.
- **RoundsAllUsed**: `Spec => []AllRoundsUsed`. `CourseInv`: the rounds begun
  are the first ones without a gap, all before the current one are used up, and a
  live process goes up to the limit the file holds. A resumption starts at the
  first round that is not complete, so it passes over none.
- **DoneIsMet**: `Spec => []DoneMeansMet`. `DoneInv` follows the figures on
  their way: from the report into the round's record, from there into the exit
  decided on (`exit`), and only a step later into the file.

**`FreshRun_proofs`: what holds of a run that was not resumed.** Findings 2 and 3
show that the next three fail after a resumption; so each is proved under
`~resumed`, of every such run, also of one that will crash.

- **TestsAreReviewed**: `ReviewInv` says that no report of a review is there
  before the round's own review has written one, so that none can be stale.
- **NoneMissed**: `MissInv`: a measured round at its targets can only lead to
  the exit as done. It rests on `check_threshold`, which reads the record, and the
  rule for views without branches saying together what `Met` says of the report.
- **CeilingReal**: the code counts recorded deltas, the property compares reports.
  `RecordsInv` says that each round behind the run is `Settled`: measured or empty,
  with the delta over the report measured before it, across the empty rounds in
  between. Then the window `check_early_stop` looks at is the set of the last
  measured rounds, and its cardinality is what the code counts.
- **PromiseUntilCrash** and **PromiseKept**: the safety half of `KeepsPromise`:
  the initial states map to those of `LoopPromise`, and each step to one of its
  steps or to a stutter. `PathInv` says that the exit a run is about to take is
  justified by what the promise sees of it (`Justified`). The first theorem speaks
  of every run up to the crash or resumption that cuts it off; the second, under
  `~AllowCrash` and `~AllowResume`, of whole behaviours, which is what `LoopFresh`
  checks.

**`AgentCall_proofs`.** **CallTypeCorrect**, **CallAttemptsBounded** and
**CallWaitBounded** share one invariant, the conjunction of the three.
**CallGivesUpForCause** is inductive together with the types: the result, the
attempts and the time waited stay as they are once the call has given up, and so
does the cause they show. A 5xx beside words of an overflow is no exception to it:
the overflow is the cause (section 5.1). **CallWaitsGrow**: a wait is at most a
fifth above the delay of an earlier attempt, and the delay has doubled since, so
that the last wait is at most three fifths of what the delay is now (`WaitsInv`);
the jitter cannot make up for that before the cap.

**`MRLoop_proofs`.** **MRTypeCorrect** first. Then:

- **AllMet**: `Spec => []AllMetIsReal`. The invariant says where the functions of
  the diff are (`Held`: in a record that was not split, in the work left, or to
  come), that no report says more than the tests hit (`Honest`), and that a run is
  closed as met only with its target reached (`Earned`). A report that says less
  does no harm, since `Enough` only grows with what is hit. Under `fellBack` the
  theorem claims nothing: there the formula is refuted (finding 8). It rests on
  lemmas about what appending, concatenating, cutting and taking the tail of a
  sequence do to the set of its elements.
- **TargetsHeldOnce**: `EveryTargetHeldOnce` counts; `Spread` says instead that the
  places are pairwise disjoint and each batch without repetition, which a cut in two
  keeps. Disjoint places that hold a function have cardinality one. What is counted
  are the members of batches, so the fallback's lists are counted as such.
- **FailureIsSmall**: `Shrunk` bounds the length of every batch by its depth and
  its origin's length, as a product with a power of two, so that no rounding up
  adds up on the way; a run that fails unsplit is a single function or at the last
  depth.
- **RunsAreBounded**: `Tally`: the runs a batch has cost so far, together with the
  largest trees below the pieces that still wait for it, fit the tree of the whole.
- **BaselineKept**: `Spec => BaselineNeverRetreats`. `Chain`: once a run has
  measured anything, what it measured last is no less than what the loop holds as
  baseline, or was cut short; so handing it on only goes back in that case.

**`ChangeBatches_proofs`**, on every graph, diff and index, for every depth limit
and way of batching.

- **TracesAreChains** and **SearchExpandsOnce** (`TraceInv`): every path queued or
  being extended is a chain of calls to the target without a detour, and no two
  begin with the same function. A caller is followed only if it is on no path and
  begins none, so the path that is made of it is again such a chain.
- **UnreachableReal**: that a breadth-first search is one. `Waves`: the queue
  holds the paths of one level, then those of the next. `Near`: what calls the
  target over fewer calls than the level has been seen. `Shortest`: no queued path
  is longer than any other way from its head. `Closed`: what has been seen has its
  callers seen, or waits. `NoEntrySeen`: none of it is an entry, or the search
  would have ended. The reference, callers by number of calls (`Callers`), is a
  recursive function; every number is reached by induction over a set.
- **NothingLostOrAdded**: `Spec => []BatchesAreTheChange`, in two halves.
  `ExtractInv`: every changed line of the files done so far has an innermost
  function around it among those found, every function found has a changed line, and
  the functions of a file are trusted together. `BatchInv`: while batches are made,
  each target grouped so far is in one batch, the one of its file or of the entry of
  its chain (`Grouping`), and the unreachable ones follow at the end (`Made`); after
  the fallback `Lists` is where they are, one level further down. The proof
  corrected the property twice. Two ranges that are alike are each inside the other,
  so that "innermost" has to mean that none is *strictly* inside. And where a file
  is known only by how its path ends, ranges of two files with one name and first
  line take each other's place, so that a changed line need not be among those of
  the function it is attributed to: there the property says only that the function
  is. `Parts` has both cases.

**`NatLemmas`** holds what several of these need and the library states only for
operators: the least and the greatest element of a set of numbers, induction over a
set (from the least element that is not in it), the value of a function defined by
recursion on the numbers (`Iterates`), and that `2 ^ n` is the number of subsets
of a set of `n` elements, which is how the provers get to know that it doubles.

**Coverage, shared files.**

- `Coverage_proofs`, **MergeMaximum**: the invariant says of the outputs merged so
  far what the property says of all (of copies that are equal the first one read
  gives the branches, which is why only "one of them" can be said), and that a
  collection that raised had an output cut short in its hands;
  **ThresholdsAreHonest** and **FlatIsFlat** rest on `PctNear` (a figure is half a
  hundredth of a per cent off at most), and on what that excludes in small views;
  **BinaryIsCurrent**: `VersionAt` says of every object, and of every source in the
  binary, that it has the version of its time stamp; `Current` says that what the
  binary has is what was compiled, unless it was compiled again since. So an object
  that is no newer than the binary is in it, whichever of two builds linked.
- `Coverage_proofs`, **OwnCoverage** and **VerdictsAreShown**: what an exit
  code and a verdict show of the files that ran or were skipped, carried through
  the stages.
- `SharedFiles_proofs`, **ListingIsTrue**, **ClashesOverlap** and
  **AnswersAreRecent**: each ties what a process holds to what the file held
  when it read it. Of bad cases: a merge knows all entries of merges that ended
  before it began (`EntryInv`), so what it appends is numbered above them. Of
  the runtime cache: every entry in the file, in a process's hands or being
  written is backed by a probe no older than its time stamp (`Backed`), and no
  step makes a time stamp younger than its probe.

Only model-checked: the liveness properties `RunCloses` and `MRCloses`, and of the
refinement `KeepsPromise` the fairness of `LoopPromise` (liveness under fairness and
`ENABLED` are beyond the prover). No invariant and no action property of a passing
run is left to TLC alone. What violation runs show (section 5) rests on TLC's
counterexamples.

## 5. Findings

Each of the eight is a violation run whose counterexample is a behaviour of the code.

1. **A scope whose targets are all missing ends as met, unreported.**
   `loop.py:962` promises that targets not in the data are reported. The
   check only runs when a round of this process measured something, but a view
   without functions passes the already-covered test of the first round.
   (`LoopMissingTargets`)
2. **A resumption skips the judgement of the round it finds complete.** A
   process that dies between writing `coverage.json` and judging the round is
   resumed at that round, which has nothing left to do: the loop goes on to
   the next one, or, after the last, ends early although the targets are
   reached. (`ResumeMissedThreshold`)
3. **A redone round inherits the review of its first attempt.** The stale
   `verify_report.json` passes the regenerated tests when the verify agent
   writes nothing. (`ResumeUnreviewed`)
4. **Retried calls are charged with their last attempt only.** (`AgentCharge`)
5. **A split batch starts from an old report.** Both halves are given the
   parent's baseline, and of a split batch only the last run is asked for the
   report to hand on, contrary to the comments at `mr_loop.py:224` and
   `loop.py:522`. (`MRBaseline`) `AllMetIsReal` holds nevertheless: an old
   report hits no more than a new one.
6. **Issues are not judged by their own cases.** All cases run in one execution,
   whose one verdict judges every issue (`scanverify.py:314-322`);
   `docs/PLAN_mr_incremental_closure.md:100-101` speaks of each issue's case. An
   issue is confirmed although its case passed; and refuted although its case was
   not run, or skipped: the conftest the tool installs skips when there is no
   binary (`templates.py:113`), pytest ends with 0, and `executor.py:234` calls
   that PASS, while `scanverify.py:13-14` calls such a case inconclusive.
   (`ScanConfirmed`)
7. **A shim without a sandbox runs itself for ever.** Its fallback is `execvp`
   with the `PATH` in which the shims come first; with a runtime the same
   `PATH` goes into the container. (`ShimFallback`)
8. **The fallback for batching makes two batches that are none.** `mr_loop.py:206`
   assigns the pair `split_batches` returns (`callgraph.py:462`) to `batches`. The
   first batch is then the list of file batches: one with two functions passes for
   a target that no report knows, whose scope is empty and met at once, any other
   raises; the second is empty, which stands for the whole program. So
   `all_batches_met` may be reported with no changed function hit, where
   `mr_loop.py:203-204` says that batches by file are used. (`MRFallback`)

### 5.1 Where documents say more than holds

These have no run of their own. The models have the behaviour, and the property
named, which runs check and a theorem proves, says how far the document is right.

- **A 5xx beside words of an overflow is not always retried.** The overflow is
  asked for first (`agent_call.py:145`) and given up at once when no compaction is
  left (`:282`), though `:111` says "always retry". `GivesUpForCause` has the
  overflow as a cause, whatever stands beside it.
- **A resumption redoes rounds that are complete.** It starts at the first round
  that is not, and an empty one never is; the complete ones after it are run again
  from their gap stage (`loop.py:576`), against `loop.py:344-346` and
  `README_zh.md:211-213`. `ResumeLosesNothing` speaks of the rounds that are
  complete from the first one on.
- **One file cut inside a character takes the listing down.** State is written
  with `ensure_ascii=False` (`state.py:66`); `_read_json` does not handle
  `UnicodeDecodeError` (`store.py:29`), against `store.py:8`. After a crash in such
  a write every listing fails. `ListingTrue` allows a failure only then.
- **One output cut short costs the whole report.** A gcov killed by its timeout may
  leave one; `EOFError` is not handled (`gcov.py:272`), against `executor.py:197`.
  `MergeIsMaximum` allows a collection to raise only then.
- **The branches of a merged line depend on the order of a listing.** Of copies
  that count alike the one read first stays (`gcov.py:449`), against `gcov.py:323`.
  `MergeIsMaximum` says that the counts do not depend on it, and that the branches
  are those of one of the largest copies.

## 6. Not modelled, and why

- Prompts, rendered reports (`finalreport.py`, `htmlreport.py`), logs, the
  project templates and the text of documents: no decision reads them. The
  command line and the settings are parsed once; their values are constants.
- Hooks (vetoes of an agent's tool uses), observability (an append-only log),
  the knowledge base (agent calls that write documents) and the fetching of a
  source tree: no state of theirs is read by the loops.
- `docstyle.py` parses test files; modelled is its outcome. `globutil.py`
  matches paths; modelled is the set of sources it yields.
- The go and java backends: the first's merge of two channels has no caller in
  the program, the second only raises.
- The token budget: the same test as the cost budget, on another counter.
- The message stream of one agent session (`runner.py`): external; one attempt
  has any result the function may return.
- The text of `git diff`, gcov and junit output, and the SQLite file of the
  index: inputs, in parsed form. In C++ gcov keys branches by mangled names and
  functions by demangled ones, while targets are bare names; such targets are
  reported missing (`gcov.py:410`, `incremental.py:56`).
- The mark of a unit test's object whose gcov failed is lost, so that its hits
  count as others'. `GcovFails` has it, and `MergeIsMaximum` says "unit tests only"
  up to such objects: no document promises more.
- What a call cost that the process did not survive: `CrashInCall` has the crash,
  but nothing durable knows the cost, so no property can compare it.
- In `DiffExtract`, ranges of several files that are mixed up where the index knows
  a file only by how its path ends are among the answers, and are accepted:
  nothing in the program tells a wrong one.
- In `BuildFresh`, time stamps that are set back (a restored file), sources that
  are deleted, headers outside `include_globs`, and writes between the reading
  of a source and the object's time stamp: the freshness test sees none of them.
- In `Badcase`, an append is one write, and a library that cannot be read, which
  passes for an empty one (`badcase.py:66-69`), is left out. In `SandboxRuntime` the
  cache inside a process (`sandbox.py:243`) keeps its answers for ever:
  `AnswersRecent` is about answers when they are taken, not about their later use.
  No time passes between a probe and its stamp. A probe inside a container finds no
  runtime and writes that into the workspace's cache like any other: `AnswersRecent`
  says that answers are recent, not that they were found in the same place.
- A crash of the MR loop: it has no resumption, its summary is then missing.
- In `MRLoop`, branch coverage; `CoverageLoop` has it.

## 7. Plan

In order:

1. The message stream of `runner.py`, with the judgement that follows it
   (`runner.py:179`), in place of the single step of `AgentCall`.
2. `Execute` of `CoverageLoop` refined by `Executor`.
3. `Batching` of `MRLoop`, an assumption there, as a refinement: the batches that
   `ChangeBatches` makes without the fallback, as `MRLoop`'s initial states.
4. What is true of resumed runs in place of `NoMissedThreshold` and
   `CeilingIsReal`: up to which round of the run before they hold.
