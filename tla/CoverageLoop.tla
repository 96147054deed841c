---------------------------- MODULE CoverageLoop ----------------------------
(***************************************************************************)
(* The coverage loop of src/aicoverage/loop.py (run_loop) together with    *)
(* the run's durable state of src/aicoverage/state.py.                     *)
(*                                                                         *)
(* One run is a directory.  loop_state.json and the artifacts of iter_N/   *)
(* survive a crash; everything run_loop keeps in local variables does not. *)
(* A resumed run reads the durable part back and works out from it at      *)
(* which round, and at which stage of that round, to go on.                *)
(*                                                                         *)
(* The agents are external: a call may or may not leave its output file,   *)
(* whatever its result says, so each call picks the file's new content.    *)
(* A coverage report is reduced to how many functions and branches of the  *)
(* view (the whole program, or the scope of target functions) are hit.     *)
(***************************************************************************)
EXTENDS Integers, FiniteSets

CONSTANTS
  MaxIter,         \* max_iter of the first run
  MoreIters,       \* max_iter values a resumption may be given
  RoundBound,      \* bound of the model: no resumption goes beyond this round
  MaxVerifyRetry,  \* limits["max_verify_retry"]
  NoProgress,      \* limits["no_progress_iters"]
  FuncTarget,      \* thresholds["func_pct"], 0..100
  CondTarget,      \* thresholds["cond_pct"], 0..100
  MaxCost,         \* max_cost_usd in units of Costs; 0 disables the budget
  Costs,           \* what one agent call may cost
  Shapes,          \* the views under test, see ShapeType
  WholePcts,       \* percentages of the whole program when only a scope is looked at
  Verdicts,        \* verdicts run_tests may return
  AllowCrash,      \* may the process die between two steps?
  AllowResume      \* may a stopped run be resumed?

(***************************************************************************)
(* A view has funcs functions and branches branches.  scoped: the run was  *)
(* given target functions.  missing: some of them are not in the data.     *)
(***************************************************************************)
ShapeType == [funcs : Nat, branches : Nat, scoped : BOOLEAN, missing : BOOLEAN]

AllVerdicts == {"PASS", "FAIL", "BLOCKED"}

ASSUME LoopConstants ==
  /\ MaxIter \in Nat \ {0} /\ RoundBound \in Nat /\ MaxIter <= RoundBound
  /\ MoreIters \subseteq Nat \ {0}
  /\ MaxVerifyRetry \in Nat /\ NoProgress \in Nat
  /\ FuncTarget \in 0..100 /\ CondTarget \in 0..100
  /\ MaxCost \in Nat /\ Costs \subseteq Nat
  /\ Shapes \subseteq ShapeType /\ WholePcts \subseteq 0..100
  /\ Verdicts \subseteq AllVerdicts
  /\ AllowCrash \in BOOLEAN /\ AllowResume \in BOOLEAN

Rounds == 1..RoundBound

VARIABLES
  \* loop_state.json
  iterations, current_iter, max_iter, status, exit_reason, final_metrics,
  usage, scope_missing, torn,
  \* artifacts of iter_N: the rounds whose manifest.json lists test files, whose
  \* verify_report.json says pass, which have an execution.json; coverage.json
  manifest, verify_report, execution_json, coverage_json,
  \* locals of run_loop, lost in a crash
  pc, iter_n, start_iter, end_iter, resumed, stage, previous, baseline,
  consecutive_gen_empty, spent, attempt, has_files, verdict, exit,
  \* the view under test, fixed for the run
  shape,
  \* history: rounds whose tests passed a review after their last generation,
  \* and rounds this process opened when the budget was already gone
  reviewed, overdrawn

exitState == <<status, exit_reason, final_metrics>>
stateFile == <<iterations, current_iter, max_iter, exitState, usage, scope_missing, torn>>
artifacts == <<manifest, verify_report, execution_json, coverage_json>>
span      == <<start_iter, end_iter, resumed>>
inputs    == <<previous, baseline>>
scratch   == <<attempt, has_files, verdict>>
locals    == <<iter_n, span, stage, inputs, consecutive_gen_empty, spent, scratch, exit>>
history   == <<shape, reviewed, overdrawn>>
vars      == <<stateFile, artifacts, pc, locals, history>>

\* the state file and the locals but for the one part an action changes
notRecords == <<current_iter, max_iter, exitState, usage, scope_missing, torn>>
notUsage   == <<iterations, current_iter, max_iter, exitState, scope_missing, torn>>
notExit    == <<iter_n, span, stage, inputs, consecutive_gen_empty, spent, scratch>>

-----------------------------------------------------------------------------
(* Coverage reports and percentages *)

NoReport == [func |-> -1, branch |-> -1]
NoMetrics == [func |-> -1, cond |-> -1]

Report == [func : 0..shape.funcs, branch : 0..shape.branches]

\* CoverageReport.func_pct and cond_pct: 0 when there is nothing to count
Pct(hit, total) == IF total = 0 THEN 0 ELSE (hit * 100) \div total

FuncPct(r) == Pct(r.func, shape.funcs)
CondPct(r) == Pct(r.branch, shape.branches)
Metrics(r) == [func |-> FuncPct(r), cond |-> CondPct(r)]

\* no testable branch: the branch target counts as met and is shown as 100
Vacuous == shape.branches = 0
VacuousMetrics(r) ==
  [func |-> FuncPct(r), cond |-> IF Vacuous THEN 100 ELSE CondPct(r)]

Grows(r, before) == FuncPct(r) > FuncPct(before) \/ CondPct(r) > CondPct(before)
Delta(r, before) == IF Grows(r, before) THEN "up" ELSE "flat"

-----------------------------------------------------------------------------
(* The records of loop_state.json *)

Record == [started : BOOLEAN,
           gen_output : {"none", "empty", "ok"},
           execute_verdict : AllVerdicts \cup {"none"},
           coverage_after : [func : -1..100, cond : -1..100],
           delta : {"none", "up", "flat"}]

NoRecord == [started |-> FALSE, gen_output |-> "none", execute_verdict |-> "none",
             coverage_after |-> NoMetrics, delta |-> "none"]

Started == {i \in Rounds : iterations[i].started}
LastStarted == CHOOSE i \in Started : \A j \in Started : j <= i

\* a round counts as complete once both keys are in its record
Complete(i) == /\ iterations[i].execute_verdict # "none"
               /\ iterations[i].coverage_after # NoMetrics

\* a missing coverage_after reads as 0
AtLeast(pct, target) == (IF pct < 0 THEN 0 ELSE pct) >= target

\* (mutants) one target is enough; any round will do
check_threshold_either(i) ==
  \/ AtLeast(iterations[i].coverage_after.func, FuncTarget)
  \/ AtLeast(iterations[i].coverage_after.cond, CondTarget)
check_threshold_ever(i) ==
  \E j \in Started : /\ AtLeast(iterations[j].coverage_after.func, FuncTarget)
                     /\ AtLeast(iterations[j].coverage_after.cond, CondTarget)

check_threshold(i) ==
  /\ iterations[i].started
  /\ AtLeast(iterations[i].coverage_after.func, FuncTarget)
  /\ AtLeast(iterations[i].coverage_after.cond, CondTarget)

\* (mutant) they count
EffectiveAll == Started

\* rounds without generated tests are left out of the no-progress window
Effective == {i \in Started : iterations[i].gen_output # "empty"}

\* effective[-k:], which is the whole list for k = 0
Recent == {i \in Effective : \/ NoProgress = 0
                             \/ Cardinality({j \in Effective : j > i}) < NoProgress}

\* (mutant) one round too early
LastRoundEarly == current_iter + 1 >= max_iter

LastRound == current_iter >= max_iter

check_early_stop ==
  IF LastRound THEN "max_iter_reached"
  ELSE IF current_iter < 2 \/ Effective = {} \/ Cardinality(Recent) < NoProgress THEN ""
  ELSE IF \A i \in Recent : iterations[i].execute_verdict = "FAIL"
       THEN "execute_fail_loop"
  ELSE IF \A i \in Recent : /\ iterations[i].delta # "up"
                            /\ iterations[i].execute_verdict # "FAIL"
       THEN "coverage_ceiling"
  ELSE ""

-----------------------------------------------------------------------------
(* What a resumed run reads back *)

\* (mutant) the last round again
ResumeStartLast == IF Started = {} THEN 1 ELSE LastStarted

\* first round that is not complete, else the round after the last one
ResumeStartIter ==
  IF Started = {} THEN 1
  ELSE LET open == {i \in Started : ~Complete(i)}
       IN  IF open = {} THEN LastStarted + 1
           ELSE CHOOSE i \in open : \A j \in open : i <= j

IterResumeStage(i) ==
  IF i \in execution_json /\ coverage_json[i] # NoReport THEN "done"
  ELSE IF i \notin manifest THEN "gap"
  ELSE IF i \in verify_report THEN "execute"
  ELSE "verify"

\* the coverage.json of the highest-numbered iter_N directory, iter_0 included
LastCoverage(covs) ==
  LET have == {i \in 0..RoundBound : covs[i] # NoReport}
  IN  IF have = {} THEN NoReport
      ELSE covs[CHOOSE i \in have : \A j \in have : j <= i]

EmptyBefore == Started # {} /\ iterations[LastStarted].gen_output = "empty"

-----------------------------------------------------------------------------
(* Budget *)

\* amounts at or above the cap are indistinguishable to _over_budget
Capped(x) == IF x > MaxCost THEN MaxCost ELSE x

Overdrawn == MaxCost > 0 /\ spent >= MaxCost

\* (mutant) only beyond the budget
OverBudgetBeyond == MaxCost > 0 /\ spent > MaxCost

OverBudget == MaxCost > 0 /\ spent >= MaxCost

\* _call: the agent's cost is added and saved when the call returns (CrashInCall: what
\* the agent wrote is there, and its cost is not)
Call(costs) ==
  /\ \E c \in costs : spent' = Capped(spent + c) /\ usage' = Capped(spent + c)
  /\ UNCHANGED <<notUsage, iter_n, span, stage, inputs, consecutive_gen_empty>>

-----------------------------------------------------------------------------
Goto(from, to) == pc = from /\ pc' = to

NoExit == [status |-> "running", reason |-> "", metrics |-> NoMetrics]

\* (mutant) a break without set_exit
LeaveSilently(stat, reason, metrics) ==
  /\ pc' = "wrapup"
  /\ exit' = [status |-> stat, reason |-> reason, metrics |-> metrics]

\* a break out of the loop: set_exit follows as the next step
Leave(stat, reason, metrics) ==
  /\ pc' = "exit"
  /\ exit' = [status |-> stat, reason |-> reason, metrics |-> metrics]

UpdateIteration(rec) == iterations' = [iterations EXCEPT ![iter_n] = rec]

GapSource == IF previous = NoReport THEN baseline ELSE previous

Init ==
  /\ shape \in Shapes
  /\ iterations = [i \in Rounds |-> NoRecord]
  /\ current_iter = 0 /\ max_iter = MaxIter
  /\ status = "running" /\ exit_reason = "" /\ final_metrics = NoMetrics
  /\ usage = 0 /\ scope_missing = FALSE /\ torn = FALSE
  /\ manifest = {} /\ verify_report = {} /\ execution_json = {}
  /\ coverage_json = [i \in 0..RoundBound |-> NoReport]
  /\ pc = "analyze"
  /\ iter_n = 1 /\ start_iter = 1 /\ end_iter = MaxIter
  /\ resumed = FALSE /\ stage = "gap"
  /\ previous = NoReport /\ baseline = NoReport
  /\ consecutive_gen_empty = 0 /\ spent = 0 /\ attempt = 0
  /\ has_files = FALSE /\ verdict = "none" /\ exit = NoExit
  /\ reviewed = {} /\ overdrawn = 0

-----------------------------------------------------------------------------
(* [0] .. [2]: requirement analysis, instrumented build, baseline *)

\* skipped with skip_analyze; a plan that does not come out is no error
Analyze ==
  /\ Goto("analyze", "build")
  /\ Call(Costs \cup {0})
  /\ UNCHANGED <<artifacts, history, scratch, exit>>

BuildOk ==
  /\ Goto("build", "baseline")
  /\ UNCHANGED <<stateFile, artifacts, locals, history>>

BuildFails ==
  /\ Goto("build", "finalize")
  /\ status' = "early_stop" /\ exit_reason' = "build_failed"
  /\ UNCHANGED <<iterations, current_iter, max_iter, final_metrics, usage, scope_missing,
                 torn, artifacts, locals, history>>

\* existing tests are run into iter_0; otherwise the baseline is taken over
\* from an earlier batch or is the list of everything unhit
Baseline ==
  /\ Goto("baseline", "head")
  /\ \E r \in Report :
       /\ baseline' = r
       /\ \/ coverage_json' = [coverage_json EXCEPT ![0] = r]
          \/ UNCHANGED coverage_json
  /\ previous' = IF resumed THEN LastCoverage(coverage_json') ELSE NoReport
  /\ consecutive_gen_empty' = IF resumed /\ EmptyBefore THEN 1 ELSE 0
  /\ UNCHANGED <<stateFile, manifest, verify_report, execution_json, history, iter_n, span,
                 stage, spent, scratch, exit>>

-----------------------------------------------------------------------------
(* The head of the loop *)

\* a round whose tests ran before the crash is passed over as done
StartIteration ==
  /\ pc = "head" /\ iter_n <= end_iter
  /\ current_iter' = iter_n
  /\ UpdateIteration([iterations[iter_n] EXCEPT !.started = TRUE])
  /\ LET from == IF resumed /\ iter_n = start_iter THEN IterResumeStage(iter_n) ELSE "gap"
     IN  IF from = "done"
         THEN /\ iter_n' = iter_n + 1
              /\ UNCHANGED <<pc, stage, overdrawn>>
         ELSE /\ pc' = "check" /\ stage' = from
              /\ overdrawn' = IF Overdrawn THEN overdrawn + 1 ELSE overdrawn
              /\ UNCHANGED iter_n
  /\ UNCHANGED <<max_iter, exitState, usage, scope_missing, torn, artifacts, shape,
                 reviewed, span, inputs, consecutive_gen_empty, spent, scratch, exit>>

\* the else branch of the for loop; the figures of a scoped run are those of the whole
\* program here
FinalFigures ==
  IF previous = NoReport THEN {[func |-> 0, cond |-> 0]}
  ELSE IF shape.scoped THEN [func : WholePcts, cond : WholePcts]
  ELSE {Metrics(previous)}

RoundsExhausted ==
  /\ pc = "head" /\ iter_n > end_iter
  /\ \E figures \in FinalFigures : Leave("early_stop", "max_iter_reached", figures)
  /\ UNCHANGED <<stateFile, artifacts, history, notExit>>

NothingUncovered == GapSource.func = shape.funcs
BranchesOk == Vacuous \/ CondPct(GapSource) >= CondTarget

\* every function is hit and the branches are good enough: the run is done
AlreadyCovered ==
  /\ pc = "check" /\ NothingUncovered /\ BranchesOk
  /\ \E d \in IF shape.scoped /\ previous = NoReport THEN {"up", "flat"} ELSE {"flat"} :
       UpdateIteration([iterations[iter_n] EXCEPT
                          !.coverage_after = VacuousMetrics(GapSource), !.delta = d])
  /\ Leave("done", "threshold_met", VacuousMetrics(GapSource))
  /\ UNCHANGED <<notRecords, artifacts, history, notExit>>

\* branches are missing and no function can be named that holds them
NothingToAim ==
  /\ pc = "check" /\ NothingUncovered /\ ~BranchesOk /\ ~shape.scoped
  /\ UpdateIteration([iterations[iter_n] EXCEPT !.coverage_after = Metrics(GapSource)])
  /\ Leave("early_stop", "coverage_ceiling", Metrics(GapSource))
  /\ UNCHANGED <<notRecords, artifacts, history, notExit>>

WorkToDo ==
  /\ pc = "check" /\ ~(NothingUncovered /\ BranchesOk)
  /\ pc' = IF stage = "gap" THEN "gap" ELSE "gened"
  /\ UNCHANGED <<stateFile, artifacts, locals, history>>

-----------------------------------------------------------------------------
(* [a] gap analysis and [b] generation *)

\* skipped with skip_gap_agent and when the same gap was analysed before
Gap ==
  /\ Goto("gap", "gen")
  /\ Call(Costs \cup {0})
  /\ UNCHANGED <<artifacts, history, scratch, exit>>

\* a file holds afterwards what the agent wrote, or what was there before
ThisRoundIn(file, yes) == IF yes THEN file \cup {iter_n} ELSE file \ {iter_n}

\* whatever the call returns, the manifest on disk tells what was generated
Gen ==
  /\ Goto("gen", "gened")
  /\ Call(Costs)
  /\ \E files \in BOOLEAN : manifest' = ThisRoundIn(manifest, files)
  /\ reviewed' = reviewed \ {iter_n}
  /\ UNCHANGED <<verify_report, execution_json, coverage_json, shape, overdrawn,
                 scratch, exit>>

TestsGenerated ==
  /\ pc = "gened" /\ iter_n \in manifest
  /\ pc' = IF stage = "execute" THEN "execute" ELSE "verify"
  /\ consecutive_gen_empty' = 0 /\ attempt' = 0 /\ has_files' = TRUE
  /\ UNCHANGED <<stateFile, artifacts, history, iter_n, span, stage, inputs, spent,
                 verdict, exit>>

\* one round without tests is let through, without the checks at a round's end
GenEmpty ==
  /\ pc = "gened" /\ iter_n \notin manifest /\ consecutive_gen_empty + 1 < 2
  /\ consecutive_gen_empty' = consecutive_gen_empty + 1
  /\ UpdateIteration([iterations[iter_n] EXCEPT !.gen_output = "empty"])
  /\ iter_n' = iter_n + 1 /\ pc' = "head"
  /\ UNCHANGED <<notRecords, artifacts, history, span, stage, inputs, spent, scratch, exit>>

GenGivesUp ==
  /\ pc = "gened" /\ iter_n \notin manifest /\ consecutive_gen_empty + 1 >= 2
  /\ consecutive_gen_empty' = consecutive_gen_empty + 1
  /\ Leave("early_stop", "gen_no_output", NoMetrics)
  /\ UNCHANGED <<stateFile, artifacts, history, iter_n, span, stage, inputs, spent, scratch>>

-----------------------------------------------------------------------------
(* [c] review of the generated tests, with a bounded repair loop *)

\* (mutant) one repair more
RepairsUsedLate == attempt > MaxVerifyRetry

RepairsUsed == attempt >= MaxVerifyRetry

\* (mutant) the tests go ahead once the repairs are used up
AfterReviewLenient(pass) ==
  IF pass \/ RepairsUsed
  THEN pc' = "execute" /\ attempt' = 0 /\ has_files' = FALSE /\ UNCHANGED exit
  ELSE pc' = "gen_fix" /\ UNCHANGED <<exit, attempt, has_files>>

\* (locals that are not read again are put back to their first value)
AfterReview(pass) ==
  IF pass
  THEN pc' = "execute" /\ attempt' = 0 /\ has_files' = FALSE /\ UNCHANGED exit
  ELSE IF RepairsUsed
       THEN /\ Leave("early_stop", "verify_fail_exceeded", NoMetrics)
            /\ attempt' = 0 /\ has_files' = FALSE
       ELSE pc' = "gen_fix" /\ UNCHANGED <<exit, attempt, has_files>>

\* the docstring gate refuses the tests without asking the verify agent
DocGateFails ==
  /\ pc = "verify" /\ has_files
  /\ verify_report' = verify_report \ {iter_n}
  /\ AfterReview(FALSE)
  /\ UNCHANGED <<stateFile, manifest, execution_json, coverage_json, history, iter_n, span,
                 stage, inputs, consecutive_gen_empty, spent, verdict>>

\* a call that writes nothing leaves the report that was there to be read
VerifyAgent ==
  /\ pc = "verify"
  /\ Call(Costs)
  /\ \/ \E pass \in BOOLEAN :
          /\ verify_report' = ThisRoundIn(verify_report, pass)
          /\ reviewed' = IF pass THEN reviewed \cup {iter_n} ELSE reviewed
     \/ UNCHANGED <<verify_report, reviewed>>
  /\ AfterReview(iter_n \in verify_report')
  /\ UNCHANGED <<manifest, execution_json, coverage_json, shape, overdrawn, verdict>>

\* an unreadable manifest after the repair leaves the one in memory in use
GenFix ==
  /\ Goto("gen_fix", "verify")
  /\ Call(Costs)
  /\ \E files \in BOOLEAN :
       /\ manifest' = ThisRoundIn(manifest, files)
       /\ has_files' \in IF files THEN {TRUE} ELSE {FALSE, has_files}
  /\ reviewed' = reviewed \ {iter_n}
  /\ attempt' = attempt + 1
  /\ UNCHANGED <<verify_report, execution_json, coverage_json, shape, overdrawn,
                 verdict, exit>>

-----------------------------------------------------------------------------
(* [d] execution, [e] failure analysis, [f] the round's result *)

\* run_tests writes coverage.json first ...
Execute ==
  /\ Goto("execute", "persist")
  /\ \E r \in Report : coverage_json' = [coverage_json EXCEPT ![iter_n] = r]
  /\ verdict' \in Verdicts
  /\ UNCHANGED <<stateFile, manifest, verify_report, execution_json, history, iter_n, span,
                 stage, inputs, consecutive_gen_empty, spent, attempt, has_files, exit>>

\* ... and execution.json last
PersistExecution ==
  /\ Goto("persist", "record")
  /\ execution_json' = execution_json \cup {iter_n}
  /\ UNCHANGED <<stateFile, manifest, verify_report, coverage_json, locals, history>>

RecordVerdict ==
  /\ pc = "record"
  /\ UpdateIteration([iterations[iter_n] EXCEPT !.execute_verdict = verdict,
                                                !.gen_output = "ok"])
  /\ pc' = IF verdict = "PASS" THEN "cover" ELSE "quality"
  /\ verdict' = "none"
  /\ UNCHANGED <<notRecords, artifacts, history, iter_n, span, stage, inputs,
                 consecutive_gen_empty, spent, attempt, has_files, exit>>

Quality ==
  /\ Goto("quality", "cover")
  /\ Call(Costs)
  /\ UNCHANGED <<artifacts, history, scratch, exit>>

RecordCoverage ==
  /\ Goto("cover", "judge")
  /\ UpdateIteration([iterations[iter_n] EXCEPT
                        !.coverage_after = Metrics(coverage_json[iter_n]),
                        !.delta = Delta(coverage_json[iter_n], GapSource)])
  /\ previous' = coverage_json[iter_n]
  /\ UNCHANGED <<notRecords, artifacts, history, iter_n, span, stage, baseline,
                 consecutive_gen_empty, spent, scratch, exit>>

\* (mutant) the branch target holds for a scope without branches too
VacuousMetNumeric == /\ shape.scoped /\ Vacuous /\ FuncPct(previous) >= FuncTarget
                     /\ CondPct(previous) >= CondTarget

VacuousMet == shape.scoped /\ Vacuous /\ FuncPct(previous) >= FuncTarget

JudgeMet ==
  /\ pc = "judge" /\ check_threshold(iter_n)
  /\ Leave("done", "threshold_met", Metrics(previous))
  /\ UNCHANGED <<stateFile, artifacts, history, notExit>>

JudgeVacuous ==
  /\ pc = "judge" /\ ~check_threshold(iter_n) /\ VacuousMet
  /\ UpdateIteration([iterations[iter_n] EXCEPT !.coverage_after = VacuousMetrics(previous)])
  /\ Leave("done", "threshold_met", VacuousMetrics(previous))
  /\ UNCHANGED <<notRecords, artifacts, history, notExit>>

\* the order of the checks: target, early stop, budget
JudgeStop ==
  /\ pc = "judge" /\ ~check_threshold(iter_n) /\ ~VacuousMet
  /\ \/ /\ check_early_stop # ""
        /\ Leave("early_stop", check_early_stop, Metrics(previous))
     \/ /\ check_early_stop = "" /\ OverBudget
        /\ Leave("early_stop", "budget_exhausted", Metrics(previous))
  /\ UNCHANGED <<stateFile, artifacts, history, notExit>>

JudgeContinue ==
  /\ Goto("judge", "head")
  /\ ~check_threshold(iter_n) /\ ~VacuousMet /\ check_early_stop = "" /\ ~OverBudget
  /\ iter_n' = iter_n + 1
  /\ UNCHANGED <<stateFile, artifacts, history, span, stage, inputs, consecutive_gen_empty,
                 spent, scratch, exit>>

-----------------------------------------------------------------------------
(* The end of a run *)

SetExit ==
  /\ Goto("exit", "wrapup")
  /\ status' = exit.status /\ exit_reason' = exit.reason
  /\ final_metrics' = IF exit.metrics = NoMetrics THEN final_metrics ELSE exit.metrics
  /\ UNCHANGED <<iterations, current_iter, max_iter, usage, scope_missing, torn, artifacts,
                 locals, history>>

\* targets that are not in the data are listed, if any round was measured
ReportMissing ==
  /\ Goto("wrapup", "finalize")
  /\ scope_missing' = (scope_missing \/ (shape.scoped /\ previous # NoReport /\ shape.missing))
  /\ UNCHANGED <<iterations, current_iter, max_iter, exitState, usage, torn, artifacts,
                 locals, history>>

\* the reports are written; set_exit is repeated with what the file says
Finalize ==
  /\ Goto("finalize", "exited")
  /\ UNCHANGED <<stateFile, artifacts, locals, history>>

-----------------------------------------------------------------------------
(* Crash and resumption *)

Halted == {"exited", "crashed", "dead"}

ForgetLocals ==
  /\ stage' = "gap" /\ previous' = NoReport /\ baseline' = NoReport
  /\ consecutive_gen_empty' = 0 /\ attempt' = 0 /\ has_files' = FALSE
  /\ verdict' = "none" /\ exit' = NoExit /\ overdrawn' = 0

\* save_loop_state rewrites the file in place: dying in it leaves it cut short
SavesState == {"analyze", "build", "head", "check", "gap", "gen", "gened", "verify", "gen_fix",
               "record", "quality", "cover", "judge", "exit", "wrapup", "finalize"}

LoseLocals ==
  /\ pc' = "crashed"
  /\ ForgetLocals
  /\ iter_n' = 1 /\ start_iter' = 1 /\ end_iter' = MaxIter
  /\ resumed' = FALSE /\ spent' = 0

\* all that was recorded is lost with the file (nothing reads its fields any more: they
\* are put back to their first values)
CutState ==
  /\ torn' = TRUE
  /\ iterations' = [i \in Rounds |-> NoRecord]
  /\ current_iter' = 0 /\ max_iter' = MaxIter
  /\ status' = "running" /\ exit_reason' = "" /\ final_metrics' = NoMetrics
  /\ usage' = 0 /\ scope_missing' = FALSE

Crash ==
  /\ AllowCrash /\ pc \notin Halted
  /\ LoseLocals
  /\ UNCHANGED stateFile \/ (pc \in SavesState /\ CutState)
  /\ UNCHANGED <<artifacts, shape, reviewed>>

\* the agent has written its file; its cost is not saved, or is being saved
CrashInCall ==
  /\ AllowCrash
  /\ \/ /\ pc \in {"gen", "gen_fix"} /\ reviewed' = reviewed \ {iter_n}
        /\ \E files \in BOOLEAN : manifest' = ThisRoundIn(manifest, files)
        /\ UNCHANGED verify_report
     \/ /\ pc = "verify" /\ UNCHANGED manifest
        /\ \E pass \in BOOLEAN :
             /\ verify_report' = ThisRoundIn(verify_report, pass)
             /\ reviewed' = IF pass THEN reviewed \cup {iter_n} ELSE reviewed
  /\ LoseLocals
  /\ UNCHANGED stateFile \/ CutState
  /\ UNCHANGED <<execution_json, coverage_json, shape>>

\* the old limit stays unless the granted rounds go beyond it
ResumeEnd(more) == IF max_iter > ResumeStartIter + more - 1
                   THEN max_iter ELSE ResumeStartIter + more - 1

\* run_loop with resume_run_id, up to and including mark_resumed
Resume ==
  /\ AllowResume /\ pc \in {"exited", "crashed"} /\ ~torn
  /\ pc' = "build"
  /\ start_iter' = ResumeStartIter /\ iter_n' = ResumeStartIter
  /\ \E more \in MoreIters :
       /\ ResumeEnd(more) <= RoundBound
       /\ end_iter' = ResumeEnd(more) /\ max_iter' = ResumeEnd(more)
  /\ status' = "running" /\ exit_reason' = ""
  /\ resumed' = TRUE /\ spent' = usage
  /\ ForgetLocals
  /\ UNCHANGED <<iterations, current_iter, final_metrics, usage, scope_missing, torn,
                 artifacts, shape, reviewed>>

\* the file does not parse, and only its absence is handled
ResumeFails ==
  /\ AllowResume /\ pc = "crashed" /\ torn
  /\ pc' = "dead"
  /\ UNCHANGED <<stateFile, artifacts, locals, history>>

\* a run that nobody resumes stays as it is
Rest == pc \in Halted /\ UNCHANGED vars

-----------------------------------------------------------------------------
Prepare == Analyze \/ BuildOk \/ BuildFails \/ Baseline

Open == \/ StartIteration \/ RoundsExhausted
        \/ AlreadyCovered \/ NothingToAim \/ WorkToDo

Generate == Gap \/ Gen \/ TestsGenerated \/ GenEmpty \/ GenGivesUp

Review == DocGateFails \/ VerifyAgent \/ GenFix

Measure == Execute \/ PersistExecution \/ RecordVerdict \/ Quality \/ RecordCoverage

Judge == JudgeMet \/ JudgeVacuous \/ JudgeStop \/ JudgeContinue

Close == SetExit \/ ReportMissing \/ Finalize

Step == Prepare \/ Open \/ Generate \/ Review \/ Measure \/ Judge \/ Close

Next == Step \/ Crash \/ CrashInCall \/ Resume \/ ResumeFails \/ Rest

\* one process; every call it makes returns (agents and pytest have timeouts)
Spec == Init /\ [][Next]_vars /\ WF_vars(Step)

-----------------------------------------------------------------------------
(* Properties *)

Statuses == {"running", "done", "early_stop"}
Reasons == {"", "build_failed", "threshold_met", "coverage_ceiling", "gen_no_output",
            "verify_fail_exceeded", "max_iter_reached", "execute_fail_loop",
            "budget_exhausted"}
MetricsType == [func : -1..100, cond : -1..100]
Steps == SavesState \cup {"baseline", "execute", "persist"} \cup Halted

StateFileOK ==
  /\ iterations \in [Rounds -> Record]
  /\ current_iter \in 0..RoundBound /\ max_iter \in 1..RoundBound
  /\ status \in Statuses /\ exit_reason \in Reasons /\ final_metrics \in MetricsType
  /\ usage \in 0..MaxCost /\ scope_missing \in BOOLEAN /\ torn \in BOOLEAN

ArtifactsOK ==
  /\ manifest \subseteq Rounds /\ verify_report \subseteq Rounds
  /\ execution_json \subseteq Rounds
  /\ coverage_json \in [0..RoundBound -> Report \cup {NoReport}]

LocalsOK ==
  /\ iter_n \in 1..(RoundBound + 1) /\ start_iter \in 1..(RoundBound + 1)
  /\ end_iter \in 1..RoundBound
  /\ resumed \in BOOLEAN /\ stage \in {"gap", "verify", "execute"}
  /\ previous \in Report \cup {NoReport} /\ baseline \in Report \cup {NoReport}
  /\ consecutive_gen_empty \in 0..2 /\ spent \in 0..MaxCost
  /\ attempt \in 0..MaxVerifyRetry
  /\ has_files \in BOOLEAN /\ verdict \in AllVerdicts \cup {"none"}
  /\ exit \in [status : Statuses, reason : Reasons, metrics : MetricsType]

TypeOK ==
  /\ pc \in Steps /\ shape \in Shapes
  /\ StateFileOK /\ ArtifactsOK /\ LocalsOK
  /\ reviewed \subseteq Rounds /\ overdrawn \in Nat

Met(r) == /\ FuncPct(r) >= FuncTarget
          /\ CondPct(r) >= CondTarget \/ (shape.scoped /\ Vacuous)

Forgotten == pc \in {"crashed", "dead"}

\* A run is closed as done only on a report that reaches both targets, and its
\* final metrics are that report's: whichever of the three exits with
\* threshold_met run_loop takes.  (A view without functions is left to
\* MissingTargetsReported.)
DoneMeansMet ==
  status = "done" /\ ~Forgotten =>
    LET r == GapSource
    IN  /\ exit_reason = "threshold_met"
        /\ final_metrics \in {Metrics(r), VacuousMetrics(r)}
        /\ FuncPct(r) >= FuncTarget \/ shape.funcs = 0
        /\ CondPct(r) >= CondTarget \/ Vacuous

\* threshold_met takes precedence: a run that stops for any other reason has no
\* measured round at its targets.
NoMissedThreshold ==
  status = "early_stop" /\ previous # NoReport => ~Met(previous)

\* coverage_ceiling is only reported after NoProgress rounds that were each
\* measured and each brought nothing over the round measured before it (or when
\* every function is hit and no function is left to aim at).
Measured == {i \in Rounds : coverage_json[i] # NoReport}
BeforeRound(i) ==
  LET earlier == {j \in Measured : j < i}
  IN  IF earlier = {} THEN baseline
      ELSE coverage_json[CHOOSE j \in earlier : \A k \in earlier : k <= j]
CeilingIsReal ==
  exit_reason = "coverage_ceiling" /\ ~Forgotten =>
    \/ GapSource.func = shape.funcs
    \/ \E W \in SUBSET Measured :
         /\ Cardinality(W) >= NoProgress
         /\ \A i \in W : ~Grows(coverage_json[i], BeforeRound(i))
         /\ \A i \in Measured : i \in W \/ \A j \in W : i < j

\* Only tests whose latest version passed the review are executed.
ReviewedBeforeExecution ==
  pc \in {"execute", "persist", "record"} => iter_n \in reviewed

\* The budget is looked at only at the end of a round that generated tests: not
\* before the first round, which requirement analysis or the run resumed may find
\* overdrawn, and not after an empty one.  So a process opens at most two rounds
\* beyond the budget.
BudgetOverrunBounded == overdrawn <= 2

\* A run that reports max_iter_reached really used every round up to its limit:
\* each was carried to its result, or generated nothing, or had been executed
\* before a crash.
AllRoundsUsed ==
  exit_reason = "max_iter_reached" =>
    \A i \in 1..max_iter :
      /\ iterations[i].started
      /\ Complete(i) \/ iterations[i].gen_output = "empty" \/ i \in execution_json

\* Across any number of crashes and resumptions no execution, no cost once recorded, no
\* granted round and no round's completion is lost, and a round that is complete with
\* all the rounds before it is neither run nor recorded again once it is left -- unless
\* the process dies while it rewrites loop_state.json: of what was recorded there nothing
\* is left then, and only the artifacts are.  (The cost of a call the process did not
\* survive is in no record.  A complete round after one that is not, an empty one for
\* instance, is executed again by a resumption.)
Kept == {i \in Rounds : /\ \A j \in 1..i : j \in Started /\ Complete(j)
                        /\ i < iter_n \/ pc \in Halted}

LosesNothing ==
  /\ execution_json \subseteq execution_json'
  /\ \A i \in Kept : coverage_json'[i] = coverage_json[i]
  /\ \/ torn'
     \/ /\ usage' >= usage /\ max_iter' >= max_iter
        /\ \A i \in Rounds : Complete(i) => Complete(i)'
        /\ Kept \subseteq Kept'
        /\ \A i \in Kept : iterations'[i] = iterations[i]
ResumeLosesNothing == [][LosesNothing]_vars

\* An uninterrupted run is eventually closed with a status other than running.
RunCloses == (status = "running") ~> (status # "running")

\* Comment in run_loop: targets absent from the coverage data are always
\* reported, never silently ignored.
MissingTargetsReported ==
  pc = "exited" /\ exit_reason = "threshold_met" /\ shape.scoped /\ shape.missing
    => scope_missing

=============================================================================
