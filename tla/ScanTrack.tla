----------------------------- MODULE ScanTrack -----------------------------
(***************************************************************************)
(* The scan track of src/aicoverage/scanverify.py and ocrscan.py: issues   *)
(* are found in a diff, reproduced by generated test cases, which are      *)
(* reviewed and run once, and judged in four states.  Composed with        *)
(* Executor.                                                               *)
(*                                                                         *)
(* Agents and the review tool are inputs: what they find and what they     *)
(* write.  The case of an issue is the test file of its name.              *)
(***************************************************************************)
EXTENDS Executor

CONSTANT Issues   \* issue ids

ASSUME IssuesHaveCases == Issues \subseteq Tests

VARIABLES
  sstep,      \* "start", "scan", "gen", "verify", "execute", "executing",
              \* "judge", "end", "raised"
  backend,    \* [scan] backend, "off" once the review tool is given up
  issues,
  manifest,   \* the files declared, and what is to become of each issue
  review,     \* the report there is, and whether the cases have their doc header
  execution,  \* the verdict of the execution, "none" without one
  verdicts

scanVars == <<sstep, backend, issues, manifest, review, execution, verdicts>>

Dispositions == {"e2e", "unobservable", "none"}
NoManifest == [files |-> {}, disposition |-> [i \in {} |-> "none"]]

InitScan ==
  /\ sstep = "start" /\ backend = "off" /\ issues = {}
  /\ manifest = NoManifest /\ review = [report |-> "none", documented |-> FALSE] /\ execution = "none"
  /\ verdicts = [i \in {} |-> "none"]

StartScan ==
  /\ sstep = "start" /\ sstep' = "scan" /\ backend' \in {"ocr", "auto", "off"}
  /\ UNCHANGED <<issues, manifest, review, execution, verdicts, execVars>>

\* [S1] none found: done
Found(found) == issues' = found /\ sstep' = IF found = {} THEN "end" ELSE "gen"

\* output that cannot be parsed counts as nothing found
OcrReviews ==
  /\ sstep = "scan" /\ backend \in {"ocr", "auto"}
  /\ \E found \in SUBSET Issues : Found(found)
  /\ UNCHANGED <<backend, manifest, review, execution, verdicts, execVars>>

\* not installed, not configured, or failed without output
OcrUnavailable ==
  /\ sstep = "scan" /\ backend \in {"ocr", "auto"}
  /\ \/ backend = "ocr" /\ sstep' = "raised" /\ UNCHANGED backend
     \/ backend = "auto" /\ backend' = "off" /\ UNCHANGED sstep
  /\ UNCHANGED <<issues, manifest, review, execution, verdicts, execVars>>

\* subprocess.TimeoutExpired is no RuntimeError: it is not caught, "auto" or not
OcrTimesOut ==
  /\ sstep = "scan" /\ backend \in {"ocr", "auto"} /\ sstep' = "raised"
  /\ UNCHANGED <<backend, issues, manifest, review, execution, verdicts, execVars>>

ScanAgent ==
  /\ sstep = "scan" /\ backend = "off"
  /\ \E found \in SUBSET Issues : Found(found)
  /\ UNCHANGED <<backend, manifest, review, execution, verdicts, execVars>>

\* [S2] the agent may declare a file it did not write, or judge without one
GenScan ==
  /\ sstep = "gen"
  /\ manifest' \in [files : SUBSET Tests, disposition : [issues -> Dispositions]]
  /\ \E written \in SUBSET manifest'.files : dir' = dir \cup written
  /\ sstep' = IF manifest'.files # {} THEN "verify" ELSE "judge"
  /\ UNCHANGED <<backend, issues, review, execution, verdicts, xstep, runs, request, counters,
                 orphans, junit, coverage, rc, verdict, results, excused>>

\* (mutant) no report is no objection
ApprovesSilence(r) == r.report # "fail" /\ r.documented

\* a missing report fails, and so do cases without their doc header
Approves(r) == r.report = "pass" /\ r.documented

\* [S3] whatever the agent left, this time or in an attempt that failed
VerifyScan ==
  /\ sstep = "verify"
  /\ review' \in [report : {"none", "pass", "fail"}, documented : BOOLEAN]
  /\ sstep' = IF Approves(review') THEN "execute" ELSE "judge"
  /\ UNCHANGED <<backend, issues, manifest, execution, verdicts, execVars>>

\* [S4] the files that exist; if none does, the whole directory
ExecuteScan ==
  /\ sstep = "execute" /\ sstep' = "executing"
  /\ \E container \in BOOLEAN :
       run_tests([files |-> manifest.files \cap dir, collect |-> FALSE,
                  container |-> container], TRUE)
  /\ UNCHANGED <<backend, issues, manifest, review, execution, verdicts>>

Executed ==
  /\ sstep = "executing" /\ xstep = "idle"
  /\ execution' = verdict /\ sstep' = "judge"
  /\ UNCHANGED <<backend, issues, manifest, review, verdicts, execVars>>

Running == sstep = "executing" /\ Execution /\ UNCHANGED scanVars

\* what the execution says of the cases that were run
Outcome ==
  CASE execution = "FAIL" -> "confirmed"
    [] execution = "PASS" -> "false_positive"
    [] OTHER              -> "inconclusive"

VerdictOf(i) ==
  CASE manifest.disposition[i] = "unobservable" -> "unobservable"
    [] manifest.disposition[i] = "none"         -> "inconclusive"
    [] OTHER -> IF Approves(review) THEN Outcome ELSE "inconclusive"

\* [S5] compute_verdicts
JudgeIssues ==
  /\ sstep = "judge" /\ sstep' = "end"
  /\ verdicts' = [i \in issues |-> VerdictOf(i)]
  /\ UNCHANGED <<backend, issues, manifest, review, execution, execVars>>

RestScan == sstep \in {"end", "raised"} /\ UNCHANGED <<scanVars, execVars>>

NextScan == \/ StartScan \/ OcrReviews \/ OcrUnavailable \/ OcrTimesOut \/ ScanAgent
            \/ GenScan \/ VerifyScan \/ ExecuteScan \/ Running \/ Executed \/ JudgeIssues
            \/ RestScan

SpecScan == InitExecutor /\ InitScan /\ [][NextScan]_<<scanVars, execVars>>

-----------------------------------------------------------------------------
(* Correctness *)

Judged(v) == {i \in DOMAIN verdicts : verdicts[i] = v}

\* What is said of an issue follows from an execution that took place: confirmed
\* only if some file of it failed or could not be imported, refuted only if none did
\* and there was one at all, and neither without a review that approved the cases; and
\* no issue is left without a verdict.  A session that crashed or was cut off decides
\* nothing.  (scanverify.py: compute_verdicts after run_tests.)
VerdictsFollowExecution ==
  sstep = "end" =>
    /\ DOMAIN verdicts = issues
    /\ Judged("confirmed") # {} =>
         /\ review.report = "pass" /\ review.documented
         /\ \E f \in DOMAIN results : results[f] \in {"fail", "broken"}
    /\ Judged("false_positive") # {} =>
         /\ review.report = "pass" /\ review.documented /\ DOMAIN results # {}
         /\ \A f \in DOMAIN results : results[f] \in {"pass", "skip"}

\* What docs/PLAN_mr_incremental_closure.md says of the verdicts: confirmed is an
\* issue whose reproduction failed for a defect of the program, false_positive one
\* whose reproduction passed; scanverify.py calls a case that did not exercise the
\* point inconclusive.
JudgedByItsCase ==
  sstep = "end" =>
    /\ \A i \in Judged("confirmed") : i \in DOMAIN results /\ results[i] = "fail"
    /\ \A i \in Judged("false_positive") :
         i \in DOMAIN results /\ results[i] = "pass"

=============================================================================
