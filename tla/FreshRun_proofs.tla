--------------------------- MODULE FreshRun_proofs ---------------------------
(***************************************************************************)
(* What the coverage loop guarantees in a run that is no resumption, for   *)
(* every value of its constants: that only reviewed tests are executed,    *)
(* that no target reached is missed, that a reported ceiling is one, and   *)
(* that the run is a behaviour of LoopPromise.  A resumption may pass over *)
(* a round that was measured but not judged before the crash, and execute  *)
(* tests rewritten after their review: these are not true of every run.    *)
(***************************************************************************)
EXTENDS CoverageLoop_proofs, LoopRefinement, FiniteSetTheorems

-----------------------------------------------------------------------------
(* A run that was not resumed.  What a resumption may break (a round judged *)
(* before the crash, a review whose tests were replaced after it) holds in  *)
(* every run that is no resumption, wherever it is.                         *)

Fresh == ~resumed /\ pc \notin Lost

PastReview == {"execute", "persist", "record", "quality", "cover", "judge", "exit"} \cup Closing

ReviewInv == Fresh =>
  /\ stage = "gap"
  /\ \A j \in verify_report : j < iter_n \/ (j = iter_n /\ pc \in PastReview)
  /\ pc \in {"execute", "persist", "record"} => iter_n \in reviewed

\* Nothing is executed when a run begins.
LEMMA ReviewInit == Init => ReviewInv
BY DEF Init, ReviewInv

\* Only a crash and a resumption change what kind of process it is.
LEMMA StepStays == Step => UNCHANGED resumed /\ pc' \notin Lost
<1>1. Step => UNCHANGED resumed
  <2>1. Prepare => UNCHANGED resumed
    BY DEF Prepare, Analyze, BuildOk, BuildFails, Baseline, Call, span, locals
  <2>2. Open => UNCHANGED resumed
    BY DEF Open, StartIteration, RoundsExhausted, AlreadyCovered, NothingToAim, WorkToDo, span,
           locals, notExit
  <2>3. Generate => UNCHANGED resumed
    BY DEF Generate, Gap, Gen, TestsGenerated, GenEmpty, GenGivesUp, Call, span
  <2>4. Review => UNCHANGED resumed
    BY DEF Review, DocGateFails, VerifyAgent, GenFix, Call, span
  <2>5. Measure => UNCHANGED resumed
    BY DEF Measure, Execute, PersistExecution, RecordVerdict, Quality, RecordCoverage, Call, span,
           locals
  <2>6. Judge \/ Close => UNCHANGED resumed
    BY DEF Judge, Close, JudgeMet, JudgeVacuous, JudgeStop, JudgeContinue, SetExit,
           ReportMissing, Finalize, span, locals, notExit
  <2> QED BY <2>1, <2>2, <2>3, <2>4, <2>5, <2>6 DEF Step
<1>2. ASSUME Step PROVE pc' \notin Lost
  <2>1. CASE Review
    BY <2>1 DEF Lost, Review, DocGateFails, VerifyAgent, GenFix, AfterReview, Leave, Goto
  <2>2. CASE Prepare \/ Open \/ Generate
    BY <2>2 DEF Lost, Prepare, Analyze, BuildOk, BuildFails, Baseline, Open, StartIteration,
       RoundsExhausted, AlreadyCovered, NothingToAim, WorkToDo, Generate, Gap, Gen,
       TestsGenerated, GenEmpty, GenGivesUp, Leave, Goto
  <2>3. CASE Measure \/ Judge \/ Close
    BY <2>3 DEF Lost, Measure, Execute, PersistExecution, RecordVerdict, Quality,
       RecordCoverage, Judge, JudgeMet, JudgeVacuous, JudgeStop, JudgeContinue, Close, SetExit,
       ReportMissing, Finalize, Leave, Goto
  <2> QED BY <1>2, <2>1, <2>2, <2>3 DEF Step
<1> QED BY <1>1, <1>2

\* Only a crash and Resume make a run fresh or no longer so.
LEMMA FreshBefore ==
  ASSUME [Next]_vars, Fresh'
  PROVE  Fresh /\ (Step \/ UNCHANGED vars)
<1>1. ~Crash /\ ~CrashInCall /\ ~Resume /\ ~ResumeFails
  BY DEF Fresh, Crash, CrashInCall, LoseLocals, Resume, ResumeFails, Lost
<1>2. Step => pc \notin Lost
  BY DEF Lost, Step, Prepare, Analyze, BuildOk, BuildFails, Baseline, Open, StartIteration,
         RoundsExhausted, AlreadyCovered, NothingToAim, WorkToDo, Generate, Gap, Gen,
         TestsGenerated, GenEmpty, GenGivesUp, Review, DocGateFails, VerifyAgent, GenFix,
         Measure, Execute, PersistExecution, RecordVerdict, Quality, RecordCoverage, Judge,
         JudgeMet, JudgeVacuous, JudgeStop, JudgeContinue, Close, SetExit, ReportMissing,
         Finalize, Goto
<1>3. UNCHANGED vars => UNCHANGED <<resumed, pc>>
  BY DEF vars, locals, span
<1> QED BY <1>1, <1>2, <1>3, StepStays DEF Next, Rest, Fresh

\* In a run that is no resumption execution follows the review of what was generated.
LEMMA ReviewStep ==
  ASSUME TypeInv, ReviewInv, Fresh, Step
  PROVE  /\ stage' = "gap"
         /\ \A j \in verify_report' : j < iter_n' \/ (j = iter_n' /\ pc' \in PastReview)
         /\ pc' \in {"execute", "persist", "record"} => iter_n' \in reviewed'
<1> USE DEF ReviewInv
<1>0. iter_n \in Nat /\ verify_report \subseteq Rounds /\ \A j \in Rounds : j \in Nat
  BY RoundFacts DEF TypeInv, TypeOK, ArtifactsOK, LocalsOK
<1>1. CASE Prepare
  <2>1. /\ UNCHANGED <<verify_report, iter_n, stage>>
        /\ pc \in {"analyze", "build", "baseline"}
        /\ pc' \in {"build", "baseline", "head", "finalize"}
    BY <1>1 DEF Prepare, Analyze, BuildOk, BuildFails, Baseline, Goto, Call, artifacts, locals
  <2> QED BY <2>1 DEF PastReview, Closing
<1>2. CASE Open
  <2>1. CASE StartIteration
    <3>1. ~resumed /\ pc = "head"
      BY <2>1 DEF StartIteration, Fresh
    <3>2. iter_n' = iter_n /\ pc' = "check" /\ stage' = "gap"
      BY <2>1, <3>1 DEF StartIteration
    <3>3. UNCHANGED verify_report
      BY <2>1 DEF StartIteration, artifacts
    <3> QED BY <3>1, <3>2, <3>3 DEF PastReview, Closing
  <2>2. CASE RoundsExhausted \/ AlreadyCovered \/ NothingToAim \/ WorkToDo
    BY <2>2 DEF RoundsExhausted, AlreadyCovered, NothingToAim, WorkToDo, Leave, artifacts, locals,
       notExit, PastReview, Closing
  <2> QED BY <1>2, <2>1, <2>2 DEF Open
<1>3. CASE Generate
  <2>1. CASE Gap \/ Gen
    BY <2>1 DEF Gap, Gen, Goto, Call, artifacts, PastReview, Closing
  <2>2. CASE TestsGenerated
    BY <2>2 DEF TestsGenerated, artifacts, PastReview, Closing, Fresh
  <2>3. CASE GenEmpty
    <3>1. UNCHANGED <<verify_report, stage>> /\ iter_n' = iter_n + 1 /\ pc' = "head"
      BY <2>3 DEF GenEmpty, artifacts
    <3>2. \A j \in verify_report : j \in Nat /\ (j < iter_n \/ j = iter_n)
      BY <1>0
    <3> QED BY <1>0, <3>1, <3>2
  <2>4. CASE GenGivesUp
    BY <2>4 DEF GenGivesUp, Leave, artifacts, PastReview, Closing
  <2> QED BY <1>3, <2>1, <2>2, <2>3, <2>4 DEF Generate
<1>4. CASE Review
  <2>0. pc \in {"verify", "gen_fix"} /\ iter_n' = iter_n /\ stage' = stage
    BY <1>4 DEF Review, DocGateFails, VerifyAgent, GenFix, Goto, Call
  <2>u. \A j \in verify_report : j < iter_n
    BY <2>0 DEF PastReview, Closing
  <2>v. iter_n \notin verify_report
    BY <1>0, <2>u
  <2>1. CASE DocGateFails
    <3>1. /\ UNCHANGED reviewed /\ verify_report' \subseteq verify_report
          /\ pc' \in {"gen_fix", "exit"}
      BY <2>1 DEF DocGateFails, AfterReview, Leave, history
    <3> QED BY <2>0, <2>u, <3>1
  <2>2. CASE VerifyAgent
    <3>1. verify_report' \subseteq verify_report \cup {iter_n}
      BY <2>2 DEF VerifyAgent, ThisRoundIn
    <3>2. iter_n \in verify_report' => iter_n \in reviewed'
      BY <2>2, <2>v DEF VerifyAgent, ThisRoundIn
    <3>3. iter_n \in verify_report' => pc' = "execute"
      BY <2>2 DEF VerifyAgent, AfterReview
    <3>4. iter_n \notin verify_report' => pc' \in {"gen_fix", "exit"}
      BY <2>2 DEF VerifyAgent, AfterReview, Leave
    <3> QED BY <2>0, <2>u, <3>1, <3>2, <3>3, <3>4 DEF PastReview
  <2>3. CASE GenFix
    BY <2>0, <2>u, <2>3 DEF GenFix, Goto
  <2> QED BY <1>4, <2>1, <2>2, <2>3 DEF Review
<1>5. CASE Measure
  BY <1>5 DEF Measure, Execute, PersistExecution, RecordVerdict, Quality, RecordCoverage, Goto,
     Call, artifacts, locals, history, PastReview, Closing
<1>6. CASE JudgeMet \/ JudgeVacuous \/ JudgeStop
  BY <1>6 DEF JudgeMet, JudgeVacuous, JudgeStop, Leave, artifacts, notExit, PastReview
<1>7. CASE JudgeContinue
  <2>1. UNCHANGED <<verify_report, stage>> /\ iter_n' = iter_n + 1 /\ pc' = "head"
    BY <1>7 DEF JudgeContinue, Goto, artifacts
  <2>2. \A j \in verify_report : j \in Nat /\ (j < iter_n \/ j = iter_n)
    BY <1>0
  <2> QED BY <1>0, <2>1, <2>2
<1>8. CASE Close
  BY <1>8 DEF Close, SetExit, ReportMissing, Finalize, Goto, artifacts, locals, PastReview, Closing
<1> QED BY <1>1, <1>2, <1>3, <1>4, <1>5, <1>6, <1>7, <1>8 DEF Step, Judge
\* The same for any step, crashes and resumptions included.
LEMMA ReviewNext == TypeInv /\ ReviewInv /\ [Next]_vars => ReviewInv'
<1> SUFFICES ASSUME TypeInv, ReviewInv, [Next]_vars, Fresh' PROVE ReviewInv'
  BY DEF ReviewInv
<1>1. Fresh /\ (Step \/ UNCHANGED vars)
  BY FreshBefore
<1>2. CASE Step
  BY <1>1, <1>2, ReviewStep DEF ReviewInv
<1>3. CASE UNCHANGED vars
  <2>1. UNCHANGED <<pc, stage, iter_n, verify_report, reviewed>>
    BY <1>3 DEF vars, artifacts, locals, history
  <2> QED BY <1>1, <2>1 DEF ReviewInv, PastReview
<1> QED BY <1>1, <1>2, <1>3

\* Only tests whose latest version passed the review are executed by a run that is no
\* resumption: whatever the agents write or fail to write, and also when a repair or a
\* review leaves an old file in place.
THEOREM TestsAreReviewed == Spec => [](~resumed => ReviewedBeforeExecution)
<1>1. ReviewInv => (~resumed => ReviewedBeforeExecution)
  BY DEF ReviewInv, Fresh, Lost, ReviewedBeforeExecution
<1> QED BY <1>1, TypeInit, TypeNext, ReviewInit, ReviewNext, PTL DEF Spec

-----------------------------------------------------------------------------
(* No missed target.  Once a round has been measured at its targets, a run  *)
(* that is no resumption goes straight to its end as done.                  *)

MissInv ==
  /\ pc \in Lost => previous = NoReport
  /\ Fresh =>
       /\ pc \in {"analyze", "build", "baseline"} => previous = NoReport
       /\ previous # NoReport /\ Met(previous) =>
            \/ pc = "judge"
            \/ pc = "exit" /\ exit.status = "done"
            \/ pc \in Closing /\ status = "done"

\* Nothing is measured when a run begins.
LEMMA MissInit == Init => MissInv
BY DEF Init, MissInv, Lost

\* What check_threshold and the rule for views without branches say is what Met says.
LEMMA JudgesMet ==
  ASSUME TypeInv, CourseInv, DoneInv, pc = "judge"
  PROVE  check_threshold(iter_n) \/ VacuousMet <=> Met(previous)
<1>1. previous \in Report /\ iterations[iter_n].coverage_after = Metrics(previous)
  BY DEF TypeInv, PlaceInv, DoneInv
<1>2. FuncPct(previous) \in 0..100 /\ CondPct(previous) \in 0..100
  BY <1>1, ReportMetrics DEF Metrics, TypeInv, TypeOK
<1>3. iterations[iter_n].started
  BY DEF CourseInv, InRound, AfterBaseline
<1>4. check_threshold(iter_n) <=> FuncPct(previous) >= FuncTarget /\ CondPct(previous) >= CondTarget
  BY <1>1, <1>2, <1>3 DEF check_threshold, AtLeast, Metrics
<1> QED BY <1>4 DEF VacuousMet, Met

\* A report meets the targets or not as long as it is the last one.
LEMMA SameMet ==
  ASSUME UNCHANGED <<previous, shape>>
  PROVE  Met(previous)' <=> Met(previous)
BY DEF Met, FuncPct, CondPct, Vacuous

\* A round measured at its targets is judged next, and the run closed as done.
LEMMA MissStep ==
  ASSUME TypeInv, CourseInv, DoneInv, MissInv, Fresh, Step
  PROVE  /\ pc' \in {"analyze", "build", "baseline"} => previous' = NoReport
         /\ previous' # NoReport /\ Met(previous)' =>
              \/ pc' = "judge"
              \/ pc' = "exit" /\ exit'.status = "done"
              \/ pc' \in Closing /\ status' = "done"
<1> USE DEF MissInv
<1>1. CASE Analyze \/ BuildOk \/ BuildFails
  <2>1. UNCHANGED previous /\ pc \in {"analyze", "build"}
    BY <1>1 DEF Analyze, BuildOk, BuildFails, Goto, Call, locals, inputs
  <2> QED BY <2>1
<1>2. CASE Baseline
  BY <1>2 DEF Baseline, Goto, Fresh
<1>3. CASE RecordCoverage
  BY <1>3 DEF RecordCoverage, Goto
<1>4. CASE AlreadyCovered \/ JudgeMet \/ JudgeVacuous
  <2>1. pc' = "exit" /\ exit'.status = "done"
    BY <1>4, LeaveFields DEF AlreadyCovered, JudgeMet, JudgeVacuous
  <2> QED BY <2>1
<1>5. CASE JudgeStop \/ JudgeContinue
  <2>1. pc = "judge" /\ ~Met(previous) /\ UNCHANGED <<previous, shape>>
    BY <1>5, JudgesMet DEF JudgeStop, JudgeContinue, Goto, notExit, inputs, history
  <2>2. pc' \in {"exit", "head"}
    BY <1>5, LeaveFields DEF JudgeStop, JudgeContinue, Goto
  <2> QED BY <2>1, <2>2, SameMet
<1>6. CASE Close
  <2>1. /\ pc \in {"exit", "wrapup", "finalize"} /\ pc' \in Closing
        /\ UNCHANGED <<previous, shape>>
        /\ \/ pc = "exit" /\ status' = exit.status
           \/ pc \in Closing /\ status' = status
    BY <1>6 DEF Close, SetExit, ReportMissing, Finalize, Goto, stateFile, exitState, locals,
                inputs, history, Closing
  <2> QED BY <2>1, SameMet DEF Closing
<1>7. CASE \/ StartIteration \/ RoundsExhausted \/ NothingToAim \/ WorkToDo \/ Generate \/ Review
           \/ Execute \/ PersistExecution \/ RecordVerdict \/ Quality
  <2>1. UNCHANGED <<previous, shape>>
    <3>1. CASE StartIteration \/ RoundsExhausted \/ NothingToAim \/ WorkToDo
      BY <3>1 DEF StartIteration, RoundsExhausted, NothingToAim, WorkToDo, locals, notExit,
                  inputs, history
    <3>2. CASE Generate
      BY <3>2 DEF Generate, Gap, Gen, TestsGenerated, GenEmpty, GenGivesUp, Call, inputs, history
    <3>3. CASE Review
      BY <3>3 DEF Review, DocGateFails, VerifyAgent, GenFix, Call, inputs, history
    <3>4. CASE Execute \/ PersistExecution \/ RecordVerdict \/ Quality
      BY <3>4 DEF Execute, PersistExecution, RecordVerdict, Quality, Call, locals, inputs, history
    <3> QED BY <1>7, <3>1, <3>2, <3>3, <3>4
  <2>2. pc \notin {"judge", "exit"} \cup Closing
    BY <1>7 DEF StartIteration, RoundsExhausted, NothingToAim, WorkToDo, Generate, Gap, Gen,
       TestsGenerated, GenEmpty, GenGivesUp, Review, DocGateFails, VerifyAgent, GenFix, Execute,
       PersistExecution, RecordVerdict, Quality, Goto, Closing
  <2>3. pc' \notin {"analyze", "build", "baseline"}
    <3>1. CASE Review
      BY <3>1 DEF Review, DocGateFails, VerifyAgent, GenFix, AfterReview, Leave, Goto
    <3>2. CASE ~Review
      BY <1>7, <3>2 DEF StartIteration, RoundsExhausted, NothingToAim, WorkToDo, Generate, Gap,
         Gen, TestsGenerated, GenEmpty, GenGivesUp, Execute, PersistExecution, RecordVerdict,
         Quality, Goto, Leave, Fresh
    <3> QED BY <3>1, <3>2
  <2> QED BY <2>1, <2>2, <2>3, SameMet
<1> QED BY <1>1, <1>2, <1>3, <1>4, <1>5, <1>6, <1>7
        DEF Step, Prepare, Open, Measure, Judge

\* A crash forgets what was measured.
LEMMA LostForgets ==
  ASSUME MissInv, [Next]_vars, pc' \in Lost
  PROVE  previous' = NoReport
<1>1. CASE Crash \/ CrashInCall
  BY <1>1 DEF Crash, CrashInCall, LoseLocals, ForgetLocals
<1>2. CASE ResumeFails \/ UNCHANGED vars
  <2>1. UNCHANGED previous /\ pc \in Lost
    BY <1>2 DEF ResumeFails, vars, locals, inputs, Lost
  <2> QED BY <2>1 DEF MissInv
<1>3. CASE Resume
  BY <1>3 DEF Resume, Lost
<1>4. CASE Step
  BY <1>4, StepStays
<1> QED BY <1>1, <1>2, <1>3, <1>4 DEF Next, Rest

\* The same for any step, crashes and resumptions included.
LEMMA MissNext == TypeInv /\ CourseInv /\ DoneInv /\ MissInv /\ [Next]_vars => MissInv'
<1> SUFFICES ASSUME TypeInv, CourseInv, DoneInv, MissInv, [Next]_vars PROVE MissInv'
  OBVIOUS
<1>1. pc' \in Lost => previous' = NoReport
  BY LostForgets
<1>2. CASE ~Fresh'
  BY <1>1, <1>2 DEF MissInv
<1>3. CASE Fresh' /\ Step
  BY <1>1, <1>3, FreshBefore, MissStep DEF MissInv
<1>4. CASE Fresh' /\ UNCHANGED vars
  <2>1. UNCHANGED <<pc, exit, status, previous, shape>>
    BY <1>4 DEF vars, stateFile, exitState, locals, inputs, history
  <2> QED BY <1>1, <1>4, <2>1, FreshBefore, SameMet DEF MissInv
<1> QED BY <1>2, <1>3, <1>4, FreshBefore

\* The target takes precedence over every other reason: a run that is no resumption
\* and stops early has not measured a round at its targets, whichever check stopped it.
THEOREM NoneMissed == Spec => [](~resumed => NoMissedThreshold)
<1>1. CourseInv /\ MissInv => (~resumed => NoMissedThreshold)
  <2> SUFFICES ASSUME CourseInv, MissInv, ~resumed, status = "early_stop",
                      previous # NoReport, Met(previous)
               PROVE  FALSE
    BY DEF NoMissedThreshold
  <2> QED BY DEF CourseInv, MissInv, Fresh, Closing, Lost
<1> QED BY <1>1, TypeInit, TypeNext, CourseInit, CourseNext, DoneInit, DoneNext, MissInit, MissNext,
           PTL DEF Spec

-----------------------------------------------------------------------------
(* The records of a run that is no resumption.  Rounds behind it are        *)
(* settled: measured or empty, with the change over the round measured      *)
(* before; rounds before it are untouched.  What the loop compares with is  *)
(* always the last report it measured.                                      *)

Unmeasured == {"check", "gap", "gen", "gened", "verify", "gen_fix", "execute"}

Settled(i) ==
  /\ iterations[i].gen_output # "empty" <=> i \in Measured
  /\ i \in Measured => iterations[i].delta = Delta(coverage_json[i], BeforeRound(i))

Untouched(i) == iterations[i] = NoRecord /\ coverage_json[i] = NoReport

RecordsInv == Fresh =>
  /\ \A i \in Rounds : i > iter_n => Untouched(i)
  /\ \A i \in Rounds :
       i = iter_n /\ pc \in {"analyze", "build", "baseline", "head"} => Untouched(i)
  /\ pc \in Unmeasured => coverage_json[iter_n] = NoReport
  /\ pc \in InRound \ {"judge"} => iterations[iter_n].coverage_after = NoMetrics
  /\ pc \in InRound => iterations[iter_n].gen_output # "empty"
  /\ pc \in AfterBaseline => \A i \in Rounds : i < iter_n => Settled(i)
  /\ pc = "judge" => Settled(iter_n) /\ previous = coverage_json[iter_n]
  /\ pc \in AfterBaseline \ {"judge"} => GapSource = BeforeRound(iter_n)
  /\ pc \in {"analyze", "build", "baseline"} => iter_n = 1

\* A run begins with no record and no report.
LEMMA RecordsInit == Init => RecordsInv
<1> SUFFICES ASSUME Init PROVE RecordsInv
  OBVIOUS
<1>1. \A i \in Rounds : i \in 0..RoundBound
  BY DEF Rounds
<1>2. \A i \in Rounds : Untouched(i)
  BY <1>1 DEF Init, Untouched
<1> QED BY <1>2 DEF Init, RecordsInv, Unmeasured, InRound, AfterBaseline

\* The round measured last before a round is there if any was.
LEMMA LastBefore ==
  ASSUME NEW i
  PROVE  LET earlier == {j \in Measured : j < i}
             last == CHOOSE j \in earlier : \A k \in earlier : k <= j
         IN  /\ earlier = {} => BeforeRound(i) = baseline
             /\ earlier # {} => /\ last \in earlier /\ \A k \in earlier : k <= last
                                /\ BeforeRound(i) = coverage_json[last]
<1> DEFINE earlier == {j \in Measured : j < i}
           last == CHOOSE j \in earlier : \A k \in earlier : k <= j
<1>1. earlier = {} => BeforeRound(i) = baseline
  BY DEF BeforeRound
<1>2. ASSUME earlier # {} PROVE last \in earlier /\ \A k \in earlier : k <= last
  <2>1. earlier \in SUBSET (0..RoundBound)
    BY RoundFacts DEF Measured, Rounds
  <2>2. \E m \in earlier : \A j \in earlier : j <= m
    BY <1>2, <2>1, RoundFacts, GreatestElement
  <2> QED BY <2>2
<1>3. earlier # {} => BeforeRound(i) = coverage_json[last]
  BY DEF BeforeRound
<1> QED BY <1>1, <1>2, <1>3

\* It stays the same while only later rounds are measured.
LEMMA BeforeStays ==
  ASSUME NEW i, UNCHANGED baseline,
         \A j \in Rounds : j < i => coverage_json'[j] = coverage_json[j]
  PROVE  BeforeRound(i)' = BeforeRound(i)
<1> DEFINE earlier == {j \in Measured : j < i}
           last == CHOOSE j \in earlier : \A k \in earlier : k <= j
<1>1. earlier' = earlier
  BY DEF Measured
<1>2. CASE earlier = {}
  BY <1>1, <1>2 DEF BeforeRound
<1>3. CASE earlier # {}
  <2>1. last \in earlier
    BY <1>3, LastBefore
  <2>2. BeforeRound(i) = coverage_json[last]
    BY <1>3 DEF BeforeRound
  <2>3. BeforeRound(i)' = coverage_json'[last]
    BY <1>1, <1>3 DEF BeforeRound
  <2>4. last \in Rounds /\ last < i
    BY <2>1 DEF Measured
  <2> HIDE DEF last, earlier
  <2> QED BY <2>2, <2>3, <2>4
<1> QED BY <1>2, <1>3

\* Before the next round comes this one, if it was measured.
LEMMA BeforeNext ==
  ASSUME NEW i \in Rounds
  PROVE  BeforeRound(i + 1) = IF i \in Measured THEN coverage_json[i] ELSE BeforeRound(i)
<1> DEFINE upto == {j \in Measured : j < i + 1}
           last == CHOOSE j \in upto : \A k \in upto : k <= j
<1>1. i \in Nat /\ Measured \subseteq Nat
  BY RoundFacts DEF Measured
<1>2. \A j \in Measured : j < i + 1 <=> j <= i
  BY <1>1
<1>3. CASE i \in Measured
  <2>1. i \in upto /\ \A k \in upto : k <= i
    BY <1>2, <1>3, <1>1
  <2>2. last \in upto /\ \A k \in upto : k <= last
    BY <2>1
  <2>3. last = i
    <3>1. last <= i /\ i <= last /\ last \in Nat
      BY <1>1, <2>1, <2>2
    <3> QED BY <1>1, <3>1
  <2>4. BeforeRound(i + 1) = coverage_json[last]
    BY <2>1 DEF BeforeRound
  <2> QED BY <1>3, <2>3, <2>4
<1>4. CASE i \notin Measured
  <2>1. \A j \in Measured : j < i + 1 <=> j < i
    <3>1. \A j \in Measured : j # i
      BY <1>4
    <3> QED BY <1>1, <3>1
  <2> DEFINE before == {j \in Measured : j < i}
             After(S) == IF S = {} THEN baseline
                         ELSE coverage_json[CHOOSE j \in S : \A k \in S : k <= j]
  <2>2. upto = before
    BY <2>1
  <2>3. BeforeRound(i + 1) = After(upto) /\ BeforeRound(i) = After(before)
    BY DEF BeforeRound
  <2> HIDE DEF upto, before, After
  <2> QED BY <1>4, <2>2, <2>3
<1> QED BY <1>3, <1>4

\* A settled round stays settled while only later rounds are measured.
LEMMA SettledStays ==
  ASSUME NEW i \in Rounds, UNCHANGED <<baseline, shape>>, iterations'[i] = iterations[i],
         \A j \in Rounds : j <= i => coverage_json'[j] = coverage_json[j],
         Settled(i)
  PROVE  Settled(i)'
<1>1. i \in Nat /\ \A j \in Rounds : j \in Nat
  BY RoundFacts
<1>2. BeforeRound(i)' = BeforeRound(i)
  BY <1>1, BeforeStays
<1>3. i \in Measured' <=> i \in Measured
  BY <1>1 DEF Measured
<1>4. coverage_json'[i] = coverage_json[i]
  BY <1>1
<1>5. Delta(coverage_json[i], BeforeRound(i))' = Delta(coverage_json[i], BeforeRound(i))
  BY <1>2, <1>4 DEF Delta, Grows, FuncPct, CondPct
<1> QED BY <1>2, <1>3, <1>4, <1>5 DEF Settled

\* The steps that change no record, no report and no round number.
LEMMA RecordsQuiet ==
  ASSUME TypeInv, RecordsInv, Fresh,
         \/ Analyze \/ BuildOk \/ BuildFails \/ RoundsExhausted \/ WorkToDo \/ Gap \/ Gen
         \/ TestsGenerated \/ GenGivesUp \/ Review \/ PersistExecution \/ Quality
         \/ JudgeMet \/ JudgeStop \/ Close \/ UNCHANGED vars
  PROVE  RecordsInv'
<1>1. UNCHANGED <<iterations, coverage_json, iter_n, baseline, previous, shape>>
  <2>1. CASE Analyze \/ BuildOk \/ BuildFails \/ RoundsExhausted \/ WorkToDo
    BY <2>1 DEF Analyze, BuildOk, BuildFails, RoundsExhausted, WorkToDo, Call, stateFile, notUsage,
                artifacts, locals, notExit, inputs, history
  <2>2. CASE Gap \/ Gen \/ TestsGenerated \/ GenGivesUp
    BY <2>2 DEF Gap, Gen, TestsGenerated, GenGivesUp, Call, stateFile, notUsage, artifacts, inputs,
                history
  <2>3. CASE Review
    BY <2>3 DEF Review, DocGateFails, VerifyAgent, GenFix, Call, stateFile, notUsage, inputs,
                history
  <2>4. CASE PersistExecution \/ Quality \/ JudgeMet \/ JudgeStop
    BY <2>4 DEF PersistExecution, Quality, JudgeMet, JudgeStop, Call, stateFile, notUsage,
                artifacts, locals, notExit, inputs, history
  <2>5. CASE Close \/ UNCHANGED vars
    BY <2>5 DEF Close, SetExit, ReportMissing, Finalize, vars, stateFile, artifacts, locals, inputs,
                history
  <2> QED BY <2>1, <2>2, <2>3, <2>4, <2>5
<1>2. \/ pc' = pc
      \/ pc' \notin AfterBaseline \cup {"analyze"} /\ (pc' = "build" => pc = "analyze")
         /\ (pc' = "baseline" => pc = "build")
      \/ /\ pc \in InRound \ {"judge"} /\ pc' \in InRound \ {"judge"}
         /\ pc' \in Unmeasured => pc \in Unmeasured
  <2>1. CASE Review
    BY <2>1 DEF Review, DocGateFails, VerifyAgent, GenFix, AfterReview, Leave, Goto, InRound,
                AfterBaseline, Unmeasured
  <2>2. CASE Analyze \/ BuildOk \/ BuildFails \/ Close \/ UNCHANGED vars
    BY <2>2 DEF Analyze, BuildOk, BuildFails, Close, SetExit, ReportMissing, Finalize, vars, Goto,
                AfterBaseline
  <2>3. CASE RoundsExhausted \/ GenGivesUp \/ JudgeMet \/ JudgeStop
    BY <2>3, LeaveFields DEF RoundsExhausted, GenGivesUp, JudgeMet, JudgeStop, AfterBaseline
  <2>4. CASE WorkToDo \/ Gap \/ Gen \/ TestsGenerated \/ PersistExecution \/ Quality
    BY <2>4 DEF WorkToDo, Gap, Gen, TestsGenerated, PersistExecution, Quality, Goto, InRound,
                AfterBaseline, Unmeasured
  <2> QED BY <2>1, <2>2, <2>3, <2>4
<1>3. /\ \A i \in Rounds : Untouched(i)' <=> Untouched(i)
      /\ GapSource' = GapSource /\ BeforeRound(iter_n)' = BeforeRound(iter_n)
      /\ Fresh' => Fresh
  BY <1>1 DEF Untouched, GapSource, BeforeRound, Measured
<1>4. \A i \in Rounds : Settled(i) => Settled(i)'
  BY <1>1, SettledStays
<1>5. /\ \A i \in Rounds : i > iter_n => Untouched(i)'
      /\ \A i \in Rounds :
           i = iter_n /\ pc' \in {"analyze", "build", "baseline", "head"} => Untouched(i)'
      /\ pc' \in {"analyze", "build", "baseline"} => iter_n' = 1
  BY <1>1, <1>2, <1>3 DEF RecordsInv, AfterBaseline, InRound
<1>6. CASE pc' = pc
  <2>1. pc = "judge" => Settled(iter_n)'
    <3>1. pc = "judge" => iter_n \in Rounds
      BY RoundIsOpen DEF InRound, AfterBaseline
    <3>2. ASSUME NEW i \in Rounds, i = iter_n, pc = "judge" PROVE Settled(i)'
      BY <1>4, <3>2 DEF RecordsInv
    <3> QED BY <1>1, <3>1, <3>2
  <2> QED BY <1>1, <1>3, <1>4, <1>5, <1>6, <2>1 DEF RecordsInv
<1>7. CASE pc' \notin AfterBaseline
  BY <1>1, <1>5, <1>7 DEF RecordsInv, InRound, AfterBaseline, Unmeasured
<1>8. CASE pc \in InRound \ {"judge"} /\ pc' \in InRound \ {"judge"}
           /\ (pc' \in Unmeasured => pc \in Unmeasured)
  <2>1. /\ pc' \in Unmeasured => coverage_json'[iter_n'] = NoReport
        /\ iterations'[iter_n'].coverage_after = NoMetrics
        /\ iterations'[iter_n'].gen_output # "empty"
    BY <1>1, <1>8 DEF RecordsInv
  <2>2. /\ \A i \in Rounds : i < iter_n => Settled(i)'
        /\ GapSource' = BeforeRound(iter_n)'
    BY <1>1, <1>3, <1>4, <1>8 DEF RecordsInv, InRound
  <2> QED BY <1>1, <1>5, <1>8, <2>1, <2>2 DEF RecordsInv, InRound, AfterBaseline
<1> QED BY <1>2, <1>6, <1>7, <1>8

\* The baseline comes before the first round.
LEMMA RecordsBaseline == ASSUME TypeInv, RecordsInv, Fresh, Baseline PROVE RecordsInv'
<1>1. /\ pc = "baseline" /\ pc' = "head" /\ iter_n' = iter_n /\ iter_n = 1
      /\ previous' = NoReport /\ UNCHANGED iterations
  BY DEF RecordsInv, Fresh, Baseline, Goto, stateFile
<1>2. \A i \in Rounds : coverage_json'[i] = coverage_json[i]
  <2>1. PICK r \in Report : \/ coverage_json' = [coverage_json EXCEPT ![0] = r]
                            \/ UNCHANGED coverage_json
    BY DEF Baseline
  <2>2. \A i \in Rounds : i # 0 /\ i \in 0..RoundBound
    BY DEF Rounds
  <2>3. coverage_json \in [0..RoundBound -> Report \cup {NoReport}]
    BY DEF TypeInv, TypeOK, ArtifactsOK
  <2> QED BY <2>1, <2>2, <2>3
<1>3. \A i \in Rounds : i >= 1 /\ Untouched(i)'
  <2>1. \A i \in Rounds : i >= 1
    BY DEF Rounds
  <2>2. \A i \in Rounds : i = 1 \/ i > 1
    BY <2>1, RoundFacts
  <2>3. \A i \in Rounds : Untouched(i)
    BY <1>1, <2>2 DEF RecordsInv
  <2> QED BY <1>1, <1>2, <2>1, <2>3 DEF Untouched
<1>4. \A i \in Rounds : ~(i < 1)
  BY <1>3, RoundFacts
<1>5. GapSource' = BeforeRound(1)'
  <2>1. GapSource' = baseline'
    BY <1>1 DEF GapSource
  <2>2. BeforeRound(1)' = baseline'
    <3>1. \A j \in Measured' : ~(j < 1)
      BY DEF Measured, Rounds
    <3> QED BY <3>1 DEF BeforeRound
  <2> QED BY <2>1, <2>2
<1> QED BY <1>1, <1>3, <1>4, <1>5 DEF RecordsInv, InRound, AfterBaseline, Unmeasured

\* A round is opened with nothing in its record but that it was started.
LEMMA RecordsStart == ASSUME TypeInv, RecordsInv, Fresh, StartIteration PROVE RecordsInv'
<1>1. /\ pc = "head" /\ pc' = "check" /\ iter_n' = iter_n
      /\ UpdateIteration([iterations[iter_n] EXCEPT !.started = TRUE])
      /\ UNCHANGED <<coverage_json, baseline, previous, shape>>
  BY DEF StartIteration, Fresh, artifacts, inputs
<1>2. iter_n \in Rounds /\ iterations \in [Rounds -> Record]
  BY LoopConstants DEF StartIteration, TypeInv, TypeOK, LocalsOK, StateFileOK, Rounds
<1>3. iterations[iter_n] = NoRecord /\ coverage_json[iter_n] = NoReport
  BY <1>1, <1>2 DEF RecordsInv, Untouched
<1>4. /\ \A i \in Rounds : i # iter_n => iterations'[i] = iterations[i]
      /\ iterations'[iter_n].coverage_after = NoMetrics
      /\ iterations'[iter_n].gen_output = "none"
  BY <1>1, <1>2, <1>3 DEF UpdateIteration, NoRecord
<1>5. \A i \in Rounds : i \in Nat /\ (i > iter_n => i # iter_n) /\ (i < iter_n => i # iter_n)
  BY RoundFacts
<1>6. \A i \in Rounds : i > iter_n => Untouched(i)'
  BY <1>1, <1>4, <1>5 DEF RecordsInv, Untouched
<1>7. \A i \in Rounds : i < iter_n => Settled(i)'
  BY <1>1, <1>4, <1>5, SettledStays DEF RecordsInv, AfterBaseline
<1>8. GapSource' = GapSource /\ BeforeRound(iter_n)' = BeforeRound(iter_n)
  BY <1>1 DEF GapSource, BeforeRound, Measured
<1> QED BY <1>1, <1>3, <1>4, <1>6, <1>7, <1>8 DEF RecordsInv, InRound, AfterBaseline

\* A verdict that ends the loop changes the record of its round only.
LEMMA RecordsVerdict ==
  ASSUME TypeInv, RecordsInv, Fresh, AlreadyCovered \/ NothingToAim \/ JudgeVacuous
  PROVE  RecordsInv'
<1>1. /\ pc \in InRound /\ pc' = "exit" /\ iter_n' = iter_n
      /\ \E rec : UpdateIteration(rec)
      /\ UNCHANGED coverage_json
  <2>1. CASE AlreadyCovered
    BY <2>1, LeaveFields DEF AlreadyCovered, artifacts, notExit, InRound, AfterBaseline
  <2>2. CASE NothingToAim
    BY <2>2, LeaveFields DEF NothingToAim, artifacts, notExit, InRound, AfterBaseline
  <2>3. CASE JudgeVacuous
    BY <2>3, LeaveFields DEF JudgeVacuous, artifacts, notExit, InRound, AfterBaseline
  <2> QED BY <2>1, <2>2, <2>3
<1>2. iter_n \in Rounds /\ iterations \in [Rounds -> Record] /\ \A i \in Rounds : i \in Nat
  BY <1>1, RoundIsOpen, RoundFacts DEF TypeInv, TypeOK, StateFileOK
<1>3. \A i \in Rounds : i > iter_n => iterations'[i] = iterations[i]
  BY <1>1, <1>2 DEF UpdateIteration
<1>4. \A i \in Rounds : i > iter_n => Untouched(i)'
  BY <1>1, <1>3 DEF RecordsInv, Untouched
<1> QED BY <1>1, <1>4 DEF RecordsInv, InRound, AfterBaseline, Unmeasured

\* The tests are run: the round has a report now.
LEMMA RecordsExecute == ASSUME TypeInv, RecordsInv, Fresh, Execute PROVE RecordsInv'
<1>1. /\ pc = "execute" /\ pc' = "persist" /\ iter_n' = iter_n
      /\ UNCHANGED <<iterations, baseline, previous, shape>>
      /\ \E r \in Report : coverage_json' = [coverage_json EXCEPT ![iter_n] = r]
  BY DEF Execute, Goto, stateFile, inputs, history
<1>2. iter_n \in Nat /\ \A i \in Rounds : i \in Nat
  BY <1>1, RoundIsOpen, RoundFacts DEF InRound, AfterBaseline
<1>3. \A i \in Rounds : i # iter_n => coverage_json'[i] = coverage_json[i]
  BY <1>1 DEF TypeInv, TypeOK, ArtifactsOK, Rounds
<1>4. \A i \in Rounds : i > iter_n => Untouched(i)'
  BY <1>1, <1>2, <1>3 DEF RecordsInv, Untouched
<1>5. \A i \in Rounds : i < iter_n => Settled(i)'
  <2> SUFFICES ASSUME NEW i \in Rounds, i < iter_n PROVE Settled(i)'
    OBVIOUS
  <2>1. \A j \in Rounds : j <= i => coverage_json'[j] = coverage_json[j]
    BY <1>2, <1>3
  <2>2. Settled(i)
    BY <1>1 DEF RecordsInv, AfterBaseline
  <2> QED BY <1>1, <2>1, <2>2, SettledStays
<1>6. GapSource' = GapSource /\ BeforeRound(iter_n)' = BeforeRound(iter_n)
  <2>1. \A j \in Rounds : j < iter_n => coverage_json'[j] = coverage_json[j]
    BY <1>2, <1>3
  <2>2. ASSUME NEW i, i = iter_n PROVE BeforeRound(i)' = BeforeRound(i)
    BY <1>1, <2>1, <2>2, BeforeStays
  <2>3. BeforeRound(iter_n)' = BeforeRound(iter_n)
    BY <1>1, <2>2
  <2> QED BY <1>1, <2>3 DEF GapSource
<1> QED BY <1>1, <1>4, <1>5, <1>6 DEF RecordsInv, InRound, AfterBaseline, Unmeasured

\* The verdict: from now on the round counts as one that generated tests.
LEMMA RecordsOutcome == ASSUME TypeInv, RecordsInv, Fresh, RecordVerdict PROVE RecordsInv'
<1>1. /\ pc = "record" /\ pc' \in {"cover", "quality"} /\ iter_n' = iter_n
      /\ UpdateIteration([iterations[iter_n] EXCEPT !.execute_verdict = verdict,
                                                    !.gen_output = "ok"])
      /\ UNCHANGED <<coverage_json, baseline, previous, shape>>
  BY DEF RecordVerdict, artifacts, inputs, history
<1>2. /\ iter_n \in Rounds /\ iterations \in [Rounds -> Record] /\ iterations[iter_n] \in Record
      /\ \A i \in Rounds : i \in Nat
  BY <1>1, RoundIsOpen, RoundFacts DEF InRound, AfterBaseline, TypeInv, TypeOK, StateFileOK
<1>3. /\ \A i \in Rounds : i # iter_n => iterations'[i] = iterations[i]
      /\ iterations'[iter_n].coverage_after = iterations[iter_n].coverage_after
      /\ iterations'[iter_n].gen_output = "ok"
  BY <1>1, <1>2 DEF UpdateIteration, Record
<1>4. \A i \in Rounds : i > iter_n => Untouched(i)'
  BY <1>1, <1>2, <1>3 DEF RecordsInv, Untouched
<1>5. \A i \in Rounds : i < iter_n => Settled(i)'
  BY <1>1, <1>2, <1>3, SettledStays DEF RecordsInv, AfterBaseline
<1>6. GapSource' = GapSource /\ BeforeRound(iter_n)' = BeforeRound(iter_n)
  BY <1>1 DEF GapSource, BeforeRound, Measured
<1>7. iterations'[iter_n].coverage_after = NoMetrics
  BY <1>1, <1>3 DEF RecordsInv, InRound, AfterBaseline
<1>8. GapSource' = BeforeRound(iter_n)'
  BY <1>1, <1>6 DEF RecordsInv, AfterBaseline
<1> QED BY <1>1, <1>3, <1>4, <1>5, <1>7, <1>8
        DEF RecordsInv, InRound, AfterBaseline, Unmeasured

\* The result: the round is settled.
LEMMA RecordsResult == ASSUME TypeInv, RecordsInv, Fresh, RecordCoverage PROVE RecordsInv'
<1>1. /\ pc = "cover" /\ pc' = "judge" /\ iter_n' = iter_n
      /\ UpdateIteration([iterations[iter_n] EXCEPT
                            !.coverage_after = Metrics(coverage_json[iter_n]),
                            !.delta = Delta(coverage_json[iter_n], GapSource)])
      /\ previous' = coverage_json[iter_n]
      /\ UNCHANGED <<coverage_json, baseline, shape>>
  BY DEF RecordCoverage, Goto, artifacts, history
<1>2. /\ iter_n \in Rounds /\ iterations \in [Rounds -> Record] /\ iterations[iter_n] \in Record
      /\ \A i \in Rounds : i \in Nat
  BY <1>1, RoundIsOpen, RoundFacts DEF InRound, AfterBaseline, TypeInv, TypeOK, StateFileOK
<1>3. /\ \A i \in Rounds : i # iter_n => iterations'[i] = iterations[i]
      /\ iterations'[iter_n].gen_output = iterations[iter_n].gen_output
      /\ iterations'[iter_n].delta = Delta(coverage_json[iter_n], GapSource)
  BY <1>1, <1>2 DEF UpdateIteration, Record
<1>4. \A i \in Rounds : i > iter_n => Untouched(i)'
  BY <1>1, <1>2, <1>3 DEF RecordsInv, Untouched
<1>5. \A i \in Rounds : i < iter_n => Settled(i)'
  BY <1>1, <1>2, <1>3, SettledStays DEF RecordsInv, AfterBaseline
<1>6. Settled(iter_n)'
  <2>1. coverage_json[iter_n] # NoReport
    BY <1>1, NoReportIsNone DEF TypeInv, PlaceInv
  <2>2. iterations'[iter_n].gen_output # "empty" /\ GapSource = BeforeRound(iter_n)
    BY <1>1, <1>3 DEF RecordsInv, InRound, AfterBaseline
  <2>3. BeforeRound(iter_n)' = BeforeRound(iter_n) /\ iter_n' \in Measured'
    BY <1>1, <1>2, <2>1 DEF BeforeRound, Measured
  <2>4. Delta(coverage_json[iter_n], BeforeRound(iter_n))'
          = Delta(coverage_json[iter_n], BeforeRound(iter_n))
    BY <1>1, <2>3 DEF Delta, Grows, FuncPct, CondPct
  <2> QED BY <1>1, <1>3, <2>2, <2>3, <2>4 DEF Settled
<1>7. iterations'[iter_n'].gen_output # "empty"
  BY <1>1, <1>3 DEF RecordsInv, InRound, AfterBaseline
<1> QED BY <1>1, <1>4, <1>5, <1>6, <1>7 DEF RecordsInv, InRound, AfterBaseline, Unmeasured

\* On to the next round, with this one settled.
LEMMA RecordsOn == ASSUME TypeInv, RecordsInv, Fresh, GenEmpty \/ JudgeContinue PROVE RecordsInv'
<1>1. /\ pc \in {"gened", "judge"} /\ pc' = "head" /\ iter_n' = iter_n + 1
      /\ UNCHANGED <<coverage_json, baseline, previous, shape>>
  BY DEF GenEmpty, JudgeContinue, Goto, artifacts, inputs, history
<1>2. /\ iter_n \in Rounds /\ iterations \in [Rounds -> Record] /\ iterations[iter_n] \in Record
      /\ \A i \in Rounds : i \in Nat
  BY <1>1, RoundIsOpen, RoundFacts DEF InRound, AfterBaseline, TypeInv, TypeOK, StateFileOK
<1>3. \A i \in Rounds : i # iter_n => iterations'[i] = iterations[i]
  <2>1. CASE GenEmpty
    BY <1>2, <2>1 DEF GenEmpty, UpdateIteration
  <2>2. CASE JudgeContinue
    BY <2>2 DEF JudgeContinue, stateFile
  <2> QED BY <2>1, <2>2
<1>4. \A i \in Rounds : i > iter_n => Untouched(i)'
  BY <1>1, <1>2, <1>3 DEF RecordsInv, Untouched
<1>5. \A i \in Rounds : i < iter_n => Settled(i)'
  BY <1>1, <1>2, <1>3, SettledStays DEF RecordsInv, AfterBaseline
<1>6. /\ \A i \in Rounds : i = iter_n => Settled(i)'
      /\ GapSource' = BeforeRound(iter_n + 1)
  <2>1. CASE GenEmpty
    <3>1. coverage_json[iter_n] = NoReport /\ iter_n \notin Measured /\ iter_n \notin Measured'
      BY <1>1, <2>1 DEF GenEmpty, RecordsInv, Unmeasured, Measured
    <3>2. iterations'[iter_n].gen_output = "empty"
      BY <1>2, <2>1 DEF GenEmpty, UpdateIteration, Record
    <3>3. GapSource = BeforeRound(iter_n)
      BY <2>1 DEF GenEmpty, RecordsInv, AfterBaseline
    <3>4. GapSource' = GapSource
      BY <1>1 DEF GapSource
    <3>5. \A i \in Rounds : i = iter_n => Settled(i)'
      BY <3>1, <3>2 DEF Settled
    <3> QED BY <1>2, <3>1, <3>3, <3>4, <3>5, BeforeNext
  <2>2. CASE JudgeContinue
    <3>1. pc = "judge" /\ UNCHANGED iterations
      BY <2>2 DEF JudgeContinue, Goto, stateFile
    <3>2. Settled(iter_n) /\ previous = coverage_json[iter_n] /\ previous # NoReport
      BY <3>1, NoReportIsNone DEF RecordsInv, TypeInv, PlaceInv
    <3>3. \A i \in Rounds : i = iter_n => Settled(i)'
      BY <1>1, <1>2, <3>1, <3>2, SettledStays
    <3>4. iter_n \in Measured
      BY <1>2, <3>2 DEF Measured
    <3>5. GapSource' = previous
      BY <1>1, <3>2 DEF GapSource
    <3> QED BY <1>2, <3>2, <3>3, <3>4, <3>5, BeforeNext
  <2> QED BY <2>1, <2>2
<1>7. GapSource' = BeforeRound(iter_n)'
  <2>1. BeforeRound(iter_n)' = BeforeRound(iter_n + 1)
    BY <1>1 DEF BeforeRound, Measured
  <2> QED BY <1>6, <2>1
<1>8. \A i \in Rounds : i < iter_n' => Settled(i)'
  <2>1. \A i \in Rounds : i < iter_n + 1 => i < iter_n \/ i = iter_n
    BY <1>2
  <2> QED BY <1>1, <1>5, <1>6, <2>1
<1>9. \A i \in Rounds : i > iter_n' \/ i = iter_n' => Untouched(i)'
  <2>1. \A i \in Rounds : i > iter_n + 1 \/ i = iter_n + 1 => i > iter_n
    BY <1>2
  <2> QED BY <1>1, <1>4, <2>1
<1> QED BY <1>1, <1>7, <1>8, <1>9 DEF RecordsInv, InRound, AfterBaseline, Unmeasured

\* No step of a run that is no resumption changes the record of a round behind it.
LEMMA RecordsNext == TypeInv /\ RecordsInv /\ [Next]_vars => RecordsInv'
<1> SUFFICES ASSUME TypeInv, RecordsInv, [Next]_vars, Fresh' PROVE RecordsInv'
  BY DEF RecordsInv
<1>1. Fresh /\ (Step \/ UNCHANGED vars)
  BY FreshBefore
<1> QED BY <1>1, RecordsQuiet, RecordsBaseline, RecordsStart, RecordsVerdict, RecordsExecute,
           RecordsOutcome, RecordsResult, RecordsOn
        DEF Step, Prepare, Open, Generate, Measure, Judge

-----------------------------------------------------------------------------
(* The ceiling.  The window check_early_stop looks at is the set of the     *)
(* last rounds that were measured, and a round in it without an upward      *)
(* delta is one that brought nothing over the round measured before.        *)

\* what coverage_ceiling claims, in terms of the reports
Ceiling ==
  \/ GapSource.func = shape.funcs
  \/ \E W \in SUBSET Measured :
       /\ Cardinality(W) >= NoProgress
       /\ \A i \in W : ~Grows(coverage_json[i], BeforeRound(i))
       /\ \A i \in Measured : i \in W \/ \A j \in W : i < j

CeilingInv == Fresh =>
  /\ pc = "exit" /\ exit.reason = "coverage_ceiling" => Ceiling
  /\ pc \in Closing /\ exit_reason = "coverage_ceiling" => Ceiling

\* A run begins without a reason to end.
LEMMA CeilingInit == Init => CeilingInv
BY DEF Init, CeilingInv, Closing

\* When the loop judges a round, the rounds that count are the measured ones.
LEMMA EffectiveIsMeasured ==
  ASSUME TypeInv, CourseInv, RecordsInv, Fresh, pc = "judge"
  PROVE  /\ Effective = Measured
         /\ \A i \in Measured : iterations[i].delta = Delta(coverage_json[i], BeforeRound(i))
<1>1. iter_n \in Nat /\ \A i \in Rounds : i \in Nat
  BY RoundIsOpen, RoundFacts DEF InRound, AfterBaseline
<1>2. \A i \in Rounds : i <= iter_n => Settled(i) /\ i \in Started
  <2> SUFFICES ASSUME NEW i \in Rounds, i <= iter_n PROVE Settled(i) /\ i \in Started
    OBVIOUS
  <2>1. CASE i = iter_n
    BY <2>1 DEF RecordsInv, CourseInv, InRound, AfterBaseline, Started
  <2>2. CASE i < iter_n
    <3>1. i <= iter_n - 1
      BY <1>1, <2>2
    <3>2. Used(i)
      BY <3>1 DEF CourseInv, UsedTo, Lost
    <3> QED BY <2>2, <3>2 DEF Used, Started, RecordsInv, AfterBaseline
  <2> QED BY <1>1, <2>1, <2>2
<1>3. \A i \in Rounds : ~(i <= iter_n) => i \notin Started /\ i \notin Measured
  BY <1>1 DEF RecordsInv, Untouched, NoRecord, Started, Measured
<1> QED BY <1>2, <1>3 DEF Settled, Effective, Started, Measured

\* The window is the end of the measured rounds.
LEMMA WindowIsLast ==
  ASSUME Effective = Measured
  PROVE  /\ IsFiniteSet(Recent) /\ Recent \in SUBSET Measured
         /\ \A i \in Measured : i \in Recent \/ \A j \in Recent : i < j
<1>1. Measured \in SUBSET Rounds /\ Recent \in SUBSET Measured
  BY DEF Measured, Recent
<1>2. IsFiniteSet(Rounds)
  BY LoopConstants, FS_Interval DEF Rounds
<1>3. \A S \in SUBSET Rounds : IsFiniteSet(S) /\ Cardinality(S) \in Nat
  BY <1>2, FS_Subset, FS_CardinalityType
<1>4. ASSUME NEW i \in Measured, i \notin Recent, NEW j \in Recent PROVE i < j
  <2> DEFINE After(n) == {k \in Measured : k > n}
  <2>1. i \in Nat /\ j \in Nat /\ \A k \in Measured : k \in Nat
    BY <1>1, RoundFacts
  <2>2. NoProgress # 0 /\ ~(Cardinality(After(i)) < NoProgress)
    BY <1>4 DEF Recent
  <2>3. Cardinality(After(j)) < NoProgress
    BY <1>4, <2>2 DEF Recent
  <2>4. SUFFICES ASSUME j <= i PROVE FALSE
    BY <2>1
  <2>5. \A k \in Measured : k > i => k > j
    BY <2>1, <2>4
  <2>6. After(i) \in SUBSET After(j)
    BY <2>5
  <2>7. After(i) \in SUBSET Rounds /\ After(j) \in SUBSET Rounds
    BY <1>1
  <2> HIDE DEF After
  <2>8. Cardinality(After(i)) <= Cardinality(After(j))
    BY <1>3, <2>6, <2>7, FS_Subset
  <2> QED BY <1>3, <2>2, <2>3, <2>7, <2>8, LoopConstants
<1> QED BY <1>1, <1>3, <1>4

\* A round that is not an upward one has not grown.
LEMMA FlatDelta ==
  ASSUME NEW r, NEW before, Delta(r, before) # "up"
  PROVE  ~Grows(r, before)
BY DEF Delta

\* A ceiling stays one while no report is added.
LEMMA SameCeiling ==
  ASSUME UNCHANGED <<coverage_json, previous, baseline, shape>>, Ceiling
  PROVE  Ceiling'
BY DEF Ceiling, GapSource, Measured, BeforeRound, Grows, FuncPct, CondPct

\* The two places that give coverage_ceiling as the reason.
LEMMA CeilingFound ==
  ASSUME TypeInv, CourseInv, RecordsInv, Fresh,
         NothingToAim \/ JudgeStop, exit'.reason = "coverage_ceiling"
  PROVE  Ceiling
<1>1. CASE NothingToAim
  BY <1>1 DEF NothingToAim, NothingUncovered, Ceiling
<1>2. CASE JudgeStop
  <2>1. pc = "judge" /\ check_early_stop = "coverage_ceiling"
    <3>1. CASE Leave("early_stop", check_early_stop, Metrics(previous))
      BY <1>2, <3>1, LeaveFields DEF JudgeStop
    <3>2. CASE Leave("early_stop", "budget_exhausted", Metrics(previous))
      BY <3>2, LeaveFields
    <3> QED BY <1>2, <3>1, <3>2 DEF JudgeStop
  <2>2. /\ ~(Cardinality(Recent) < NoProgress)
        /\ \A i \in Recent : iterations[i].delta # "up"
    BY <2>1 DEF check_early_stop
  <2>3. /\ Effective = Measured
        /\ \A i \in Measured : iterations[i].delta = Delta(coverage_json[i], BeforeRound(i))
    BY <2>1, EffectiveIsMeasured
  <2>4. /\ IsFiniteSet(Recent) /\ Recent \in SUBSET Measured
        /\ \A i \in Measured : i \in Recent \/ \A j \in Recent : i < j
    BY <2>3, WindowIsLast
  <2>5. Cardinality(Recent) >= NoProgress
    BY <2>2, <2>4, FS_CardinalityType, LoopConstants
  <2>6. \A i \in Recent : ~Grows(coverage_json[i], BeforeRound(i))
    BY <2>2, <2>3, <2>4, FlatDelta
  <2> QED BY <2>4, <2>5, <2>6 DEF Ceiling
<1> QED BY <1>1, <1>2

\* What a step gives as coverage_ceiling is one.
LEMMA CeilingStep ==
  ASSUME TypeInv, CourseInv, RecordsInv, CeilingInv, Fresh, Step
  PROVE  /\ pc' = "exit" /\ exit'.reason = "coverage_ceiling" => Ceiling'
         /\ pc' \in Closing /\ exit_reason' = "coverage_ceiling" => Ceiling'
<1>1. CASE NothingToAim \/ JudgeStop
  <2>1. UNCHANGED <<coverage_json, previous, baseline, shape>> /\ pc' = "exit"
    BY <1>1, LeaveFields DEF NothingToAim, JudgeStop, artifacts, history, notExit, inputs
  <2> QED BY <1>1, <2>1, CeilingFound, SameCeiling DEF Closing
<1>2. CASE Close
  <2>1. /\ UNCHANGED <<coverage_json, previous, baseline, shape>> /\ pc' # "exit"
        /\ \/ pc = "exit" /\ exit_reason' = exit.reason
           \/ pc \in Closing /\ exit_reason' = exit_reason
    BY <1>2 DEF Close, SetExit, ReportMissing, Finalize, Goto, stateFile, exitState, locals,
                artifacts, inputs, history, Closing
  <2> QED BY <2>1, SameCeiling DEF CeilingInv
<1>3. CASE RoundsExhausted \/ AlreadyCovered \/ GenGivesUp \/ JudgeMet \/ JudgeVacuous
  <2>1. PICK stat, reason, metrics : /\ Leave(stat, reason, metrics)
                                     /\ reason # "coverage_ceiling"
    <3>1. CASE RoundsExhausted
      BY <3>1 DEF RoundsExhausted
    <3>2. CASE AlreadyCovered
      BY <3>2 DEF AlreadyCovered
    <3>3. CASE GenGivesUp
      BY <3>3 DEF GenGivesUp
    <3>4. CASE JudgeMet \/ JudgeVacuous
      BY <3>4 DEF JudgeMet, JudgeVacuous
    <3> QED BY <1>3, <3>1, <3>2, <3>3, <3>4
  <2> QED BY <2>1, LeaveFields DEF Closing
<1>4. CASE BuildFails
  BY <1>4 DEF BuildFails, Goto
<1>5. CASE Review
  <2>1. PICK pass : AfterReview(pass) \/ pc' = "verify"
    BY <1>5 DEF Review, DocGateFails, VerifyAgent, GenFix, Goto
  <2>2. \/ pc' \in {"execute", "gen_fix", "verify"}
        \/ Leave("early_stop", "verify_fail_exceeded", NoMetrics)
    BY <2>1 DEF AfterReview
  <2> QED BY <2>2, LeaveFields DEF Closing
<1>6. CASE \/ Analyze \/ BuildOk \/ Baseline \/ StartIteration \/ WorkToDo \/ Gap \/ Gen
           \/ TestsGenerated \/ GenEmpty \/ Measure \/ JudgeContinue
  BY <1>6 DEF Analyze, BuildOk, Baseline, StartIteration, WorkToDo, Gap, Gen, TestsGenerated,
     GenEmpty, Measure, Execute, PersistExecution, RecordVerdict, Quality, RecordCoverage,
     JudgeContinue, Goto, Closing
<1> QED BY <1>1, <1>2, <1>3, <1>4, <1>5, <1>6 DEF Step, Prepare, Open, Generate, Judge

\* The same for any step, crashes and resumptions included.
LEMMA CeilingNext ==
  TypeInv /\ CourseInv /\ RecordsInv /\ CeilingInv /\ [Next]_vars => CeilingInv'
<1> SUFFICES ASSUME TypeInv, CourseInv, RecordsInv, CeilingInv, [Next]_vars, Fresh'
             PROVE  CeilingInv'
  BY DEF CeilingInv
<1>1. CASE Step
  BY <1>1, FreshBefore, CeilingStep DEF CeilingInv
<1>2. CASE UNCHANGED vars
  <2>1. /\ UNCHANGED <<coverage_json, previous, baseline, shape>>
        /\ UNCHANGED <<pc, exit, exit_reason>>
    BY <1>2 DEF vars, stateFile, exitState, locals, artifacts, inputs, history
  <2> QED BY <2>1, FreshBefore, SameCeiling DEF CeilingInv
<1> QED BY <1>1, <1>2, FreshBefore

\* In a run that is no resumption, coverage_ceiling is reported only when the last
\* no_progress_iters measured rounds brought nothing, each over the round measured
\* before it, or nothing is left that a test could aim at.
THEOREM CeilingReal == Spec => [](~resumed => CeilingIsReal)
<1>1. CourseInv /\ CeilingInv => (~resumed => CeilingIsReal)
  BY DEF CourseInv, CeilingInv, CeilingIsReal, Ceiling, Fresh, Forgotten, Lost
<1> QED BY <1>1, TypeInit, TypeNext, CourseInit, CourseNext, RecordsInit, RecordsNext, CeilingInit,
           CeilingNext, PTL DEF Spec

-----------------------------------------------------------------------------
(* The promise.  A run that is no resumption maps step by step to           *)
(* LoopPromise: what it is about to say when it leaves the loop is          *)
(* justified by the round it is in and by what that round has reached.      *)

\* a reason is justified
Justified(reason) ==
  \/ reason = "max_iter_reached" /\ current_iter = MaxIter
  \/ reason \in {"coverage_ceiling", "execute_fail_loop", "budget_exhausted"} /\ Judged
  \/ reason \in {"gen_no_output", "verify_fail_exceeded"} /\ current_iter > 0 /\ ~Judged

\* the exit the loop is left for
ExitReady ==
  \/ exit.status = "done" /\ exit.reason = "threshold_met" /\ Level # "open"
  \/ exit.status = "early_stop" /\ Justified(exit.reason)

PathInv == Fresh =>
  /\ max_iter = MaxIter /\ current_iter <= MaxIter
  /\ pc \in {"analyze", "build", "baseline"} => current_iter = 0 /\ baseline = NoReport
  /\ pc = "head" => current_iter = iter_n - 1
  /\ pc = "exit" => ExitReady

\* A run begins before its first round, without a baseline.
LEMMA PathInit == Init => PathInv
<1> SUFFICES ASSUME Init PROVE PathInv
  OBVIOUS
<1>1. pc = "analyze" /\ max_iter = MaxIter /\ current_iter = 0 /\ baseline = NoReport
  BY DEF Init
<1> QED BY <1>1, LoopConstants DEF PathInv

\* Steps that are no round begun and no round measured leave what the promise is about.
LEMMA Stutters ==
  ASSUME \/ Analyze \/ BuildOk \/ WorkToDo \/ RoundsExhausted \/ Gap \/ Gen \/ TestsGenerated
         \/ GenGivesUp \/ Review \/ Execute \/ PersistExecution \/ Quality \/ JudgeMet \/ JudgeStop
         \/ JudgeContinue \/ ReportMissing \/ Finalize \/ UNCHANGED vars
  PROVE  UNCHANGED <<iterations, current_iter, previous, baseline, shape, status, exit_reason>>
<1>1. CASE Analyze \/ BuildOk \/ WorkToDo \/ RoundsExhausted
  BY <1>1 DEF Analyze, BuildOk, WorkToDo, RoundsExhausted, Call, stateFile, notUsage, exitState,
              locals, notExit, inputs, history
<1>2. CASE Gap \/ Gen \/ TestsGenerated \/ GenGivesUp
  BY <1>2 DEF Gap, Gen, TestsGenerated, GenGivesUp, Call, stateFile, notUsage, exitState, inputs,
              history
<1>3. CASE Review
  BY <1>3 DEF Review, DocGateFails, VerifyAgent, GenFix, Call, stateFile, notUsage, exitState,
              inputs, history
<1>4. CASE Execute \/ PersistExecution \/ Quality
  BY <1>4 DEF Execute, PersistExecution, Quality, Call, stateFile, notUsage, exitState, locals,
              inputs, history
<1>5. CASE JudgeMet \/ JudgeStop \/ JudgeContinue
  BY <1>5 DEF JudgeMet, JudgeStop, JudgeContinue, stateFile, exitState, notExit, inputs, history
<1>6. CASE ReportMissing \/ Finalize \/ UNCHANGED vars
  BY <1>6 DEF ReportMissing, Finalize, vars, stateFile, exitState, locals, inputs, history
<1> QED BY <1>1, <1>2, <1>3, <1>4, <1>5, <1>6

\* What was reached stays the same while no report is added.
LEMMA SameLevel ==
  ASSUME UNCHANGED <<previous, baseline, shape>>
  PROVE  Level' = Level
<1>1. GapSource' = GapSource
  BY DEF GapSource
<1>2. Met(previous)' <=> Met(previous)
  BY SameMet
<1>3. Full(GapSource)' <=> Full(GapSource)
  BY <1>1 DEF Full, Vacuous, CondPct
<1> QED BY <1>2, <1>3 DEF Level

\* A round is judged or not as its record says.
LEMMA JudgedRecord ==
  ASSUME TypeInv, CourseInv, pc \in InRound, UNCHANGED current_iter,
         NEW rec, UpdateIteration(rec)
  PROVE  /\ Judged  <=> iterations[iter_n].coverage_after # NoMetrics
         /\ Judged' <=> rec.coverage_after # NoMetrics
         /\ current_iter > 0
<1>1. /\ iter_n \in Rounds /\ iterations \in [Rounds -> Record] /\ current_iter = iter_n
      /\ \A i \in Rounds : i > 0
  <2>1. \A i \in Rounds : i > 0
    BY LoopConstants DEF Rounds
  <2> QED BY <2>1, RoundIsOpen DEF TypeInv, TypeOK, StateFileOK, CourseInv
<1>2. iterations'[iter_n] = rec
  BY <1>1 DEF UpdateIteration
<1> QED BY <1>1, <1>2 DEF Judged

\* The round in progress has no result before the judgement, and has one then.
LEMMA JudgedHere ==
  ASSUME TypeInv, CourseInv, DoneInv, RecordsInv, Fresh, pc \in InRound
  PROVE  /\ Judged <=> pc = "judge"
         /\ current_iter > 0
<1>1. /\ iter_n \in Rounds /\ current_iter = iter_n /\ \A i \in Rounds : i > 0
  <2>1. \A i \in Rounds : i > 0
    BY LoopConstants DEF Rounds
  <2> QED BY <2>1, RoundIsOpen DEF CourseInv
<1>2. pc # "judge" => iterations[iter_n].coverage_after = NoMetrics
  BY DEF RecordsInv
<1>3. pc = "judge" => iterations[iter_n].coverage_after # NoMetrics
  BY ReportMetrics DEF DoneInv, TypeInv, TypeOK, PlaceInv
<1> QED BY <1>1, <1>2, <1>3 DEF Judged

\* The rounds: the steps that record their results.
LEMMA Measures ==
  ASSUME TypeInv, CourseInv, DoneInv, RecordsInv, Fresh,
         AlreadyCovered \/ NothingToAim \/ RecordCoverage
  PROVE  /\ UNCHANGED <<current_iter, status, exit_reason>>
         /\ ~Judged /\ Judged' /\ current_iter > 0 /\ status = "running"
<1>1. /\ pc \in {"check", "cover"} /\ UNCHANGED <<current_iter, status, exit_reason>>
  BY DEF AlreadyCovered, NothingToAim, RecordCoverage, Goto, notRecords, exitState
<1>2. shape \in Shapes
  BY DEF TypeInv, TypeOK
<1>3. ~Judged /\ current_iter > 0
  BY <1>1, JudgedHere DEF InRound, AfterBaseline
<1>4. /\ iter_n \in Rounds /\ iterations[iter_n] \in Record
  BY <1>1, RoundIsOpen DEF TypeInv, TypeOK, StateFileOK, InRound, AfterBaseline
<1>5. \E rec : UpdateIteration(rec) /\ rec.coverage_after # NoMetrics
  <2>1. CASE AlreadyCovered
    <3>1. VacuousMetrics(GapSource) # NoMetrics
      BY <1>2, <2>1, GapSourceType, ReportMetrics DEF AlreadyCovered, AfterBaseline
    <3>2. PICK d \in {"up", "flat"} :
            UpdateIteration([iterations[iter_n] EXCEPT
                               !.coverage_after = VacuousMetrics(GapSource), !.delta = d])
      BY <2>1 DEF AlreadyCovered
    <3> DEFINE rec == [iterations[iter_n] EXCEPT
                         !.coverage_after = VacuousMetrics(GapSource), !.delta = d]
    <3>3. rec.coverage_after = VacuousMetrics(GapSource)
      BY <1>4 DEF Record
    <3> QED BY <3>1, <3>2, <3>3
  <2>2. CASE NothingToAim
    <3>1. Metrics(GapSource) # NoMetrics
      BY <1>2, <2>2, GapSourceType, ReportMetrics DEF NothingToAim, AfterBaseline
    <3> DEFINE rec == [iterations[iter_n] EXCEPT !.coverage_after = Metrics(GapSource)]
    <3>2. rec.coverage_after = Metrics(GapSource) /\ UpdateIteration(rec)
      BY <1>4, <2>2 DEF NothingToAim, Record
    <3> QED BY <3>1, <3>2
  <2>3. CASE RecordCoverage
    <3>1. Metrics(coverage_json[iter_n]) # NoMetrics
      BY <1>2, <2>3, ReportMetrics DEF RecordCoverage, Goto, TypeInv, PlaceInv
    <3> DEFINE rec == [iterations[iter_n] EXCEPT
                         !.coverage_after = Metrics(coverage_json[iter_n]),
                         !.delta = Delta(coverage_json[iter_n], GapSource)]
    <3>2. rec.coverage_after = Metrics(coverage_json[iter_n]) /\ UpdateIteration(rec)
      BY <1>4, <2>3 DEF RecordCoverage, Record
    <3> QED BY <3>1, <3>2
  <2> QED BY <2>1, <2>2, <2>3
<1>6. Judged'
  BY <1>1, <1>5, JudgedRecord DEF InRound, AfterBaseline
<1>7. status = "running"
  BY <1>1 DEF CourseInv, Closing, Lost
<1> QED BY <1>1, <1>3, <1>6, <1>7

\* The records that are changed without being judged anew.
LEMMA Rewrites ==
  ASSUME TypeInv, CourseInv, DoneInv, RecordsInv, Fresh, GenEmpty \/ RecordVerdict \/ JudgeVacuous
  PROVE  /\ UNCHANGED <<current_iter, previous, baseline, shape, status, exit_reason>>
         /\ Judged' = Judged
<1>1. /\ pc \in InRound
      /\ UNCHANGED <<current_iter, previous, baseline, shape, status, exit_reason>>
  BY DEF GenEmpty, RecordVerdict, JudgeVacuous, notRecords, exitState, notExit, inputs, history,
         InRound, AfterBaseline
<1>2. /\ iter_n \in Rounds /\ iterations[iter_n] \in Record /\ shape \in Shapes
  BY <1>1, RoundIsOpen DEF TypeInv, TypeOK, StateFileOK
<1>3. \E rec : /\ UpdateIteration(rec)
               /\ rec.coverage_after # NoMetrics <=> iterations[iter_n].coverage_after # NoMetrics
  <2>1. CASE GenEmpty
    <3> DEFINE rec == [iterations[iter_n] EXCEPT !.gen_output = "empty"]
    <3>1. UpdateIteration(rec) /\ rec.coverage_after = iterations[iter_n].coverage_after
      BY <1>2, <2>1 DEF GenEmpty, Record
    <3> QED BY <3>1
  <2>2. CASE RecordVerdict
    <3> DEFINE rec == [iterations[iter_n] EXCEPT !.execute_verdict = verdict, !.gen_output = "ok"]
    <3>1. UpdateIteration(rec) /\ rec.coverage_after = iterations[iter_n].coverage_after
      BY <1>2, <2>2 DEF RecordVerdict, Record
    <3> QED BY <3>1
  <2>3. CASE JudgeVacuous
    <3> DEFINE rec == [iterations[iter_n] EXCEPT !.coverage_after = VacuousMetrics(previous)]
    <3>1. UpdateIteration(rec) /\ rec.coverage_after = VacuousMetrics(previous)
      BY <1>2, <2>3 DEF JudgeVacuous, Record
    <3>2. /\ VacuousMetrics(previous) # NoMetrics /\ Metrics(previous) # NoMetrics
          /\ iterations[iter_n].coverage_after = Metrics(previous)
      BY <1>2, <2>3, ReportMetrics DEF JudgeVacuous, TypeInv, PlaceInv, DoneInv
    <3> QED BY <3>1, <3>2
  <2> QED BY <2>1, <2>2, <2>3
<1>4. Judged' <=> Judged
  BY <1>1, <1>3, JudgedRecord
<1> QED BY <1>1, <1>4 DEF Judged

\* What the promise has of a round begun, and of a report, at each step.
LEMMA StepCounts ==
  ASSUME Step
  PROVE  /\ UNCHANGED max_iter
         /\ UNCHANGED current_iter \/ StartIteration
<1>1. CASE Prepare
  BY <1>1 DEF Prepare, Analyze, BuildOk, BuildFails, Baseline, Call, stateFile, notUsage
<1>2. CASE Open
  BY <1>2 DEF Open, StartIteration, RoundsExhausted, AlreadyCovered, NothingToAim, WorkToDo,
              stateFile, notRecords
<1>3. CASE Generate
  BY <1>3 DEF Generate, Gap, Gen, TestsGenerated, GenEmpty, GenGivesUp, Call, stateFile,
              notUsage, notRecords
<1>4. CASE Review
  BY <1>4 DEF Review, DocGateFails, VerifyAgent, GenFix, Call, stateFile, notUsage
<1>5. CASE Measure
  BY <1>5 DEF Measure, Execute, PersistExecution, RecordVerdict, Quality, RecordCoverage, Call,
              stateFile, notUsage, notRecords
<1>6. CASE Judge \/ Close
  BY <1>6 DEF Judge, JudgeMet, JudgeVacuous, JudgeStop, JudgeContinue, Close, SetExit,
              ReportMissing, Finalize, stateFile, notRecords
<1> QED BY <1>1, <1>2, <1>3, <1>4, <1>5, <1>6 DEF Step

\* The way from step to step.
LEMMA StepPlaces ==
  ASSUME Step
  PROVE  /\ pc' \in {"analyze", "build", "baseline"} => Analyze \/ BuildOk
         /\ pc' = "head" => Baseline \/ GenEmpty \/ JudgeContinue \/ StartIteration
         /\ pc' = "exit" => \/ RoundsExhausted \/ AlreadyCovered \/ NothingToAim \/ GenGivesUp
                            \/ Review \/ JudgeMet \/ JudgeVacuous \/ JudgeStop
<1>1. CASE Prepare
  BY <1>1 DEF Prepare, Analyze, BuildOk, BuildFails, Baseline, Goto
<1>2. CASE Open
  BY <1>2, LeaveFields DEF Open, StartIteration, RoundsExhausted, AlreadyCovered, NothingToAim,
     WorkToDo
<1>3. CASE Generate
  BY <1>3, LeaveFields DEF Generate, Gap, Gen, TestsGenerated, GenEmpty, GenGivesUp, Goto
<1>4. CASE Review
  <2>1. PICK pass : AfterReview(pass) \/ pc' = "verify"
    BY <1>4 DEF Review, DocGateFails, VerifyAgent, GenFix, Goto
  <2>2. pc' \in {"execute", "gen_fix", "verify", "exit"}
    BY <2>1, LeaveFields DEF AfterReview
  <2> QED BY <1>4, <2>2
<1>5. CASE Measure
  BY <1>5 DEF Measure, Execute, PersistExecution, RecordVerdict, Quality, RecordCoverage, Goto
<1>6. CASE Judge
  BY <1>6, LeaveFields DEF Judge, JudgeMet, JudgeVacuous, JudgeStop, JudgeContinue, Goto
<1>7. CASE Close
  BY <1>7 DEF Close, SetExit, ReportMissing, Finalize, Goto
<1> QED BY <1>1, <1>2, <1>3, <1>4, <1>5, <1>6, <1>7 DEF Step

\* The exits with threshold_met: something was reached.
LEMMA DoneReady ==
  ASSUME TypeInv, CourseInv, DoneInv, AlreadyCovered \/ JudgeMet \/ JudgeVacuous
  PROVE  exit'.status = "done" /\ exit'.reason = "threshold_met" /\ Level' # "open"
<1>1. /\ exit'.status = "done" /\ exit'.reason = "threshold_met"
      /\ UNCHANGED <<previous, baseline, shape>>
  BY DoneForCause, LeaveFields DEF AlreadyCovered, JudgeMet, JudgeVacuous
<1>2. Level # "open"
  <2>1. CASE AlreadyCovered
    BY <2>1 DEF AlreadyCovered, NothingUncovered, BranchesOk, Full, Level
  <2>2. CASE JudgeMet \/ JudgeVacuous
    <3>1. pc = "judge" /\ Met(previous)
      BY <2>2, JudgesMet DEF JudgeMet, JudgeVacuous
    <3>2. previous # NoReport
      BY <3>1, NoReportIsNone DEF TypeInv, PlaceInv
    <3> QED BY <3>1, <3>2 DEF Level
  <2> QED BY <2>1, <2>2
<1> QED BY <1>1, <1>2, SameLevel

\* The exits for another reason: the reason is justified.
LEMMA StopReady ==
  ASSUME TypeInv, CourseInv, DoneInv, RecordsInv, PathInv, Fresh, pc' = "exit",
         RoundsExhausted \/ NothingToAim \/ GenGivesUp \/ Review \/ JudgeStop
  PROVE  exit'.status = "early_stop" /\ Justified(exit.reason)'
<1>1. current_iter \in Nat /\ iter_n \in Nat /\ max_iter = MaxIter /\ current_iter <= MaxIter
  BY LoopConstants DEF TypeInv, TypeOK, StateFileOK, LocalsOK, PathInv
<1>2. CASE RoundsExhausted
  <2>1. /\ exit'.status = "early_stop" /\ exit'.reason = "max_iter_reached"
        /\ pc = "head" /\ iter_n > end_iter /\ UNCHANGED current_iter
    BY <1>2, LeaveFields DEF RoundsExhausted, stateFile
  <2>2. current_iter = iter_n - 1 /\ end_iter = max_iter
    BY <2>1 DEF PathInv, CourseInv, Lost
  <2>3. current_iter = MaxIter
    BY <1>1, <2>1, <2>2, LoopConstants
  <2> QED BY <2>1, <2>3 DEF Justified
<1>3. CASE NothingToAim
  BY <1>3, LeaveFields, Measures DEF NothingToAim, Justified
<1>4. CASE GenGivesUp \/ Review
  <2>1. /\ pc \in InRound \ {"judge"}
        /\ UNCHANGED <<current_iter, iterations>>
    BY <1>4, Stutters DEF GenGivesUp, Review, DocGateFails, VerifyAgent, GenFix, Goto,
                          InRound, AfterBaseline
  <2>2. PICK reason \in {"gen_no_output", "verify_fail_exceeded"} :
          Leave("early_stop", reason, NoMetrics)
    <3>1. CASE GenGivesUp
      BY <3>1 DEF GenGivesUp
    <3>2. CASE Review
      <4>1. PICK pass : AfterReview(pass) \/ pc' = "verify"
        BY <3>2 DEF Review, DocGateFails, VerifyAgent, GenFix, Goto
      <4> QED BY <4>1 DEF AfterReview
    <3> QED BY <1>4, <3>1, <3>2
  <2>3. current_iter > 0 /\ ~Judged
    BY <2>1, JudgedHere
  <2>4. current_iter' > 0 /\ ~Judged'
    BY <2>1, <2>3 DEF Judged
  <2> QED BY <2>2, <2>4, LeaveFields DEF Justified
<1>5. CASE JudgeStop
  <2>1. pc = "judge" /\ UNCHANGED <<current_iter, iterations>>
    BY <1>5, Stutters DEF JudgeStop
  <2>2. Judged'
    BY <2>1, JudgedHere DEF Judged, InRound, AfterBaseline
  <2>3. CASE Leave("early_stop", "budget_exhausted", Metrics(previous))
    BY <2>2, <2>3, LeaveFields DEF Justified
  <2>4. CASE check_early_stop # "" /\ Leave("early_stop", check_early_stop, Metrics(previous))
    <3>1. exit'.status = "early_stop" /\ exit'.reason = check_early_stop
      BY <2>4, LeaveFields
    <3>2. CASE LastRound
      <4>1. current_iter = MaxIter
        BY <1>1, <3>2, LoopConstants DEF LastRound
      <4>2. check_early_stop = "max_iter_reached"
        BY <3>2 DEF check_early_stop
      <4> QED BY <2>1, <3>1, <4>1, <4>2 DEF Justified
    <3>3. CASE ~LastRound
      <4>1. check_early_stop \in {"execute_fail_loop", "coverage_ceiling"}
        BY <2>4, <3>3 DEF check_early_stop
      <4> QED BY <2>2, <3>1, <4>1 DEF Justified
    <3> QED BY <3>2, <3>3
  <2> QED BY <1>5, <2>3, <2>4 DEF JudgeStop
<1> QED BY <1>2, <1>3, <1>4, <1>5

\* A step of a run that is no resumption keeps its rounds in order and its exit justified.
LEMMA PathStep ==
  ASSUME TypeInv, CourseInv, DoneInv, RecordsInv, PathInv, Fresh, Step
  PROVE  PathInv'
<1>1. /\ max_iter = MaxIter /\ current_iter <= MaxIter /\ iter_n \in Nat /\ end_iter = max_iter
  <2>1. iter_n \in Nat
    BY LoopConstants DEF TypeInv, TypeOK, LocalsOK
  <2> QED BY <2>1 DEF PathInv, CourseInv, Fresh
<1>2. max_iter' = MaxIter /\ current_iter' <= MaxIter
  <2>1. CASE StartIteration
    BY <1>1, <2>1 DEF StartIteration
  <2>2. CASE UNCHANGED current_iter
    BY <1>1, <2>2, StepCounts
  <2> QED BY <1>1, <2>1, <2>2, StepCounts
<1>3. ASSUME pc' \in {"analyze", "build", "baseline"}
      PROVE  current_iter' = 0 /\ baseline' = NoReport
  <2>1. Analyze \/ BuildOk
    BY <1>3, StepPlaces
  <2>2. pc \in {"analyze", "build"}
    BY <2>1 DEF Analyze, BuildOk, Goto
  <2> QED BY <2>1, <2>2, Stutters DEF PathInv
<1>4. ASSUME pc' = "head" PROVE current_iter' = iter_n' - 1
  <2>1. CASE Baseline
    BY <2>1 DEF Baseline, Goto, stateFile, PathInv, RecordsInv
  <2>2. CASE GenEmpty \/ JudgeContinue
    <3>1. pc \in InRound /\ iter_n' = iter_n + 1 /\ UNCHANGED current_iter
      BY <2>2 DEF GenEmpty, JudgeContinue, Goto, stateFile, notRecords, InRound, AfterBaseline
    <3>2. current_iter = iter_n
      BY <3>1 DEF CourseInv
    <3> QED BY <1>1, <3>1, <3>2
  <2>3. CASE StartIteration
    BY <1>4, <2>3 DEF StartIteration, Fresh
  <2> QED BY <1>4, <2>1, <2>2, <2>3, StepPlaces
<1>5. ASSUME pc' = "exit" PROVE ExitReady'
  <2>1. CASE AlreadyCovered \/ JudgeMet \/ JudgeVacuous
    BY <2>1, DoneReady DEF ExitReady
  <2>2. CASE RoundsExhausted \/ NothingToAim \/ GenGivesUp \/ Review \/ JudgeStop
    BY <1>5, <2>2, StopReady DEF ExitReady
  <2> QED BY <1>5, <2>1, <2>2, StepPlaces
<1> QED BY <1>2, <1>3, <1>4, <1>5 DEF PathInv

\* The same for any step, crashes and resumptions included.
LEMMA PathNext ==
  TypeInv /\ CourseInv /\ DoneInv /\ RecordsInv /\ PathInv /\ [Next]_vars => PathInv'
<1> SUFFICES ASSUME TypeInv, CourseInv, DoneInv, RecordsInv, PathInv, [Next]_vars, Fresh'
             PROVE  PathInv'
  BY DEF PathInv
<1>1. CASE Step
  BY <1>1, FreshBefore, PathStep
<1>2. CASE UNCHANGED vars
  <2>1. /\ UNCHANGED <<iterations, current_iter, previous, baseline, shape>>
        /\ UNCHANGED <<max_iter, pc, iter_n, exit>>
    BY <1>2 DEF vars, stateFile, locals, inputs, history
  <2>2. Judged' = Judged /\ Level' = Level
    BY <2>1, SameLevel DEF Judged
  <2> QED BY <2>1, <2>2, FreshBefore DEF PathInv, ExitReady, Justified
<1> QED BY <1>1, <1>2, FreshBefore

\* What the promise calls the outcome.
Outcome == IF status = "running" THEN "open" ELSE exit_reason

\* A run begins where the promise does.
LEMMA PromiseInit == Init => Promise!Init
<1> SUFFICES ASSUME Init PROVE Promise!Init
  OBVIOUS
<1>1. /\ current_iter = 0 /\ status = "running" /\ shape \in Shapes
      /\ previous = NoReport /\ baseline = NoReport
  BY DEF Init
<1>2. ~Judged
  BY <1>1 DEF Judged, Rounds
<1>3. NoReport.func # shape.funcs
  BY <1>1, LoopConstants DEF NoReport, ShapeType
<1>4. Level = "open"
  BY <1>1, <1>3 DEF Level, GapSource, Full
<1> QED BY <1>1, <1>2, <1>4 DEF Promise!Init, Judged

\* The step that closes a run.
LEMMA PromiseExit ==
  ASSUME TypeInv, CourseInv, MissInv, PathInv, Fresh, SetExit
  PROVE  Promise!Next
<1>1. /\ pc = "exit" /\ status = "running" /\ ExitReady /\ current_iter \in Nat
      /\ status' = exit.status /\ exit_reason' = exit.reason
      /\ UNCHANGED <<current_iter, iterations, previous, baseline, shape>>
  <2>1. /\ pc = "exit" /\ status' = exit.status /\ exit_reason' = exit.reason
        /\ UNCHANGED <<current_iter, iterations, previous, baseline, shape>>
    BY DEF SetExit, Goto, locals, inputs, history
  <2>2. status = "running" /\ ExitReady
    BY <2>1 DEF CourseInv, Closing, Lost, PathInv
  <2>3. current_iter \in Nat
    BY DEF TypeInv, TypeOK, StateFileOK
  <2> QED BY <2>1, <2>2, <2>3
<1>2. Judged' = Judged /\ Level' = Level
  BY <1>1, SameLevel DEF Judged
<1>3. Outcome = "open" /\ Outcome' = exit.reason
  BY <1>1 DEF Outcome, ExitReady
<1>4. CASE exit.status = "done"
  <2>1. exit.reason = "threshold_met" /\ Level # "open"
    BY <1>1, <1>4 DEF ExitReady
  <2>2. Promise!Finish
    BY <1>1, <1>2, <1>3, <2>1 DEF Promise!Finish, Outcome
  <2> QED BY <2>2 DEF Promise!Next, Promise!Progress
<1>5. CASE exit.status = "early_stop"
  <2>1. Justified(exit.reason)
    BY <1>1, <1>5 DEF ExitReady
  <2>2. Level # "met"
    BY <1>1, <1>5 DEF Level, MissInv, Closing
  <2>3. Promise!GiveUp
    BY <1>1, <1>2, <1>3, <2>1, <2>2 DEF Promise!GiveUp, Outcome, Justified
  <2> QED BY <2>3 DEF Promise!Next, Promise!Progress
<1> QED BY <1>1, <1>4, <1>5 DEF ExitReady

\* Every step of a run that is no resumption is a step of the promise, or none.
LEMMA PromiseStep ==
  ASSUME TypeInv, CourseInv, DoneInv, MissInv, RecordsInv, RecordsInv', PathInv, Fresh, Fresh',
         Step \/ UNCHANGED vars
  PROVE  [Promise!Next]_(Promise!vars)
<1>1. CASE UNCHANGED <<current_iter, previous, baseline, shape, status, exit_reason>>
           /\ Judged' = Judged
  <2>1. Level' = Level
    BY <1>1, SameLevel
  <2> QED BY <1>1, <2>1 DEF Promise!vars
<1>2. CASE \/ Analyze \/ BuildOk \/ WorkToDo \/ RoundsExhausted \/ Gap \/ Gen \/ TestsGenerated
           \/ GenGivesUp \/ Review \/ Execute \/ PersistExecution \/ Quality \/ JudgeMet
           \/ JudgeStop \/ JudgeContinue \/ ReportMissing \/ Finalize \/ UNCHANGED vars
  <2>1. UNCHANGED <<iterations, current_iter, previous, baseline, shape, status, exit_reason>>
    BY <1>2, Stutters
  <2> QED BY <1>1, <2>1 DEF Judged
<1>3. CASE GenEmpty \/ RecordVerdict \/ JudgeVacuous
  BY <1>1, <1>3, Rewrites
<1>4. CASE BuildFails
  <2>1. /\ pc = "build" /\ status' = "early_stop" /\ exit_reason' = "build_failed"
        /\ UNCHANGED <<current_iter, iterations, previous, baseline, shape>>
    BY <1>4 DEF BuildFails, Goto, locals, inputs, history
  <2>2. status = "running" /\ current_iter = 0 /\ previous = NoReport
    BY <2>1 DEF CourseInv, Closing, Lost, PathInv, MissInv
  <2>3. Judged' = Judged /\ Level' = Level /\ Level # "met"
    BY <2>1, <2>2, SameLevel DEF Judged, Level
  <2>4. Promise!GiveUp
    BY <2>1, <2>2, <2>3 DEF Promise!GiveUp
  <2> QED BY <2>4 DEF Promise!Next, Promise!Progress
<1>5. CASE Baseline
  <2>1. /\ pc = "baseline" /\ previous' = NoReport
        /\ UNCHANGED <<current_iter, iterations, status, exit_reason, shape>>
    BY <1>5 DEF Baseline, Goto, Fresh, stateFile, exitState, history
  <2>2. /\ status = "running" /\ current_iter = 0 /\ previous = NoReport /\ baseline = NoReport
        /\ Judged' = Judged
    BY <2>1 DEF CourseInv, Closing, Lost, PathInv, MissInv, Judged
  <2>3. Level = "open"
    <3>1. NoReport.func # shape.funcs
      BY LoopConstants DEF NoReport, ShapeType, TypeInv, TypeOK
    <3> QED BY <2>2, <3>1 DEF Level, GapSource, Full
  <2>4. Level' \in {"open", "full"}
    BY <2>1 DEF Level
  <2>5. Level' = "full" => Promise!Baseline
    BY <2>1, <2>2, <2>3 DEF Promise!Baseline
  <2>6. Level' = "open" => UNCHANGED Promise!vars
    BY <2>1, <2>2, <2>3 DEF Promise!vars
  <2> QED BY <2>4, <2>5, <2>6 DEF Promise!Next
<1>6. CASE StartIteration
  <2>1. /\ pc = "head" /\ iter_n <= end_iter /\ current_iter' = iter_n
        /\ pc' = "check" /\ iter_n' = iter_n
        /\ UNCHANGED <<previous, baseline, shape, status, exit_reason>>
    BY <1>6 DEF StartIteration, Fresh, exitState, inputs
  <2>2. /\ status = "running" /\ current_iter = iter_n - 1 /\ end_iter = MaxIter
        /\ iter_n \in Nat
    <3>1. iter_n \in Nat
      BY LoopConstants DEF TypeInv, TypeOK, LocalsOK
    <3> QED BY <2>1, <3>1 DEF CourseInv, Closing, Lost, PathInv
  <2>3. current_iter < MaxIter /\ current_iter' = current_iter + 1
    BY <2>1, <2>2, LoopConstants
  <2>4. ~Judged'
    BY <2>1 DEF Judged, RecordsInv, InRound, AfterBaseline
  <2>5. Level' = Level
    BY <2>1, SameLevel
  <2>6. Promise!Begin
    BY <2>1, <2>2, <2>3, <2>4, <2>5 DEF Promise!Begin, Judged
  <2> QED BY <2>6 DEF Promise!Next, Promise!Progress
<1>7. CASE AlreadyCovered \/ NothingToAim \/ RecordCoverage
  <2>1. /\ UNCHANGED <<current_iter, status, exit_reason>>
        /\ ~Judged /\ Judged' /\ current_iter > 0 /\ status = "running"
    BY <1>7, Measures
  <2>2. Level' \in {"open", "full", "met"}
    BY DEF Level
  <2>3. Promise!Measure
    BY <2>1, <2>2 DEF Promise!Measure, Promise!Levels, Judged
  <2> QED BY <2>3 DEF Promise!Next, Promise!Progress
<1>8. CASE SetExit
  BY <1>8, PromiseExit
<1> QED BY <1>2, <1>3, <1>4, <1>5, <1>6, <1>7, <1>8
        DEF Step, Prepare, Open, Generate, Measure, Judge, Close

\* A process that is neither killed nor resumed stays one that is no resumption.
LEMMA StaysFresh ==
  ASSUME ~AllowCrash, ~AllowResume, Fresh, [Next]_vars
  PROVE  Fresh'
<1>1. CASE UNCHANGED vars
  BY <1>1 DEF vars, locals, span, Fresh
<1>2. CASE Step
  BY <1>2, StepStays DEF Fresh
<1> QED BY <1>1, <1>2 DEF Next, Rest, Crash, CrashInCall, Resume, ResumeFails

\* Up to the moment it is killed, every run that was not resumed is a behaviour of the
\* promise: it works its rounds off in order, has at most one result of each, and is
\* closed at most once, for a reason that holds, done before any other.
THEOREM PromiseUntilCrash ==
  Spec => Promise!Init /\ [][Fresh' => [Promise!Next]_(Promise!vars)]_vars
<1> DEFINE Inv == TypeInv /\ CourseInv /\ DoneInv /\ MissInv /\ RecordsInv /\ PathInv
<1>1. Init => Inv
  BY TypeInit, CourseInit, DoneInit, MissInit, RecordsInit, PathInit
<1>2. Inv /\ [Next]_vars => Inv'
  BY TypeNext, CourseNext, DoneNext, MissNext, RecordsNext, PathNext
<1>3. Inv /\ Inv' /\ [Next]_vars => [Fresh' => [Promise!Next]_(Promise!vars)]_vars
  <2> SUFFICES ASSUME Inv, Inv', [Next]_vars, Fresh' PROVE [Promise!Next]_(Promise!vars)
    OBVIOUS
  <2>1. Fresh /\ (Step \/ UNCHANGED vars)
    BY FreshBefore
  <2> QED BY <2>1, PromiseStep
<1> QED BY <1>1, <1>2, <1>3, PromiseInit, PTL DEF Spec

\* The safety half of KeepsPromise: a run that nothing interrupts is a behaviour of the
\* promise from its first step to its last, whatever its limits, targets and reports.
THEOREM PromiseKept ==
  ASSUME ~AllowCrash, ~AllowResume
  PROVE  Spec => Promise!Init /\ [][Promise!Next]_(Promise!vars)
<1> DEFINE Inv == /\ TypeInv /\ CourseInv /\ DoneInv /\ MissInv /\ RecordsInv /\ PathInv
                  /\ Fresh
<1>1. Init => Inv
  <2>1. Init => Fresh
    BY DEF Init, Fresh, Lost
  <2> QED BY <2>1, TypeInit, CourseInit, DoneInit, MissInit, RecordsInit, PathInit
<1>2. Inv /\ [Next]_vars => Inv'
  BY TypeNext, CourseNext, DoneNext, MissNext, RecordsNext, PathNext, StaysFresh
<1>3. Inv /\ Inv' /\ [Next]_vars => [Promise!Next]_(Promise!vars)
  <2> SUFFICES ASSUME Inv, Inv', [Next]_vars PROVE [Promise!Next]_(Promise!vars)
    OBVIOUS
  <2>1. Step \/ UNCHANGED vars
    BY FreshBefore
  <2> QED BY <2>1, PromiseStep
<1> QED BY <1>1, <1>2, <1>3, PromiseInit, PTL DEF Spec

==============================================================================
