------------------------- MODULE CoverageLoop_proofs -------------------------
(***************************************************************************)
(* Type correctness and invariants of CoverageLoop for every value of its  *)
(* constants, crashes and resumptions included.                            *)
(***************************************************************************)
EXTENDS CoverageLoop, NatLemmas

-----------------------------------------------------------------------------
(* Percentages and reports *)

LEMMA PctRange ==
  ASSUME NEW t \in Nat, NEW h \in 0..t
  PROVE  Pct(h, t) \in 0..100
<1>1. CASE t = 0
  BY <1>1 DEF Pct
<1>2. CASE t # 0
  <2>1. h * 100 <= 100 * t /\ h * 100 >= 0 /\ t > 0
    BY <1>2
  <2> DEFINE q == (h * 100) \div t
  <2>2. q \in Int /\ t * q <= h * 100 /\ h * 100 < t * (q + 1)
    BY <2>1
  <2>3. q <= 100
    BY <2>1, <2>2
  <2>4. q >= 0
    BY <2>1, <2>2
  <2> QED BY <1>2, <2>2, <2>3, <2>4 DEF Pct
<1> QED BY <1>1, <1>2

LEMMA ReportMetrics ==
  ASSUME shape \in Shapes, NEW r \in Report
  PROVE  /\ Metrics(r) \in [func : 0..100, cond : 0..100]
         /\ VacuousMetrics(r) \in [func : 0..100, cond : 0..100]
         /\ Metrics(r) # NoMetrics /\ VacuousMetrics(r) # NoMetrics
<1>1. shape.funcs \in Nat /\ shape.branches \in Nat
  BY LoopConstants DEF ShapeType
<1>2. r.func \in 0..shape.funcs /\ r.branch \in 0..shape.branches
  BY DEF Report
<1>3. FuncPct(r) \in 0..100 /\ CondPct(r) \in 0..100
  BY <1>1, <1>2, PctRange DEF FuncPct, CondPct
<1> QED BY <1>3 DEF Metrics, VacuousMetrics, NoMetrics

LEMMA NoReportIsNone == NoReport \notin Report
BY DEF NoReport, Report

-----------------------------------------------------------------------------
(* What a resumed run reads back, and what ends a run *)

\* the rounds are 1..RoundBound, and there is one
LEMMA RoundFacts == /\ RoundBound \in Nat /\ 1 \in Rounds /\ MaxIter \in Rounds
                    /\ \A i \in Rounds : i \in Nat /\ i + 1 \in 1..(RoundBound + 1)
BY LoopConstants DEF Rounds

LEMMA ResumeStartRange == ResumeStartIter \in 1..(RoundBound + 1)
<1> DEFINE open == {i \in Started : ~Complete(i)}
<1>1. Started \in SUBSET Rounds /\ open \in SUBSET Rounds
  BY DEF Started
<1>2. Rounds \in SUBSET (0..RoundBound) /\ Rounds \in SUBSET Nat
  BY RoundFacts DEF Rounds
<1>3. CASE Started = {}
  BY <1>3, RoundFacts DEF ResumeStartIter
<1>4. CASE Started # {} /\ open = {}
  <2>1. \E m \in Started : \A j \in Started : j <= m
    BY <1>1, <1>2, <1>4, RoundFacts, GreatestElement
  <2>2. LastStarted \in Started
    BY <2>1 DEF LastStarted
  <2>3. LastStarted + 1 \in 1..(RoundBound + 1)
    BY <1>1, <2>2, RoundFacts
  <2> QED BY <1>4, <2>3 DEF ResumeStartIter
<1>5. CASE Started # {} /\ open # {}
  <2>1. \E m \in open : \A j \in open : m <= j
    BY <1>1, <1>2, <1>5, LeastElement
  <2> DEFINE first == CHOOSE i \in open : \A j \in open : i <= j
  <2>2. first \in open
    BY <2>1
  <2>3. first \in 1..(RoundBound + 1)
    BY <1>1, <2>2, RoundFacts DEF Rounds
  <2>4. ResumeStartIter = first
    BY <1>5 DEF ResumeStartIter
  <2> QED BY <2>3, <2>4
<1> QED BY <1>3, <1>4, <1>5

LEMMA LastCoverageType ==
  ASSUME NEW R, NEW covs \in [0..RoundBound -> R \cup {NoReport}]
  PROVE  LastCoverage(covs) \in R \cup {NoReport}
<1> DEFINE have == {i \in 0..RoundBound : covs[i] # NoReport}
<1>1. CASE have = {}
  BY <1>1 DEF LastCoverage
<1>2. CASE have # {}
  <2>1. \E m \in have : \A j \in have : j <= m
    BY <1>2, RoundFacts, GreatestElement
  <2> DEFINE last == CHOOSE i \in have : \A j \in have : j <= i
  <2>2. last \in have
    BY <2>1
  <2>3. covs[last] \in R \cup {NoReport}
    BY <2>2
  <2>4. LastCoverage(covs) = covs[last]
    BY <1>2 DEF LastCoverage
  <2> QED BY <2>3, <2>4
<1> QED BY <1>1, <1>2

LEMMA EarlyStopReasons == check_early_stop \in Reasons
BY DEF check_early_stop, Reasons

LEMMA CappedRange == \A x \in Nat : Capped(x) \in 0..MaxCost
BY LoopConstants DEF Capped

LEMMA CallTypes ==
  ASSUME NEW costs \in SUBSET Nat, Call(costs), spent \in 0..MaxCost
  PROVE  spent' \in 0..MaxCost /\ usage' \in 0..MaxCost
<1>1. PICK c \in costs : spent' = Capped(spent + c) /\ usage' = Capped(spent + c)
  BY DEF Call
<1>2. spent + c \in Nat
  BY LoopConstants
<1> QED BY <1>1, <1>2, CappedRange

LEMMA CostSets == Costs \in SUBSET Nat /\ (Costs \cup {0}) \in SUBSET Nat
BY LoopConstants

LEMMA UpdateTypes ==
  ASSUME NEW rec \in Record, iterations \in [Rounds -> Record], UpdateIteration(rec)
  PROVE  iterations' \in [Rounds -> Record]
BY DEF UpdateIteration

-----------------------------------------------------------------------------
(* The inductive invariant.  TypeOK alone is not inductive: that a round's  *)
(* number, report and verdict are there when they are used follows from     *)
(* where the process is.                                                    *)

AfterBaseline == {"head", "check", "gap", "gen", "gened", "verify", "gen_fix", "execute",
                  "persist", "record", "quality", "cover", "judge"}
InRound == AfterBaseline \ {"head"}

PlaceInv ==
  /\ pc \in AfterBaseline => baseline \in Report
  /\ pc \in InRound => iter_n \in Rounds
  /\ pc \in {"persist", "record", "quality", "cover"} => coverage_json[iter_n] \in Report
  /\ pc \in {"persist", "record"} => verdict \in AllVerdicts
  /\ pc = "judge" => previous \in Report
  /\ pc = "gen_fix" => attempt < MaxVerifyRetry
  /\ pc \in AfterBaseline \cup {"analyze", "build", "baseline"} => consecutive_gen_empty <= 1

TypeInv == TypeOK /\ PlaceInv

LEMMA TypeInit == Init => TypeInv
<1> SUFFICES ASSUME Init PROVE TypeInv
  OBVIOUS
<1>1. /\ 1 \in 1..RoundBound /\ MaxIter \in 1..RoundBound /\ 1 \in 1..(RoundBound + 1)
      /\ 0 \in 0..MaxCost /\ 0 \in 0..MaxVerifyRetry /\ 0 \in 0..RoundBound /\ 0 \in 0..2
  BY LoopConstants
<1>2. NoRecord \in Record
  BY DEF NoRecord, Record, NoMetrics
<1>3. NoMetrics \in MetricsType
  BY DEF NoMetrics, MetricsType
<1>4. StateFileOK
  BY <1>1, <1>2, <1>3 DEF Init, StateFileOK, Statuses, Reasons
<1>5. ArtifactsOK
  BY DEF Init, ArtifactsOK
<1>6. LocalsOK
  BY <1>1, <1>3 DEF Init, LocalsOK, NoExit, Statuses, Reasons
<1>7. pc = "analyze" /\ consecutive_gen_empty = 0 /\ shape \in Shapes
      /\ reviewed \subseteq Rounds /\ overdrawn \in Nat
  BY DEF Init
<1>8. TypeOK
  BY <1>4, <1>5, <1>6, <1>7 DEF TypeOK, Steps, SavesState
<1>9. PlaceInv
  BY <1>7 DEF PlaceInv, AfterBaseline, InRound
<1> QED BY <1>8, <1>9 DEF TypeInv

\* Leaving the loop is well typed, and the place needs nothing.
LEMMA LeaveTypes ==
  ASSUME NEW stat \in Statuses, NEW reason \in Reasons, NEW metrics \in MetricsType,
         Leave(stat, reason, metrics)
  PROVE  /\ pc' = "exit"
         /\ exit' \in [status : Statuses, reason : Reasons, metrics : MetricsType]
BY DEF Leave

\* Where nothing is asked of the place.
LEMMA ElsewherePlace ==
  ASSUME pc' \in {"exit", "wrapup", "finalize"} \cup Halted
  PROVE  PlaceInv'
BY DEF PlaceInv, AfterBaseline, InRound, Halted

LEMMA RecordFields ==
  ASSUME NEW rec \in Record, NEW m \in MetricsType, NEW d \in {"none", "up", "flat"},
         NEW v \in AllVerdicts
  PROVE  /\ [rec EXCEPT !.started = TRUE] \in Record
         /\ [rec EXCEPT !.gen_output = "empty"] \in Record
         /\ [rec EXCEPT !.coverage_after = m] \in Record
         /\ [rec EXCEPT !.coverage_after = m, !.delta = d] \in Record
         /\ [rec EXCEPT !.execute_verdict = v, !.gen_output = "ok"] \in Record
BY DEF Record, MetricsType

\* Each of the ways a round's record is updated leaves a record.
LEMMA RecordUpdates ==
  ASSUME TypeInv, iter_n \in Rounds,
         NEW m \in MetricsType, NEW d \in {"none", "up", "flat"}, NEW v \in AllVerdicts,
         \/ UpdateIteration([iterations[iter_n] EXCEPT !.started = TRUE])
         \/ UpdateIteration([iterations[iter_n] EXCEPT !.gen_output = "empty"])
         \/ UpdateIteration([iterations[iter_n] EXCEPT !.coverage_after = m])
         \/ UpdateIteration([iterations[iter_n] EXCEPT !.coverage_after = m, !.delta = d])
         \/ UpdateIteration([iterations[iter_n] EXCEPT !.execute_verdict = v,
                                                       !.gen_output = "ok"])
  PROVE  iterations' \in [Rounds -> Record]
<1>1. iterations \in [Rounds -> Record] /\ iterations[iter_n] \in Record
  BY DEF TypeInv, TypeOK, StateFileOK
<1>2. PICK rec \in Record : UpdateIteration(rec)
  BY <1>1, RecordFields
<1> QED BY <1>1, <1>2, UpdateTypes

LEMMA SomeFields == NoMetrics \in MetricsType /\ "PASS" \in AllVerdicts
BY DEF NoMetrics, MetricsType, AllVerdicts

LEMMA GapSourceType ==
  ASSUME TypeInv, pc \in AfterBaseline
  PROVE  /\ GapSource \in Report
         /\ Metrics(GapSource) \in MetricsType /\ VacuousMetrics(GapSource) \in MetricsType
<1>1. GapSource \in Report
  BY DEF TypeInv, TypeOK, LocalsOK, PlaceInv, GapSource
<1>2. shape \in Shapes
  BY DEF TypeInv, TypeOK
<1> QED BY <1>1, <1>2, ReportMetrics DEF MetricsType

LEMMA RoundIsOpen ==
  ASSUME TypeInv, pc \in InRound
  PROVE  iter_n \in Rounds
BY DEF TypeInv, PlaceInv

LEMMA ZeroTypes == 0 \in 0..2 /\ 0 \in 0..MaxVerifyRetry /\ 0 <= 1
BY LoopConstants

LEMMA NoExitType == NoExit \in [status : Statuses, reason : Reasons, metrics : MetricsType]
BY DEF NoExit, Statuses, Reasons, NoMetrics, MetricsType

LEMMA OneTypes == 1 \in 1..(RoundBound + 1) /\ MaxIter \in 1..RoundBound /\ 0 \in 0..MaxCost
BY LoopConstants

\* A review is passed, the run given up, or a repair still allowed.
LEMMA AfterReviewTypes ==
  ASSUME TypeInv, NEW pass \in BOOLEAN, AfterReview(pass)
  PROVE  /\ pc' \in {"execute", "exit", "gen_fix"}
         /\ exit' \in [status : Statuses, reason : Reasons, metrics : MetricsType]
         /\ attempt' \in 0..MaxVerifyRetry /\ has_files' \in BOOLEAN
         /\ pc' = "gen_fix" => attempt' < MaxVerifyRetry
<1>1. /\ attempt \in 0..MaxVerifyRetry /\ has_files \in BOOLEAN
      /\ exit \in [status : Statuses, reason : Reasons, metrics : MetricsType]
  BY DEF TypeInv, TypeOK, LocalsOK
<1>2. "early_stop" \in Statuses /\ "verify_fail_exceeded" \in Reasons
  BY DEF Statuses, Reasons
<1>3. CASE pass
  BY <1>1, <1>3, ZeroTypes DEF AfterReview
<1>4. CASE ~pass /\ RepairsUsed
  BY <1>1, <1>2, <1>4, ZeroTypes, SomeFields, LeaveTypes DEF AfterReview
<1>5. CASE ~pass /\ ~RepairsUsed
  BY <1>1, <1>5, LoopConstants DEF AfterReview, RepairsUsed
<1> QED BY <1>3, <1>4, <1>5

\* A state file cut short has its first contents.
LEMMA CutTypes == CutState => StateFileOK'
<1>1. NoRecord \in Record /\ NoMetrics \in MetricsType
  BY DEF NoRecord, Record, NoMetrics, MetricsType
<1>2. 0 \in 0..RoundBound /\ MaxIter \in 1..RoundBound /\ 0 \in 0..MaxCost
  BY LoopConstants
<1> QED BY <1>1, <1>2 DEF CutState, StateFileOK, Statuses, Reasons

\* What a crash leaves: the state file as it was, or cut, and the artifacts, of which a
\* call that was cut off may have written one.
LEMMA CrashLeaves ==
  ASSUME TypeInv, Crash \/ CrashInCall
  PROVE  /\ LoseLocals /\ (UNCHANGED stateFile \/ CutState)
         /\ UNCHANGED <<execution_json, coverage_json, shape>>
         /\ manifest' \subseteq Rounds /\ verify_report' \subseteq Rounds
         /\ reviewed' \subseteq Rounds
<1>1. /\ manifest \subseteq Rounds /\ verify_report \subseteq Rounds
      /\ reviewed \subseteq Rounds
  BY DEF TypeInv, TypeOK, ArtifactsOK
<1>2. CASE Crash
  BY <1>1, <1>2 DEF Crash, artifacts
<1>3. CASE CrashInCall
  <2>1. iter_n \in Rounds
    BY <1>3, RoundIsOpen DEF CrashInCall, InRound, AfterBaseline
  <2> QED BY <1>1, <1>3, <2>1 DEF CrashInCall, ThisRoundIn
<1> QED BY <1>2, <1>3

LEMMA TypeNext == TypeInv /\ [Next]_vars => TypeInv'
<1> SUFFICES ASSUME TypeInv, [Next]_vars PROVE TypeInv'
  OBVIOUS
<1> USE DEF TypeInv, TypeOK, stateFile, exitState, artifacts, locals, span, inputs, scratch,
            history, notRecords, notUsage, notExit
<1>a. MetricsType = [func : -1..100, cond : -1..100]
  BY DEF MetricsType
<1>1. CASE Analyze
  <2>1. /\ pc = "analyze" /\ pc' = "build"
        /\ spent' \in 0..MaxCost /\ usage' \in 0..MaxCost
        /\ UNCHANGED <<notUsage, iter_n, span, stage, inputs, consecutive_gen_empty, artifacts,
                       history, scratch, exit>>
    BY <1>1, CallTypes, CostSets DEF Analyze, Goto, Call, LocalsOK
  <2>2. StateFileOK'
    BY <2>1 DEF StateFileOK
  <2>3. ArtifactsOK'
    BY <2>1 DEF ArtifactsOK, Report
  <2>4. LocalsOK'
    BY <2>1 DEF LocalsOK, Report
  <2>5. PlaceInv'
    BY <2>1 DEF PlaceInv, AfterBaseline, InRound, Report
  <2> QED BY <2>1, <2>2, <2>3, <2>4, <2>5 DEF Steps, SavesState, Halted
<1>2. CASE BuildOk
  <2>1. /\ pc = "build" /\ pc' = "baseline"
        /\ UNCHANGED <<stateFile, artifacts, locals, history>>
    BY <1>2 DEF BuildOk, Goto
  <2>2. StateFileOK'
    BY <2>1 DEF StateFileOK
  <2>3. ArtifactsOK'
    BY <2>1 DEF ArtifactsOK, Report
  <2>4. LocalsOK'
    BY <2>1 DEF LocalsOK, Report
  <2>5. PlaceInv'
    BY <2>1 DEF PlaceInv, AfterBaseline, InRound, Report
  <2> QED BY <2>1, <2>2, <2>3, <2>4, <2>5 DEF Steps, SavesState, Halted
<1>3. CASE BuildFails
  <2>1. /\ pc' = "finalize" /\ status' = "early_stop" /\ exit_reason' = "build_failed"
        /\ UNCHANGED <<iterations, current_iter, max_iter, final_metrics, usage, scope_missing,
                       torn, artifacts, locals, history>>
    BY <1>3 DEF BuildFails, Goto
  <2>2. StateFileOK'
    BY <2>1 DEF StateFileOK, Statuses, Reasons
  <2>3. ArtifactsOK'
    BY <2>1 DEF ArtifactsOK, Report
  <2>4. LocalsOK'
    BY <2>1 DEF LocalsOK, Report
  <2>5. PlaceInv'
    BY <2>1, ElsewherePlace DEF Halted
  <2> QED BY <2>1, <2>2, <2>3, <2>4, <2>5 DEF Steps, SavesState, Halted
<1>4. CASE Baseline
  <2>1. /\ pc = "baseline" /\ pc' = "head" /\ baseline' \in Report
        /\ coverage_json' \in [0..RoundBound -> Report \cup {NoReport}]
        /\ previous' = IF resumed THEN LastCoverage(coverage_json') ELSE NoReport
        /\ consecutive_gen_empty' \in {0, 1}
        /\ UNCHANGED <<stateFile, manifest, verify_report, execution_json, history, iter_n, span,
                       stage, spent, scratch, exit>>
    BY <1>4 DEF Baseline, Goto, ArtifactsOK
  <2>6. previous' \in Report \cup {NoReport}
    BY <2>1, LastCoverageType
  <2>2. StateFileOK'
    BY <2>1 DEF StateFileOK
  <2>3. ArtifactsOK'
    BY <2>1 DEF ArtifactsOK, Report
  <2>4. LocalsOK'
    BY <2>1, <2>6 DEF LocalsOK, Report
  <2>5. PlaceInv'
    BY <2>1 DEF PlaceInv, AfterBaseline, InRound, Report
  <2> QED BY <2>1, <2>2, <2>3, <2>4, <2>5 DEF Steps, SavesState, Halted
<1>5. CASE StartIteration
  <2>r. iter_n \in Rounds
    BY <1>5, LoopConstants DEF StartIteration, LocalsOK, Rounds
  <2>u. iterations' \in [Rounds -> Record]
    BY <1>5, <2>r, SomeFields, RecordUpdates DEF StartIteration
  <2>1. /\ pc = "head" /\ iter_n \in Rounds /\ current_iter' = iter_n
        /\ iterations' \in [Rounds -> Record]
        /\ \/ iter_n' = iter_n + 1 /\ pc' = "head" /\ stage' = stage /\ overdrawn' = overdrawn
           \/ /\ iter_n' = iter_n /\ pc' = "check" /\ stage' \in {"gap", "verify", "execute"}
              /\ overdrawn' \in Nat
        /\ UNCHANGED <<max_iter, exitState, usage, scope_missing, torn, artifacts, shape, reviewed, span,
                       inputs, consecutive_gen_empty, spent, scratch, exit>>
    BY <1>5, <2>u DEF StartIteration, IterResumeStage, UpdateIteration
  <2>2. StateFileOK'
    BY <2>1 DEF StateFileOK, Rounds
  <2>3. ArtifactsOK'
    BY <2>1 DEF ArtifactsOK, Report
  <2>4. LocalsOK'
    BY <2>1, RoundFacts DEF LocalsOK, Report
  <2>5. PlaceInv'
    BY <2>1 DEF PlaceInv, AfterBaseline, InRound, Report
  <2> QED BY <2>1, <2>2, <2>3, <2>4, <2>5 DEF Steps, SavesState, Halted
<1>6. CASE RoundsExhausted
  <2>m. FinalFigures \subseteq MetricsType
    <3> SUFFICES ASSUME NEW figures \in FinalFigures PROVE figures \in MetricsType
      OBVIOUS
    <3>1. CASE previous = NoReport
      BY <3>1 DEF FinalFigures, MetricsType
    <3>2. CASE previous # NoReport /\ shape.scoped
      <4>1. figures \in [func : WholePcts, cond : WholePcts]
        BY <3>2 DEF FinalFigures
      <4>2. WholePcts \subseteq -1..100
        BY LoopConstants
      <4> QED BY <4>1, <4>2 DEF MetricsType
    <3>3. CASE previous # NoReport /\ ~shape.scoped
      BY <3>3, ReportMetrics, <1>a DEF LocalsOK, FinalFigures
    <3> QED BY <3>1, <3>2, <3>3
  <2>1. /\ pc' = "exit"
        /\ exit' \in [status : Statuses, reason : Reasons, metrics : MetricsType]
        /\ UNCHANGED <<stateFile, artifacts, history, notExit>>
    BY <1>6, <2>m, LeaveTypes DEF RoundsExhausted, Statuses, Reasons
  <2>2. StateFileOK'
    BY <2>1 DEF StateFileOK
  <2>3. ArtifactsOK'
    BY <2>1 DEF ArtifactsOK, Report
  <2>4. LocalsOK'
    BY <2>1 DEF LocalsOK, Report
  <2>5. PlaceInv'
    BY <2>1, ElsewherePlace DEF Halted
  <2> QED BY <2>1, <2>2, <2>3, <2>4, <2>5 DEF Steps, SavesState, Halted
<1>7. CASE AlreadyCovered
  <2>m. Metrics(GapSource) \in MetricsType /\ VacuousMetrics(GapSource) \in MetricsType
    BY <1>7, GapSourceType DEF AlreadyCovered, AfterBaseline
  <2>u. iterations' \in [Rounds -> Record]
    <3>1. PICK d \in {"up", "flat"} :
            UpdateIteration([iterations[iter_n] EXCEPT
                               !.coverage_after = VacuousMetrics(GapSource), !.delta = d])
      BY <1>7 DEF AlreadyCovered
    <3>2. iter_n \in Rounds
      BY <1>7, RoundIsOpen DEF AlreadyCovered, AfterBaseline, InRound
    <3> QED BY <2>m, <3>1, <3>2, SomeFields, RecordUpdates
  <2>1. /\ pc' = "exit"
        /\ exit' \in [status : Statuses, reason : Reasons, metrics : MetricsType]
        /\ iterations' \in [Rounds -> Record]
        /\ UNCHANGED <<notRecords, artifacts, history, notExit>>
    BY <1>7, <2>m, <2>u, LeaveTypes DEF AlreadyCovered, Statuses, Reasons
  <2>2. StateFileOK'
    BY <2>1 DEF StateFileOK
  <2>3. ArtifactsOK'
    BY <2>1 DEF ArtifactsOK, Report
  <2>4. LocalsOK'
    BY <2>1 DEF LocalsOK, Report
  <2>5. PlaceInv'
    BY <2>1, ElsewherePlace DEF Halted
  <2> QED BY <2>1, <2>2, <2>3, <2>4, <2>5 DEF Steps, SavesState, Halted
<1>8. CASE NothingToAim
  <2>m. Metrics(GapSource) \in MetricsType /\ VacuousMetrics(GapSource) \in MetricsType
    BY <1>8, GapSourceType DEF NothingToAim, AfterBaseline
  <2>u. iterations' \in [Rounds -> Record]
    BY <1>8, <2>m, RoundIsOpen, SomeFields, RecordUpdates DEF NothingToAim, AfterBaseline, InRound
  <2>1. /\ pc' = "exit"
        /\ exit' \in [status : Statuses, reason : Reasons, metrics : MetricsType]
        /\ iterations' \in [Rounds -> Record]
        /\ UNCHANGED <<notRecords, artifacts, history, notExit>>
    BY <1>8, <2>m, <2>u, LeaveTypes DEF NothingToAim, Statuses, Reasons
  <2>2. StateFileOK'
    BY <2>1 DEF StateFileOK
  <2>3. ArtifactsOK'
    BY <2>1 DEF ArtifactsOK, Report
  <2>4. LocalsOK'
    BY <2>1 DEF LocalsOK, Report
  <2>5. PlaceInv'
    BY <2>1, ElsewherePlace DEF Halted
  <2> QED BY <2>1, <2>2, <2>3, <2>4, <2>5 DEF Steps, SavesState, Halted
<1>9. CASE WorkToDo
  <2>1. /\ pc = "check" /\ pc' \in {"gap", "gened"}
        /\ UNCHANGED <<stateFile, artifacts, locals, history>>
    BY <1>9 DEF WorkToDo
  <2>2. StateFileOK'
    BY <2>1 DEF StateFileOK
  <2>3. ArtifactsOK'
    BY <2>1 DEF ArtifactsOK, Report
  <2>4. LocalsOK'
    BY <2>1 DEF LocalsOK, Report
  <2>5. PlaceInv'
    BY <2>1 DEF PlaceInv, AfterBaseline, InRound, Report
  <2> QED BY <2>1, <2>2, <2>3, <2>4, <2>5 DEF Steps, SavesState, Halted
<1>10. CASE Gap
  <2>1. /\ pc = "gap" /\ pc' = "gen"
        /\ spent' \in 0..MaxCost /\ usage' \in 0..MaxCost
        /\ UNCHANGED <<notUsage, iter_n, span, stage, inputs, consecutive_gen_empty, artifacts,
                       history, scratch, exit>>
    BY <1>10, CallTypes, CostSets DEF Gap, Goto, Call, LocalsOK
  <2>2. StateFileOK'
    BY <2>1 DEF StateFileOK
  <2>3. ArtifactsOK'
    BY <2>1 DEF ArtifactsOK, Report
  <2>4. LocalsOK'
    BY <2>1 DEF LocalsOK, Report
  <2>5. PlaceInv'
    BY <2>1 DEF PlaceInv, AfterBaseline, InRound, Report
  <2> QED BY <2>1, <2>2, <2>3, <2>4, <2>5 DEF Steps, SavesState, Halted
<1>11. CASE Gen
  <2>7. iter_n \in Rounds
    BY <1>11, RoundIsOpen DEF Gen, Goto, InRound, AfterBaseline
  <2>1. /\ pc = "gen" /\ pc' = "gened"
        /\ spent' \in 0..MaxCost /\ usage' \in 0..MaxCost
        /\ manifest' \subseteq Rounds /\ reviewed' \subseteq Rounds
        /\ UNCHANGED <<notUsage, iter_n, span, stage, inputs, consecutive_gen_empty, verify_report,
                       execution_json, coverage_json, shape, overdrawn, scratch, exit>>
    BY <1>11, <2>7, CallTypes, CostSets DEF Gen, Goto, Call, ThisRoundIn, LocalsOK, ArtifactsOK
  <2>2. StateFileOK'
    BY <2>1 DEF StateFileOK
  <2>3. ArtifactsOK'
    BY <2>1 DEF ArtifactsOK, Report
  <2>4. LocalsOK'
    BY <2>1 DEF LocalsOK, Report
  <2>5. PlaceInv'
    BY <2>1 DEF PlaceInv, AfterBaseline, InRound, Report
  <2> QED BY <2>1, <2>2, <2>3, <2>4, <2>5 DEF Steps, SavesState, Halted
<1>12. CASE TestsGenerated
  <2>1. /\ pc = "gened" /\ pc' \in {"execute", "verify"}
        /\ consecutive_gen_empty' = 0 /\ attempt' = 0 /\ has_files' = TRUE
        /\ UNCHANGED <<stateFile, artifacts, history, iter_n, span, stage, inputs, spent, verdict,
                       exit>>
    BY <1>12 DEF TestsGenerated
  <2>2. StateFileOK'
    BY <2>1 DEF StateFileOK
  <2>3. ArtifactsOK'
    BY <2>1 DEF ArtifactsOK, Report
  <2>4. LocalsOK'
    BY <2>1, ZeroTypes DEF LocalsOK, Report
  <2>5. PlaceInv'
    BY <2>1 DEF PlaceInv, AfterBaseline, InRound, Report
  <2> QED BY <2>1, <2>2, <2>3, <2>4, <2>5 DEF Steps, SavesState, Halted
<1>13. CASE GenEmpty
  <2>7. iter_n \in Rounds
    BY <1>13, RoundIsOpen DEF GenEmpty, InRound, AfterBaseline
  <2>u. iterations' \in [Rounds -> Record]
    BY <1>13, <2>7, SomeFields, RecordUpdates DEF GenEmpty
  <2>1. /\ pc = "gened" /\ pc' = "head" /\ iter_n \in Rounds /\ iter_n' = iter_n + 1
        /\ consecutive_gen_empty' \in 0..2 /\ consecutive_gen_empty' <= 1
        /\ iterations' \in [Rounds -> Record]
        /\ UNCHANGED <<notRecords, artifacts, history, span, stage, inputs, spent, scratch, exit>>
    BY <1>13, <2>7, <2>u, LoopConstants DEF GenEmpty, PlaceInv, AfterBaseline, InRound, LocalsOK
  <2>2. StateFileOK'
    BY <2>1 DEF StateFileOK
  <2>3. ArtifactsOK'
    BY <2>1 DEF ArtifactsOK, Report
  <2>4. LocalsOK'
    BY <2>1, RoundFacts DEF LocalsOK, Report
  <2>5. PlaceInv'
    BY <2>1 DEF PlaceInv, AfterBaseline, InRound, Report
  <2> QED BY <2>1, <2>2, <2>3, <2>4, <2>5 DEF Steps, SavesState, Halted
<1>14. CASE GenGivesUp
  <2>m. NoMetrics \in MetricsType
    BY SomeFields
  <2>c. consecutive_gen_empty' \in 0..2
    BY <1>14 DEF GenGivesUp, PlaceInv, LocalsOK, AfterBaseline
  <2>1. /\ pc' = "exit"
        /\ exit' \in [status : Statuses, reason : Reasons, metrics : MetricsType]
        /\ consecutive_gen_empty' \in 0..2
        /\ UNCHANGED <<stateFile, artifacts, history, iter_n, span, stage, inputs, spent, scratch>>
    BY <1>14, <2>m, <2>c, LeaveTypes DEF GenGivesUp, Statuses, Reasons
  <2>2. StateFileOK'
    BY <2>1 DEF StateFileOK
  <2>3. ArtifactsOK'
    BY <2>1 DEF ArtifactsOK, Report
  <2>4. LocalsOK'
    BY <2>1 DEF LocalsOK, Report
  <2>5. PlaceInv'
    BY <2>1, ElsewherePlace DEF Halted
  <2> QED BY <2>1, <2>2, <2>3, <2>4, <2>5 DEF Steps, SavesState, Halted
<1>15. CASE DocGateFails
  <2>1. /\ verify_report' \subseteq Rounds
        /\ pc' \in {"execute", "exit", "gen_fix"}
        /\ exit' \in [status : Statuses, reason : Reasons, metrics : MetricsType]
        /\ attempt' \in 0..MaxVerifyRetry /\ has_files' \in BOOLEAN
        /\ pc' = "gen_fix" => attempt' < MaxVerifyRetry
        /\ UNCHANGED <<stateFile, manifest, execution_json, coverage_json, history, iter_n, span, stage,
                       inputs, consecutive_gen_empty, spent, verdict>>
    BY <1>15, AfterReviewTypes DEF DocGateFails, ArtifactsOK
  <2>2. StateFileOK'
    BY <2>1 DEF StateFileOK
  <2>3. ArtifactsOK'
    BY <2>1 DEF ArtifactsOK, Report
  <2>4. LocalsOK'
    BY <2>1 DEF LocalsOK, Report
  <2>5. PlaceInv'
    BY <1>15, <2>1 DEF PlaceInv, AfterBaseline, InRound, Report, DocGateFails
  <2> QED BY <2>1, <2>2, <2>3, <2>4, <2>5 DEF Steps, SavesState, Halted
<1>16. CASE VerifyAgent
  <2>7. iter_n \in Rounds
    BY <1>16, RoundIsOpen DEF VerifyAgent, InRound, AfterBaseline
  <2>8. verify_report' \subseteq Rounds /\ reviewed' \subseteq Rounds
    BY <1>16, <2>7 DEF VerifyAgent, ThisRoundIn, ArtifactsOK
  <2>9. /\ pc' \in {"execute", "exit", "gen_fix"}
        /\ exit' \in [status : Statuses, reason : Reasons, metrics : MetricsType]
        /\ attempt' \in 0..MaxVerifyRetry /\ has_files' \in BOOLEAN
        /\ pc' = "gen_fix" => attempt' < MaxVerifyRetry
    <3> DEFINE pass == iter_n \in verify_report'
    <3>1. AfterReview(pass) /\ pass \in BOOLEAN
      BY <1>16 DEF VerifyAgent
    <3> HIDE DEF pass
    <3> QED BY <3>1, AfterReviewTypes DEF TypeInv
  <2>10. spent' \in 0..MaxCost /\ usage' \in 0..MaxCost
    BY <1>16, CallTypes, CostSets DEF VerifyAgent, LocalsOK
  <2>1. /\ verify_report' \subseteq Rounds /\ reviewed' \subseteq Rounds
        /\ pc' \in {"execute", "exit", "gen_fix"}
        /\ exit' \in [status : Statuses, reason : Reasons, metrics : MetricsType]
        /\ attempt' \in 0..MaxVerifyRetry /\ has_files' \in BOOLEAN
        /\ pc' = "gen_fix" => attempt' < MaxVerifyRetry
        /\ spent' \in 0..MaxCost /\ usage' \in 0..MaxCost
        /\ UNCHANGED <<notUsage, iter_n, span, stage, inputs, consecutive_gen_empty, manifest,
                       execution_json, coverage_json, shape, overdrawn, verdict>>
    BY <1>16, <2>8, <2>9, <2>10 DEF VerifyAgent, Call
  <2>2. StateFileOK'
    BY <2>1 DEF StateFileOK
  <2>3. ArtifactsOK'
    BY <2>1 DEF ArtifactsOK, Report
  <2>4. LocalsOK'
    BY <2>1 DEF LocalsOK, Report
  <2>5. PlaceInv'
    BY <1>16, <2>1 DEF PlaceInv, AfterBaseline, InRound, Report, VerifyAgent
  <2> QED BY <2>1, <2>2, <2>3, <2>4, <2>5 DEF Steps, SavesState, Halted
<1>17. CASE GenFix
  <2>7. iter_n \in Rounds
    BY <1>17, RoundIsOpen DEF GenFix, Goto, InRound, AfterBaseline
  <2>8. manifest' \subseteq Rounds /\ reviewed' \subseteq Rounds /\ has_files' \in BOOLEAN
    BY <1>17, <2>7 DEF GenFix, ThisRoundIn, ArtifactsOK, LocalsOK
  <2>9. attempt' \in 0..MaxVerifyRetry
    BY <1>17, LoopConstants DEF GenFix, Goto, PlaceInv, LocalsOK
  <2>1. /\ pc' = "verify" /\ manifest' \subseteq Rounds /\ reviewed' \subseteq Rounds
        /\ has_files' \in BOOLEAN /\ attempt' \in 0..MaxVerifyRetry
        /\ spent' \in 0..MaxCost /\ usage' \in 0..MaxCost
        /\ UNCHANGED <<notUsage, iter_n, span, stage, inputs, consecutive_gen_empty, verify_report,
                       execution_json, coverage_json, shape, overdrawn, verdict, exit>>
    BY <1>17, <2>7, <2>8, <2>9, CallTypes, CostSets DEF GenFix, Goto, Call, LocalsOK
  <2>2. StateFileOK'
    BY <2>1 DEF StateFileOK
  <2>3. ArtifactsOK'
    BY <2>1 DEF ArtifactsOK, Report
  <2>4. LocalsOK'
    BY <2>1 DEF LocalsOK, Report
  <2>5. PlaceInv'
    BY <1>17, <2>1 DEF PlaceInv, AfterBaseline, InRound, Report, GenFix, Goto
  <2> QED BY <2>1, <2>2, <2>3, <2>4, <2>5 DEF Steps, SavesState, Halted
<1>18. CASE Execute
  <2>7. iter_n \in Rounds /\ iter_n \in 0..RoundBound
    BY <1>18, RoundIsOpen DEF Execute, Goto, InRound, AfterBaseline, Rounds
  <2>8. /\ coverage_json' \in [0..RoundBound -> Report \cup {NoReport}]
        /\ coverage_json'[iter_n] \in Report
    BY <1>18, <2>7 DEF Execute, ArtifactsOK
  <2>1. /\ pc = "execute" /\ pc' = "persist" /\ iter_n \in Rounds /\ verdict' \in AllVerdicts
        /\ coverage_json' \in [0..RoundBound -> Report \cup {NoReport}]
        /\ coverage_json'[iter_n] \in Report
        /\ UNCHANGED <<stateFile, manifest, verify_report, execution_json, history, iter_n, span, stage,
                       inputs, consecutive_gen_empty, spent, attempt, has_files, exit>>
    BY <1>18, <2>7, <2>8, LoopConstants DEF Execute, Goto
  <2>2. StateFileOK'
    BY <2>1 DEF StateFileOK
  <2>3. ArtifactsOK'
    BY <2>1 DEF ArtifactsOK, Report
  <2>4. LocalsOK'
    BY <2>1 DEF LocalsOK, Report
  <2>5. PlaceInv'
    BY <2>1 DEF PlaceInv, AfterBaseline, InRound, Report
  <2> QED BY <2>1, <2>2, <2>3, <2>4, <2>5 DEF Steps, SavesState, Halted
<1>19. CASE PersistExecution
  <2>1. /\ pc = "persist" /\ pc' = "record" /\ execution_json' \subseteq Rounds
        /\ UNCHANGED <<stateFile, manifest, verify_report, coverage_json, locals, history>>
    BY <1>19, RoundIsOpen DEF PersistExecution, Goto, InRound, AfterBaseline, ArtifactsOK
  <2>2. StateFileOK'
    BY <2>1 DEF StateFileOK
  <2>3. ArtifactsOK'
    BY <2>1 DEF ArtifactsOK, Report
  <2>4. LocalsOK'
    BY <2>1 DEF LocalsOK, Report
  <2>5. PlaceInv'
    BY <2>1 DEF PlaceInv, AfterBaseline, InRound, Report
  <2> QED BY <2>1, <2>2, <2>3, <2>4, <2>5 DEF Steps, SavesState, Halted
<1>20. CASE RecordVerdict
  <2>u. iterations' \in [Rounds -> Record]
    BY <1>20, SomeFields, RoundIsOpen, RecordUpdates
    DEF RecordVerdict, PlaceInv, AfterBaseline, InRound
  <2>1. /\ pc = "record" /\ pc' \in {"cover", "quality"} /\ verdict' = "none"
        /\ iterations' \in [Rounds -> Record]
        /\ UNCHANGED <<notRecords, artifacts, history, iter_n, span, stage, inputs,
                       consecutive_gen_empty, spent, attempt, has_files, exit>>
    BY <1>20, <2>u DEF RecordVerdict
  <2>2. StateFileOK'
    BY <2>1 DEF StateFileOK
  <2>3. ArtifactsOK'
    BY <2>1 DEF ArtifactsOK, Report
  <2>4. LocalsOK'
    BY <2>1 DEF LocalsOK, Report
  <2>5. PlaceInv'
    BY <2>1 DEF PlaceInv, AfterBaseline, InRound, Report
  <2> QED BY <2>1, <2>2, <2>3, <2>4, <2>5 DEF Steps, SavesState, Halted
<1>21. CASE Quality
  <2>1. /\ pc = "quality" /\ pc' = "cover"
        /\ spent' \in 0..MaxCost /\ usage' \in 0..MaxCost
        /\ UNCHANGED <<notUsage, iter_n, span, stage, inputs, consecutive_gen_empty, artifacts,
                       history, scratch, exit>>
    BY <1>21, CallTypes, CostSets DEF Quality, Goto, Call, LocalsOK
  <2>2. StateFileOK'
    BY <2>1 DEF StateFileOK
  <2>3. ArtifactsOK'
    BY <2>1 DEF ArtifactsOK, Report
  <2>4. LocalsOK'
    BY <2>1 DEF LocalsOK, Report
  <2>5. PlaceInv'
    BY <2>1 DEF PlaceInv, AfterBaseline, InRound, Report
  <2> QED BY <2>1, <2>2, <2>3, <2>4, <2>5 DEF Steps, SavesState, Halted
<1>22. CASE RecordCoverage
  <2>r. coverage_json[iter_n] \in Report /\ iter_n \in Rounds
    BY <1>22, RoundIsOpen DEF RecordCoverage, Goto, PlaceInv, AfterBaseline, InRound
  <2>m. Metrics(coverage_json[iter_n]) \in MetricsType
    BY <2>r, ReportMetrics, <1>a
  <2>d. Delta(coverage_json[iter_n], GapSource) \in {"none", "up", "flat"}
    BY DEF Delta
  <2>u. iterations' \in [Rounds -> Record]
    BY <1>22, <2>r, <2>m, <2>d, SomeFields, RecordUpdates DEF RecordCoverage
  <2>1. /\ pc = "cover" /\ pc' = "judge" /\ previous' \in Report
        /\ iterations' \in [Rounds -> Record]
        /\ UNCHANGED <<notRecords, artifacts, history, iter_n, span, stage, baseline,
                       consecutive_gen_empty, spent, scratch, exit>>
    BY <1>22, <2>r, <2>u DEF RecordCoverage, Goto
  <2>2. StateFileOK'
    BY <2>1 DEF StateFileOK
  <2>3. ArtifactsOK'
    BY <2>1 DEF ArtifactsOK, Report
  <2>4. LocalsOK'
    BY <2>1 DEF LocalsOK, Report
  <2>5. PlaceInv'
    BY <2>1 DEF PlaceInv, AfterBaseline, InRound, Report
  <2> QED BY <2>1, <2>2, <2>3, <2>4, <2>5 DEF Steps, SavesState, Halted
<1>23. CASE JudgeMet
  <2>m. Metrics(previous) \in MetricsType /\ VacuousMetrics(previous) \in MetricsType
    BY <1>23, ReportMetrics, <1>a DEF JudgeMet, PlaceInv
  <2>1. /\ pc' = "exit"
        /\ exit' \in [status : Statuses, reason : Reasons, metrics : MetricsType]
        /\ UNCHANGED <<stateFile, artifacts, history, notExit>>
    BY <1>23, <2>m, LeaveTypes DEF JudgeMet, Statuses, Reasons
  <2>2. StateFileOK'
    BY <2>1 DEF StateFileOK
  <2>3. ArtifactsOK'
    BY <2>1 DEF ArtifactsOK, Report
  <2>4. LocalsOK'
    BY <2>1 DEF LocalsOK, Report
  <2>5. PlaceInv'
    BY <2>1, ElsewherePlace DEF Halted
  <2> QED BY <2>1, <2>2, <2>3, <2>4, <2>5 DEF Steps, SavesState, Halted
<1>24. CASE JudgeVacuous
  <2>m. Metrics(previous) \in MetricsType /\ VacuousMetrics(previous) \in MetricsType
    BY <1>24, ReportMetrics, <1>a DEF JudgeVacuous, PlaceInv
  <2>u. iterations' \in [Rounds -> Record]
    BY <1>24, <2>m, RoundIsOpen, SomeFields, RecordUpdates DEF JudgeVacuous, AfterBaseline, InRound
  <2>1. /\ pc' = "exit"
        /\ exit' \in [status : Statuses, reason : Reasons, metrics : MetricsType]
        /\ iterations' \in [Rounds -> Record]
        /\ UNCHANGED <<notRecords, artifacts, history, notExit>>
    BY <1>24, <2>m, <2>u, LeaveTypes DEF JudgeVacuous, Statuses, Reasons
  <2>2. StateFileOK'
    BY <2>1 DEF StateFileOK
  <2>3. ArtifactsOK'
    BY <2>1 DEF ArtifactsOK, Report
  <2>4. LocalsOK'
    BY <2>1 DEF LocalsOK, Report
  <2>5. PlaceInv'
    BY <2>1, ElsewherePlace DEF Halted
  <2> QED BY <2>1, <2>2, <2>3, <2>4, <2>5 DEF Steps, SavesState, Halted
<1>25. CASE JudgeStop
  <2>p. pc = "judge"
    BY <1>25 DEF JudgeStop
  <2>m. Metrics(previous) \in MetricsType /\ VacuousMetrics(previous) \in MetricsType
    BY <2>p, ReportMetrics, <1>a DEF PlaceInv
  <2>1. /\ pc' = "exit"
        /\ exit' \in [status : Statuses, reason : Reasons, metrics : MetricsType]
        /\ UNCHANGED <<stateFile, artifacts, history, notExit>>
    BY <1>25, <2>m, EarlyStopReasons, LeaveTypes DEF JudgeStop, Statuses, Reasons
  <2>2. StateFileOK'
    BY <2>1 DEF StateFileOK
  <2>3. ArtifactsOK'
    BY <2>1 DEF ArtifactsOK, Report
  <2>4. LocalsOK'
    BY <2>1 DEF LocalsOK, Report
  <2>5. PlaceInv'
    BY <2>1, ElsewherePlace DEF Halted
  <2> QED BY <2>1, <2>2, <2>3, <2>4, <2>5 DEF Steps, SavesState, Halted
<1>26. CASE JudgeContinue
  <2>1. /\ pc = "judge" /\ pc' = "head" /\ iter_n \in Rounds /\ iter_n' = iter_n + 1
        /\ UNCHANGED <<stateFile, artifacts, history, span, stage, inputs, consecutive_gen_empty,
                       spent, scratch, exit>>
    BY <1>26, RoundIsOpen DEF JudgeContinue, Goto, InRound, AfterBaseline
  <2>2. StateFileOK'
    BY <2>1 DEF StateFileOK
  <2>3. ArtifactsOK'
    BY <2>1 DEF ArtifactsOK, Report
  <2>4. LocalsOK'
    BY <2>1, RoundFacts DEF LocalsOK, Report
  <2>5. PlaceInv'
    BY <2>1 DEF PlaceInv, AfterBaseline, InRound, Report
  <2> QED BY <2>1, <2>2, <2>3, <2>4, <2>5 DEF Steps, SavesState, Halted
<1>27. CASE SetExit
  <2>1. /\ pc' = "wrapup" /\ status' \in Statuses /\ exit_reason' \in Reasons
        /\ final_metrics' \in MetricsType
        /\ UNCHANGED <<iterations, current_iter, max_iter, usage, scope_missing, torn, artifacts,
                       locals, history>>
    BY <1>27 DEF SetExit, Goto, LocalsOK, StateFileOK
  <2>2. StateFileOK'
    BY <2>1 DEF StateFileOK
  <2>3. ArtifactsOK'
    BY <2>1 DEF ArtifactsOK, Report
  <2>4. LocalsOK'
    BY <2>1 DEF LocalsOK, Report
  <2>5. PlaceInv'
    BY <2>1, ElsewherePlace DEF Halted
  <2> QED BY <2>1, <2>2, <2>3, <2>4, <2>5 DEF Steps, SavesState, Halted
<1>28. CASE ReportMissing
  <2>1. /\ pc' = "finalize" /\ scope_missing' \in BOOLEAN
        /\ UNCHANGED <<iterations, current_iter, max_iter, exitState, usage, torn, artifacts, locals,
                       history>>
    BY <1>28 DEF ReportMissing, Goto, StateFileOK
  <2>2. StateFileOK'
    BY <2>1 DEF StateFileOK
  <2>3. ArtifactsOK'
    BY <2>1 DEF ArtifactsOK, Report
  <2>4. LocalsOK'
    BY <2>1 DEF LocalsOK, Report
  <2>5. PlaceInv'
    BY <2>1, ElsewherePlace DEF Halted
  <2> QED BY <2>1, <2>2, <2>3, <2>4, <2>5 DEF Steps, SavesState, Halted
<1>29. CASE Finalize
  <2>1. /\ pc' = "exited"
        /\ UNCHANGED <<stateFile, artifacts, locals, history>>
    BY <1>29 DEF Finalize, Goto
  <2>2. StateFileOK'
    BY <2>1 DEF StateFileOK
  <2>3. ArtifactsOK'
    BY <2>1 DEF ArtifactsOK, Report
  <2>4. LocalsOK'
    BY <2>1 DEF LocalsOK, Report
  <2>5. PlaceInv'
    BY <2>1, ElsewherePlace DEF Halted
  <2> QED BY <2>1, <2>2, <2>3, <2>4, <2>5 DEF Steps, SavesState, Halted
<1>30. CASE Crash \/ CrashInCall
  <2>1. /\ LoseLocals /\ (UNCHANGED stateFile \/ CutState)
        /\ UNCHANGED <<execution_json, coverage_json, shape>>
        /\ manifest' \subseteq Rounds /\ verify_report' \subseteq Rounds
        /\ reviewed' \subseteq Rounds
    BY <1>30, CrashLeaves
  <2>2. StateFileOK'
    BY <2>1, CutTypes DEF StateFileOK
  <2>3. ArtifactsOK'
    BY <2>1 DEF ArtifactsOK, Report
  <2>4. LocalsOK'
    BY <2>1, NoExitType, ZeroTypes, OneTypes DEF LocalsOK, LoseLocals, ForgetLocals
  <2>5. PlaceInv'
    BY <2>1, ElsewherePlace DEF Halted, LoseLocals
  <2> QED BY <2>1, <2>2, <2>3, <2>4, <2>5 DEF Steps, SavesState, Halted, LoseLocals, ForgetLocals
<1>31. CASE Resume
  <2>8. /\ start_iter' \in 1..(RoundBound + 1) /\ iter_n' \in 1..(RoundBound + 1)
        /\ end_iter' \in 1..RoundBound /\ max_iter' \in 1..RoundBound
    <3>1. PICK more \in MoreIters : /\ ResumeEnd(more) <= RoundBound
                                    /\ end_iter' = ResumeEnd(more) /\ max_iter' = ResumeEnd(more)
      BY <1>31 DEF Resume
    <3>2. more \in Nat \ {0} /\ max_iter \in 1..RoundBound
      BY LoopConstants DEF StateFileOK
    <3>3. ResumeEnd(more) \in 1..RoundBound
      BY <3>1, <3>2, ResumeStartRange, LoopConstants DEF ResumeEnd
    <3> QED BY <1>31, <3>1, <3>3, ResumeStartRange DEF Resume
  <2>1. /\ pc' = "build" /\ status' = "running" /\ exit_reason' = "" /\ ForgetLocals
        /\ start_iter' \in 1..(RoundBound + 1) /\ iter_n' \in 1..(RoundBound + 1)
        /\ end_iter' \in 1..RoundBound /\ max_iter' \in 1..RoundBound
        /\ resumed' = TRUE /\ spent' \in 0..MaxCost
        /\ UNCHANGED <<iterations, current_iter, final_metrics, usage, scope_missing, torn, artifacts,
                       shape, reviewed>>
    BY <1>31, <2>8 DEF Resume, StateFileOK
  <2>2. StateFileOK'
    BY <2>1 DEF StateFileOK, Statuses, Reasons
  <2>3. ArtifactsOK'
    BY <2>1 DEF ArtifactsOK, Report
  <2>4. LocalsOK'
    BY <2>1, NoExitType, ZeroTypes DEF LocalsOK, ForgetLocals
  <2>5. PlaceInv'
    BY <2>1, ZeroTypes DEF PlaceInv, AfterBaseline, InRound, ForgetLocals
  <2> QED BY <2>1, <2>2, <2>3, <2>4, <2>5 DEF Steps, SavesState, Halted, ForgetLocals
<1>32. CASE ResumeFails
  <2>1. /\ pc' = "dead"
        /\ UNCHANGED <<stateFile, artifacts, locals, history>>
    BY <1>32 DEF ResumeFails
  <2>2. StateFileOK'
    BY <2>1 DEF StateFileOK
  <2>3. ArtifactsOK'
    BY <2>1 DEF ArtifactsOK, Report
  <2>4. LocalsOK'
    BY <2>1 DEF LocalsOK, Report
  <2>5. PlaceInv'
    BY <2>1, ElsewherePlace DEF Halted
  <2> QED BY <2>1, <2>2, <2>3, <2>4, <2>5 DEF Steps, SavesState, Halted
<1>33. CASE UNCHANGED vars
  <2>1. /\ UNCHANGED <<pc, stateFile, artifacts, locals, history>>
    BY <1>33 DEF vars
  <2>2. StateFileOK'
    BY <2>1 DEF StateFileOK
  <2>3. ArtifactsOK'
    BY <2>1 DEF ArtifactsOK, Report
  <2>4. LocalsOK'
    BY <2>1 DEF LocalsOK, Report
  <2>5. PlaceInv'
    BY <2>1 DEF PlaceInv, AfterBaseline, InRound, Report
  <2> QED BY <2>1, <2>2, <2>3, <2>4, <2>5 DEF Steps, SavesState, Halted
<1> QED
  BY <1>1, <1>2, <1>3, <1>4, <1>5, <1>6, <1>7, <1>8, <1>9, <1>10, <1>11, <1>12, <1>13, <1>14, <1>15, <1>16, <1>17, <1>18, <1>19, <1>20, <1>21, <1>22, <1>23, <1>24, <1>25, <1>26, <1>27, <1>28, <1>29, <1>30, <1>31, <1>32, <1>33
  DEF Next, Step, Prepare, Open, Generate, Review, Measure, Judge, Close, Rest

\* Every variable has its type in every reachable state, whatever the constants are.
THEOREM TypeCorrect == Spec => []TypeOK
<1>1. TypeInv => TypeOK
  BY DEF TypeInv
<1> QED BY <1>1, TypeInit, TypeNext, PTL DEF Spec

-----------------------------------------------------------------------------
(* The budget.  overdrawn only grows when a round is opened; what bounds it *)
(* is that an overdrawn round that generates tests ends the run, and that   *)
(* of two rounds in a row without tests the second one does.                *)

BudgetInv ==
  /\ spent \in Nat /\ usage \in Nat /\ overdrawn \in Nat /\ consecutive_gen_empty \in Nat
  /\ overdrawn > 0 => Overdrawn
  /\ pc \in {"analyze", "build", "baseline"} => overdrawn = 0
  /\ pc = "head" => overdrawn <= consecutive_gen_empty
  /\ pc \in {"check", "gap", "gen", "gened"} => overdrawn <= consecutive_gen_empty + 1
  /\ pc \notin {"exit", "wrapup", "finalize", "exited"} => consecutive_gen_empty <= 1
  /\ overdrawn <= 2

\* what a call costs is added, and what was overdrawn stays so
LEMMA CallAdds ==
  ASSUME NEW costs \in SUBSET Nat, Call(costs), spent \in Nat
  PROVE  /\ spent' \in Nat /\ usage' \in Nat
         /\ Overdrawn => Overdrawn'
         /\ UNCHANGED consecutive_gen_empty
<1>1. PICK c \in costs : spent' = Capped(spent + c) /\ usage' = Capped(spent + c)
  BY DEF Call
<1>2. Capped(spent + c) \in Nat /\ (Overdrawn => MaxCost > 0 /\ Capped(spent + c) >= MaxCost)
  BY LoopConstants DEF Capped, Overdrawn
<1> QED BY <1>1, <1>2 DEF Call, Overdrawn

LEMMA BudgetInit == Init => BudgetInv
<1> SUFFICES ASSUME Init PROVE BudgetInv
  OBVIOUS
<1>1. pc = "analyze" /\ usage = 0 /\ spent = 0 /\ overdrawn = 0 /\ consecutive_gen_empty = 0
  BY DEF Init
<1> QED BY <1>1 DEF BudgetInv, Overdrawn

LEMMA BudgetNext == BudgetInv /\ [Next]_vars => BudgetInv'
<1> SUFFICES ASSUME BudgetInv, [Next]_vars PROVE BudgetInv'
  OBVIOUS
<1> USE DEF BudgetInv
<1>1. CASE Analyze
  BY <1>1, CallAdds, CostSets DEF Analyze, Goto, history
<1>2. CASE BuildOk
  BY <1>2 DEF BuildOk, Goto, stateFile, locals, history, Overdrawn
<1>3. CASE BuildFails
  BY <1>3 DEF BuildFails, Goto, locals, history, Overdrawn
<1>4. CASE Baseline
  BY <1>4 DEF Baseline, Goto, stateFile, history, Overdrawn
<1>5. CASE StartIteration
  BY <1>5 DEF StartIteration, Overdrawn
<1>6. CASE RoundsExhausted
  BY <1>6 DEF RoundsExhausted, Leave, stateFile, history, notExit, Overdrawn
<1>7. CASE AlreadyCovered
  BY <1>7 DEF AlreadyCovered, Leave, notRecords, history, notExit, Overdrawn
<1>8. CASE NothingToAim
  BY <1>8 DEF NothingToAim, Leave, notRecords, history, notExit, Overdrawn
<1>9. CASE WorkToDo
  BY <1>9 DEF WorkToDo, stateFile, locals, history, Overdrawn
<1>10. CASE Gap
  BY <1>10, CallAdds, CostSets DEF Gap, Goto, history
<1>11. CASE Gen
  BY <1>11, CallAdds, CostSets DEF Gen, Goto
<1>12. CASE TestsGenerated
  BY <1>12 DEF TestsGenerated, stateFile, history, Overdrawn
<1>13. CASE GenEmpty
  BY <1>13 DEF GenEmpty, notRecords, history, Overdrawn
<1>14. CASE GenGivesUp
  BY <1>14 DEF GenGivesUp, Leave, stateFile, history, Overdrawn
<1>15. CASE DocGateFails
  BY <1>15 DEF DocGateFails, AfterReview, Leave, stateFile, history, Overdrawn
<1>16. CASE VerifyAgent
  BY <1>16, CallAdds, CostSets DEF VerifyAgent, AfterReview, Leave
<1>17. CASE GenFix
  BY <1>17, CallAdds, CostSets DEF GenFix, Goto
<1>18. CASE Execute
  BY <1>18 DEF Execute, Goto, stateFile, history, Overdrawn
<1>19. CASE PersistExecution
  BY <1>19 DEF PersistExecution, Goto, stateFile, locals, history, Overdrawn
<1>20. CASE RecordVerdict
  BY <1>20 DEF RecordVerdict, notRecords, history, Overdrawn
<1>21. CASE Quality
  BY <1>21, CallAdds, CostSets DEF Quality, Goto, history
<1>22. CASE RecordCoverage
  BY <1>22 DEF RecordCoverage, Goto, notRecords, history, Overdrawn
<1>23. CASE JudgeMet
  BY <1>23 DEF JudgeMet, Leave, stateFile, history, notExit, Overdrawn
<1>24. CASE JudgeVacuous
  BY <1>24 DEF JudgeVacuous, Leave, notRecords, history, notExit, Overdrawn
<1>25. CASE JudgeStop
  BY <1>25 DEF JudgeStop, Leave, stateFile, history, notExit, Overdrawn
<1>26. CASE JudgeContinue
  \* the only way from a measured round to the next: within the budget
  <2>1. /\ pc = "judge" /\ pc' = "head" /\ ~OverBudget
        /\ UNCHANGED <<stateFile, history, consecutive_gen_empty, spent>>
    BY <1>26 DEF JudgeContinue, Goto
  <2>2. overdrawn = 0
    BY <2>1 DEF OverBudget, Overdrawn
  <2> QED BY <2>1, <2>2 DEF stateFile, history, Overdrawn
<1>27. CASE Close
  BY <1>27 DEF Close, SetExit, ReportMissing, Finalize, Goto, stateFile, locals, history,
               Overdrawn
<1>28. CASE Crash \/ CrashInCall
  <2>1. LoseLocals /\ (UNCHANGED stateFile \/ CutState)
    BY <1>28 DEF Crash, CrashInCall
  <2>2. usage' \in Nat
    <3>1. CASE UNCHANGED stateFile
      BY <3>1 DEF stateFile
    <3>2. CASE CutState
      BY <3>2 DEF CutState
    <3> QED BY <2>1, <3>1, <3>2
  <2> QED BY <2>1, <2>2 DEF LoseLocals, ForgetLocals, Overdrawn
<1>29. CASE Resume
  <2>1. /\ pc' = "build" /\ spent' = usage /\ usage' = usage
        /\ overdrawn' = 0 /\ consecutive_gen_empty' = 0
    BY <1>29 DEF Resume, ForgetLocals
  <2> QED BY <2>1 DEF Overdrawn
<1>30. CASE ResumeFails
  BY <1>30 DEF ResumeFails, stateFile, locals, history, Overdrawn
<1>31. CASE UNCHANGED vars
  BY <1>31 DEF vars, stateFile, locals, history, Overdrawn
<1> QED
  BY <1>1, <1>2, <1>3, <1>4, <1>5, <1>6, <1>7, <1>8, <1>9, <1>10, <1>11, <1>12, <1>13,
     <1>14, <1>15, <1>16, <1>17, <1>18, <1>19, <1>20, <1>21, <1>22, <1>23, <1>24, <1>25,
     <1>26, <1>27, <1>28, <1>29, <1>30, <1>31
  DEF Next, Step, Prepare, Open, Generate, Review, Measure, Judge, Rest

\* A process opens at most two rounds beyond the budget, whatever calls cost, and
\* whatever crashes and resumptions came before it.
THEOREM BudgetOverrun == Spec => []BudgetOverrunBounded
<1>1. BudgetInv => BudgetOverrunBounded
  BY DEF BudgetInv, BudgetOverrunBounded
<1> QED BY <1>1, BudgetInit, BudgetNext, PTL DEF Spec

-----------------------------------------------------------------------------
(* Nothing is lost.  The cost saved in the file is never behind the cost in *)
(* memory: every call saves it, and a resumed process starts from the file. *)

PaidInv == pc \notin {"crashed", "dead"} => spent = usage

LEMMA PaidInit == Init => PaidInv
BY DEF Init, PaidInv

\* a call saves what it adds
LEMMA CallSaves ==
  ASSUME TypeInv, PaidInv, pc \notin {"crashed", "dead"},
         NEW costs \in SUBSET Nat, Call(costs)
  PROVE  spent' = usage' /\ usage' >= usage /\ max_iter' >= max_iter /\ UNCHANGED iterations
<1>1. PICK c \in costs : spent' = Capped(spent + c) /\ usage' = Capped(spent + c)
  BY DEF Call
<1>2. spent = usage /\ usage \in 0..MaxCost /\ max_iter \in 1..RoundBound
  BY DEF PaidInv, TypeInv, TypeOK, StateFileOK
<1>3. Capped(spent + c) >= usage
  BY <1>2, LoopConstants DEF Capped
<1>4. UNCHANGED notUsage
  BY DEF Call
<1> QED BY <1>1, <1>2, <1>3, <1>4, LoopConstants DEF notUsage

LEMMA PaidNext == TypeInv /\ PaidInv /\ [Next]_vars => PaidInv'
<1> SUFFICES ASSUME TypeInv, PaidInv, [Next]_vars PROVE PaidInv'
  OBVIOUS
<1>1. CASE Analyze \/ Gap \/ Gen \/ Quality \/ VerifyAgent \/ GenFix
  <2>1. /\ pc \notin {"crashed", "dead"}
        /\ Call(Costs) \/ Call(Costs \cup {0})
    BY <1>1 DEF Analyze, Gap, Gen, Quality, VerifyAgent, GenFix, Goto
  <2> QED BY <2>1, CallSaves, CostSets DEF PaidInv
<1>2. CASE BuildOk \/ BuildFails \/ Baseline \/ Open \/ Close
  BY <1>2
  DEF PaidInv, BuildOk, BuildFails, Baseline, Open, StartIteration, RoundsExhausted,
      AlreadyCovered, NothingToAim, WorkToDo, Close, SetExit, ReportMissing, Finalize, Goto,
      Leave, stateFile, locals, notRecords, notExit
<1>3. CASE TestsGenerated \/ GenEmpty \/ GenGivesUp \/ DocGateFails
  BY <1>3
  DEF PaidInv, TestsGenerated, GenEmpty, GenGivesUp, DocGateFails, AfterReview, Leave,
      stateFile, notRecords
<1>4. CASE Execute \/ PersistExecution \/ RecordVerdict \/ RecordCoverage \/ Judge
  BY <1>4
  DEF PaidInv, Execute, PersistExecution, RecordVerdict, RecordCoverage, Judge, JudgeMet,
      JudgeVacuous, JudgeStop, JudgeContinue, Goto, Leave, stateFile, locals, notRecords, notExit
<1>5. CASE Crash \/ CrashInCall \/ Resume \/ ResumeFails
  BY <1>5 DEF PaidInv, Crash, CrashInCall, LoseLocals, Resume, ResumeFails
<1>6. CASE UNCHANGED vars
  BY <1>6 DEF PaidInv, vars, stateFile, locals
<1> QED
  BY <1>1, <1>2, <1>3, <1>4, <1>5, <1>6
  DEF Next, Step, Prepare, Generate, Review, Measure, Rest

\* numbers that stay as they are do not shrink
LEMMA Unshrunk == TypeInv => usage >= usage /\ max_iter >= max_iter
BY LoopConstants DEF TypeInv, TypeOK, StateFileOK

\* a round stays complete when its record is replaced by one with both keys
LEMMA CompleteStays ==
  ASSUME NEW rec, iterations \in [Rounds -> Record], UpdateIteration(rec),
         Complete(iter_n) => rec.execute_verdict # "none" /\ rec.coverage_after # NoMetrics
  PROVE  \A i \in Rounds : Complete(i) => Complete(i)'
BY DEF UpdateIteration, Complete

LEMMA CompleteUnchanged ==
  UNCHANGED iterations => \A i \in Rounds : Complete(i) => Complete(i)'
BY DEF Complete

\* What a step of the loop keeps of the records as a whole.
LEMMA StepKeepsRecords ==
  ASSUME TypeInv, PaidInv, Step
  PROVE  /\ usage' >= usage /\ max_iter' >= max_iter
         /\ \A i \in Rounds : Complete(i) => Complete(i)'
         /\ execution_json \subseteq execution_json'
<1>a. iterations \in [Rounds -> Record] /\ shape \in Shapes
  BY DEF TypeInv, TypeOK, StateFileOK
<1>1. CASE Analyze \/ Gap \/ Gen \/ Quality \/ VerifyAgent \/ GenFix
  <2>1. /\ pc \notin {"crashed", "dead"}
        /\ Call(Costs) \/ Call(Costs \cup {0})
        /\ UNCHANGED execution_json
    BY <1>1 DEF Analyze, Gap, Gen, Quality, VerifyAgent, GenFix, Goto, artifacts
  <2> QED BY <2>1, CallSaves, CostSets, CompleteUnchanged
<1>2. CASE \/ BuildOk \/ BuildFails \/ Baseline \/ RoundsExhausted \/ WorkToDo \/ Close
           \/ TestsGenerated \/ GenGivesUp \/ DocGateFails \/ Execute \/ JudgeMet
           \/ JudgeStop \/ JudgeContinue
  <2>1. UNCHANGED <<iterations, usage, max_iter, execution_json>>
    BY <1>2
    DEF BuildOk, BuildFails, Baseline, RoundsExhausted, WorkToDo, Close, SetExit,
        ReportMissing, Finalize, TestsGenerated, GenGivesUp, DocGateFails, Execute, JudgeMet,
        JudgeStop, JudgeContinue, stateFile, artifacts
  <2> QED BY <2>1, Unshrunk, CompleteUnchanged
<1>3. CASE PersistExecution
  <2>1. UNCHANGED <<iterations, usage, max_iter>> /\ execution_json \subseteq execution_json'
    BY <1>3 DEF PersistExecution, stateFile
  <2> QED BY <2>1, Unshrunk, CompleteUnchanged
<1>4. CASE StartIteration
  <2>1. /\ UpdateIteration([iterations[iter_n] EXCEPT !.started = TRUE])
        /\ UNCHANGED <<usage, max_iter, execution_json>> /\ iter_n \in Rounds
    BY <1>4, LoopConstants
    DEF StartIteration, artifacts, TypeInv, TypeOK, LocalsOK, Rounds
  <2>2. \A i \in Rounds : Complete(i) => Complete(i)'
    BY <1>a, <2>1, CompleteStays DEF Complete, Record
  <2> QED BY <2>1, <2>2, Unshrunk
<1>5. CASE GenEmpty
  <2>1. /\ UpdateIteration([iterations[iter_n] EXCEPT !.gen_output = "empty"])
        /\ UNCHANGED <<usage, max_iter, execution_json>>
    BY <1>5 DEF GenEmpty, notRecords, artifacts
  <2>2. iter_n \in Rounds
    BY <1>5, RoundIsOpen DEF GenEmpty, InRound, AfterBaseline
  <2>3. \A i \in Rounds : Complete(i) => Complete(i)'
    BY <1>a, <2>1, <2>2, CompleteStays DEF Complete, Record
  <2> QED BY <2>1, <2>3, Unshrunk
<1>6. CASE RecordVerdict
  <2>1. /\ UpdateIteration([iterations[iter_n] EXCEPT !.execute_verdict = verdict,
                                                      !.gen_output = "ok"])
        /\ UNCHANGED <<usage, max_iter, execution_json>> /\ pc = "record"
    BY <1>6 DEF RecordVerdict, notRecords, artifacts
  <2>2. iter_n \in Rounds /\ verdict # "none"
    BY <2>1, RoundIsOpen DEF TypeInv, PlaceInv, InRound, AfterBaseline, AllVerdicts
  <2>3. \A i \in Rounds : Complete(i) => Complete(i)'
    BY <1>a, <2>1, <2>2, CompleteStays DEF Complete, Record
  <2> QED BY <2>1, <2>3, Unshrunk
<1>7. CASE RecordCoverage
  <2>1. /\ UpdateIteration([iterations[iter_n] EXCEPT
                              !.coverage_after = Metrics(coverage_json[iter_n]),
                              !.delta = Delta(coverage_json[iter_n], GapSource)])
        /\ UNCHANGED <<usage, max_iter, execution_json>> /\ pc = "cover"
    BY <1>7 DEF RecordCoverage, Goto, notRecords, artifacts
  <2>2. iter_n \in Rounds /\ Metrics(coverage_json[iter_n]) # NoMetrics
    BY <1>a, <2>1, RoundIsOpen, ReportMetrics DEF TypeInv, PlaceInv, InRound, AfterBaseline
  <2>3. \A i \in Rounds : Complete(i) => Complete(i)'
    BY <1>a, <2>1, <2>2, CompleteStays DEF Complete, Record
  <2> QED BY <2>1, <2>3, Unshrunk
<1>8. CASE NothingToAim
  <2>1. /\ UpdateIteration([iterations[iter_n] EXCEPT !.coverage_after = Metrics(GapSource)])
        /\ UNCHANGED <<usage, max_iter, execution_json>> /\ pc = "check"
    BY <1>8 DEF NothingToAim, notRecords, artifacts
  <2>2. iter_n \in Rounds /\ Metrics(GapSource) # NoMetrics
    BY <1>a, <2>1, RoundIsOpen, GapSourceType, ReportMetrics DEF InRound, AfterBaseline
  <2>3. \A i \in Rounds : Complete(i) => Complete(i)'
    BY <1>a, <2>1, <2>2, CompleteStays DEF Complete, Record
  <2> QED BY <2>1, <2>3, Unshrunk
<1>9. CASE AlreadyCovered
  <2>1. PICK d \in {"up", "flat"} :
          /\ UpdateIteration([iterations[iter_n] EXCEPT
                                !.coverage_after = VacuousMetrics(GapSource), !.delta = d])
          /\ UNCHANGED <<usage, max_iter, execution_json>> /\ pc = "check"
    BY <1>9 DEF AlreadyCovered, notRecords, artifacts
  <2>2. iter_n \in Rounds /\ VacuousMetrics(GapSource) # NoMetrics
    BY <1>a, <2>1, RoundIsOpen, GapSourceType, ReportMetrics DEF InRound, AfterBaseline
  <2>3. \A i \in Rounds : Complete(i) => Complete(i)'
    BY <1>a, <2>1, <2>2, CompleteStays DEF Complete, Record
  <2> QED BY <2>1, <2>3, Unshrunk
<1>10. CASE JudgeVacuous
  <2>1. /\ UpdateIteration([iterations[iter_n] EXCEPT
                              !.coverage_after = VacuousMetrics(previous)])
        /\ UNCHANGED <<usage, max_iter, execution_json>> /\ pc = "judge"
    BY <1>10 DEF JudgeVacuous, notRecords, artifacts
  <2>2. iter_n \in Rounds /\ VacuousMetrics(previous) # NoMetrics
    BY <1>a, <2>1, RoundIsOpen, ReportMetrics DEF TypeInv, PlaceInv, InRound, AfterBaseline
  <2>3. \A i \in Rounds : Complete(i) => Complete(i)'
    BY <1>a, <2>1, <2>2, CompleteStays DEF Complete, Record
  <2> QED BY <2>1, <2>3, Unshrunk
<1> QED
  BY <1>1, <1>2, <1>3, <1>4, <1>5, <1>6, <1>7, <1>8, <1>9, <1>10
  DEF Step, Prepare, Open, Generate, Review, Measure, Judge

\* A step of the loop touches no round but its own, and never goes back.
LEMMA StepHere ==
  ASSUME TypeInv, Step
  PROVE  /\ pc \notin Halted
         /\ iter_n' >= iter_n
         /\ Started \subseteq Started'
         /\ \A i \in Rounds \ {iter_n} : iterations'[i] = iterations[i]
         /\ \A i \in Rounds \ {iter_n} : coverage_json'[i] = coverage_json[i]
<1>a. /\ iterations \in [Rounds -> Record] /\ iter_n \in Nat /\ 0 \notin Rounds
      /\ coverage_json \in [0..RoundBound -> Report \cup {NoReport}]
  BY LoopConstants DEF TypeInv, TypeOK, StateFileOK, LocalsOK, ArtifactsOK, Rounds
<1>1. CASE \/ Prepare \/ RoundsExhausted \/ WorkToDo \/ Gap \/ Gen \/ TestsGenerated
           \/ GenGivesUp \/ Review \/ PersistExecution \/ Quality \/ JudgeMet \/ JudgeStop
           \/ JudgeContinue \/ Close \/ Execute
  <2>1. CASE Prepare \/ RoundsExhausted \/ WorkToDo \/ Gap \/ Gen \/ TestsGenerated \/ GenGivesUp
    <3>1. pc \notin Halted /\ UNCHANGED <<iterations, iter_n>>
      BY <2>1
      DEF Prepare, Analyze, BuildOk, BuildFails, Baseline, RoundsExhausted, WorkToDo, Gap, Gen,
          TestsGenerated, GenGivesUp, Call, Goto, stateFile, notUsage, locals, notExit, Halted
    <3>2. \A i \in Rounds : coverage_json'[i] = coverage_json[i]
      <4>1. CASE Baseline
        <5>1. \/ UNCHANGED coverage_json
              \/ \E r \in Report : coverage_json' = [coverage_json EXCEPT ![0] = r]
          BY <4>1 DEF Baseline
        <5>2. \A i \in Rounds : i \in 0..RoundBound /\ i # 0
          BY LoopConstants DEF Rounds
        <5> QED BY <1>a, <5>1, <5>2
      <4>2. CASE ~Baseline
        <5>1. UNCHANGED coverage_json
          BY <2>1, <4>2
          DEF Prepare, Analyze, BuildOk, BuildFails, RoundsExhausted, WorkToDo, Gap, Gen,
              TestsGenerated, GenGivesUp, artifacts
        <5> QED BY <5>1
      <4> QED BY <4>1, <4>2
    <3> QED BY <1>a, <3>1, <3>2 DEF Started
  <2>2. CASE Review \/ PersistExecution \/ Quality \/ JudgeMet \/ JudgeStop \/ JudgeContinue \/ Close
    <3>1. /\ pc \notin Halted /\ UNCHANGED <<iterations, coverage_json>>
          /\ iter_n' \in {iter_n, iter_n + 1}
      BY <2>2
      DEF Review, DocGateFails, VerifyAgent, GenFix, PersistExecution, Quality, JudgeMet,
          JudgeStop, JudgeContinue, Close, SetExit, ReportMissing, Finalize, Call, Goto,
          stateFile, notUsage, locals, notExit, artifacts, Halted
    <3> QED BY <1>a, <3>1 DEF Started
  <2>3. CASE Execute
    <3>1. /\ pc \notin Halted /\ UNCHANGED <<iterations, iter_n>>
          /\ \E r \in Report : coverage_json' = [coverage_json EXCEPT ![iter_n] = r]
      BY <2>3 DEF Execute, Goto, stateFile, Halted
    <3> QED BY <1>a, <3>1 DEF Started
  <2> QED BY <1>1, <2>1, <2>2, <2>3
<1>2. CASE \/ StartIteration \/ AlreadyCovered \/ NothingToAim \/ GenEmpty \/ RecordVerdict
           \/ RecordCoverage \/ JudgeVacuous
  <2>1. /\ pc \notin Halted /\ UNCHANGED coverage_json
        /\ iter_n' \in {iter_n, iter_n + 1} /\ iter_n \in Rounds
    <3>1. pc \notin Halted /\ UNCHANGED coverage_json /\ iter_n' \in {iter_n, iter_n + 1}
      BY <1>2
      DEF StartIteration, AlreadyCovered, NothingToAim, GenEmpty, RecordVerdict,
          RecordCoverage, JudgeVacuous, Goto, notExit, artifacts, Halted
    <3>2. CASE StartIteration
      BY <3>1, <3>2, LoopConstants DEF StartIteration, TypeInv, TypeOK, LocalsOK, Rounds
    <3>3. CASE ~StartIteration
      <4>1. pc \in InRound
        BY <1>2, <3>3
        DEF AlreadyCovered, NothingToAim, GenEmpty, RecordVerdict, RecordCoverage, JudgeVacuous,
            Goto, InRound, AfterBaseline
      <4> QED BY <3>1, <4>1, RoundIsOpen
    <3> QED BY <3>2, <3>3
  <2>2. iterations[iter_n] \in Record
    BY <1>a, <2>1
  <2>3. \E rec : UpdateIteration(rec)
    <3>1. CASE AlreadyCovered
      BY <3>1 DEF AlreadyCovered
    <3>2. CASE ~AlreadyCovered
      BY <1>2, <3>2
      DEF StartIteration, NothingToAim, GenEmpty, RecordVerdict, RecordCoverage, JudgeVacuous
    <3> QED BY <3>1, <3>2
  <2>4. iterations[iter_n].started => iterations'[iter_n].started
    <3> USE DEF UpdateIteration, Record
    <3>1. CASE StartIteration
      BY <1>a, <2>1, <2>2, <3>1 DEF StartIteration
    <3>2. CASE AlreadyCovered
      BY <1>a, <2>1, <2>2, <3>2 DEF AlreadyCovered
    <3>3. CASE NothingToAim \/ GenEmpty
      BY <1>a, <2>1, <2>2, <3>3 DEF NothingToAim, GenEmpty
    <3>4. CASE RecordVerdict
      BY <1>a, <2>1, <2>2, <3>4 DEF RecordVerdict
    <3>5. CASE RecordCoverage
      BY <1>a, <2>1, <2>2, <3>5 DEF RecordCoverage
    <3>6. CASE JudgeVacuous
      BY <1>a, <2>1, <2>2, <3>6 DEF JudgeVacuous
    <3> QED BY <1>2, <3>1, <3>2, <3>3, <3>4, <3>5, <3>6
  <2>5. \A i \in Rounds \ {iter_n} : iterations'[i] = iterations[i]
    BY <1>a, <2>1, <2>3 DEF UpdateIteration
  <2>6. Started \subseteq Started'
    BY <2>4, <2>5 DEF Started
  <2>7. iter_n' >= iter_n
    BY <1>a, <2>1
  <2> QED BY <2>1, <2>5, <2>6, <2>7
<1> QED BY <1>1, <1>2 DEF Step, Open, Generate, Measure, Judge

\* A resumption goes on after the rounds that are complete from the first on.
LEMMA ResumeAfterKept ==
  ASSUME NEW i \in Rounds, \A j \in 1..i : j \in Started /\ Complete(j)
  PROVE  i < ResumeStartIter
<1> DEFINE open == {k \in Started : ~Complete(k)}
<1>1. /\ Started \in SUBSET Rounds /\ open \in SUBSET Rounds
      /\ Rounds \in SUBSET (0..RoundBound) /\ Rounds \in SUBSET Nat
      /\ \A k \in Rounds : k >= 1
  BY RoundFacts DEF Rounds, Started
<1>2. i \in Nat /\ i \in Started
  BY <1>1
<1>3. CASE open = {}
  <2>1. \E m \in Started : \A j \in Started : j <= m
    BY <1>1, <1>2, RoundFacts, GreatestElement
  <2>2. LastStarted \in Started /\ i <= LastStarted
    BY <1>2, <2>1 DEF LastStarted
  <2>3. ResumeStartIter = LastStarted + 1
    BY <1>2, <1>3 DEF ResumeStartIter
  <2> QED BY <1>1, <1>2, <2>2, <2>3
<1>4. CASE open # {}
  <2>1. \E m \in open : \A j \in open : m <= j
    BY <1>1, <1>4, LeastElement
  <2> DEFINE first == CHOOSE k \in open : \A j \in open : k <= j
  <2>2. first \in open
    BY <2>1
  <2>3. ResumeStartIter = first
    BY <1>2, <1>4 DEF ResumeStartIter
  <2> HIDE DEF first
  <2>4. first \in Nat /\ first >= 1 /\ ~Complete(first)
    BY <1>1, <2>2
  <2>5. ~(first <= i)
    BY <1>2, <2>4
  <2> QED BY <1>2, <2>3, <2>4, <2>5
<1> QED BY <1>3, <1>4

\* Rounds are kept by what touches none of them.
LEMMA KeptUntouched ==
  ASSUME \A i \in Rounds : Complete(i) => Complete(i)',
         Started \subseteq Started',
         \A i \in Kept : i < iter_n' \/ pc' \in Halted
  PROVE  Kept \subseteq Kept'
<1> SUFFICES ASSUME NEW i \in Kept PROVE i \in Kept'
  OBVIOUS
<1>1. \A j \in 1..i : j \in Rounds
  BY LoopConstants DEF Kept, Rounds
<1>2. i \in Rounds /\ \A j \in 1..i : j \in Started' /\ Complete(j)'
  BY <1>1 DEF Kept
<1> QED BY <1>2 DEF Kept

LEMMA StepLosesNothing == TypeInv /\ PaidInv /\ [Next]_vars => [LosesNothing]_vars
<1> SUFFICES ASSUME TypeInv, PaidInv, [Next]_vars PROVE [LosesNothing]_vars
  OBVIOUS
<1>1. CASE Step
  <2>1. \A i \in Kept : i \in Rounds /\ i < iter_n /\ i # iter_n
    <3>1. iter_n \in Nat /\ \A i \in Rounds : i \in Nat
      BY RoundFacts DEF TypeInv, TypeOK, LocalsOK
    <3> QED BY <1>1, <3>1, StepHere DEF Kept
  <2>2. iter_n \in Nat /\ iter_n' \in Int /\ \A i \in Rounds : i \in Nat
    BY RoundFacts, TypeNext DEF TypeInv, TypeOK, LocalsOK
  <2>3. \A i \in Kept : i < iter_n'
    BY <1>1, <2>1, <2>2, StepHere
  <2>4. Kept \subseteq Kept'
    BY <1>1, <2>3, StepHere, StepKeepsRecords, KeptUntouched
  <2> QED BY <1>1, <2>1, <2>4, StepHere, StepKeepsRecords DEF LosesNothing
<1>2. CASE Crash \/ CrashInCall
  <2>1. pc' = "crashed" /\ UNCHANGED <<execution_json, coverage_json>>
    BY <1>2, CrashLeaves DEF LoseLocals
  <2>2. CASE CutState
    BY <2>1, <2>2 DEF CutState, LosesNothing
  <2>3. CASE UNCHANGED stateFile
    <3>1. UNCHANGED <<iterations, usage, max_iter>>
      BY <2>3 DEF stateFile
    <3>2. Kept \subseteq Kept'
      BY <2>1, <3>1, CompleteUnchanged, KeptUntouched DEF Halted, Started
    <3> QED BY <2>1, <3>1, <3>2, CompleteUnchanged, Unshrunk DEF LosesNothing
  <2> QED BY <1>2, <2>2, <2>3, CrashLeaves
<1>3. CASE Resume
  <2>1. PICK more \in MoreIters : max_iter' = ResumeEnd(more)
    BY <1>3 DEF Resume
  <2>2. /\ UNCHANGED <<iterations, usage, execution_json, coverage_json>>
        /\ iter_n' = ResumeStartIter
    BY <1>3 DEF Resume, artifacts
  <2>3. max_iter' >= max_iter
    BY <2>1, ResumeStartRange, LoopConstants
    DEF ResumeEnd, TypeInv, TypeOK, StateFileOK
  <2>4. \A i \in Kept : i < iter_n'
    BY <2>2, ResumeAfterKept DEF Kept
  <2>5. Kept \subseteq Kept'
    BY <2>2, <2>4, CompleteUnchanged, KeptUntouched DEF Started
  <2> QED BY <2>2, <2>3, <2>5, Unshrunk, CompleteUnchanged DEF LosesNothing
<1>4. CASE ResumeFails
  <2>1. UNCHANGED <<iterations, usage, max_iter, execution_json, coverage_json>> /\ pc' = "dead"
    BY <1>4 DEF ResumeFails, stateFile, artifacts
  <2>2. Kept \subseteq Kept'
    BY <2>1, CompleteUnchanged, KeptUntouched DEF Halted, Started
  <2> QED BY <2>1, <2>2, CompleteUnchanged, Unshrunk DEF LosesNothing
<1>5. CASE UNCHANGED vars
  BY <1>5
<1> QED
  BY <1>1, <1>2, <1>3, <1>4, <1>5 DEF Next, Rest

\* Whatever crashes and resumptions come: what was executed, recorded or granted stays,
\* and a round that is complete with all before it is neither run nor recorded again --
\* for every number of rounds and every view; only a process that dies while it rewrites
\* the state file loses what was recorded.
THEOREM NothingLost == Spec => ResumeLosesNothing
<1> QED BY TypeInit, TypeNext, PaidInit, PaidNext, StepLosesNothing, PTL
        DEF Spec, ResumeLosesNothing

-----------------------------------------------------------------------------
(* The course of a run: which rounds it is through with.  That no round is  *)
(* passed over, whatever was interrupted, is what max_iter_reached rests on.*)

Closing == {"wrapup", "finalize", "exited"}
Lost == {"crashed", "dead"}

\* a round a run is through with
Used(i) == /\ iterations[i].started
           /\ Complete(i) \/ iterations[i].gen_output = "empty" \/ i \in execution_json

UsedTo(n) == \A i \in Rounds : i <= n => Used(i)

CourseInv ==
  /\ pc \in InRound => current_iter = iter_n /\ iterations[iter_n].started
  /\ pc \in {"record", "quality", "cover", "judge"} => iter_n \in execution_json
  /\ pc \notin Lost => end_iter = max_iter /\ UsedTo(iter_n - 1)
  /\ pc \notin Closing \cup Lost => status = "running" /\ exit_reason = ""
  /\ \A i \in Started : \A j \in Rounds : j <= i => j \in Started
  /\ pc = "exit" /\ exit.reason = "max_iter_reached" => UsedTo(max_iter)
  /\ exit_reason = "max_iter_reached" => UsedTo(max_iter)

\* A run begins with no round started and none to have been used.
LEMMA CourseInit == Init => CourseInv
<1> SUFFICES ASSUME Init PROVE CourseInv
  OBVIOUS
<1>1. /\ pc = "analyze" /\ end_iter = max_iter /\ iter_n = 1
      /\ status = "running" /\ exit_reason = ""
  BY DEF Init
<1>2. Started = {}
  BY DEF Init, Started, NoRecord
<1>3. UsedTo(iter_n - 1)
  <2>1. \A i \in Rounds : ~(i <= 1 - 1)
    BY DEF Rounds
  <2> QED BY <1>1, <2>1 DEF UsedTo
<1> QED BY <1>1, <1>2, <1>3 DEF CourseInv, InRound, AfterBaseline, Closing, Lost

\* A step that leaves the records and the executed rounds as they are.
LEMMA UsedUnchanged ==
  ASSUME UNCHANGED <<iterations, execution_json>>
  PROVE  /\ \A i \in Rounds : Used(i) => Used(i)'
         /\ Started' = Started
BY DEF Used, Started, Complete

\* A new record of the round is no step back when it is as complete as the old one.
LEMMA UsedUpdated ==
  ASSUME iterations \in [Rounds -> Record], iter_n \in Rounds,
         NEW rec, UpdateIteration(rec), UNCHANGED execution_json, rec.started = TRUE,
         Used(iter_n) => \/ rec.execute_verdict # "none" /\ rec.coverage_after # NoMetrics
                         \/ rec.gen_output = "empty"
                         \/ iter_n \in execution_json
  PROVE  /\ \A i \in Rounds : Used(i) => Used(i)'
         /\ Started' = Started \cup {iter_n}
         /\ iterations'[iter_n].started
<1>1. /\ iterations'[iter_n] = rec
      /\ \A i \in Rounds : i # iter_n => iterations'[i] = iterations[i]
  BY DEF UpdateIteration
<1>2. Started' = Started \cup {iter_n}
  BY <1>1 DEF Started
<1>3. ASSUME NEW i \in Rounds, Used(i) PROVE Used(i)'
  BY <1>1, <1>3 DEF Used, Complete
<1> QED BY <1>1, <1>2, <1>3

\* What such a step leaves of the invariant.
LEMMA CourseKept ==
  ASSUME TypeInv, CourseInv, \A i \in Rounds : Used(i) => Used(i)',
         \/ Started' = Started
         \/ iter_n \in Rounds /\ Started' = Started \cup {iter_n} /\ pc \notin Lost,
         UNCHANGED <<max_iter, end_iter, status, exit_reason>>,
         pc' \notin Closing => pc \notin Closing \cup Lost,
         iter_n' = iter_n \/ (iter_n' = iter_n + 1 /\ \A i \in Rounds : i = iter_n => Used(i)'),
         pc' \in Lost \/ pc \notin Lost
  PROVE  /\ pc' \notin Lost => end_iter' = max_iter' /\ UsedTo(iter_n - 1)'
         /\ pc' \notin Closing \cup Lost => status' = "running" /\ exit_reason' = ""
         /\ \A i \in Started' : \A j \in Rounds : j <= i => j \in Started'
         /\ UsedTo(max_iter) => UsedTo(max_iter)'
         /\ exit_reason' = "max_iter_reached" => UsedTo(max_iter)'
<1>1. iter_n \in Nat /\ \A i \in Rounds : i \in Nat
  BY RoundFacts DEF TypeInv, TypeOK, LocalsOK
<1>2. UsedTo(max_iter) => UsedTo(max_iter)'
  BY DEF UsedTo
<1>3. exit_reason' = "max_iter_reached" => UsedTo(max_iter)'
  BY <1>2 DEF CourseInv
<1>4. ASSUME pc' \notin Lost PROVE end_iter' = max_iter' /\ UsedTo(iter_n - 1)'
  <2>1. end_iter = max_iter /\ UsedTo(iter_n - 1)
    BY <1>4 DEF CourseInv
  <2>2. ASSUME NEW i \in Rounds, i <= iter_n' - 1 PROVE Used(i)'
    BY <1>1, <2>1, <2>2 DEF UsedTo
  <2> QED BY <2>1, <2>2 DEF UsedTo
<1>5. pc' \notin Closing \cup Lost => status' = "running" /\ exit_reason' = ""
  BY DEF CourseInv
<1>6. ASSUME NEW i \in Started', NEW j \in Rounds, j <= i PROVE j \in Started'
  <2>1. CASE i \in Started
    BY <1>6, <2>1 DEF CourseInv
  <2>2. CASE i = iter_n /\ iter_n \in Rounds /\ pc \notin Lost
    <3>1. j = iter_n \/ j <= iter_n - 1
      BY <1>1, <1>6, <2>2
    <3>2. j <= iter_n - 1 => Used(j)
      BY <2>2 DEF CourseInv, UsedTo
    <3> QED BY <1>6, <2>2, <3>1, <3>2 DEF Used, Started
  <2> QED BY <1>6, <2>1, <2>2
<1> QED BY <1>2, <1>3, <1>4, <1>5, <1>6
\* The steps that neither change a record nor end a round.
LEMMA CourseQuiet ==
  ASSUME TypeInv, CourseInv,
         \/ Analyze \/ BuildOk \/ Baseline \/ WorkToDo \/ Gap \/ Gen \/ TestsGenerated
         \/ DocGateFails \/ VerifyAgent \/ GenFix \/ Execute \/ Quality \/ GenGivesUp
  PROVE  CourseInv'
<1>1. /\ UNCHANGED <<iterations, current_iter, max_iter, status, exit_reason, iter_n, end_iter,
                     execution_json>>
      /\ pc \notin Closing \cup Lost \cup {"exit"} /\ pc' \notin Closing \cup Lost
      /\ pc' \in InRound => pc \in InRound
      /\ pc' \in {"record", "quality", "cover", "judge"} =>
           pc \in {"record", "quality", "cover", "judge"}
      /\ pc' = "exit" => exit'.reason # "max_iter_reached"
  <2>1. CASE Analyze \/ BuildOk \/ Baseline \/ WorkToDo \/ Gap \/ Gen \/ Execute \/ Quality
    BY <2>1 DEF Analyze, BuildOk, Baseline, WorkToDo, Gap, Gen, Execute, Quality, Goto, Call,
                stateFile, notUsage, exitState, artifacts, locals, span, InRound,
                AfterBaseline, Closing, Lost
  <2>2. CASE TestsGenerated \/ GenGivesUp
    BY <2>2 DEF TestsGenerated, GenGivesUp, Leave, stateFile, exitState, artifacts, span,
                InRound, AfterBaseline, Closing, Lost
  <2>3. CASE DocGateFails
    <3>1. /\ pc = "verify" /\ UNCHANGED <<stateFile, execution_json, iter_n, span>>
          /\ AfterReview(FALSE)
      BY <2>3 DEF DocGateFails
    <3>2. \/ pc' = "gen_fix"
          \/ /\ pc' = "exit"
             /\ exit' = [status |-> "early_stop", reason |-> "verify_fail_exceeded",
                         metrics |-> NoMetrics]
      BY <3>1, Zenon DEF AfterReview, Leave
    <3> QED BY <3>1, <3>2 DEF stateFile, exitState, span, InRound, AfterBaseline, Closing, Lost
  <2>4. CASE VerifyAgent
    BY <2>4 DEF VerifyAgent, Call, AfterReview, Leave, notUsage, exitState, span,
                InRound, AfterBaseline, Closing, Lost
  <2>5. CASE GenFix
    BY <2>5 DEF GenFix, Goto, Call, notUsage, exitState, span,
                InRound, AfterBaseline, Closing, Lost
  <2> QED BY <2>1, <2>2, <2>3, <2>4, <2>5
<1>2. /\ \A i \in Rounds : Used(i) => Used(i)'
      /\ Started' = Started
  BY <1>1, UsedUnchanged
<1>3. /\ pc' \notin Lost => end_iter' = max_iter' /\ UsedTo(iter_n - 1)'
      /\ pc' \notin Closing \cup Lost => status' = "running" /\ exit_reason' = ""
      /\ \A i \in Started' : \A j \in Rounds : j <= i => j \in Started'
      /\ exit_reason' = "max_iter_reached" => UsedTo(max_iter)'
  BY <1>1, <1>2, CourseKept
<1>4. /\ pc' \in InRound => current_iter' = iter_n' /\ iterations'[iter_n'].started
      /\ pc' \in {"record", "quality", "cover", "judge"} => iter_n' \in execution_json'
  BY <1>1 DEF CourseInv
<1> QED BY <1>1, <1>3, <1>4 DEF CourseInv

\* The steps that close a run.
LEMMA CourseClose ==
  ASSUME TypeInv, CourseInv, BuildFails \/ Close \/ ResumeFails
  PROVE  CourseInv'
<1>1. /\ UNCHANGED <<iterations, max_iter, execution_json>>
      /\ pc' \in Closing \cup Lost
      /\ pc' \notin Lost => UNCHANGED <<iter_n, end_iter>> /\ pc \notin Lost
      /\ \/ UNCHANGED exit_reason
         \/ exit_reason' = "build_failed"
         \/ pc = "exit" /\ exit_reason' = exit.reason
  BY DEF BuildFails, Close, SetExit, ReportMissing, Finalize, ResumeFails, Goto,
         stateFile, exitState, artifacts, locals, span, Closing, Lost
<1>2. /\ \A i \in Rounds : Used(i) => Used(i)'
      /\ Started' = Started
  BY <1>1, UsedUnchanged
<1>3. pc' \notin Lost => end_iter' = max_iter' /\ UsedTo(iter_n - 1)'
  BY <1>1, <1>2 DEF CourseInv, UsedTo
<1>4. exit_reason' = "max_iter_reached" => UsedTo(max_iter)'
  BY <1>1, <1>2 DEF CourseInv, UsedTo
<1> QED BY <1>1, <1>2, <1>3, <1>4 DEF CourseInv, InRound, AfterBaseline, Closing, Lost

\* A crash leaves the records as they are, or none of them.
LEMMA CourseCrash == ASSUME TypeInv, CourseInv, Crash \/ CrashInCall PROVE CourseInv'
<1>1. /\ pc' = "crashed" /\ UNCHANGED execution_json
      /\ UNCHANGED stateFile \/ CutState
  BY CrashLeaves DEF LoseLocals
<1>2. CASE UNCHANGED stateFile
  <2>1. UNCHANGED <<iterations, max_iter, exit_reason>>
    BY <1>2 DEF stateFile, exitState
  <2>2. Started' = Started /\ \A i \in Rounds : Used(i) => Used(i)'
    BY <1>1, <2>1, UsedUnchanged
  <2> QED BY <1>1, <2>1, <2>2 DEF CourseInv, UsedTo, InRound, AfterBaseline, Closing, Lost
<1>3. CASE CutState
  <2>1. Started' = {} /\ exit_reason' = ""
    BY <1>3 DEF CutState, Started, NoRecord
  <2> QED BY <1>1, <2>1 DEF CourseInv, InRound, AfterBaseline, Closing, Lost
<1> QED BY <1>1, <1>2, <1>3

\* The steps that change the record of the round but do not end the loop.
LEMMA CourseRecords ==
  ASSUME TypeInv, CourseInv, RecordVerdict \/ RecordCoverage
  PROVE  CourseInv'
<1>1. /\ UNCHANGED <<current_iter, max_iter, status, exit_reason, iter_n, end_iter, execution_json>>
      /\ pc \in {"record", "cover"} /\ pc' \in {"cover", "quality", "judge"}
  BY DEF RecordVerdict, RecordCoverage, Goto, notRecords, exitState, artifacts, span
<1>2. iter_n \in Rounds /\ iter_n \in execution_json /\ iterations[iter_n].started
  BY <1>1, RoundIsOpen DEF CourseInv, InRound, AfterBaseline
<1>a. iterations[iter_n] \in Record
  BY <1>2 DEF TypeInv, TypeOK, StateFileOK
<1>3. PICK rec : UpdateIteration(rec) /\ rec.started = TRUE
  <2>1. CASE RecordVerdict
    <3> DEFINE rec == [iterations[iter_n] EXCEPT !.execute_verdict = verdict,
                                                 !.gen_output = "ok"]
    <3>1. UpdateIteration(rec)
      BY <2>1 DEF RecordVerdict
    <3>2. rec.started = TRUE
      BY <1>2, <1>a DEF Record
    <3> QED BY <3>1, <3>2
  <2>2. CASE RecordCoverage
    <3> DEFINE rec == [iterations[iter_n] EXCEPT
                         !.coverage_after = Metrics(coverage_json[iter_n]),
                         !.delta = Delta(coverage_json[iter_n], GapSource)]
    <3>1. UpdateIteration(rec)
      BY <2>2 DEF RecordCoverage
    <3>2. rec.started = TRUE
      BY <1>2, <1>a DEF Record
    <3> QED BY <3>1, <3>2
  <2> QED BY <2>1, <2>2
<1>4. /\ \A i \in Rounds : Used(i) => Used(i)'
      /\ Started' = Started \cup {iter_n} /\ iterations'[iter_n].started
  BY <1>1, <1>2, <1>3, UsedUpdated DEF TypeInv, TypeOK, StateFileOK
<1>5. /\ pc' \notin Lost => end_iter' = max_iter' /\ UsedTo(iter_n - 1)'
      /\ pc' \notin Closing \cup Lost => status' = "running" /\ exit_reason' = ""
      /\ \A i \in Started' : \A j \in Rounds : j <= i => j \in Started'
      /\ exit_reason' = "max_iter_reached" => UsedTo(max_iter)'
  BY <1>1, <1>2, <1>4, CourseKept DEF Closing, Lost
<1> QED BY <1>1, <1>2, <1>4, <1>5 DEF CourseInv, InRound, AfterBaseline

\* Those that end it, with all targets met or nothing to aim at.
LEMMA CourseVerdicts ==
  ASSUME TypeInv, CourseInv, AlreadyCovered \/ NothingToAim \/ JudgeVacuous
  PROVE  CourseInv'
<1>1. /\ UNCHANGED <<current_iter, max_iter, status, exit_reason, iter_n, end_iter, execution_json>>
      /\ pc \in {"check", "judge"} /\ pc' = "exit" /\ exit'.reason # "max_iter_reached"
  <2>1. CASE AlreadyCovered
    BY <2>1 DEF AlreadyCovered, Leave, notRecords, exitState, artifacts, notExit, span
  <2>2. CASE NothingToAim
    BY <2>2 DEF NothingToAim, Leave, notRecords, exitState, artifacts, notExit, span
  <2>3. CASE JudgeVacuous
    BY <2>3 DEF JudgeVacuous, Leave, notRecords, exitState, artifacts, notExit, span
  <2> QED BY <2>1, <2>2, <2>3
<1>2. iter_n \in Rounds /\ iterations[iter_n].started /\ iterations[iter_n] \in Record
  BY <1>1, RoundIsOpen DEF CourseInv, InRound, AfterBaseline, TypeInv, TypeOK, StateFileOK
<1>3. PICK m \in MetricsType, d \in {"none", "up", "flat"} :
        /\ m # NoMetrics
        /\ \/ UpdateIteration([iterations[iter_n] EXCEPT !.coverage_after = m])
           \/ UpdateIteration([iterations[iter_n] EXCEPT !.coverage_after = m, !.delta = d])
  <2>1. shape \in Shapes /\ MetricsType = [func : -1..100, cond : -1..100]
    BY DEF TypeInv, TypeOK, MetricsType
  <2>2. CASE AlreadyCovered \/ NothingToAim
    <3>1. GapSource \in Report
      BY <2>2, GapSourceType DEF AlreadyCovered, NothingToAim, AfterBaseline
    <3> QED BY <2>1, <2>2, <3>1, ReportMetrics, GapSourceType
            DEF AlreadyCovered, NothingToAim, AfterBaseline
  <2>3. CASE JudgeVacuous
    <3>1. previous \in Report
      BY <2>3 DEF JudgeVacuous, TypeInv, PlaceInv
    <3>2. VacuousMetrics(previous) \in MetricsType /\ VacuousMetrics(previous) # NoMetrics
      BY <2>1, <3>1, ReportMetrics
    <3> QED BY <2>3, <3>2 DEF JudgeVacuous
  <2> QED BY <2>2, <2>3
<1>4. PICK rec : /\ UpdateIteration(rec) /\ rec.started = TRUE /\ rec.coverage_after # NoMetrics
                 /\ rec.execute_verdict = iterations[iter_n].execute_verdict
                 /\ rec.gen_output = iterations[iter_n].gen_output
  <2> DEFINE one == [iterations[iter_n] EXCEPT !.coverage_after = m]
             two == [iterations[iter_n] EXCEPT !.coverage_after = m, !.delta = d]
  <2>1. \A rec \in {one, two} : /\ rec.started = TRUE /\ rec.coverage_after = m
                 /\ rec.execute_verdict = iterations[iter_n].execute_verdict
                 /\ rec.gen_output = iterations[iter_n].gen_output
    BY <1>2 DEF Record
  <2>2. UpdateIteration(one) \/ UpdateIteration(two)
    BY <1>3
  <2> HIDE DEF one, two
  <2> QED BY <1>3, <2>1, <2>2
<1>5. /\ \A i \in Rounds : Used(i) => Used(i)'
      /\ Started' = Started \cup {iter_n} /\ iterations'[iter_n].started
  BY <1>1, <1>2, <1>4, UsedUpdated DEF TypeInv, TypeOK, StateFileOK, Used, Complete
<1>6. /\ pc' \notin Lost => end_iter' = max_iter' /\ UsedTo(iter_n - 1)'
      /\ pc' \notin Closing \cup Lost => status' = "running" /\ exit_reason' = ""
      /\ \A i \in Started' : \A j \in Rounds : j <= i => j \in Started'
      /\ exit_reason' = "max_iter_reached" => UsedTo(max_iter)'
  BY <1>1, <1>2, <1>5, CourseKept DEF Closing, Lost
<1>7. pc' = "exit" /\ current_iter' = current_iter /\ current_iter = iter_n
  BY <1>1 DEF CourseInv, InRound, AfterBaseline
<1> QED BY <1>1, <1>2, <1>5, <1>6, <1>7 DEF CourseInv, InRound, AfterBaseline

\* Opening a round, or passing over one that was executed before the crash.
LEMMA CourseStart == ASSUME TypeInv, CourseInv, StartIteration PROVE CourseInv'
<1>1. /\ UNCHANGED <<max_iter, status, exit_reason, end_iter, execution_json>>
      /\ pc = "head" /\ current_iter' = iter_n
      /\ UpdateIteration([iterations[iter_n] EXCEPT !.started = TRUE])
      /\ \/ iter_n' = iter_n + 1 /\ pc' = "head" /\ iter_n \in execution_json
         \/ iter_n' = iter_n /\ pc' = "check"
  BY DEF StartIteration, IterResumeStage, exitState, artifacts, span
<1>2. iter_n \in Rounds /\ iterations[iter_n] \in Record
  BY LoopConstants DEF StartIteration, TypeInv, TypeOK, LocalsOK, StateFileOK, Rounds
<1>3. PICK rec : /\ UpdateIteration(rec) /\ rec.started = TRUE
                 /\ rec.coverage_after = iterations[iter_n].coverage_after
                 /\ rec.execute_verdict = iterations[iter_n].execute_verdict
                 /\ rec.gen_output = iterations[iter_n].gen_output
  BY <1>1, <1>2 DEF Record
<1>4. /\ \A i \in Rounds : Used(i) => Used(i)'
      /\ Started' = Started \cup {iter_n} /\ iterations'[iter_n].started
  BY <1>1, <1>2, <1>3, UsedUpdated DEF TypeInv, TypeOK, StateFileOK, Used, Complete
<1>5. iter_n \in execution_json => \A i \in Rounds : i = iter_n => Used(i)'
  BY <1>1, <1>4 DEF Used
<1>6. /\ pc' \notin Lost => end_iter' = max_iter' /\ UsedTo(iter_n - 1)'
      /\ pc' \notin Closing \cup Lost => status' = "running" /\ exit_reason' = ""
      /\ \A i \in Started' : \A j \in Rounds : j <= i => j \in Started'
      /\ exit_reason' = "max_iter_reached" => UsedTo(max_iter)'
  BY <1>1, <1>2, <1>4, <1>5, CourseKept DEF Closing, Lost
<1> QED BY <1>1, <1>4, <1>6 DEF CourseInv, InRound, AfterBaseline

\* From one round to the next: the round had its result, or generated nothing.
LEMMA CourseOn == ASSUME TypeInv, CourseInv, GenEmpty \/ JudgeContinue PROVE CourseInv'
<1>1. /\ UNCHANGED <<current_iter, max_iter, status, exit_reason, end_iter, execution_json>>
      /\ pc \in {"gened", "judge"} /\ pc' = "head" /\ iter_n' = iter_n + 1
  BY DEF GenEmpty, JudgeContinue, Goto, notRecords, stateFile, exitState, artifacts, span
<1>2. iter_n \in Rounds /\ iterations[iter_n].started
      /\ iterations \in [Rounds -> Record] /\ iterations[iter_n] \in Record
  BY <1>1, RoundIsOpen DEF CourseInv, InRound, AfterBaseline, TypeInv, TypeOK, StateFileOK
<1>3. /\ \A i \in Rounds : Used(i) => Used(i)'
      /\ Started' = Started \cup {iter_n}
      /\ \A i \in Rounds : i = iter_n => Used(i)'
  <2>1. CASE GenEmpty
    <3>1. PICK rec : UpdateIteration(rec) /\ rec.started = TRUE /\ rec.gen_output = "empty"
      BY <1>2, <2>1 DEF GenEmpty, Record
    <3>2. /\ \A i \in Rounds : Used(i) => Used(i)'
          /\ Started' = Started \cup {iter_n} /\ iterations'[iter_n].started
      BY <1>1, <1>2, <3>1, UsedUpdated
    <3>3. iterations'[iter_n] = rec
      BY <1>2, <3>1 DEF UpdateIteration
    <3> QED BY <3>1, <3>2, <3>3 DEF Used
  <2>2. CASE JudgeContinue
    <3>1. UNCHANGED <<iterations, execution_json>> /\ iter_n \in execution_json
      BY <2>2 DEF JudgeContinue, stateFile, artifacts, Goto, CourseInv
    <3>2. Started' = Started /\ iter_n \in Started /\ \A i \in Rounds : Used(i) => Used(i)'
      BY <1>2, <3>1, UsedUnchanged DEF Started
    <3>3. \A i \in Rounds : i = iter_n => Used(i)'
      BY <1>2, <3>1 DEF Used
    <3> QED BY <3>2, <3>3
  <2> QED BY <2>1, <2>2
<1>4. /\ pc' \notin Lost => end_iter' = max_iter' /\ UsedTo(iter_n - 1)'
      /\ pc' \notin Closing \cup Lost => status' = "running" /\ exit_reason' = ""
      /\ \A i \in Started' : \A j \in Rounds : j <= i => j \in Started'
      /\ exit_reason' = "max_iter_reached" => UsedTo(max_iter)'
  BY <1>1, <1>2, <1>3, CourseKept DEF Closing, Lost
<1> QED BY <1>1, <1>4 DEF CourseInv, InRound, AfterBaseline
\* The end of the loop: with all rounds behind it when it says so.
LEMMA CourseEnd ==
  ASSUME TypeInv, CourseInv, RoundsExhausted \/ JudgeMet \/ JudgeStop
  PROVE  CourseInv'
<1>1. /\ UNCHANGED <<iterations, current_iter, max_iter, status, exit_reason, iter_n, end_iter,
                     execution_json>>
      /\ pc \in {"head", "judge"} /\ pc' = "exit"
  BY DEF RoundsExhausted, JudgeMet, JudgeStop, Leave, stateFile, exitState, artifacts, notExit,
         span
<1>2. /\ \A i \in Rounds : Used(i) => Used(i)'
      /\ Started' = Started
  BY <1>1, UsedUnchanged
<1>3. /\ pc' \notin Lost => end_iter' = max_iter' /\ UsedTo(iter_n - 1)'
      /\ pc' \notin Closing \cup Lost => status' = "running" /\ exit_reason' = ""
      /\ \A i \in Started' : \A j \in Rounds : j <= i => j \in Started'
      /\ exit_reason' = "max_iter_reached" => UsedTo(max_iter)'
  BY <1>1, <1>2, CourseKept DEF Closing, Lost
<1>4. iter_n \in Int /\ max_iter \in Int /\ \A i \in Rounds : i \in Int
  BY RoundFacts DEF TypeInv, TypeOK, LocalsOK, StateFileOK
<1>5. UsedTo(iter_n - 1) /\ end_iter = max_iter
  BY <1>1 DEF CourseInv, Lost
<1>6. ASSUME exit'.reason = "max_iter_reached" PROVE UsedTo(max_iter)
  <2>1. CASE RoundsExhausted
    BY <1>4, <1>5, <2>1 DEF RoundsExhausted, UsedTo
  <2>2. CASE JudgeMet
    BY <1>6, <2>2 DEF JudgeMet, Leave
  <2>3. CASE JudgeStop
    <3>1. pc = "judge" /\ check_early_stop = "max_iter_reached"
      <4>1. exit'.reason = check_early_stop \/ exit'.reason = "budget_exhausted"
        <5>1. \/ exit' = [status |-> "early_stop", reason |-> check_early_stop,
                          metrics |-> Metrics(previous)]
              \/ exit' = [status |-> "early_stop", reason |-> "budget_exhausted",
                          metrics |-> Metrics(previous)]
          BY <2>3, Zenon DEF JudgeStop, Leave
        <5> QED BY <5>1
      <4> QED BY <1>6, <2>3, <4>1 DEF JudgeStop
    <3>2. LastRound
      BY <3>1 DEF check_early_stop
    <3>3. iter_n >= max_iter /\ iter_n \in Rounds /\ Used(iter_n)
      BY <3>1, <3>2, RoundIsOpen DEF LastRound, CourseInv, InRound, AfterBaseline, Used
    <3>4. ASSUME NEW i \in Rounds, i <= max_iter PROVE Used(i)
      <4>1. i = iter_n \/ i <= iter_n - 1
        BY <1>4, <3>3, <3>4
      <4> QED BY <1>5, <3>3, <4>1 DEF UsedTo
    <3> QED BY <3>4 DEF UsedTo
  <2> QED BY <2>1, <2>2, <2>3
<1>7. exit'.reason = "max_iter_reached" => UsedTo(max_iter)'
  BY <1>1, <1>2, <1>6 DEF UsedTo
<1>8. pc = "judge" => current_iter = iter_n /\ iterations[iter_n].started
  BY DEF CourseInv, InRound, AfterBaseline
<1> QED BY <1>1, <1>3, <1>7, <1>8 DEF CourseInv, InRound, AfterBaseline

\* A round whose execution is written down is one that has been used.
LEMMA CoursePersist == ASSUME TypeInv, CourseInv, PersistExecution PROVE CourseInv'
<1>1. /\ UNCHANGED <<iterations, current_iter, max_iter, status, exit_reason, iter_n, end_iter>>
      /\ pc = "persist" /\ pc' = "record" /\ execution_json' = execution_json \cup {iter_n}
  BY DEF PersistExecution, Goto, stateFile, exitState, locals, span
<1>2. /\ \A i \in Rounds : Used(i) => Used(i)'
      /\ Started' = Started
  BY <1>1 DEF Used, Started, Complete
<1>3. /\ pc' \notin Lost => end_iter' = max_iter' /\ UsedTo(iter_n - 1)'
      /\ pc' \notin Closing \cup Lost => status' = "running" /\ exit_reason' = ""
      /\ \A i \in Started' : \A j \in Rounds : j <= i => j \in Started'
      /\ exit_reason' = "max_iter_reached" => UsedTo(max_iter)'
  BY <1>1, <1>2, CourseKept DEF Closing, Lost
<1> QED BY <1>1, <1>3 DEF CourseInv, InRound, AfterBaseline

\* A resumed run goes on at the first round it is not through with.
LEMMA ResumeSkipsUsed ==
  ASSUME CourseInv
  PROVE  UsedTo(ResumeStartIter - 1)
<1> DEFINE open == {i \in Started : ~Complete(i)}
<1>1. Started \in SUBSET Rounds /\ open \in SUBSET Rounds
  BY DEF Started
<1>2. Rounds \in SUBSET (0..RoundBound) /\ Rounds \in SUBSET Nat
  BY RoundFacts DEF Rounds
<1>3. CASE Started = {}
  <2>1. \A i \in Rounds : ~(i <= 1 - 1)
    BY DEF Rounds
  <2> QED BY <1>3, <2>1 DEF ResumeStartIter, UsedTo
<1>4. CASE Started # {} /\ open = {}
  <2>1. \E m \in Started : \A j \in Started : j <= m
    BY <1>1, <1>2, <1>4, RoundFacts, GreatestElement
  <2>2. LastStarted \in Started
    BY <2>1 DEF LastStarted
  <2>3. ResumeStartIter = LastStarted + 1
    BY <1>4 DEF ResumeStartIter
  <2>4. ASSUME NEW i \in Rounds, i <= ResumeStartIter - 1 PROVE Used(i)
    <3>1. LastStarted \in Nat /\ i \in Nat /\ i <= LastStarted
      BY <1>1, <1>2, <2>2, <2>3, <2>4
    <3>2. i \in Started
      BY <2>2, <3>1 DEF CourseInv
    <3> QED BY <1>4, <3>2 DEF Used, Started
  <2> QED BY <2>4 DEF UsedTo
<1>5. CASE Started # {} /\ open # {}
  <2>1. \E m \in open : \A j \in open : m <= j
    BY <1>1, <1>2, <1>5, LeastElement
  <2> DEFINE first == CHOOSE i \in open : \A j \in open : i <= j
  <2>2. first \in open /\ \A j \in open : first <= j
    BY <2>1
  <2>3. ResumeStartIter = first
    BY <1>5 DEF ResumeStartIter
  <2> HIDE DEF first
  <2>4. ASSUME NEW i \in Rounds, i <= ResumeStartIter - 1 PROVE Used(i)
    <3>1. first \in Nat /\ i \in Nat /\ i < first
      BY <1>1, <1>2, <2>2, <2>3, <2>4
    <3>2. i \in Started
      <4>1. first \in Started /\ i <= first
        BY <2>2, <3>1
      <4> QED BY <4>1 DEF CourseInv
    <3>3. i \notin open
      BY <2>2, <3>1
    <3> QED BY <3>2, <3>3 DEF Used, Started
  <2> QED BY <2>4 DEF UsedTo
<1> QED BY <1>3, <1>4, <1>5

\* A resumption goes on after rounds that were all used.
LEMMA CourseResume == ASSUME TypeInv, CourseInv, Resume PROVE CourseInv'
<1>1. /\ UNCHANGED <<iterations, execution_json>> /\ pc' = "build"
      /\ iter_n' = ResumeStartIter /\ end_iter' = max_iter'
      /\ status' = "running" /\ exit_reason' = ""
  BY DEF Resume, artifacts
<1>2. /\ \A i \in Rounds : Used(i) => Used(i)'
      /\ Started' = Started
  BY <1>1, UsedUnchanged
<1>3. UsedTo(iter_n - 1)'
  BY <1>1, <1>2, ResumeSkipsUsed DEF UsedTo
<1> QED BY <1>1, <1>2, <1>3 DEF CourseInv, InRound, AfterBaseline, Closing, Lost

\* No step of any process passes over a round.
LEMMA CourseNext == TypeInv /\ CourseInv /\ [Next]_vars => CourseInv'
<1> SUFFICES ASSUME TypeInv, CourseInv, [Next]_vars PROVE CourseInv'
  OBVIOUS
<1>1. CASE UNCHANGED vars
  <2>1. UNCHANGED <<iterations, current_iter, max_iter, status, exit_reason, iter_n, end_iter,
                    execution_json, pc, exit>>
    BY <1>1 DEF vars, stateFile, exitState, artifacts, locals, span
  <2> QED BY <2>1 DEF CourseInv, UsedTo, Used, Started, Complete
<1>2. CASE Step \/ Crash \/ CrashInCall \/ Resume \/ ResumeFails
  BY <1>2, CourseQuiet, CourseClose, CourseCrash, CourseRecords, CourseVerdicts, CourseStart, CourseOn,
     CourseEnd, CoursePersist, CourseResume
  DEF Step, Prepare, Open, Generate, Review, Measure, Judge
<1> QED BY <1>1, <1>2 DEF Next, Rest

\* A run that reports max_iter_reached has carried every round up to its limit to a
\* result, let it pass as empty, or executed its tests before a crash: no round is
\* skipped, however often the run was interrupted and resumed.
THEOREM RoundsAllUsed == Spec => []AllRoundsUsed
<1>1. CourseInv /\ TypeInv => AllRoundsUsed
  <2> SUFFICES ASSUME CourseInv, TypeInv, exit_reason = "max_iter_reached",
                      NEW i \in 1..max_iter
               PROVE  Used(i)
    BY DEF AllRoundsUsed, Used
  <2>1. i \in Rounds /\ i <= max_iter
    BY LoopConstants DEF TypeInv, TypeOK, StateFileOK, Rounds
  <2> QED BY <2>1 DEF CourseInv, UsedTo
<1> QED BY <1>1, TypeInit, TypeNext, CourseInit, CourseNext, PTL DEF Spec

-----------------------------------------------------------------------------
(* Done means met.  What set_exit writes down was worked out a step before, *)
(* from the report the round has just stored in its record.                 *)

Good(r) == /\ FuncPct(r) >= FuncTarget \/ shape.funcs = 0
           /\ CondPct(r) >= CondTarget \/ Vacuous

\* the report r bears out these metrics
BorneOut(metrics, r) == Good(r) /\ metrics \in {Metrics(r), VacuousMetrics(r)}

DoneInv ==
  /\ pc = "judge" => iterations[iter_n].coverage_after = Metrics(previous)
  /\ pc = "exit" /\ exit.status = "done" =>
        /\ exit.reason = "threshold_met"
        /\ exit.metrics # NoMetrics /\ BorneOut(exit.metrics, GapSource)
  /\ pc \in Closing /\ status = "done" =>
        /\ exit_reason = "threshold_met"
        /\ BorneOut(final_metrics, GapSource)

\* A run begins neither judged nor closed.
LEMMA DoneInit == Init => DoneInv
BY DEF Init, DoneInv, Closing

\* All of something is a hundred per cent of it.
LEMMA PctFull == ASSUME NEW t \in Nat, t # 0 PROVE Pct(t, t) = 100
<1> DEFINE q == (t * 100) \div t
<1>1. q \in Int /\ t * q <= t * 100 /\ t * 100 < t * (q + 1)
  OBVIOUS
<1>2. q <= 100 /\ q + 1 > 100
  BY <1>1
<1> QED BY <1>1, <1>2 DEF Pct

\* What the three exits with threshold_met have established.
LEMMA DoneForCause ==
  ASSUME TypeInv, CourseInv, DoneInv, AlreadyCovered \/ JudgeMet \/ JudgeVacuous
  PROVE  /\ pc' = "exit" /\ exit'.reason = "threshold_met"
         /\ exit'.metrics # NoMetrics /\ BorneOut(exit'.metrics, GapSource)
         /\ UNCHANGED <<previous, baseline, shape>>
<1>1. shape \in Shapes /\ shape.funcs \in Nat /\ FuncTarget \in 0..100 /\ CondTarget \in 0..100
  BY LoopConstants DEF TypeInv, TypeOK, ShapeType
<1>2. CASE AlreadyCovered
  <2>1. /\ pc = "check" /\ NothingUncovered /\ BranchesOk
        /\ Leave("done", "threshold_met", VacuousMetrics(GapSource))
        /\ UNCHANGED <<previous, baseline, shape>>
    BY <1>2 DEF AlreadyCovered, history, notExit, inputs
  <2>2. GapSource \in Report
    BY <2>1, GapSourceType DEF AfterBaseline
  <2>3. FuncPct(GapSource) >= FuncTarget \/ shape.funcs = 0
    BY <1>1, <2>1, PctFull DEF NothingUncovered, FuncPct
  <2>4. Good(GapSource)
    BY <2>1, <2>3 DEF Good, BranchesOk
  <2>5. exit' = [status |-> "done", reason |-> "threshold_met",
                 metrics |-> VacuousMetrics(GapSource)] /\ pc' = "exit"
    BY <2>1 DEF Leave
  <2> QED BY <1>1, <2>1, <2>2, <2>4, <2>5, ReportMetrics DEF BorneOut
<1>3. CASE JudgeMet \/ JudgeVacuous
  <2>1. pc = "judge" /\ previous \in Report /\ GapSource = previous
        /\ iterations[iter_n].coverage_after = Metrics(previous)
    BY <1>3, NoReportIsNone DEF JudgeMet, JudgeVacuous, TypeInv, PlaceInv, GapSource, DoneInv
  <2>2. FuncPct(previous) \in 0..100 /\ CondPct(previous) \in 0..100
    BY <1>1, <2>1, ReportMetrics DEF Metrics
  <2>3. Good(previous)
    <3>1. CASE JudgeMet
      BY <1>1, <2>1, <2>2, <3>1 DEF JudgeMet, check_threshold, AtLeast, Metrics, Good
    <3>2. CASE JudgeVacuous
      BY <3>2 DEF JudgeVacuous, VacuousMet, Good
    <3> QED BY <1>3, <3>1, <3>2
  <2>4. /\ pc' = "exit" /\ UNCHANGED <<previous, baseline, shape>>
        /\ \E m \in {Metrics(previous), VacuousMetrics(previous)} :
             exit' = [status |-> "done", reason |-> "threshold_met", metrics |-> m]
    <3>1. CASE JudgeMet
      BY <3>1 DEF JudgeMet, Leave, history, notExit, inputs
    <3>2. CASE JudgeVacuous
      BY <3>2 DEF JudgeVacuous, Leave, history, notExit, inputs
    <3> QED BY <1>3, <3>1, <3>2
  <2> QED BY <1>1, <2>1, <2>3, <2>4, ReportMetrics DEF BorneOut
<1> QED BY <1>2, <1>3

\* What leaving the loop sets.
LEMMA LeaveFields ==
  ASSUME NEW stat, NEW reason, NEW metrics, Leave(stat, reason, metrics)
  PROVE  /\ pc' = "exit" /\ exit'.status = stat
         /\ exit'.reason = reason /\ exit'.metrics = metrics
BY DEF Leave

\* The steps that are not an exit with threshold_met leave the loop for another
\* reason, if they leave it.
LEMMA NotDone ==
  ASSUME \/ RoundsExhausted \/ NothingToAim \/ JudgeStop \/ GenGivesUp
         \/ DocGateFails \/ VerifyAgent
  PROVE  pc' = "exit" => exit'.status = "early_stop"
<1>1. CASE RoundsExhausted
  BY <1>1 DEF RoundsExhausted, Leave
<1>2. CASE NothingToAim
  BY <1>2 DEF NothingToAim, Leave
<1>3. CASE JudgeStop
  BY <1>3, LeaveFields DEF JudgeStop
<1>4. CASE GenGivesUp
  BY <1>4 DEF GenGivesUp, Leave
<1>5. CASE DocGateFails \/ VerifyAgent
  <2>1. PICK pass \in BOOLEAN : AfterReview(pass)
    <3>1. CASE DocGateFails
      BY <3>1 DEF DocGateFails
    <3>2. CASE VerifyAgent
      <4> DEFINE pass == iter_n \in verify_report'
      <4>1. AfterReview(pass) /\ pass \in BOOLEAN
        BY <3>2 DEF VerifyAgent
      <4> HIDE DEF pass
      <4> QED BY <4>1
    <3> QED BY <1>5, <3>1, <3>2
  <2>2. pc' # "exit" \/ Leave("early_stop", "verify_fail_exceeded", NoMetrics)
    BY <2>1 DEF AfterReview
  <2> QED BY <2>2 DEF Leave
<1> QED BY <1>1, <1>2, <1>3, <1>4, <1>5

\* A report is what it is whatever else changes.
LEMMA SameReport ==
  ASSUME UNCHANGED <<previous, baseline, shape>>
  PROVE  /\ GapSource' = GapSource
         /\ \A metrics : BorneOut(metrics, GapSource)' <=> BorneOut(metrics, GapSource)
<1>1. GapSource' = GapSource
  BY DEF GapSource
<1>2. ASSUME NEW r PROVE /\ FuncPct(r)' = FuncPct(r) /\ CondPct(r)' = CondPct(r)
                         /\ Vacuous' = Vacuous
  BY DEF FuncPct, CondPct, Vacuous
<1>3. ASSUME NEW r PROVE /\ Metrics(r)' = Metrics(r) /\ VacuousMetrics(r)' = VacuousMetrics(r)
                         /\ Good(r)' <=> Good(r)
  BY <1>2 DEF Metrics, VacuousMetrics, Good
<1>4. ASSUME NEW metrics, NEW r PROVE BorneOut(metrics, r)' <=> BorneOut(metrics, r)
  BY <1>3 DEF BorneOut
<1> QED BY <1>1, <1>4

\* No step makes a run done but the three exits for threshold_met, each for cause.
LEMMA DoneNext == TypeInv /\ CourseInv /\ DoneInv /\ [Next]_vars => DoneInv'
<1> SUFFICES ASSUME TypeInv, CourseInv, DoneInv, [Next]_vars PROVE DoneInv'
  OBVIOUS
<1> USE DEF DoneInv
<1>1. CASE AlreadyCovered \/ JudgeMet \/ JudgeVacuous
  BY <1>1, DoneForCause, SameReport DEF Closing
<1>2. CASE \/ RoundsExhausted \/ NothingToAim \/ JudgeStop \/ GenGivesUp
           \/ DocGateFails \/ VerifyAgent
  <2>1. pc' \in {"exit", "execute", "gen_fix"}
    BY <1>2 DEF RoundsExhausted, NothingToAim, JudgeStop, GenGivesUp, DocGateFails, VerifyAgent,
                AfterReview, Leave
  <2> QED BY <1>2, <2>1, NotDone DEF Closing
<1>3. CASE RecordCoverage
  <2>1. /\ pc = "cover" /\ pc' = "judge" /\ iter_n' = iter_n
        /\ previous' = coverage_json[iter_n] /\ UNCHANGED shape
        /\ UpdateIteration([iterations[iter_n] EXCEPT
                              !.coverage_after = Metrics(coverage_json[iter_n]),
                              !.delta = Delta(coverage_json[iter_n], GapSource)])
    BY <1>3 DEF RecordCoverage, Goto, history
  <2>2. iter_n \in Rounds /\ iterations \in [Rounds -> Record] /\ iterations[iter_n] \in Record
    BY <2>1, RoundIsOpen DEF InRound, AfterBaseline, TypeInv, TypeOK, StateFileOK
  <2>3. iterations'[iter_n].coverage_after = Metrics(coverage_json[iter_n])
    BY <2>1, <2>2 DEF UpdateIteration, Record
  <2>4. Metrics(previous)' = Metrics(coverage_json[iter_n])
    BY <2>1 DEF Metrics, FuncPct, CondPct
  <2> QED BY <2>1, <2>3, <2>4 DEF Closing
<1>4. CASE SetExit
  <2>1. /\ pc = "exit" /\ pc' = "wrapup" /\ status' = exit.status /\ exit_reason' = exit.reason
        /\ final_metrics' = IF exit.metrics = NoMetrics THEN final_metrics ELSE exit.metrics
        /\ UNCHANGED <<previous, baseline, shape>>
    BY <1>4 DEF SetExit, Goto, locals, inputs, history
  <2> QED BY <2>1, SameReport
<1>5. CASE ReportMissing \/ Finalize
  <2>1. /\ pc \in {"wrapup", "finalize"} /\ pc' \in {"finalize", "exited"}
        /\ UNCHANGED <<exitState, previous, baseline, shape>>
    BY <1>5 DEF ReportMissing, Finalize, Goto, stateFile, locals, inputs, history
  <2> QED BY <2>1, SameReport DEF Closing, exitState
<1>6. CASE BuildFails
  BY <1>6 DEF BuildFails, Goto, Closing
<1>7. CASE Analyze \/ BuildOk \/ Baseline \/ WorkToDo \/ Gap \/ Gen \/ TestsGenerated \/ GenFix
           \/ Execute \/ PersistExecution \/ Quality \/ RecordVerdict \/ GenEmpty
           \/ JudgeContinue \/ StartIteration \/ Resume \/ Crash \/ CrashInCall
           \/ ResumeFails
  <2>1. pc' \notin Closing \cup {"exit", "judge"}
    BY <1>7 DEF Analyze, BuildOk, Baseline, WorkToDo, Gap, Gen, TestsGenerated, GenFix, Execute,
                PersistExecution, Quality, RecordVerdict, GenEmpty, JudgeContinue,
                StartIteration, Resume, Crash, CrashInCall, LoseLocals, ResumeFails, Goto, Closing
  <2> QED BY <2>1
<1>8. CASE UNCHANGED vars
  <2>1. /\ UNCHANGED <<pc, exit, status, exit_reason, final_metrics, previous, baseline, shape>>
        /\ UNCHANGED <<iterations, iter_n>>
    BY <1>8 DEF vars, stateFile, exitState, locals, inputs, history
  <2>2. Metrics(previous)' = Metrics(previous)
    BY <2>1 DEF Metrics, FuncPct, CondPct
  <2> QED BY <2>1, <2>2, SameReport
<1> QED
  BY <1>1, <1>2, <1>3, <1>4, <1>5, <1>6, <1>7, <1>8
  DEF Next, Step, Prepare, Open, Generate, Review, Measure, Judge, Close, Rest

\* A run is only ever closed as done on a report that reaches both targets (or of a
\* view that has nothing to reach), with threshold_met as the reason and that report's
\* percentages as the final metrics: for every target, view and round limit, and
\* whatever crashes and resumptions came before.
THEOREM DoneIsMet == Spec => []DoneMeansMet
<1>1. TypeInv /\ CourseInv /\ DoneInv => DoneMeansMet
  <2> SUFFICES ASSUME CourseInv, TypeInv, DoneInv, status = "done", ~Forgotten
               PROVE  /\ exit_reason = "threshold_met"
                      /\ BorneOut(final_metrics, GapSource)
    BY DEF DoneMeansMet, BorneOut, Good
  <2>1. pc \in Closing
    BY DEF CourseInv, Forgotten, Lost
  <2> QED BY <2>1 DEF DoneInv
<1> QED BY <1>1, TypeInit, TypeNext, CourseInit, CourseNext, DoneInit, DoneNext, PTL DEF Spec

=============================================================================
