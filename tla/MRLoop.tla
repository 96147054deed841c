------------------------------- MODULE MRLoop -------------------------------
(***************************************************************************)
(* The MR loop of src/aicoverage/mr_loop.py: the functions a diff changes  *)
(* are put into batches, a coverage loop is run for each batch, a batch    *)
(* that is not met is split in two and tried again, and the outcome of all *)
(* batches, with that of the scan track, makes the summary.                *)
(*                                                                         *)
(* A coverage loop is what LoopPromise says of it (CoverageLoop is shown   *)
(* to implement that), here with functions alone in its view: a report is  *)
(* the set of names it hits.  What the coverage data does not know is no   *)
(* part of a target (CoverageLoop, MissingTargetsReported).  Tests are     *)
(* only ever added, so what they hit only grows; but a report shows less   *)
(* than that when the execution was cut by its timeout or coverage data    *)
(* could not be read.                                                      *)
(*                                                                         *)
(* When the functions cannot be batched, the code takes the pair that      *)
(* split_batches returns for the list of batches: the first of two         *)
(* "batches" then consists of the batches by file, the second of nothing.  *)
(***************************************************************************)
EXTENDS Naturals, Sequences, FiniteSets

CONSTANTS
  Functions,      \* the functions a diff may change
  Names, NameOf,  \* what they are looked up by, file and bare name: one for overloads
  Measured,       \* the names that the coverage data knows
  Batchings,      \* what split_batches may return, unreachable functions last
  Threshold,      \* the function target, in per cent
  MaxSplitDepth,  \* MAX_SPLIT_DEPTH
  MaxIter,        \* the rounds of each coverage loop
  NoReport        \* no coverage.json

Elements(s) == {s[i] : i \in 1..Len(s)}

\* what a batch consists of: functions, or lists of them on the fallback
Units == Functions \cup Seq(Functions)

\* nothing is in two places
Once(bs) ==
  \A i, j \in 1..Len(bs) : \A k \in 1..Len(bs[i]), l \in 1..Len(bs[j]) :
    bs[i][k] = bs[j][l] => i = j /\ k = l

\* every function of the diff is put into one batch, once
Batching(bs) ==
  /\ bs \in Seq(Seq(Functions)) /\ Once(bs)
  /\ \A k \in 1..Len(bs) : bs[k] # <<>>

ASSUME MRConstants ==
  /\ \A bs \in Batchings : Batching(bs)
  /\ NameOf \in [Functions -> Names] /\ Measured \subseteq Names /\ IsFiniteSet(Measured)
  /\ Threshold \in Nat /\ MaxSplitDepth \in Nat /\ MaxIter \in Nat \ {0}
  /\ \A r \in SUBSET Names : r # NoReport

VARIABLES
  pc, batches, skip,            \* the diff, and the tracks that are switched off
  fellBack,                     \* the strategy failed
  next, todo, records,          \* batches to come, work left of this batch, its runs
  baseline_from,                \* the report the runs of this batch start from
  binary, tests, actual,        \* the build, whether tests exist, what they hit
  gap_source, last_cov,         \* of the current run: its newest report, and the
                                \* newest coverage.json in its iter directories
  round, judged, level, outcome, \* of the current run, see LoopPromise
  summary,
  newest,                       \* history: the last report any run measured, and
  short                         \* whether last_cov shows less than the tests hit

run     == <<round, judged, level, outcome>>
reports == <<gap_source, last_cov, newest, short>>
world   == <<binary, tests, actual>>
work    == <<batches, skip, fellBack, next, todo, records, baseline_from>>
vars    == <<pc, work, world, reports, run, summary>>

Run == INSTANCE LoopPromise WITH Limit <- MaxIter

-----------------------------------------------------------------------------

NoSummary == [status |-> "none", exit_reason |-> "none"]
Outcome(status, reason) == [status |-> status, exit_reason |-> reason]

Item(batch, index) == [batch |-> batch, index |-> index]
Current == Head(todo)

NamesOf(functions) == {NameOf[f] : f \in functions}

\* What a run for a batch is to cover: an empty list stands for the whole program,
\* a list of lists matches no name.
Scope(batch) ==
  IF batch = <<>> THEN Measured
  ELSE IF fellBack THEN {} ELSE NamesOf(Elements(batch)) \cap Measured

Target == Scope(Current.batch)

Enough(target, report) ==
  Cardinality(target \cap report) * 100 >= Threshold * Cardinality(target)

\* a list of two is taken for a file and a name, any other raises
Malformed == fellBack /\ \E u \in Elements(Current.batch) : Len(u) # 2

\* the top batches have an index of length 1, their halves of length 2, ...
Depth(item) == Len(item.index) - 1

Init ==
  /\ pc = "extract" /\ batches \in Batchings /\ skip \in SUBSET {"coverage", "scan"}
  /\ fellBack = FALSE /\ next = 1 /\ todo = <<>> /\ records = <<>> /\ baseline_from = NoReport
  /\ binary = "unusable" /\ tests \in BOOLEAN
  /\ actual \in IF tests THEN SUBSET Measured ELSE {{}}
  /\ gap_source = {} /\ last_cov = NoReport /\ newest = NoReport /\ short = FALSE
  /\ round = 0 /\ judged = FALSE /\ level = "open" /\ outcome = "open"
  /\ summary = NoSummary

\* (mutant) the early exit writes no summary
NothingChangedSilently == batches = <<>> /\ pc' = "end" /\ UNCHANGED summary

NothingChanged ==
  batches = <<>> /\ pc' = "end" /\ summary' = Outcome("done", "no_changed_functions")

\* [M0], [M1]; no batch: nothing changed, or conflicts only, which go on to the scan
Extract ==
  /\ pc = "extract"
  /\ \/ /\ summary' \in {Outcome("error", "codegraph_disabled"),
                         Outcome("error", "codegraph_not_indexed")}
        /\ pc' = "end"
     \/ NothingChanged
     \/ /\ pc' = IF "coverage" \in skip \/ batches = <<>> THEN "scan" ELSE "batch"
        /\ UNCHANGED summary
  /\ UNCHANGED <<work, world, reports, run>>

\* the strategy raises: no entry points configured, no usable index
FallBack ==
  /\ pc = "extract" /\ batches # <<>>
  /\ pc' = IF "coverage" \in skip THEN "scan" ELSE "batch"
  /\ batches' = <<batches, <<>> >> /\ fellBack' = TRUE
  /\ UNCHANGED <<skip, next, todo, records, baseline_from, world, reports, run, summary>>

\* [M2] the next batch, once nothing is left of the last one
NextBatch ==
  /\ pc = "batch" /\ todo = <<>> /\ next <= Len(batches)
  /\ todo' = <<Item(batches[next], <<next>>)>> /\ next' = next + 1
  /\ UNCHANGED <<pc, batches, skip, fellBack, records, baseline_from, world, reports, run, summary>>

BatchesDone ==
  /\ pc = "batch" /\ todo = <<>> /\ next > Len(batches)
  /\ pc' = "scan"
  /\ UNCHANGED <<work, world, reports, run, summary>>

StartRun ==
  /\ pc = "batch" /\ todo # <<>>
  /\ pc' = "build"
  /\ round' = 0 /\ judged' = FALSE /\ level' = "open" /\ outcome' = "open"
  /\ gap_source' = {} /\ last_cov' = NoReport /\ short' = FALSE /\ UNCHANGED newest
  /\ UNCHANGED <<work, world, summary>>

\* the first batch builds, all others do so when the artifacts are not usable
Build ==
  /\ pc = "build"
  /\ \/ /\ Current.index # <<1>> /\ binary = "usable"
        /\ pc' = "baseline" /\ UNCHANGED <<binary, run>>
     \/ /\ Current.index = <<1>> \/ binary # "usable"
        /\ pc' = "baseline" /\ binary' = "usable" /\ UNCHANGED run
     \/ \* the build command may fail with its artifacts already in place
        /\ Current.index = <<1>> \/ binary # "usable"
        /\ pc' = "close" /\ binary' \in {"usable", "unusable"}
        /\ Run!GiveUp /\ outcome' = "build_failed"
  /\ UNCHANGED <<work, tests, actual, reports, summary>>

\* What is measured is all that the tests hit, or less: an execution that its
\* timeout ends is collected like any other, and so is what gcov could not read.
Measure(hit) ==
  \E shown \in SUBSET hit :
    /\ gap_source' = shown /\ last_cov' = shown /\ newest' = shown
    /\ short' = (shown # hit)

\* the report handed down, or existing tests run into iter_0, or nothing hit
Baseline ==
  /\ pc = "baseline" /\ pc' = "round"
  /\ \/ /\ baseline_from # NoReport
        /\ gap_source' = baseline_from /\ UNCHANGED <<last_cov, newest, short>>
     \/ /\ baseline_from = NoReport /\ tests
        /\ Measure(actual)
     \/ /\ baseline_from = NoReport /\ ~tests
        /\ gap_source' = {} /\ newest' = {} /\ UNCHANGED <<last_cov, short>>
  /\ IF Target \subseteq gap_source' THEN Run!Baseline ELSE UNCHANGED run
  /\ UNCHANGED <<work, world, summary>>

BeginRound ==
  /\ pc = "round" /\ level # "met"
  /\ pc' = "work" /\ Run!Begin
  /\ UNCHANGED <<work, world, reports, summary>>

\* nothing uncovered at the head of the round, or the round's report says so
FinishRun ==
  /\ \/ pc = "work" /\ level = "full" /\ ~Malformed
     \/ pc = "round" /\ level = "met"
  /\ pc' = "close" /\ Run!Finish
  /\ UNCHANGED <<work, world, reports, summary>>

MoreTests ==
  /\ pc = "work" /\ level # "full"
  /\ tests' \in {tests, TRUE}
  /\ actual' \in {s \in SUBSET Measured : actual \subseteq s /\ (s # {} => tests')}
  /\ UNCHANGED <<work, binary, summary>>

MeasureRound ==
  /\ MoreTests
  /\ pc' = "round" /\ Measure(actual')
  /\ level' = IF Enough(Target, gap_source') THEN "met" ELSE "open"
  /\ Run!Measure

\* nothing was generated, or nothing that passed the review
GenerateInVain ==
  /\ MoreTests
  /\ \/ pc' = "round" /\ UNCHANGED run
     \/ pc' = "close" /\ Run!GiveUp /\ outcome' \in {"gen_no_output", "verify_fail_exceeded"}
  /\ UNCHANGED reports

GiveUpRun ==
  /\ pc = "round" /\ round > 0
  /\ pc' = "close" /\ Run!GiveUp
  /\ outcome' \in {"max_iter_reached", "coverage_ceiling", "execute_fail_loop", "budget_exhausted"}
  /\ UNCHANGED <<work, world, reports, summary>>

-----------------------------------------------------------------------------
(* What becomes of a run *)

\* (mutant) a run that stopped improving counts as met
MetOrCeiling == outcome \in {"threshold_met", "coverage_ceiling"}

Met == outcome = "threshold_met"

\* (mutants) one level too many; pairs are left whole
SplitsTooDeep == ~Met /\ Depth(Current) <= MaxSplitDepth /\ Len(Current.batch) >= 2
SplitsNoPairs == ~Met /\ Depth(Current) < MaxSplitDepth /\ Len(Current.batch) > 2

Splits == ~Met /\ Depth(Current) < MaxSplitDepth /\ Len(Current.batch) >= 2

\* (mutant) equal halves: the last function of an odd batch drops out
HalvesLosing ==
  LET b == Current.batch
      mid == Len(b) \div 2
  IN <<Item(SubSeq(b, 1, mid), Append(Current.index, 1)),
       Item(SubSeq(b, mid + 1, 2 * mid), Append(Current.index, 2))>>

Halves ==
  LET b == Current.batch
      mid == Len(b) \div 2
  IN <<Item(SubSeq(b, 1, mid), Append(Current.index, 1)),
       Item(SubSeq(b, mid + 1, Len(b)), Append(Current.index, 2))>>

\* (mutant) no report of the last run means none at all
NextBaselineOrNone == last_cov

\* the last run's newest report, if it left one
NextBaseline == IF last_cov # NoReport THEN last_cov ELSE baseline_from

CloseRun ==
  /\ pc = "close" /\ pc' = "batch"
  /\ records' = Append(records, [batch |-> Current.batch, index |-> Current.index,
                                 done |-> Met, split |-> Splits])
  /\ todo' = IF Splits THEN Halves \o Tail(todo) ELSE Tail(todo)
  /\ baseline_from' = IF todo' = <<>> THEN NextBaseline ELSE baseline_from
  /\ UNCHANGED <<batches, skip, fellBack, next, world, reports, run, summary>>

\* [M3]
Scan ==
  /\ pc = "scan" /\ pc' = "report"
  /\ UNCHANGED <<work, world, reports, run, summary>>

\* What no one catches ends it all: git diff fails, gcov's output breaks off, a batch
\* is no list of pairs, a scan backend that was asked for is not there.
Raise ==
  /\ pc \in {"extract", "baseline", "work", "scan"} /\ (pc = "scan" => "scan" \notin skip)
  /\ pc' = "raised"
  /\ UNCHANGED <<work, world, reports, run, summary>>

\* what a split came to is told by its halves
Leaves == {i \in 1..Len(records) : ~records[i].split}

\* [M4]
Summarize ==
  /\ pc = "report" /\ pc' = "end"
  /\ summary' = IF Leaves = {} THEN Outcome("skipped", "partial_batches_not_met")
                ELSE IF \A i \in Leaves : records[i].done
                THEN Outcome("done", "all_batches_met")
                ELSE Outcome("partial", "partial_batches_not_met")
  /\ UNCHANGED <<work, world, reports, run>>

Rest == pc \in {"end", "raised"} /\ UNCHANGED vars

Step == \/ Extract \/ FallBack \/ NextBatch \/ BatchesDone
        \/ StartRun \/ Build \/ Baseline
        \/ BeginRound \/ FinishRun \/ MeasureRound \/ GenerateInVain \/ GiveUpRun
        \/ CloseRun \/ Scan \/ Summarize \/ Raise

Next == Step \/ Rest

\* one process, whose runs close (LoopPromise) and whose scan calls time out
Spec == Init /\ [][Next]_vars /\ WF_vars(Step)

-----------------------------------------------------------------------------
(* Correctness *)

Targets == UNION {Elements(batches[k]) : k \in 1..Len(batches)}
Reports == {NoReport} \cup SUBSET Names
Items == [batch : Seq(Units), index : Seq(Nat)]
Records == [batch : Seq(Units), index : Seq(Nat), done : BOOLEAN, split : BOOLEAN]

Summaries == [status : {"none", "error", "done", "skipped", "partial"},
              exit_reason : {"none", "codegraph_disabled", "codegraph_not_indexed",
                             "no_changed_functions", "all_batches_met",
                             "partial_batches_not_met"}]

\* Type correctness of the MR loop; no index is empty, and none is longer than the
\* splits allow.
TypeOK ==
  /\ pc \in {"extract", "batch", "build", "baseline", "round", "work", "close", "scan",
             "report", "end", "raised"}
  /\ batches \in Seq(Seq(Units)) /\ Once(batches) /\ fellBack \in BOOLEAN
  /\ skip \subseteq {"coverage", "scan"}
  /\ next \in 1..Len(batches) + 1
  /\ todo \in Seq(Items) /\ records \in Seq(Records)
  /\ \A i \in 1..Len(todo) : Len(todo[i].index) \in 1..MaxSplitDepth + 1
  /\ {baseline_from, last_cov, newest} \subseteq Reports /\ gap_source \subseteq Names
  /\ binary \in {"usable", "unusable"} /\ tests \in BOOLEAN /\ actual \subseteq Names
  /\ short \in BOOLEAN
  /\ round \in 0..MaxIter /\ judged \in BOOLEAN /\ level \in Run!Levels
  /\ summary \in Summaries

\* Where what a batch consists of is to be found: in a run that was not split, in
\* the work that is left of a batch, or in a batch to come.
Tried(u) == {i \in Leaves : u \in Elements(records[i].batch)}
Waiting(u) == {i \in 1..Len(todo) : u \in Elements(todo[i].batch)}
ToCome(u) == {k \in next..Len(batches) : u \in Elements(batches[k])}

\* Splitting loses no function of the diff and tries none twice: each (each batch
\* by file on the fallback) is in exactly one place at any time.  (mr_loop.py:
\* _run_batch splits recursively and the report counts leaves only.)
EveryTargetHeldOnce ==
  \A u \in Targets : Cardinality(Tried(u)) + Cardinality(Waiting(u)) + Cardinality(ToCome(u)) = 1

\* the functions of the diff that a batch stands for
FunctionsOf(batch) == IF fellBack THEN UNION {Elements(u) : u \in Elements(batch)}
                      ELSE Elements(batch)
Diff == UNION {FunctionsOf(batches[k]) : k \in 1..Len(batches)}

Reached(target) == target \subseteq actual \/ Enough(target, actual)

\* "All batches met", said in the end, of the tests there are then: each function of
\* the diff belongs to a batch whose functions are hit as far as the target asks.
AllMetHolds ==
  summary.exit_reason = "all_batches_met" =>
    \A f \in Diff : \E i \in Leaves :
      LET functions == FunctionsOf(records[i].batch)
      IN f \in functions /\ Reached(NamesOf(functions) \cap Measured)

\* "All batches met" is true of the tests as they are in the end, whatever the
\* batches started from, however often they were split and however little the last
\* reports showed, as long as the functions could be batched by the strategy that
\* was asked for.  (mr_loop.py: run_mr_loop, [M4].)
AllMetIsReal == ~fellBack => AllMetHolds

\* A function that cannot be covered takes few others down with it: what fails
\* is a single function or at most a 2^-MaxSplitDepth part, rounded up, of its
\* batch.  (mr_loop.py: MAX_SPLIT_DEPTH, the bisection in _run_batch.)
FailureIsolated ==
  \A i \in Leaves : ~records[i].done =>
    LET n == Len(batches[records[i].index[1]])
        parts == 2 ^ MaxSplitDepth
    IN Len(records[i].batch) <= (n + parts - 1) \div parts

\* The bisection is bounded: a batch costs at most 2^(MaxSplitDepth + 1) - 1
\* coverage loops.
RunsBounded ==
  \A k \in 1..Len(batches) :
    Cardinality({i \in 1..Len(records) : records[i].index[1] = k}) < 2 ^ (MaxSplitDepth + 1)

\* The report handed from batch to batch is not dropped when a batch ends without
\* measuring anything, and it only falls back behind an earlier one if the last
\* measurement was cut short.  (mr_loop.py: the `or baseline_from` after each batch;
\* executor.py collects what an execution left that was ended by its timeout.)
BaselineNeverRetreats ==
  [][baseline_from # NoReport => /\ baseline_from' # NoReport
                                 /\ baseline_from \subseteq baseline_from' \/ short]_vars

\* The MR loop comes to an end, with a summary unless an exception escapes: from the
\* diff, from a coverage loop or from the scan track.
MRCloses == <>(pc = "raised" \/ (pc = "end" /\ summary # NoSummary))

\* What mr_loop.py says of the baseline it hands down: it is the coverage right
\* before the batch, so every run starts from the newest report there is.
StartsFromNewest == pc = "round" /\ round = 0 => gap_source = newest

=============================================================================
