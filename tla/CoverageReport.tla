--------------------------- MODULE CoverageReport ---------------------------
(***************************************************************************)
(* What the loop reads off a coverage report: CoverageReport of            *)
(* src/aicoverage/gcov.py narrowed to target functions by incremental.py,  *)
(* in percentages rounded to two decimals.                                 *)
(*                                                                         *)
(* A function is <<file, name>>.  Those that no target can name are only   *)
(* counted and have no branches; every named function has one.             *)
(***************************************************************************)
EXTENDS Integers, FiniteSets

CONSTANTS
  Programs,    \* [functions, others]: functions as the data names them, and how many more
  Scopes,      \* sets of targets, {} for no scope
  HostName,    \* HostName[f]: f as its lines name it
  OtherHits    \* OtherHits[n]: how many of n others may be hit

ASSUME ReportConstants ==
  /\ \A p \in Programs : IsFiniteSet(p.functions) /\ p.others \in Nat
  /\ \A p \in Programs : OtherHits[p.others] \subseteq 0..p.others
  /\ \A s \in Scopes : IsFiniteSet(s)

VARIABLES
  program, targets,
  mstep,         \* "collect", "scope" or "show"
  hits,          \* functions known, those of them hit and with the branch taken, others hit
  view,          \* the scope: its functions and branches, how many are hit of how many
  missing,       \* missing_targets
  func_pct, cond_pct, func_pp,   \* in hundredths
  last           \* the view before, and its percentage

reportVars == <<program, targets, mstep, hits, view, missing, func_pct, cond_pct, func_pp, last>>

NoHits == [known |-> {}, functions |-> {}, branches |-> {}, others |-> 0]
NoView == [functions |-> {}, branches |-> {}, hit |-> 0, total |-> 0]
NoLast == [hit |-> 0, total |-> 0, func_pct |-> 0]

InitReport ==
  /\ program \in Programs /\ targets \in Scopes
  /\ mstep = "collect" /\ hits = NoHits /\ view = NoView /\ missing = {}
  /\ func_pct = 0 /\ cond_pct = 0 /\ func_pp = 0 /\ last = NoLast

\* a round's execution; an object whose gcov fails leaves its functions out of the report
CollectReport ==
  /\ mstep = "collect" /\ mstep' = "scope"
  /\ \E ks \in SUBSET program.functions : \E fs \in SUBSET ks :
       \E bs \in SUBSET fs, n \in OtherHits[program.others] :
         hits' = [known |-> ks, functions |-> fs, branches |-> bs, others |-> n]
  /\ UNCHANGED <<program, targets, view, missing, func_pct, cond_pct, func_pp, last>>

-----------------------------------------------------------------------------
(* Scope *)

\* the very file and the very name
ScopeFunctions == hits.known \cap targets

\* in a file with a function selected, the branches on lines that name a target
SelectedBranches ==
  {f \in hits.known : HostName[f] \in targets /\ \E g \in ScopeFunctions : g[1] = f[1]}

FullView ==
  [functions |-> hits.known, branches |-> hits.known,
   hit |-> Cardinality(hits.functions) + hits.others,
   total |-> Cardinality(hits.known) + program.others]

ScopedView ==
  [functions |-> ScopeFunctions, branches |-> SelectedBranches,
   hit |-> Cardinality(hits.functions \cap ScopeFunctions), total |-> Cardinality(ScopeFunctions)]

\* asked for when a run ends, of the last report
Missing_targets == targets \ hits.known

ScopeReport ==
  /\ mstep = "scope" /\ mstep' = "show"
  /\ IF targets = {} THEN view' = FullView /\ missing' = {}
                     ELSE view' = ScopedView /\ missing' = Missing_targets
  /\ UNCHANGED <<program, targets, hits, func_pct, cond_pct, func_pp, last>>

-----------------------------------------------------------------------------
(* Percentages *)

\* (mutants) rounded up; to whole per cents
PctUp(hit, total) == {(hit * 10000 + total - 1) \div total}
PctWhole(hit, total) == {100 * ((hit * 100) \div total)}

\* round(hit * 100 / total, 2); a tie goes to either side, as the quotient's last bit has it
Pct(hit, total) ==
  LET q == (hit * 10000) \div total
  IN {p \in {q, q + 1} : 2 * (hit * 10000 - p * total) \in -total..total}

PctOf(hit, total) == IF total = 0 THEN {0} ELSE Pct(hit, total)

\* delta: the difference of what is shown of the two views; without one before, all of it
ShowReport ==
  /\ mstep = "show" /\ mstep' = "collect"
  /\ func_pct' \in PctOf(view.hit, view.total)
  /\ cond_pct' \in PctOf(Cardinality(hits.branches \cap view.branches), Cardinality(view.branches))
  /\ func_pp' = func_pct' - last.func_pct
  /\ last' = [hit |-> view.hit, total |-> view.total, func_pct |-> func_pct']
  /\ UNCHANGED <<program, targets, hits, view, missing>>

NextReport == CollectReport \/ ScopeReport \/ ShowReport

SpecReport == InitReport /\ [][NextReport]_reportVars

-----------------------------------------------------------------------------
(* Correctness *)

\* A threshold that is met as shown is met by the functions hit: a whole per cent in
\* views of less than 200 functions, and all of them in views of less than 20 000.
\* (state.py check_threshold compares the rounded figure of gcov.py func_pct.)
ThresholdHonest ==
  last.total > 0 =>
    /\ last.total < 200 =>
         \A t \in 0..100 : func_pct >= 100 * t => last.hit * 100 >= t * last.total
    /\ last.total < 20000 => (func_pct = 10000 => last.hit = last.total)

\* A round that is shown to gain or lose nothing has hit as many functions as the one
\* before, in views of up to 10 000 functions: state.py check_early_stop counts such
\* rounds towards the coverage ceiling.  (gcov.py: delta.)
FlatMeansFlat ==
  [][mstep = "show" /\ last.total = view.total /\ 0 < view.total /\ view.total <= 10000
       => (func_pp' = 0 => last'.hit = last.hit)]_reportVars

=============================================================================
