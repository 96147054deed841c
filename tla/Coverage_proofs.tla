-------------------------- MODULE Coverage_proofs ---------------------------
(***************************************************************************)
(* What a merge of gcov outputs computes does not depend on the order of   *)
(* the workers or of the directories.  The invariant says of the outputs   *)
(* merged so far what the property says of all of them.  Then what the     *)
(* rounded figures of a report say of the functions hit, and that what is  *)
(* measured was built of the sources at hand.  Last, what an execution may *)
(* be said to show: that coverage is of the round it is reported for, and  *)
(* that the scan track's verdicts follow from tests that ran.  Those       *)
(* invariants say, step by step of run_tests, what the files left by it so *)
(* far may hold.                                                           *)
(***************************************************************************)
EXTENDS BuildFresh, GcovCollect, CoverageReport, ScanTrack, FiniteSetTheorems, TLAPS

Outputs == [state : {"none", "complete", "cut"}, counts : Copies, branches : Branches \cup {<<>>}]

TypeG ==
  /\ gstep \in {"gcov", "merge", "done", "raised"}
  /\ pending \in SUBSET Objects /\ unmerged \in SUBSET Objects
  /\ outputs \in [Objects -> Outputs]
  /\ isUt \in [Objects -> BOOLEAN]
  /\ best \in Copies /\ bestE2e \in Copies
  /\ from \in [Items -> SUBSET Objects]

\* the outputs merged so far
InReport == With("complete") \ unmerged

CountOf(o, x) == outputs[o].counts[x]

\* what best, bestE2e and from are of an item
Sound(x) ==
  /\ \A o \in InReport : CountOf(o, x) <= best[x]
  /\ best[x] = Absent <=> from[x] = {}
  /\ \A o \in from[x] : o \in InReport /\ CountOf(o, x) = best[x]
  /\ \A o \in InReport : ~isUt[o] => CountOf(o, x) <= bestE2e[x]
  /\ bestE2e[x] # Absent => \E o \in InReport : ~isUt[o] /\ CountOf(o, x) = bestE2e[x]

MergeInv ==
  /\ TypeG
  /\ failed \cap pending = {} /\ (gstep # "gcov" => pending = {})
  /\ \A o \in Objects \ pending : isUt[o] <=> o \in UnitTests \ failed
  /\ \A o \in pending : ~isUt[o]
  /\ gstep = "gcov" => best = Nothing /\ bestE2e = Nothing /\ from = [x \in Items |-> {}]
  /\ gstep = "merge" => unmerged \subseteq With("complete")
  /\ gstep = "done" => unmerged = {}
  /\ gstep \in {"merge", "done"} => \A x \in Items : Sound(x)
  /\ With("cut") \subseteq failed /\ (gstep = "raised" => With("cut") # {})

\* A count, or the mark of none, is a number that is at least the mark.
LEMMA CountsInt ==
  ASSUME NEW c \in Counts \cup {Absent}
  PROVE  c \in Int /\ c >= Absent
BY CollectConstants DEF Absent

\* An output that lists nothing is an output.
LEMMA NothingTyped == Nothing \in Copies
BY DEF Nothing, Copies

\* The invariant holds before any gcov has run.
LEMMA MergeInit == InitCollect => MergeInv
BY NothingTyped DEF InitCollect, MergeInv, TypeG, NoOutput, Outputs, With

\* The end of one gcov, good or bad, leaves the merge untouched.
LEMMA GcovEnds ==
  ASSUME MergeInv, NEW o \in Objects, RunGcov(o) \/ GcovFails(o)
  PROVE  MergeInv'
<1>1. gstep = "gcov" /\ UNCHANGED <<gstep, unmerged, best, bestE2e, from>>
  BY DEF RunGcov, GcovFails
<1>2. /\ pending' \in SUBSET Objects /\ failed' \cap pending' = {}
      /\ isUt' \in [Objects -> BOOLEAN]
      /\ \A u \in Objects \ pending' : isUt'[u] <=> u \in UnitTests \ failed'
      /\ \A u \in pending' : ~isUt'[u]
  <2>1. /\ pending \in SUBSET Objects /\ isUt \in [Objects -> BOOLEAN] /\ failed \cap pending = {}
        /\ \A u \in Objects \ pending : isUt[u] <=> u \in UnitTests \ failed
        /\ o \in pending /\ \A u \in pending : ~isUt[u]
    BY DEF MergeInv, TypeG, RunGcov, GcovFails
  <2>2. CASE RunGcov(o)
    <3>1. /\ pending' = pending \ {o} /\ isUt' = [isUt EXCEPT ![o] = o \in UnitTests]
          /\ failed' = failed /\ o \notin failed
      BY <2>1, <2>2 DEF RunGcov
    <3> DEFINE mark == o \in UnitTests
    <3>2. mark \in BOOLEAN /\ isUt' = [isUt EXCEPT ![o] = mark]
      BY <3>1
    <3>3. isUt' \in [Objects -> BOOLEAN] /\ isUt'[o] = mark
      <4> HIDE DEF mark
      <4> QED BY <2>1, <3>2
    <3>4. \A u \in Objects \ {o} : isUt'[u] = isUt[u]
      BY <2>1, <3>1
    <3> QED BY <2>1, <3>1, <3>3, <3>4
  <2>3. CASE GcovFails(o)
    <3>1. pending' = pending \ {o} /\ isUt' = isUt /\ failed' = failed \cup {o}
      BY <2>3 DEF GcovFails
    <3> QED BY <2>1, <3>1
  <2> QED BY <2>2, <2>3
<1>3. outputs' \in [Objects -> Outputs]
  <2>1. outputs \in [Objects -> Outputs]
    BY DEF MergeInv, TypeG
  <2>2. CASE Completes(o)
    BY <2>1, <2>2 DEF Completes, Outputs
  <2>3. CASE outputs' = [outputs EXCEPT ![o].state = "cut"]
    BY <2>1, <2>3 DEF Outputs
  <2>4. CASE UNCHANGED outputs
    BY <2>1, <2>4
  <2> QED BY <2>2, <2>3, <2>4 DEF RunGcov, GcovFails
<1>4. With("cut")' \subseteq failed'
  <2>1. outputs \in [Objects -> Outputs] /\ With("cut") \subseteq failed
    BY DEF MergeInv, TypeG
  <2>2. CASE GcovFails(o)
    <3>1. failed' = failed \cup {o} /\ \A u \in Objects \ {o} : outputs'[u] = outputs[u]
      BY <2>1, <2>2 DEF GcovFails, Completes
    <3> QED BY <2>1, <3>1 DEF With
  <2>3. CASE RunGcov(o)
    <3>1. /\ failed' = failed /\ \A u \in Objects \ {o} : outputs'[u] = outputs[u]
          /\ outputs'[o].state = "complete" \/ outputs'[o] = outputs[o]
      BY <2>1, <2>3 DEF RunGcov, Completes
    <3> QED BY <2>1, <3>1 DEF With
  <2> QED BY <2>2, <2>3
<1> QED BY <1>1, <1>2, <1>3, <1>4 DEF MergeInv, TypeG

\* When all outputs are read nothing is merged, which is what best and from say.
LEMMA OutputsRead ==
  ASSUME MergeInv, ReadOutputs
  PROVE  MergeInv'
<1>1. CASE With("cut") # {}
  <2>1. With("cut")' = With("cut")
    BY DEF ReadOutputs, With
  <2> QED BY <1>1, <2>1 DEF ReadOutputs, MergeInv, TypeG
<1>2. CASE With("cut") = {}
  <2>1. /\ gstep' = "merge" /\ unmerged' = With("complete") /\ gstep = "gcov" /\ pending = {}
        /\ UNCHANGED <<pending, outputs, isUt, best, bestE2e, from, failed>>
    BY <1>2 DEF ReadOutputs
  <2>2. unmerged' \subseteq With("complete")' /\ unmerged' \in SUBSET Objects /\ InReport' = {}
    BY <2>1 DEF With, InReport
  <2>3. \A x \in Items : best'[x] = Absent /\ bestE2e'[x] = Absent /\ from'[x] = {}
    BY <2>1 DEF MergeInv, Nothing
  <2>4. \A x \in Items : Sound(x)'
    BY <2>2, <2>3 DEF Sound
  <2>5. With("cut")' = {}
    BY <1>2, <2>1 DEF With
  <2> QED BY <2>1, <2>2, <2>4, <2>5 DEF MergeInv, TypeG
<1> QED BY <1>1, <1>2

\* Merging one more output keeps what is known of those merged.
LEMMA OutputMerged ==
  ASSUME MergeInv, NEW o \in Objects, MergeOutput(o)
  PROVE  MergeInv'
<1>1. /\ gstep = "merge" /\ o \in unmerged /\ unmerged' = unmerged \ {o}
      /\ UNCHANGED <<gstep, pending, outputs, isUt, failed>>
  BY DEF MergeOutput
<1>2. /\ outputs[o].counts \in Copies /\ best \in Copies /\ bestE2e \in Copies
      /\ o \in With("complete") /\ isUt[o] \in BOOLEAN
  BY <1>1 DEF MergeInv, TypeG, Outputs
<1>3. /\ best' = [x \in Items |-> IF CountOf(o, x) > best[x] THEN CountOf(o, x) ELSE best[x]]
      /\ from' = [x \in Items |-> IF CountOf(o, x) > best[x] THEN {o} ELSE from[x]]
      /\ isUt[o] => bestE2e' = bestE2e
      /\ ~isUt[o] => bestE2e' = [x \in Items |-> IF CountOf(o, x) > bestE2e[x]
                                                 THEN CountOf(o, x) ELSE bestE2e[x]]
  BY DEF MergeOutput, Better, CountOf
<1>4. TypeG'
  BY <1>1, <1>2, <1>3 DEF MergeInv, TypeG, Copies, CountOf
<1>5. InReport' = InReport \cup {o}
  BY <1>1, <1>2 DEF InReport, With
<1>6. ASSUME NEW x \in Items PROVE Sound(x)'
  <2>1. Sound(x)
    BY <1>1 DEF MergeInv
  <2>2. \A u \in Objects : CountOf(u, x) \in Counts \cup {Absent} /\ CountOf(u, x)' = CountOf(u, x)
    BY <1>1 DEF MergeInv, TypeG, Outputs, Copies, CountOf
  <2>3. best[x] \in Counts \cup {Absent} /\ bestE2e[x] \in Counts \cup {Absent}
    BY <1>2 DEF Copies
  <2>4. /\ \A u \in Objects : CountOf(u, x) \in Int /\ CountOf(u, x) >= Absent
        /\ best[x] \in Int /\ best[x] >= Absent /\ bestE2e[x] \in Int /\ bestE2e[x] >= Absent
        /\ Absent \in Int
    BY <2>2, <2>3, CountsInt DEF Absent
  <2>5. InReport \subseteq Objects /\ from[x] \subseteq Objects
    BY DEF InReport, With, MergeInv, TypeG
  <2>6. best'[x] = IF CountOf(o, x) > best[x] THEN CountOf(o, x) ELSE best[x]
    BY <1>3
  <2>7. from'[x] = IF CountOf(o, x) > best[x] THEN {o} ELSE from[x]
    BY <1>3
  <2>8. bestE2e'[x] = IF ~isUt[o] /\ CountOf(o, x) > bestE2e[x] THEN CountOf(o, x) ELSE bestE2e[x]
    BY <1>2, <1>3
  <2>9. \A u \in InReport' : CountOf(u, x)' <= best'[x]
    BY <1>5, <2>1, <2>2, <2>4, <2>5, <2>6 DEF Sound
  <2>10. best'[x] = Absent <=> from'[x] = {}
    BY <2>1, <2>4, <2>6, <2>7 DEF Sound
  <2>11. \A u \in from'[x] : u \in InReport' /\ CountOf(u, x)' = best'[x]
    BY <1>5, <2>1, <2>2, <2>5, <2>6, <2>7 DEF Sound
  <2>12. \A u \in InReport' : ~isUt'[u] => CountOf(u, x)' <= bestE2e'[x]
    BY <1>1, <1>5, <2>1, <2>2, <2>4, <2>5, <2>8 DEF Sound
  <2>13. bestE2e'[x] # Absent => \E u \in InReport' : ~isUt'[u] /\ CountOf(u, x)' = bestE2e'[x]
    BY <1>1, <1>5, <2>1, <2>2, <2>5, <2>8 DEF Sound
  <2> QED BY <2>9, <2>10, <2>11, <2>12, <2>13 DEF Sound
<1>7. unmerged' \subseteq With("complete")' /\ With("cut")' \subseteq failed'
  BY <1>1 DEF MergeInv, With
<1> QED BY <1>1, <1>4, <1>6, <1>7 DEF MergeInv

\* The end of the merge changes no count.
LEMMA MergeEnds ==
  ASSUME MergeInv, Merged \/ RestCollect \/ UNCHANGED gcovVars
  PROVE  MergeInv'
<1>1. UNCHANGED <<pending, outputs, isUt, unmerged, best, bestE2e, from, failed>>
  BY DEF Merged, RestCollect, gcovVars
<1>2. /\ TypeG' /\ InReport' = InReport /\ With("complete")' = With("complete")
      /\ With("cut")' = With("cut")
      /\ \A o, x : CountOf(o, x)' = CountOf(o, x)
  BY <1>1 DEF Merged, RestCollect, gcovVars, MergeInv, TypeG, InReport, With, CountOf
<1>3. \A x \in Items : Sound(x) => Sound(x)'
  BY <1>1, <1>2 DEF Sound
<1> QED BY <1>1, <1>2, <1>3 DEF Merged, RestCollect, gcovVars, MergeInv

\* Every step keeps the invariant.
LEMMA MergeStep == MergeInv /\ [NextCollect]_gcovVars => MergeInv'
BY GcovEnds, OutputsRead, OutputMerged, MergeEnds DEF NextCollect

\* With no output left to merge the invariant is the property.
LEMMA MergeImplies == MergeInv => MergeIsMaximum
<1> SUFFICES ASSUME MergeInv, gstep = "done", NEW x \in Items
             PROVE  /\ best[x] = Absent <=> Holding(x) = {}
                    /\ \A o \in Holding(x) : outputs[o].counts[x] <= best[x]
                    /\ \A o \in from[x] : o \in Holding(x) /\ outputs[o].counts[x] = best[x]
                    /\ Holding(x) # {} => from[x] # {}
                    /\ UtHit(x) <=> Hitting(x) # {} /\ Hitting(x) \subseteq UnitTests \ failed
  BY DEF MergeIsMaximum, KeptBranches, MergeInv
<1>1. Sound(x) /\ InReport = With("complete") /\ With("complete") \subseteq Objects
  BY DEF MergeInv, InReport, With
<1>2. /\ \A o \in Objects : CountOf(o, x) \in Int /\ CountOf(o, x) >= Absent
      /\ best[x] \in Int /\ best[x] >= Absent /\ bestE2e[x] \in Int /\ bestE2e[x] >= Absent
  BY CountsInt DEF MergeInv, TypeG, Outputs, Copies, CountOf
<1>3. /\ Holding(x) = {o \in InReport : CountOf(o, x) # Absent}
      /\ Hitting(x) = {o \in InReport : CountOf(o, x) # Absent /\ CountOf(o, x) > 0}
  BY <1>1 DEF Holding, Hitting, CountOf
<1>4. Holding(x) = {} <=> best[x] = Absent
  BY <1>1, <1>2, <1>3 DEF Sound, Absent
<1>5. \A o \in Holding(x) : outputs[o].counts[x] <= best[x]
  BY <1>1, <1>3 DEF Sound, CountOf
<1>6. \A o \in from[x] : o \in Holding(x) /\ outputs[o].counts[x] = best[x]
  BY <1>1, <1>3 DEF Sound, CountOf
<1>7. best[x] > 0 <=> Hitting(x) # {}
  BY <1>1, <1>2, <1>3 DEF Sound, Absent
<1>8. ~(bestE2e[x] > 0) <=> \A o \in Hitting(x) : isUt[o]
  <2>1. ASSUME bestE2e[x] > 0 PROVE \E o \in Hitting(x) : ~isUt[o]
    BY <2>1, <1>1, <1>2, <1>3 DEF Sound, Absent
  <2>2. ASSUME ~(bestE2e[x] > 0), NEW o \in Hitting(x) PROVE isUt[o]
    BY <2>2, <1>1, <1>2, <1>3 DEF Sound, Absent
  <2> QED BY <2>1, <2>2
<1>9. UtHit(x) <=> Hitting(x) # {} /\ \A o \in Hitting(x) : isUt[o]
  BY <1>7, <1>8 DEF UtHit
<1>10. (\A o \in Hitting(x) : isUt[o]) <=> Hitting(x) \subseteq UnitTests \ failed
  <2>1. pending = {} /\ Hitting(x) \subseteq Objects
    BY <1>1, <1>3 DEF MergeInv
  <2>2. \A o \in Objects \ pending : isUt[o] <=> o \in UnitTests \ failed
    BY DEF MergeInv
  <2> QED BY <2>1, <2>2
<1> QED BY <1>1, <1>4, <1>5, <1>6, <1>9, <1>10 DEF Sound

\* The counts of a finished collection's report are those of the largest copies, in
\* whatever order gcov ended and the outputs were merged, for every number of objects,
\* items and counts; its branches are those of one of these copies.  Without a gcov that
\* failed a collection finishes.
THEOREM MergeMaximum == SpecCollect => []MergeIsMaximum
<1>1. SpecCollect => []MergeInv
  BY MergeInit, MergeStep, PTL DEF SpecCollect
<1> QED BY <1>1, MergeImplies, PTL

-----------------------------------------------------------------------------
(* The figures of a report *)

HitsWithin(v) == v.hit \in Nat /\ v.total \in Nat /\ v.hit <= v.total

\* The view and the one before hit no more than they have; the figure shown is that one's.
ReportInv ==
  /\ program \in Programs /\ targets \in Scopes
  /\ hits.known \subseteq program.functions /\ hits.functions \subseteq hits.known
  /\ hits.others \in 0..program.others
  /\ HitsWithin(view) /\ HitsWithin(last)
  /\ func_pct = last.func_pct /\ func_pct \in PctOf(last.hit, last.total)

\* A figure is half a hundredth of a per cent off at most.
LEMMA PctNear ==
  ASSUME NEW hit \in Nat, NEW total \in Nat \ {0}, NEW p \in Pct(hit, total)
  PROVE  /\ p \in Int
         /\ 2 * (hit * 10000 - p * total) <= total
         /\ -total <= 2 * (hit * 10000 - p * total)
<1>1. (hit * 10000) \div total \in Int
  OBVIOUS
<1> DEFINE q == (hit * 10000) \div total
<1>2. p \in {q, q + 1} /\ 2 * (hit * 10000 - p * total) \in -total..total
  BY DEF Pct
<1>3. p \in Int
  BY <1>1, <1>2
<1>4. p * total \in Int
  BY <1>3
<1> QED BY <1>2, <1>3, <1>4

\* A whole per cent as shown is reached in a small view.
LEMMA WholeReached ==
  ASSUME NEW hit \in Nat, NEW total \in Nat \ {0}, total < 200, NEW p \in Pct(hit, total), NEW t \in 0..100,
         p >= 100 * t
  PROVE  hit * 100 >= t * total
<1>1. p \in Int /\ -total <= 2 * (hit * 10000 - p * total)
  BY PctNear
<1>2. p * total >= (100 * t) * total
  BY <1>1
<1>3. (100 * t) * total = 100 * (t * total) /\ t * total \in Int /\ p * total \in Int
  BY <1>1
<1> QED BY <1>1, <1>2, <1>3

\* All as shown is all.
LEMMA AllReached ==
  ASSUME NEW total \in Nat \ {0}, total < 20000, NEW hit \in 0..total, 10000 \in Pct(hit, total)
  PROVE  hit = total
<1>1. -total <= 2 * (hit * 10000 - 10000 * total)
  BY PctNear
<1> QED BY <1>1

\* One function more or less shows.
LEMMA OneShows ==
  ASSUME NEW total \in Nat \ {0}, total <= 10000, NEW h \in Nat, NEW k \in Nat,
         NEW p \in Pct(h, total), p \in Pct(k, total)
  PROVE  h = k
<1>1. /\ p \in Int /\ 2 * (h * 10000 - p * total) <= total /\ -total <= 2 * (h * 10000 - p * total)
      /\ 2 * (k * 10000 - p * total) <= total /\ -total <= 2 * (k * 10000 - p * total)
  BY PctNear
<1>2. p * total \in Int
  BY <1>1
<1>3. CASE total = 10000
  BY <1>1, <1>3
<1>4. CASE total < 10000
  <2> DEFINE x == p * total
  <2>1. /\ 2 * (h * 10000 - x) <= total /\ -total <= 2 * (h * 10000 - x)
        /\ 2 * (k * 10000 - x) <= total /\ -total <= 2 * (k * 10000 - x) /\ x \in Int
    BY <1>1, <1>2
  <2> HIDE DEF x
  <2> QED BY <1>4, <2>1
<1> QED BY <1>3, <1>4

\* A view hits no more than it has.
LEMMA ViewCounts ==
  ASSUME ReportInv, ScopeReport
  PROVE  HitsWithin(view)'
<1>1. IsFiniteSet(program.functions) /\ program.others \in Nat
  BY ReportConstants DEF ReportInv
<1>2. IsFiniteSet(hits.known) /\ IsFiniteSet(ScopeFunctions)
  BY <1>1, FS_Subset DEF ReportInv, ScopeFunctions
<1>3. /\ Cardinality(hits.functions) <= Cardinality(hits.known)
      /\ IsFiniteSet(hits.functions)
  BY <1>2, FS_Subset DEF ReportInv
<1>4. /\ Cardinality(hits.functions \cap ScopeFunctions) <= Cardinality(ScopeFunctions)
      /\ IsFiniteSet(hits.functions \cap ScopeFunctions)
  <2>1. hits.functions \cap ScopeFunctions \subseteq ScopeFunctions
    OBVIOUS
  <2> QED BY <1>2, <2>1, FS_Subset
<1>5. /\ Cardinality(hits.functions) \in Nat /\ Cardinality(hits.known) \in Nat
      /\ Cardinality(ScopeFunctions) \in Nat
      /\ Cardinality(hits.functions \cap ScopeFunctions) \in Nat
  BY <1>2, <1>3, <1>4, FS_CardinalityType
<1>6. view' \in {FullView, ScopedView}
  BY DEF ScopeReport
<1> QED BY <1>1, <1>3, <1>4, <1>5, <1>6 DEF ReportInv, HitsWithin, FullView, ScopedView

\* A round's execution, its scope and its figures keep to that.
LEMMA ReportStep == ReportInv /\ [NextReport]_reportVars => ReportInv'
<1> SUFFICES ASSUME ReportInv, [NextReport]_reportVars PROVE ReportInv'
  OBVIOUS
<1>1. CASE CollectReport
  <2>1. OtherHits[program.others] \subseteq 0..program.others
    BY ReportConstants DEF ReportInv
  <2>2. PICK ks \in SUBSET program.functions : \E fs \in SUBSET ks :
          \E bs \in SUBSET fs, n \in OtherHits[program.others] :
            hits' = [known |-> ks, functions |-> fs, branches |-> bs, others |-> n]
    BY <1>1 DEF CollectReport
  <2>3. hits'.known \subseteq program.functions /\ hits'.functions \subseteq hits'.known
        /\ hits'.others \in 0..program.others
    BY <2>1, <2>2
  <2> QED BY <1>1, <2>3 DEF CollectReport, ReportInv, HitsWithin
<1>2. CASE ScopeReport
  BY <1>2, ViewCounts DEF ScopeReport, ReportInv, HitsWithin
<1>3. CASE ShowReport
  <2>1. /\ last' = [hit |-> view.hit, total |-> view.total, func_pct |-> func_pct']
        /\ func_pct' \in PctOf(view.hit, view.total)
        /\ UNCHANGED <<program, targets, hits, view>>
    BY <1>3 DEF ShowReport
  <2>2. PctOf(last'.hit, last'.total) = PctOf(view.hit, view.total)
    BY <2>1
  <2>3. func_pct' = last'.func_pct /\ HitsWithin(last') /\ HitsWithin(view')
    BY <2>1 DEF ReportInv, HitsWithin
  <2> QED BY <2>1, <2>2, <2>3 DEF ReportInv, HitsWithin
<1>4. CASE UNCHANGED reportVars
  BY <1>4 DEF reportVars, ReportInv, HitsWithin
<1> QED BY <1>1, <1>2, <1>3, <1>4 DEF NextReport

\* Nothing is known in the beginning.
LEMMA ReportStarts == InitReport => ReportInv
<1> SUFFICES ASSUME InitReport PROVE ReportInv
  OBVIOUS
<1>1. program.others \in Nat
  BY ReportConstants DEF InitReport
<1> QED BY <1>1 DEF InitReport, ReportInv, HitsWithin, NoHits, NoView, NoLast, PctOf

\* A threshold met as shown is met, in views of the sizes named, for every program, scope
\* and execution.
THEOREM ThresholdsAreHonest == SpecReport => []ThresholdHonest
<1>1. ReportInv => ThresholdHonest
  <2> SUFFICES ASSUME ReportInv, last.total > 0 PROVE
        /\ last.total < 200 =>
             \A t \in 0..100 : func_pct >= 100 * t => last.hit * 100 >= t * last.total
        /\ last.total < 20000 => (func_pct = 10000 => last.hit = last.total)
    BY DEF ThresholdHonest
  <2>1. last.hit \in 0..last.total /\ last.total \in Nat \ {0}
        /\ func_pct \in Pct(last.hit, last.total)
    BY DEF ReportInv, HitsWithin, PctOf
  <2>2. ASSUME last.total < 200, NEW t \in 0..100, func_pct >= 100 * t
        PROVE  last.hit * 100 >= t * last.total
    <3>1. last.total \in Nat \ {0} /\ last.hit \in Nat
      BY <2>1, <2>2
    <3> QED BY <2>1, <2>2, <3>1, WholeReached
  <2>3. ASSUME last.total < 20000, func_pct = 10000 PROVE last.hit = last.total
    <3>1. last.total \in Nat \ {0} /\ 10000 \in Pct(last.hit, last.total)
      BY <2>1, <2>3
    <3> QED BY <2>1, <2>3, <3>1, AllReached
  <2> QED BY <2>2, <2>3
<1> QED BY <1>1, ReportStarts, ReportStep, PTL DEF SpecReport

\* No gain shown is none, in views of up to 10 000 functions.
THEOREM FlatIsFlat == SpecReport => FlatMeansFlat
<1>1. ASSUME ReportInv, [NextReport]_reportVars, mstep = "show", last.total = view.total,
             0 < view.total, view.total <= 10000, func_pp' = 0
      PROVE  last'.hit = last.hit
  <2>1. CASE ShowReport
    <3>0. view.total # 0 /\ view.total \in Nat \ {0} /\ last.total = view.total
      BY <1>1 DEF ReportInv, HitsWithin
    <3>1. /\ func_pct' \in PctOf(view.hit, view.total) /\ func_pp' = func_pct' - last.func_pct
          /\ last' = [hit |-> view.hit, total |-> view.total, func_pct |-> func_pct']
      BY <2>1 DEF ShowReport
    <3>2. /\ func_pct' \in Pct(view.hit, view.total) /\ func_pp' = func_pct' - last.func_pct
          /\ last'.hit = view.hit
      BY <3>0, <3>1 DEF PctOf
    <3>3. last.func_pct \in PctOf(last.hit, last.total) /\ view.hit \in Nat /\ last.hit \in Nat
      BY <1>1 DEF ReportInv, HitsWithin
    <3>4. /\ last.func_pct \in Pct(last.hit, view.total)
          /\ view.hit \in Nat /\ last.hit \in Nat /\ view.total \in Nat \ {0}
      BY <3>0, <3>3 DEF PctOf
    <3>5. func_pct' \in Int /\ last.func_pct \in Int
      BY <3>2, <3>4, PctNear
    <3>6. func_pct' = last.func_pct
      BY <1>1, <3>2, <3>5
    <3>7. last.func_pct \in Pct(view.hit, view.total)
      BY <3>2, <3>6
    <3>8. view.hit = last.hit
      BY <1>1, <3>4, <3>7, OneShows
    <3> QED BY <3>2, <3>8
  <2>2. CASE UNCHANGED reportVars
    BY <2>2 DEF reportVars
  <2> QED BY <1>1, <2>1, <2>2 DEF NextReport, CollectReport, ScopeReport
<1>2. SpecReport => []ReportInv
  BY ReportStarts, ReportStep, PTL DEF SpecReport
<1> QED BY <1>1, <1>2, PTL DEF SpecReport, FlatMeansFlat

-----------------------------------------------------------------------------
\* The binary that coverage is taken of

Binaries == [of : [SourceFiles -> Nat], read : [SourceFiles -> Nat], at : Nat]
Makes == [all : SUBSET SourceFiles, left : SUBSET SourceFiles, since : Nat]

TypeB ==
  /\ clock \in Nat /\ clock > 0
  /\ source \in [SourceFiles -> Nat] /\ atStart \in [SourceFiles -> Nat]
  /\ object \in [SourceFiles -> [of : Nat, at : Nat]]
  /\ binary \in Binaries /\ used \in Binaries
  /\ making \in Makes /\ orphan \in Makes
  /\ binary.at <= clock /\ making.since <= clock /\ orphan.since <= clock
  /\ stage = "building" <=> making.since > 0
  /\ listed = NotListed \/ listed \subseteq SourceFiles

\* Types are kept by a step of the clock that leaves the rest alone.
LEMMA TypesStay ==
  ASSUME TypeB, clock' \in Nat, clock' >= clock,
         UNCHANGED <<source, atStart, object, binary, used, making, orphan, stage, listed>>
  PROVE  TypeB'
<1>1. clock \in Nat /\ binary.at \in Nat /\ making.since \in Nat /\ orphan.since \in Nat
  BY DEF TypeB, Binaries, Makes
<1>2. binary.at <= clock' /\ making.since <= clock' /\ orphan.since <= clock'
  BY <1>1 DEF TypeB
<1> QED BY <1>2 DEF TypeB

\* v is the version of f that was there at time t, or a later one
VersionAt(f, v, t) ==
  /\ t <= clock
  /\ source[f] <= t => v = source[f]
  /\ atStart[f] <= t => v >= atStart[f]

\* a source that make does not know was added since it began
Unknown(make, f) ==
  make.since > 0 /\ f \notin make.all =>
    /\ source[f] = 0 \/ source[f] > make.since
    /\ atStart[f] = 0 \/ atStart[f] > make.since

\* what the binary has of f is what was compiled, until that is compiled again
Current(f) ==
  object[f].at <= binary.read[f] \/ object[f].at > binary.at \/ binary.of[f] = 0

\* of the own build: what it has looked at is as new as when the stage began
Looked(f) ==
  stage = "building" =>
    /\ f \in making.all \ making.left => object[f].at >= atStart[f]
    /\ f \notin making.all => atStart[f] = 0

FileInv(f) ==
  /\ source[f] <= clock /\ atStart[f] <= source[f]
  /\ VersionAt(f, object[f].of, object[f].at)
  /\ VersionAt(f, binary.of[f], binary.read[f])
  /\ Current(f) /\ Looked(f)
  /\ Unknown(making, f) /\ Unknown(orphan, f)

BuildInv == TypeB /\ (\A f \in SourceFiles : FileInv(f)) /\ MeasuresTheSource

\* The invariant holds before anything is built.
LEMMA BuildStarts == InitBuild => BuildInv
<1> SUFFICES ASSUME InitBuild PROVE BuildInv
  OBVIOUS
<1> USE DEF InitBuild, NotBuilt, NoBinary, NotMaking
<1>1. TypeB
  BY DEF TypeB, Binaries, Makes
<1>2. ASSUME NEW f \in SourceFiles PROVE FileInv(f)
  BY DEF FileInv, VersionAt, Current, Looked, Unknown
<1>3. MeasuresTheSource
  BY DEF MeasuresTheSource
<1> QED BY <1>1, <1>2, <1>3 DEF BuildInv

\* What a run measures does not change while stage [1] is where it is.
LEMMA MeasuredStays ==
  ASSUME MeasuresTheSource, UNCHANGED <<stage, atStart, used, listed>>
  PROVE  MeasuresTheSource'
BY DEF MeasuresTheSource, WrittenUnderTheBuild

\* A source that is written is newer than anything made of it.
LEMMA EditKeeps ==
  ASSUME BuildInv, NEW g \in SourceFiles, Edit(g)
  PROVE  BuildInv'
<1> USE DEF BuildInv, TypeB
<1>1. TypeB'
  <2>1. clock' = clock + 1 /\ source' = [source EXCEPT ![g] = clock + 1]
    BY DEF Edit, Pass
  <2>2. UNCHANGED <<object, binary, listed, making, orphan, stage, atStart, used>>
    BY DEF Edit
  <2>3. binary.at \in Nat /\ making.since \in Nat /\ orphan.since \in Nat
    BY DEF Binaries, Makes
  <2>4. clock' \in Nat /\ clock' > 0 /\ source' \in [SourceFiles -> Nat]
    BY <2>1
  <2>5. binary.at <= clock' /\ making.since <= clock' /\ orphan.since <= clock'
    BY <2>1, <2>3
  <2> QED BY <2>2, <2>4, <2>5
<1>2. ASSUME NEW f \in SourceFiles PROVE FileInv(f)'
  <2>1. FileInv(f) /\ clock' = clock + 1 /\ clock \in Nat
    BY DEF Edit, Pass
  <2>2. source'[f] = IF f = g THEN clock + 1 ELSE source[f]
    BY DEF Edit
  <2>3. UNCHANGED <<object, binary, making, orphan, stage, atStart>>
    BY DEF Edit
  <2>4. object[f].at \in Nat /\ binary.read[f] \in Nat /\ source[f] \in Nat /\ atStart[f] \in Nat
    BY DEF Binaries
  <2>5. making.since \in Nat /\ orphan.since \in Nat
    BY DEF Makes
  <2> QED
    BY <2>1, <2>2, <2>3, <2>4, <2>5 DEF FileInv, VersionAt, Current, Looked, Unknown
<1>3. MeasuresTheSource'
  BY MeasuredStays DEF Edit
<1> QED BY <1>1, <1>2, <1>3

\* Time passes.
LEMMA WaitKeeps ==
  ASSUME BuildInv, Wait
  PROVE  BuildInv'
<1> USE DEF BuildInv, TypeB
<1>1. TypeB'
  BY TypesStay DEF Wait, Pass
<1>2. ASSUME NEW f \in SourceFiles PROVE FileInv(f)'
  <2>1. FileInv(f) /\ clock' = clock + 1 /\ clock \in Nat
    BY DEF Wait, Pass
  <2>2. UNCHANGED <<source, object, binary, making, orphan, stage, atStart>>
    BY DEF Wait
  <2>3. object[f].at \in Nat /\ binary.read[f] \in Nat /\ source[f] \in Nat
    BY DEF Binaries
  <2> QED
    BY <2>1, <2>2, <2>3 DEF FileInv, VersionAt, Current, Looked, Unknown
<1>3. MeasuresTheSource'
  BY MeasuredStays DEF Wait
<1> QED BY <1>1, <1>2, <1>3

\* What is known of a source after one is compiled, by whichever build.
LEMMA CompileKeeps ==
  ASSUME BuildInv, NEW g \in SourceFiles, Compile(g),
         UNCHANGED <<source, binary, stage, atStart>>
  PROVE  /\ clock' \in Nat /\ clock' >= clock
         /\ object' \in [SourceFiles -> [of : Nat, at : Nat]]
         /\ object'[g].at >= source[g]
         /\ \A f \in SourceFiles :
              /\ object'[f].at >= object[f].at
              /\ source'[f] <= clock' /\ atStart'[f] <= source'[f]
              /\ VersionAt(f, object[f].of, object[f].at)'
              /\ VersionAt(f, binary.of[f], binary.read[f])'
              /\ Current(f)'
<1> USE DEF BuildInv, TypeB
<1>1. CASE Outdated(g)
  <2>1. /\ clock' = clock + 1
        /\ object' = [object EXCEPT ![g] = [of |-> source[g], at |-> clock + 1]]
    BY <1>1 DEF Compile, Pass
  <2>2. object' \in [SourceFiles -> [of : Nat, at : Nat]]
    BY <2>1
  <2>3. object'[g].at >= source[g]
    BY <2>1 DEF FileInv
  <2>4. ASSUME NEW f \in SourceFiles
        PROVE  /\ object'[f].at >= object[f].at
               /\ source'[f] <= clock' /\ atStart'[f] <= source'[f]
               /\ VersionAt(f, object[f].of, object[f].at)'
               /\ VersionAt(f, binary.of[f], binary.read[f])'
               /\ Current(f)'
    <3>1. FileInv(f) /\ clock \in Nat
      OBVIOUS
    <3>2. object[f].at \in Nat /\ binary.read[f] \in Nat /\ binary.at \in Nat
          /\ source[f] \in Nat /\ atStart[f] \in Nat
      BY DEF Binaries
    <3>3. IF f = g THEN object'[f].of = source[f] /\ object'[f].at = clock + 1
                   ELSE object'[f] = object[f]
      BY <2>1
    <3>4. binary.at <= clock /\ UNCHANGED <<source, binary, stage, atStart>>
      OBVIOUS
    <3> QED
      BY <2>1, <3>1, <3>2, <3>3, <3>4 DEF FileInv, VersionAt, Current
  <2> QED BY <2>1, <2>2, <2>3, <2>4
<1>2. CASE ~Outdated(g)
  <2>1. UNCHANGED <<clock, object, source, binary, stage, atStart>>
    BY <1>2 DEF Compile
  <2>2. object'[g].at >= source[g]
    BY <1>2, <2>1 DEF Outdated
  <2>3. ASSUME NEW f \in SourceFiles
        PROVE  /\ object'[f].at >= object[f].at
               /\ source'[f] <= clock' /\ atStart'[f] <= source'[f]
               /\ VersionAt(f, object[f].of, object[f].at)'
               /\ VersionAt(f, binary.of[f], binary.read[f])'
               /\ Current(f)'
    BY <2>1 DEF FileInv, VersionAt, Current
  <2> QED BY <2>1, <2>2, <2>3
<1> QED BY <1>1, <1>2

\* The own build compiles.
LEMMA CompileOwnKeeps ==
  ASSUME BuildInv, NEW g \in SourceFiles, CompileOwn(g)
  PROVE  BuildInv'
<1> USE DEF BuildInv
<1>1. Compile(g) /\ UNCHANGED <<source, binary, listed, orphan, stage, atStart, used>>
      /\ making' = [making EXCEPT !.left = @ \ {g}]
  BY DEF CompileOwn
<1>2. TypeB'
  <2>1. clock' \in Nat /\ clock' >= clock /\ object' \in [SourceFiles -> [of : Nat, at : Nat]]
    BY <1>1, CompileKeeps
  <2>2. making' \in Makes /\ making'.since = making.since
    BY <1>1 DEF TypeB, Makes
  <2>3. clock \in Nat /\ binary.at \in Nat /\ making.since \in Nat /\ orphan.since \in Nat
    BY DEF TypeB, Binaries, Makes
  <2>4. binary.at <= clock' /\ making.since <= clock' /\ orphan.since <= clock'
    BY <2>1, <2>3 DEF TypeB
  <2> QED BY <1>1, <2>1, <2>2, <2>4 DEF TypeB
<1>3. ASSUME NEW f \in SourceFiles PROVE FileInv(f)'
  <2>1. Looked(f)'
    <3>1. Looked(f) /\ atStart[f] <= source[f] /\ atStart[f] \in Nat /\ source[f] \in Nat
      BY DEF FileInv, TypeB
    <3>2. object[f].at \in Nat /\ object'[f].at \in Nat /\ object'[f].at >= object[f].at
          /\ object'[g].at >= source[g]
      BY <1>1, CompileKeeps DEF TypeB
    <3>3. making'.all = making.all /\ making'.left = making.left \ {g}
      BY <1>1 DEF TypeB, Makes
    <3> QED BY <1>1, <3>1, <3>2, <3>3 DEF Looked
  <2>2. Unknown(making, f)' /\ Unknown(orphan, f)'
    BY <1>1 DEF FileInv, Unknown, TypeB, Makes
  <2> QED BY <1>1, <2>1, <2>2, CompileKeeps DEF FileInv
<1>4. MeasuresTheSource'
  BY <1>1, MeasuredStays
<1> QED BY <1>2, <1>3, <1>4

\* A build that was given up compiles.
LEMMA CompileOrphanKeeps ==
  ASSUME BuildInv, NEW g \in SourceFiles, CompileOrphan(g)
  PROVE  BuildInv'
<1> USE DEF BuildInv
<1>1. Compile(g) /\ UNCHANGED <<source, binary, listed, making, stage, atStart, used>>
      /\ orphan' = [orphan EXCEPT !.left = @ \ {g}]
  BY DEF CompileOrphan
<1>2. TypeB'
  <2>1. clock' \in Nat /\ clock' >= clock /\ object' \in [SourceFiles -> [of : Nat, at : Nat]]
    BY <1>1, CompileKeeps
  <2>2. orphan' \in Makes /\ orphan'.since = orphan.since
    BY <1>1 DEF TypeB, Makes
  <2>3. clock \in Nat /\ binary.at \in Nat /\ making.since \in Nat /\ orphan.since \in Nat
    BY DEF TypeB, Binaries, Makes
  <2>4. binary.at <= clock' /\ making.since <= clock' /\ orphan'.since <= clock'
    BY <2>1, <2>2, <2>3 DEF TypeB
  <2> QED BY <1>1, <2>1, <2>2, <2>4 DEF TypeB
<1>3. ASSUME NEW f \in SourceFiles PROVE FileInv(f)'
  <2>1. Looked(f)'
    <3>1. Looked(f) /\ atStart[f] \in Nat
      BY DEF FileInv, TypeB
    <3>2. object[f].at \in Nat /\ object'[f].at \in Nat /\ object'[f].at >= object[f].at
      BY <1>1, CompileKeeps DEF TypeB
    <3> QED BY <1>1, <3>1, <3>2 DEF Looked
  <2>2. Unknown(making, f)' /\ Unknown(orphan, f)'
    BY <1>1 DEF FileInv, Unknown, TypeB, Makes
  <2> QED BY <1>1, <2>1, <2>2, CompileKeeps DEF FileInv
<1>4. MeasuresTheSource'
  BY <1>1, MeasuredStays
<1> QED BY <1>2, <1>3, <1>4

\* What is known of the binary after a link, by whichever build; linked or not,
\* it has what make looked at, unless a build given up linked without it.
LEMMA LinkKeeps ==
  ASSUME BuildInv, NEW make \in Makes, make.since <= clock, Link(make),
         \A f \in SourceFiles : Unknown(make, f),
         UNCHANGED <<source, object, atStart>>
  PROVE  /\ clock' \in Nat /\ clock' >= clock
         /\ binary' \in Binaries /\ binary'.at <= clock'
         /\ \A f \in make.all : object[f].at <= binary'.at
         /\ \A f \in SourceFiles :
              /\ source'[f] <= clock' /\ atStart'[f] <= source'[f]
              /\ VersionAt(f, object[f].of, object[f].at)'
              /\ VersionAt(f, binary.of[f], binary.read[f])'
              /\ Current(f)'
<1> USE DEF BuildInv, TypeB
<1>1. CASE \E f \in make.all : object[f].at > binary.at
  <2>1. clock' = clock + 1 /\ binary' = Linked(make)
    BY <1>1 DEF Link, Pass
  <2>2. binary' \in Binaries /\ binary'.at = clock + 1
    BY <2>1 DEF Linked, Binaries, Makes
  <2>3. ASSUME NEW f \in SourceFiles
        PROVE  /\ source'[f] <= clock' /\ atStart'[f] <= source'[f]
               /\ object'[f].at <= clock
               /\ VersionAt(f, object[f].of, object[f].at)'
               /\ VersionAt(f, binary.of[f], binary.read[f])'
               /\ Current(f)'
    <3>1. FileInv(f) /\ Unknown(make, f) /\ clock \in Nat /\ make.since > 0
      BY DEF Link
    <3>2. object[f].at \in Nat /\ object[f].of \in Nat /\ make.since \in Nat
          /\ source[f] \in Nat /\ atStart[f] \in Nat
      BY DEF Makes
    <3>3. IF f \in make.all
          THEN binary'.of[f] = object[f].of /\ binary'.read[f] = object[f].at
          ELSE binary'.of[f] = 0 /\ binary'.read[f] = make.since
      BY <2>1 DEF Linked
    <3> QED
      BY <2>1, <3>1, <3>2, <3>3 DEF FileInv, VersionAt, Current, Unknown
  <2>4. \A f \in make.all : object[f].at <= binary'.at
    <3>1. ASSUME NEW f \in make.all PROVE object[f].at <= binary'.at
      <4>1. f \in SourceFiles
        BY DEF Makes
      <4> QED BY <2>2, <2>3, <4>1
    <3> QED BY <3>1
  <2> QED BY <2>1, <2>2, <2>3, <2>4
<1>2. CASE ~ \E f \in make.all : object[f].at > binary.at
  <2>1. UNCHANGED <<clock, binary, source, object, atStart>>
    BY <1>2 DEF Link
  <2>2. ASSUME NEW f \in make.all PROVE object[f].at <= binary'.at
    <3>1. f \in SourceFiles
      BY DEF Makes
    <3>2. object[f].at \in Nat /\ binary.at \in Nat
      BY <3>1 DEF Binaries
    <3> QED BY <1>2, <2>1, <3>2
  <2>3. ASSUME NEW f \in SourceFiles
        PROVE  /\ source'[f] <= clock' /\ atStart'[f] <= source'[f]
               /\ VersionAt(f, object[f].of, object[f].at)'
               /\ VersionAt(f, binary.of[f], binary.read[f])'
               /\ Current(f)'
    BY <2>1 DEF FileInv, VersionAt, Current
  <2> QED BY <2>1, <2>2, <2>3
<1> QED BY <1>1, <1>2

\* A build that was given up links, or fails.
LEMMA OrphanKeeps ==
  ASSUME BuildInv, OrphanLinks \/ OrphanFails
  PROVE  BuildInv'
<1> USE DEF BuildInv
<1>1. UNCHANGED <<source, object, listed, making, stage, atStart, used>> /\ orphan' = NotMaking
  BY DEF OrphanLinks, OrphanFails
<1>2. /\ clock' \in Nat /\ clock' >= clock
      /\ binary' \in Binaries /\ binary'.at <= clock'
      /\ \A f \in SourceFiles :
           /\ source'[f] <= clock' /\ atStart'[f] <= source'[f]
           /\ VersionAt(f, object[f].of, object[f].at)'
           /\ VersionAt(f, binary.of[f], binary.read[f])'
           /\ Current(f)'
  <2>1. CASE OrphanLinks
    <3>1. Link(orphan) /\ orphan \in Makes /\ orphan.since <= clock
      BY <2>1 DEF OrphanLinks, TypeB
    <3>2. \A f \in SourceFiles : Unknown(orphan, f)
      BY DEF FileInv
    <3> QED BY <1>1, <3>1, <3>2, LinkKeeps
  <2>2. CASE OrphanFails
    BY <1>1, <2>2 DEF OrphanFails, FileInv, VersionAt, Current, TypeB
  <2> QED BY <2>1, <2>2
<1>3. TypeB'
  BY <1>1, <1>2 DEF TypeB, NotMaking, Makes
<1>4. ASSUME NEW f \in SourceFiles PROVE FileInv(f)'
  <2>1. Looked(f)' /\ Unknown(making, f)'
    BY <1>1 DEF FileInv, Looked, Unknown
  <2>2. Unknown(orphan, f)'
    BY <1>1 DEF Unknown, NotMaking
  <2> QED BY <1>2, <2>1, <2>2 DEF FileInv
<1>5. MeasuresTheSource'
  BY <1>1, MeasuredStays
<1> QED BY <1>3, <1>4, <1>5

\* A binary that passes is_fresh is older than no source by more than the second.
LEMMA ReuseIsSound ==
  ASSUME BuildInv, StartStage(TRUE), is_fresh
  PROVE  MeasuresTheSource'
<1> USE DEF BuildInv, TypeB
<1>1. stage' = "reused" /\ used' = binary /\ atStart' = source
  BY DEF StartStage
<1>2. listed' = source_files
  BY DEF StartStage, is_fresh
<1>3. ASSUME NEW f \in listed'
      PROVE  binary.of[f] = source[f] \/ WrittenUnderTheBuild(f)'
  <2>1. ~(source[f] > binary.at + Tolerance)
    BY <1>2, <1>3 DEF is_fresh, NewerSource
  <2>2. CASE f \in SourceFiles
    <3>1. VersionAt(f, binary.of[f], binary.read[f])
      BY <2>2 DEF FileInv
    <3>2. source[f] \in Nat /\ binary.read[f] \in Nat /\ binary.at \in Nat /\ Tolerance \in Nat
      BY <2>2, BuildConstants DEF Binaries
    <3> QED BY <1>1, <2>1, <3>1, <3>2 DEF VersionAt, WrittenUnderTheBuild
  <2>3. CASE f \notin SourceFiles
    <3>1. source_files \subseteq SourceFiles
      BY DEF source_files, Sources
    <3> QED BY <1>2, <1>3, <2>3, <3>1
  <2> QED BY <2>2, <2>3
<1> QED BY <1>1, <1>3 DEF MeasuresTheSource
\* The sources are listed before anything is measured.
LEMMA ListKeeps ==
  ASSUME BuildInv, ListSources
  PROVE  BuildInv'
<1>1. /\ UNCHANGED <<clock, source, object, binary, making, orphan, stage, atStart, used>>
      /\ stage = "idle"
  BY DEF ListSources
<1>2. TypeB'
  BY <1>1 DEF BuildInv, TypeB, ListSources, source_files, Sources
<1>3. ASSUME NEW f \in SourceFiles PROVE FileInv(f)'
  BY <1>1 DEF BuildInv, FileInv, VersionAt, Current, Looked, Unknown
<1>4. MeasuresTheSource'
  BY <1>1 DEF MeasuresTheSource
<1> QED BY <1>2, <1>3, <1>4 DEF BuildInv

\* The stage begins: what it finds is what it is to measure.
LEMMA StartKeeps ==
  ASSUME BuildInv, NEW skip_build \in BOOLEAN, StartStage(skip_build)
  PROVE  BuildInv'
<1> USE DEF BuildInv
<1>1. UNCHANGED <<clock, source, orphan>> /\ atStart' = source /\ stage # "building"
  BY DEF StartStage
<1>2. listed' = NotListed \/ listed' \subseteq SourceFiles
  BY DEF StartStage, source_files, Sources, TypeB
<1>3. CASE skip_build /\ is_fresh
  <2>1. /\ stage' = "reused" /\ used' = binary
        /\ UNCHANGED <<object, binary, making>>
    BY <1>3 DEF StartStage
  <2>2. TypeB'
    BY <1>1, <1>2, <2>1 DEF TypeB
  <2>3. ASSUME NEW f \in SourceFiles PROVE FileInv(f)'
    <3>1. FileInv(f) /\ source[f] \in Nat
      BY DEF TypeB
    <3> QED BY <1>1, <2>1, <3>1 DEF FileInv, VersionAt, Current, Looked, Unknown
  <2>4. MeasuresTheSource'
    <3>1. StartStage(TRUE)
      BY <1>3
    <3> QED BY <1>3, <3>1, ReuseIsSound
  <2> QED BY <2>2, <2>3, <2>4
<1>4. CASE ~(skip_build /\ is_fresh)
  <2>1. /\ stage' = "building" /\ used' = NoBinary /\ Clean
        /\ making' = [all |-> Sources, left |-> Sources, since |-> clock]
    BY <1>4 DEF StartStage
  <2>2. PICK gone \in SUBSET SourceFiles, keeps \in BOOLEAN :
          /\ object' = [f \in SourceFiles |-> IF f \in gone THEN NotBuilt ELSE object[f]]
          /\ binary' = IF keeps THEN binary ELSE NoBinary
    BY <2>1 DEF Clean
  <2>3. NoBinary \in Binaries /\ NotBuilt \in [of : Nat, at : Nat]
    BY DEF NoBinary, NotBuilt, Binaries
  <2>4. TypeB'
    <3>1. binary' \in Binaries /\ binary'.at <= clock
      BY <2>2, <2>3 DEF TypeB, NoBinary
    <3>2. object' \in [SourceFiles -> [of : Nat, at : Nat]]
      BY <2>2, <2>3 DEF TypeB
    <3>3. making' \in Makes /\ making'.since = clock /\ clock > 0
      BY <2>1 DEF TypeB, Makes, Sources
    <3> QED BY <1>1, <1>2, <2>1, <2>3, <3>1, <3>2, <3>3 DEF TypeB
  <2>5. ASSUME NEW f \in SourceFiles PROVE FileInv(f)'
    <3>1. FileInv(f) /\ source[f] \in Nat /\ clock \in Nat
      BY DEF TypeB
    <3>2. \/ object'[f] = object[f]
          \/ object'[f].of = 0 /\ object'[f].at = 0
      BY <2>2 DEF NotBuilt
    <3>3. \/ binary' = binary
          \/ binary'.of[f] = 0 /\ binary'.read[f] = 0
      BY <2>2 DEF NoBinary
    <3>4. f \in making'.all <=> source[f] > 0
      BY <2>1 DEF Sources
    <3>5. making'.left = making'.all /\ making'.since = clock
      BY <2>1
    <3>6. object[f].at \in Nat /\ binary.read[f] \in Nat /\ binary.at \in Nat
      BY DEF TypeB, Binaries
    <3>7. source'[f] <= clock' /\ atStart'[f] <= source'[f]
      BY <1>1, <3>1 DEF FileInv
    <3>8. VersionAt(f, object[f].of, object[f].at)'
      BY <1>1, <3>1, <3>2, <3>6 DEF FileInv, VersionAt
    <3>9. VersionAt(f, binary.of[f], binary.read[f])'
      BY <1>1, <3>1, <3>3, <3>6 DEF FileInv, VersionAt
    <3>10. Current(f)'
      BY <3>1, <3>2, <3>3, <3>6 DEF FileInv, Current
    <3>11. Looked(f)'
      BY <1>1, <3>1, <3>4, <3>5 DEF Looked
    <3>12. Unknown(making, f)' /\ Unknown(orphan, f)'
      BY <1>1, <3>1, <3>4, <3>5 DEF FileInv, Unknown
    <3> QED BY <3>7, <3>8, <3>9, <3>10, <3>11, <3>12 DEF FileInv
  <2>6. MeasuresTheSource'
    BY <2>1 DEF MeasuresTheSource
  <2> QED BY <2>4, <2>5, <2>6
<1> QED BY <1>3, <1>4

\* The own build links; what it links is as new as what the stage found.
LEMMA SuccessKeeps ==
  ASSUME BuildInv, BuildSucceeds
  PROVE  BuildInv'
<1> USE DEF BuildInv
<1>1. /\ Link(making) /\ stage' = "built" /\ used' = binary' /\ making' = NotMaking
      /\ UNCHANGED <<source, object, listed, orphan, atStart>>
  BY DEF BuildSucceeds
<1>2. making \in Makes /\ making.since <= clock /\ \A f \in SourceFiles : Unknown(making, f)
  BY DEF TypeB, FileInv
<1>3. /\ clock' \in Nat /\ clock' >= clock
      /\ binary' \in Binaries /\ binary'.at <= clock'
      /\ \A f \in making.all : object[f].at <= binary'.at
      /\ \A f \in SourceFiles :
           /\ source'[f] <= clock' /\ atStart'[f] <= source'[f]
           /\ VersionAt(f, object[f].of, object[f].at)'
           /\ VersionAt(f, binary.of[f], binary.read[f])'
           /\ Current(f)'
  BY <1>1, <1>2, LinkKeeps
<1>4. TypeB'
  <2>1. NotMaking \in Makes /\ NotMaking.since = 0
    BY DEF NotMaking, Makes
  <2>2. clock \in Nat /\ orphan.since \in Nat /\ orphan.since <= clock
    BY DEF TypeB, Makes
  <2>3. orphan'.since <= clock' /\ making'.since <= clock'
    BY <1>1, <1>3, <2>1, <2>2
  <2> QED BY <1>1, <1>3, <2>1, <2>3 DEF TypeB
<1>5. ASSUME NEW f \in SourceFiles PROVE FileInv(f)'
  <2>1. Looked(f)'
    BY <1>1 DEF Looked
  <2>2. Unknown(making, f)' /\ Unknown(orphan, f)'
    BY <1>1 DEF FileInv, Unknown, NotMaking
  <2> QED BY <1>3, <2>1, <2>2 DEF FileInv
<1>6. ASSUME NEW f \in SourceFiles
      PROVE  used'.of[f] >= atStart[f] \/ (used'.of[f] = 0 /\ WrittenUnderTheBuild(f)')
  <2>1. /\ binary'.of[f] \in Nat /\ binary'.read[f] \in Nat /\ binary'.at \in Nat
        /\ atStart[f] \in Nat /\ object[f].at \in Nat /\ Tolerance \in Nat
    BY <1>3, BuildConstants DEF Binaries, TypeB
  <2>2. VersionAt(f, binary.of[f], binary.read[f])' /\ Current(f)'
    BY <1>3
  <2>3. stage = "building" /\ making.left = {} /\ Looked(f)
    BY <1>1 DEF Link, TypeB, FileInv
  <2>4. CASE f \in making.all
    <3>1. object[f].at >= atStart[f] /\ object[f].at <= binary'.at
      BY <1>3, <2>3, <2>4 DEF Looked
    <3> QED BY <1>1, <2>1, <2>2, <3>1 DEF VersionAt, Current, WrittenUnderTheBuild
  <2>5. CASE f \notin making.all
    BY <1>1, <2>1, <2>3, <2>5 DEF Looked
  <2> QED BY <2>4, <2>5
<1>7. MeasuresTheSource'
  BY <1>1, <1>6 DEF MeasuresTheSource
<1> QED BY <1>4, <1>5, <1>7

\* A build that fails or is given up leaves everything as it is.
LEMMA FailureKeeps ==
  ASSUME BuildInv, BuildFailed \/ BuildTimesOut
  PROVE  BuildInv'
<1> USE DEF BuildInv
<1>1. /\ UNCHANGED <<clock, source, object, binary, listed, atStart, used>>
      /\ stage' = "failed" /\ making' = NotMaking
      /\ orphan' \in {orphan, making}
  BY DEF BuildFailed, BuildTimesOut
<1>2. TypeB'
  <2>1. NotMaking \in Makes /\ NotMaking.since = 0
    BY DEF NotMaking, Makes
  <2> QED BY <1>1, <2>1 DEF TypeB
<1>3. ASSUME NEW f \in SourceFiles PROVE FileInv(f)'
  <2>1. Looked(f)'
    BY <1>1 DEF Looked
  <2>2. Unknown(making, f)' /\ Unknown(orphan, f)'
    BY <1>1 DEF FileInv, Unknown, NotMaking
  <2>3. VersionAt(f, object[f].of, object[f].at)' /\ VersionAt(f, binary.of[f], binary.read[f])'
    BY <1>1 DEF FileInv, VersionAt
  <2> QED BY <1>1, <2>1, <2>2, <2>3 DEF FileInv, Current
<1>4. MeasuresTheSource'
  BY <1>1 DEF MeasuresTheSource
<1> QED BY <1>2, <1>3, <1>4

\* Every step keeps the invariant.
LEMMA BuildStep == BuildInv /\ [NextBuild]_buildVars => BuildInv'
<1> SUFFICES ASSUME BuildInv, [NextBuild]_buildVars PROVE BuildInv'
  OBVIOUS
<1>1. ASSUME NEW f \in SourceFiles, Edit(f) \/ CompileOwn(f) \/ CompileOrphan(f)
      PROVE  BuildInv'
  BY <1>1, EditKeeps, CompileOwnKeeps, CompileOrphanKeeps
<1>2. CASE Wait \/ ListSources
  BY <1>2, WaitKeeps, ListKeeps
<1>3. CASE OrphanLinks \/ OrphanFails
  BY <1>3, OrphanKeeps
<1>4. ASSUME NEW skip_build \in BOOLEAN, StartStage(skip_build) PROVE BuildInv'
  BY <1>4, StartKeeps
<1>5. CASE BuildSucceeds
  BY <1>5, SuccessKeeps
<1>6. CASE BuildFailed \/ BuildTimesOut
  BY <1>6, FailureKeeps
<1>7. CASE UNCHANGED buildVars
  <2>1. UNCHANGED <<clock, source, object, binary, listed, making, orphan, stage, atStart, used>>
    BY <1>7 DEF buildVars
  <2>2. TypeB'
    BY <2>1 DEF BuildInv, TypeB
  <2>3. ASSUME NEW f \in SourceFiles PROVE FileInv(f)'
    BY <2>1 DEF BuildInv, FileInv, VersionAt, Current, Looked, Unknown
  <2>4. MeasuresTheSource'
    BY <2>1, MeasuredStays DEF BuildInv
  <2> QED BY <2>2, <2>3, <2>4 DEF BuildInv
<1> QED BY <1>1, <1>2, <1>3, <1>4, <1>5, <1>6, <1>7 DEF NextBuild

\* For any sources, whenever they are written and whatever becomes of builds,
\* a stage [1] that lets the run go on has a binary of the sources it found
\* (build.py is_fresh, build; loop.py:490-515).
THEOREM BinaryIsCurrent == SpecBuild => []MeasuresTheSource
<1>1. BuildInv => MeasuresTheSource
  BY DEF BuildInv
<1> QED BY <1>1, BuildStarts, BuildStep, PTL DEF SpecBuild

-----------------------------------------------------------------------------
(* Coverage of this round *)

OwnCounts(counted) == counted \subseteq {runs} \cup excused

RoundInv ==
  /\ xstep \in {"idle", "pytest", "collect", "judge"}
  /\ request.collect /\ xstep \in {"pytest", "collect"} => OwnCounts(counters)
  /\ request.collect /\ xstep = "judge" => OwnCounts(coverage)

\* An execution begins with the counters that could not be removed.
LEMMA RunBegins ==
  ASSUME RoundInv, NEW req \in Requests, NEW new \in BOOLEAN, run_tests(req, new)
  PROVE  RoundInv'
<1>1. xstep' = "pytest" /\ request' = req
  BY DEF run_tests
<1>2. req.collect => counters' \subseteq excused'
  BY DEF run_tests, Cleans
<1> QED BY <1>1, <1>2 DEF RoundInv, OwnCounts

\* Every later step adds its own counts, or counts it excuses.
LEMMA RunGoesOn ==
  ASSUME RoundInv, Execution
  PROVE  RoundInv'
<1>1. CASE PytestEnds
  BY <1>1 DEF PytestEnds, AfterPytest, Counted, RoundInv, OwnCounts
<1>2. CASE PytestBreaks
  BY <1>2 DEF PytestBreaks, AfterPytest, Counted, RoundInv, OwnCounts
<1>3. CASE OrphanEnds
  <2>1. PICK o \in orphans : counters' = counters \cup {o.run} /\ excused' = excused \cup {o.run}
    BY <1>3 DEF OrphanEnds
  <2>2. UNCHANGED <<xstep, runs, request, coverage>>
    BY <1>3 DEF OrphanEnds
  <2> QED BY <2>1, <2>2 DEF RoundInv, OwnCounts
<1>4. CASE Collect
  BY <1>4 DEF Collect, RoundInv, OwnCounts
<1>5. CASE CollectRaises \/ JudgeRun
  BY <1>5 DEF CollectRaises, JudgeRun, RoundInv, OwnCounts
<1> QED BY <1>1, <1>2, <1>3, <1>4, <1>5 DEF Execution

\* A round's coverage counts its own execution, and what cleaning could not remove or
\* a program that outlived a timeout wrote late, for any number of executions.
THEOREM OwnCoverage == SpecExecutor => []CoverageOfThisRound
<1>1. InitExecutor => RoundInv
  BY DEF InitExecutor, RoundInv
<1>2. RoundInv /\ [NextExecutor]_execVars => RoundInv'
  <2>1. RoundInv /\ UNCHANGED execVars => RoundInv'
    BY DEF RoundInv, OwnCounts, execVars
  <2> QED BY <2>1, RunBegins, RunGoesOn DEF NextExecutor, RestExecutor
<1>3. RoundInv => CoverageOfThisRound
  BY DEF RoundInv, OwnCounts, CoverageOfThisRound
<1> QED BY <1>1, <1>2, <1>3, PTL DEF SpecExecutor

-----------------------------------------------------------------------------
(* Verdicts of the scan track *)

SomeFailed == \E f \in DOMAIN results : results[f] \in {"fail", "broken"}
NoneFailed == DOMAIN results # {} /\ \A f \in DOMAIN results : results[f] \in {"pass", "skip"}

\* v, a verdict, is true of the results
Shown(v) == (v = "FAIL" => SomeFailed) /\ (v = "PASS" => NoneFailed)

\* what pytest has left when it is over: only a session that crashed (127) has an exit
\* code that needs junit.xml to tell it from a failed one, and then none is there
PytestLeft ==
  /\ rc \in {0, 1, 2, 3, 4, 5, 124, 127}
  /\ rc = 0 => NoneFailed
  /\ rc \in {1, 2} => SomeFailed
  /\ rc = 127 => orphans = {} /\ ~junit.tests

ExecutionInv ==
  /\ xstep \in {"idle", "pytest", "collect", "judge"}
  /\ xstep = "pytest" => orphans = {} /\ junit = NoFile /\ verdict = "none"
  /\ xstep \in {"collect", "judge"} => PytestLeft /\ verdict = "none"
  /\ Shown(verdict)

ScanInv ==
  /\ ExecutionInv
  /\ sstep \in {"start", "scan", "gen", "verify", "execute"} => xstep = "idle" /\ orphans = {}
  /\ sstep \in {"judge", "end"} => Shown(execution)
  /\ sstep # "end" => DOMAIN verdicts = {}
  /\ sstep = "end" => DOMAIN verdicts = issues /\ \A i \in issues : verdicts[i] = VerdictOf(i)
  /\ sstep \in {"start", "scan", "gen", "verify", "execute", "executing"} => execution = "none"

\* The exit code is 0 only if there was a file and none failed, 1 or 2 only if some did.
LEMMA ExitCodes ==
  ASSUME NEW S, NEW res \in [S -> {"pass", "skip", "fail", "broken"}]
  PROVE  /\ ExitCode(res) \in {0, 1, 2, 5}
         /\ ExitCode(res) = 0 => DOMAIN res # {} /\ \A f \in DOMAIN res : res[f] \in {"pass", "skip"}
         /\ ExitCode(res) \in {1, 2} => \E f \in DOMAIN res : res[f] \in {"fail", "broken"}
BY DEF ExitCode

\* The steps of run_tests keep what is known of the execution.
LEMMA ExecutionGoesOn ==
  ASSUME ExecutionInv, Execution
  PROVE  ExecutionInv'
<1>1. CASE PytestEnds
  <2>1. /\ rc' = ExitCode(results') /\ results' \in [Selected -> {"pass", "skip", "fail", "broken"}]
        /\ xstep' \in {"collect", "judge"} /\ verdict' = "none"
    BY <1>1 DEF PytestEnds, AfterPytest, ExecutionInv
  <2>2. PytestLeft'
    BY <2>1, ExitCodes DEF PytestLeft, NoneFailed, SomeFailed
  <2> QED BY <2>1, <2>2 DEF ExecutionInv, Shown
<1>2. CASE PytestBreaks
  <2>1. /\ rc' \in {3, 4, 124, 127} /\ orphans = {} /\ junit = NoFile
        /\ junit' \in {junit, [run |-> runs, tests |-> FALSE]}
        /\ rc' = 127 => orphans' = {}
        /\ xstep' \in {"collect", "judge"} /\ verdict' = "none"
    BY <1>2 DEF PytestBreaks, AfterPytest, ExecutionInv
  <2>2. ~junit'.tests
    BY <2>1 DEF NoFile
  <2>3. PytestLeft'
    BY <2>1, <2>2 DEF PytestLeft
  <2> QED BY <2>1, <2>3 DEF ExecutionInv, Shown
<1>3. CASE OrphanEnds
  <2>1. orphans # {} /\ UNCHANGED <<xstep, rc, verdict, results>>
    BY <1>3 DEF OrphanEnds
  <2> QED BY <2>1 DEF ExecutionInv, PytestLeft, Shown, NoneFailed, SomeFailed
<1>4. CASE Collect \/ CollectRaises
  BY <1>4 DEF Collect, CollectRaises, ExecutionInv, PytestLeft, Shown, NoneFailed, SomeFailed
<1>5. CASE JudgeRun
  <2>1. PytestLeft /\ xstep' = "idle" /\ verdict' = Verdict /\ UNCHANGED results
    BY <1>5 DEF JudgeRun, ExecutionInv
  <2>2. Shown(Verdict)
    BY <2>1 DEF PytestLeft, Verdict, Shown
  <2> QED BY <2>1, <2>2 DEF ExecutionInv, Shown, NoneFailed, SomeFailed
<1> QED BY <1>1, <1>2, <1>3, <1>4, <1>5 DEF Execution

\* The invariant holds before the scan.
LEMMA ScanInit == InitExecutor /\ InitScan => ScanInv
BY DEF InitExecutor, InitScan, ScanInv, ExecutionInv, Shown

\* The steps before the execution decide nothing.
LEMMA BeforeExecution ==
  ASSUME ScanInv,
         StartScan \/ OcrReviews \/ OcrUnavailable \/ OcrTimesOut \/ ScanAgent \/ GenScan \/ VerifyScan
  PROVE  ScanInv'
<1>1. /\ UNCHANGED <<xstep, orphans, junit, rc, verdict, results, execution, verdicts>>
      /\ sstep \in {"start", "scan", "gen", "verify"} /\ execution = "none" /\ DOMAIN verdicts = {}
      /\ sstep' \in {"scan", "gen", "verify", "execute", "judge", "end", "raised"}
      /\ sstep' = "end" => issues' = {}
  BY DEF StartScan, OcrReviews, OcrUnavailable, OcrTimesOut, ScanAgent, GenScan, VerifyScan,
         Found, execVars, ScanInv
<1>2. ExecutionInv'
  BY <1>1 DEF ScanInv, ExecutionInv, PytestLeft, Shown, NoneFailed, SomeFailed
<1>3. Shown(execution)'
  BY <1>1 DEF Shown
<1> QED BY <1>1, <1>2, <1>3 DEF ScanInv

\* The execution begins in a new directory, with nothing going on from before.
LEMMA ExecutionBegins ==
  ASSUME ScanInv, ExecuteScan
  PROVE  ScanInv'
<1>1. /\ sstep' = "executing" /\ UNCHANGED <<issues, manifest, review, execution, verdicts>>
      /\ execution = "none" /\ DOMAIN verdicts = {} /\ orphans = {}
  BY DEF ExecuteScan, ScanInv
<1>2. /\ xstep' = "pytest" /\ junit' = NoFile /\ verdict' = "none"
      /\ orphans' = {[o EXCEPT !.writes = FALSE] : o \in orphans}
  BY DEF ExecuteScan, run_tests
<1>3. ExecutionInv'
  BY <1>1, <1>2 DEF ExecutionInv, Shown
<1> QED BY <1>1, <1>3 DEF ScanInv

\* The execution, and what is said of it afterwards.
LEMMA AfterExecution ==
  ASSUME ScanInv, Running \/ Executed \/ JudgeIssues \/ RestScan \/ UNCHANGED <<scanVars, execVars>>
  PROVE  ScanInv'
<1>1. CASE Running
  BY <1>1, ExecutionGoesOn DEF Running, scanVars, ScanInv
<1>2. CASE Executed
  <2>1. ExecutionInv' /\ Shown(execution)'
    BY <1>2 DEF Executed, execVars, ScanInv, ExecutionInv, PytestLeft, Shown, NoneFailed, SomeFailed
  <2> QED BY <1>2, <2>1 DEF Executed, ScanInv
<1>3. CASE JudgeIssues
  <2>1. /\ sstep = "judge" /\ sstep' = "end" /\ UNCHANGED <<issues, manifest, review, execution, execVars>>
        /\ verdicts' = [i \in issues |-> VerdictOf(i)]
    BY <1>3 DEF JudgeIssues
  <2>2. ExecutionInv' /\ Shown(execution)'
    BY <2>1 DEF execVars, ScanInv, ExecutionInv, PytestLeft, Shown, NoneFailed, SomeFailed
  <2>3. \A i \in issues : verdicts'[i] = VerdictOf(i)'
    BY <2>1 DEF VerdictOf, Outcome
  <2> QED BY <2>1, <2>2, <2>3 DEF ScanInv
<1>4. CASE UNCHANGED <<scanVars, execVars>>
  BY <1>4 DEF scanVars, execVars, ScanInv, ExecutionInv, PytestLeft, Shown, NoneFailed, SomeFailed,
              VerdictOf, Outcome
<1> QED BY <1>1, <1>2, <1>3, <1>4 DEF RestScan

\* Every step keeps the invariant.
LEMMA ScanStep == ScanInv /\ [NextScan]_<<scanVars, execVars>> => ScanInv'
BY BeforeExecution, ExecutionBegins, AfterExecution DEF NextScan

\* The invariant gives the property.
LEMMA ScanImplies == ScanInv => VerdictsFollowExecution
<1> SUFFICES ASSUME ScanInv, sstep = "end"
             PROVE  /\ DOMAIN verdicts = issues
                    /\ Judged("confirmed") # {} => Approves(review) /\ SomeFailed
                    /\ Judged("false_positive") # {} => Approves(review) /\ NoneFailed
  BY DEF VerdictsFollowExecution, Approves, SomeFailed, NoneFailed
<1>1. Shown(execution) /\ DOMAIN verdicts = issues /\ \A i \in issues : verdicts[i] = VerdictOf(i)
  BY DEF ScanInv
<1>2. ASSUME NEW i \in issues, VerdictOf(i) \in {"confirmed", "false_positive"}
      PROVE  Approves(review) /\ VerdictOf(i) = Outcome
  BY <1>2 DEF VerdictOf
<1>3. /\ Outcome = "confirmed" => execution = "FAIL"
      /\ Outcome = "false_positive" => execution = "PASS"
  BY DEF Outcome
<1> QED BY <1>1, <1>2, <1>3 DEF Judged, Shown

\* A verdict that confirms or refutes an issue rests on approved cases and on an execution
\* in which some file failed, or none did: an execution that skipped every case refutes as
\* one that passed them.  A session cut off or crashed decides nothing.
THEOREM VerdictsAreShown == SpecScan => []VerdictsFollowExecution
<1>1. SpecScan => []ScanInv
  BY ScanInit, ScanStep, PTL DEF SpecScan
<1> QED BY <1>1, ScanImplies, PTL

=============================================================================
