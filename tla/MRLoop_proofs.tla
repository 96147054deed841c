---------------------------- MODULE MRLoop_proofs ----------------------------
(***************************************************************************)
(* Proofs about the MR loop, for every batching, split depth and round     *)
(* limit: that "all batches met" is true of the tests in the end, and what *)
(* the bisection promises.                                                 *)
(*                                                                         *)
(* "All batches met" alone is not inductive.  It rests on three facts: no  *)
(* function of the diff drops out on the way (Held), no report says more   *)
(* than the tests hit (Honest), and a run is only closed as met with       *)
(* enough of its batch hit (Earned).  The bisection's promises rest on what the    *)
(* pieces of a batch have in common with each other: nothing (Spread), how *)
(* large they are for their depth (Shrunk), and how many runs they can     *)
(* still make (Tally).                                                     *)
(***************************************************************************)
EXTENDS MRLoop, NatLemmas

-----------------------------------------------------------------------------
(* Sequences as the sets of their elements *)

\* Appending adds one element.
LEMMA ElementsOfAppend ==
  ASSUME NEW S, NEW s \in Seq(S), NEW e \in S
  PROVE  Elements(Append(s, e)) = Elements(s) \cup {e}
<1>1. /\ Len(Append(s, e)) = Len(s) + 1
      /\ \A i \in 1..Len(s) : Append(s, e)[i] = s[i]
      /\ Append(s, e)[Len(s) + 1] = e
      /\ Len(s) \in Nat
  OBVIOUS
<1>2. ASSUME NEW x \in Elements(Append(s, e)) PROVE x \in Elements(s) \cup {e}
  BY <1>1 DEF Elements
<1>3. ASSUME NEW x \in Elements(s) \cup {e} PROVE x \in Elements(Append(s, e))
  BY <1>1 DEF Elements
<1> QED BY <1>2, <1>3

\* A concatenation has the elements of both parts.
LEMMA ElementsOfConcat ==
  ASSUME NEW S, NEW s \in Seq(S), NEW t \in Seq(S)
  PROVE  Elements(s \o t) = Elements(s) \cup Elements(t)
<1>1. /\ Len(s \o t) = Len(s) + Len(t) /\ Len(s) \in Nat /\ Len(t) \in Nat
      /\ \A i \in 1..Len(s) : (s \o t)[i] = s[i]
      /\ \A i \in 1..Len(t) : (s \o t)[Len(s) + i] = t[i]
  OBVIOUS
<1>2. ASSUME NEW i \in 1..Len(s \o t) PROVE (s \o t)[i] \in Elements(s) \cup Elements(t)
  <2>1. CASE i \in 1..Len(s)
    BY <1>1, <2>1 DEF Elements
  <2>2. CASE i \notin 1..Len(s)
    <3>1. i - Len(s) \in 1..Len(t) /\ i = Len(s) + (i - Len(s))
      BY <1>1, <2>2
    <3>2. (s \o t)[i] = t[i - Len(s)]
      BY <1>1, <3>1
    <3> QED BY <3>1, <3>2 DEF Elements
  <2> QED BY <2>1, <2>2
<1>3. ASSUME NEW x \in Elements(s) PROVE x \in Elements(s \o t)
  BY <1>1 DEF Elements
<1>4. ASSUME NEW x \in Elements(t) PROVE x \in Elements(s \o t)
  <2>1. PICK i \in 1..Len(t) : x = t[i]
    BY DEF Elements
  <2>2. Len(s) + i \in 1..Len(s \o t) /\ (s \o t)[Len(s) + i] = x
    BY <1>1, <2>1
  <2> QED BY <2>2 DEF Elements
<1> QED BY <1>2, <1>3, <1>4 DEF Elements

\* A sequence has the elements of its head and of its tail.
LEMMA ElementsOfTail ==
  ASSUME NEW S, NEW s \in Seq(S), s # <<>>
  PROVE  Head(s) \in S /\ Tail(s) \in Seq(S) /\ Elements(s) = {Head(s)} \cup Elements(Tail(s))
<1>1. /\ Len(s) \in Nat /\ Len(s) > 0 /\ Head(s) = s[1]
      /\ Len(Tail(s)) = Len(s) - 1
      /\ \A i \in 1..Len(s) - 1 : Tail(s)[i] = s[i + 1]
      /\ Head(s) \in S /\ Tail(s) \in Seq(S)
  OBVIOUS
<1>2. ASSUME NEW i \in 1..Len(s) PROVE s[i] \in {Head(s)} \cup Elements(Tail(s))
  <2>1. CASE i = 1
    BY <1>1, <2>1
  <2>2. CASE i # 1
    <3>1. i - 1 \in 1..Len(Tail(s)) /\ Tail(s)[i - 1] = s[i]
      BY <1>1, <2>2
    <3> QED BY <3>1 DEF Elements
  <2> QED BY <2>1, <2>2
<1>3. ASSUME NEW i \in 1..Len(Tail(s)) PROVE Tail(s)[i] \in Elements(s)
  <2>1. i + 1 \in 1..Len(s) /\ Tail(s)[i] = s[i + 1]
    BY <1>1
  <2> QED BY <2>1 DEF Elements
<1>4. Head(s) \in Elements(s)
  BY <1>1 DEF Elements
<1> QED BY <1>1, <1>2, <1>3, <1>4 DEF Elements

\* The two parts a sequence is cut into have its elements between them.
LEMMA ElementsOfCut ==
  ASSUME NEW S, NEW s \in Seq(S), NEW m \in 0..Len(s)
  PROVE  /\ SubSeq(s, 1, m) \in Seq(S) /\ SubSeq(s, m + 1, Len(s)) \in Seq(S)
         /\ Elements(s) = Elements(SubSeq(s, 1, m)) \cup Elements(SubSeq(s, m + 1, Len(s)))
<1> DEFINE l == SubSeq(s, 1, m)
           r == SubSeq(s, m + 1, Len(s))
<1>1. /\ Len(s) \in Nat
      /\ l \in Seq(S) /\ Len(l) = m /\ \A i \in 1..m : l[i] = s[i]
      /\ r \in Seq(S) /\ Len(r) = Len(s) - m /\ \A i \in 1..Len(s) - m : r[i] = s[m + i]
  OBVIOUS
<1>2. ASSUME NEW i \in 1..Len(s) PROVE s[i] \in Elements(l) \cup Elements(r)
  <2>1. CASE i <= m
    BY <1>1, <2>1 DEF Elements
  <2>2. CASE i > m
    <3>1. i - m \in 1..Len(r) /\ r[i - m] = s[m + (i - m)] /\ m + (i - m) = i
      BY <1>1, <2>2
    <3> QED BY <3>1 DEF Elements
  <2> QED BY <2>1, <2>2
<1>3. ASSUME NEW i \in 1..Len(l) PROVE l[i] \in Elements(s)
  BY <1>1 DEF Elements
<1>4. ASSUME NEW i \in 1..Len(r) PROVE r[i] \in Elements(s)
  <2>1. m + i \in 1..Len(s) /\ r[i] = s[m + i]
    BY <1>1
  <2> QED BY <2>1 DEF Elements
<1>5. Elements(s) = Elements(l) \cup Elements(r)
  BY <1>2, <1>3, <1>4 DEF Elements
<1> QED BY <1>1, <1>5

\* A pair has its two elements.
LEMMA ElementsOfPair ==
  ASSUME NEW S, NEW x \in S, NEW y \in S
  PROVE  <<x, y>> \in Seq(S) /\ Elements(<<x, y>>) = {x, y}
<1>1. Len(<<x, y>>) = 2 /\ 1..2 = {1, 2}
  OBVIOUS
<1>2. <<x, y>>[1] = x /\ <<x, y>>[2] = y
  OBVIOUS
<1>3. <<x, y>> \in Seq(S)
  OBVIOUS
<1> QED BY <1>1, <1>2, <1>3 DEF Elements

-----------------------------------------------------------------------------
(* The inductive invariant *)

Typed == /\ batches \in Seq(Seq(Units)) /\ next \in Nat \ {0}
         /\ todo \in Seq(Items) /\ records \in Seq(Records)

Placed == /\ pc \in {"build", "baseline", "round", "work", "close"} => todo # <<>>
          /\ pc = "extract" => Batching(batches) /\ next = 1 /\ todo = <<>> /\ records = <<>>
          /\ pc \in {"scan", "report"} =>
               todo = <<>> /\ (next > Len(batches) \/ records = <<>>)
          /\ pc # "end" => summary = NoSummary

Held == \A f \in Targets :
  \/ \E r \in Elements(records) : ~r.split /\ f \in Elements(r.batch)
  \/ \E w \in Elements(todo) : f \in Elements(w.batch)
  \/ \E k \in next..Len(batches) : f \in Elements(batches[k])

Honest == /\ baseline_from # NoReport => baseline_from \subseteq actual
          /\ last_cov # NoReport => last_cov \subseteq actual
          /\ gap_source \subseteq actual

Earned == /\ pc \in {"build", "baseline"} => level = "open"
          /\ pc \in {"round", "work"} /\ level # "open" => Reached(Target)
          /\ pc = "close" /\ Met => Reached(Target)
          /\ \A r \in Elements(records) : r.done => Reached(Scope(r.batch))

Inv == Typed /\ Placed /\ Held /\ Honest /\ Earned /\ AllMetIsReal

\* A scope is a part of what is measured.
LEMMA ScopeMeasured == \A b : Scope(b) \subseteq Measured
BY DEF Scope

\* A larger report is enough where a smaller one is.
LEMMA EnoughGrows ==
  ASSUME NEW T \in SUBSET Measured, NEW r, NEW q, r \subseteq q, Enough(T, r)
  PROVE  Enough(T, q)
<1>1. /\ IsFiniteSet(T) /\ IsFiniteSet(T \cap q) /\ IsFiniteSet(T \cap r)
      /\ T \cap r \subseteq T \cap q
  <2>1. IsFiniteSet(Measured)
    BY MRConstants
  <2> QED BY <2>1, FS_Subset
<1>2. /\ Cardinality(T) \in Nat /\ Cardinality(T \cap r) \in Nat
      /\ Cardinality(T \cap q) \in Nat /\ Cardinality(T \cap r) <= Cardinality(T \cap q)
  BY <1>1, FS_CardinalityType, FS_Subset
<1>3. Cardinality(T \cap r) * 100 <= Cardinality(T \cap q) * 100
  BY <1>2
<1> DEFINE least == Threshold * Cardinality(T)
<1>4. least \in Nat
  BY <1>2, MRConstants
<1>5. Cardinality(T \cap r) * 100 >= least
  BY DEF Enough
<1> HIDE DEF least
<1>6. Cardinality(T \cap q) * 100 >= least
  BY <1>2, <1>3, <1>4, <1>5
<1> QED BY <1>6 DEF least, Enough

\* Tests are only added, so that what is reached stays reached.
LEMMA ReachedStays ==
  ASSUME actual \subseteq actual', NEW T \in SUBSET Measured, Reached(T)
  PROVE  T \subseteq actual' \/ Enough(T, actual')
BY EnoughGrows DEF Reached

\* At the start nothing has been tried, and all batches are to come.
LEMMA InvInit == Init => Inv
<1> SUFFICES ASSUME Init PROVE Inv
  OBVIOUS
<1>1. batches \in Seq(Seq(Units))
  BY MRConstants DEF Init, Batching, Units
<1>2. Typed
  BY <1>1 DEF Typed, Init
<1>3. Held
  <2> SUFFICES ASSUME NEW f \in Targets
               PROVE  \E k \in next..Len(batches) : f \in Elements(batches[k])
    BY DEF Held
  <2>1. PICK k \in 1..Len(batches) : f \in Elements(batches[k])
    BY DEF Targets
  <2> QED BY <2>1 DEF Init
<1>4. Honest /\ Placed
  BY MRConstants DEF Init, Honest, Placed
<1>5. Elements(records) = {}
  BY DEF Init, Elements
<1>6. Earned /\ AllMetIsReal
  BY <1>5 DEF Init, Earned, AllMetIsReal, AllMetHolds, NoSummary
<1> QED BY <1>2, <1>3, <1>4, <1>6 DEF Inv

\* The steps of a run before it is closed only add tests and reports.
LEMMA InvQuiet ==
  ASSUME Inv, Extract \/ BatchesDone \/ StartRun \/ Build \/ Baseline \/ BeginRound
              \/ FinishRun \/ MeasureRound \/ GenerateInVain \/ GiveUpRun \/ Scan \/ Raise
  PROVE  Inv'
<1> USE DEF Inv
<1>1. UNCHANGED work /\ actual \subseteq actual' /\ pc # "end"
  BY DEF Extract, BatchesDone, StartRun, Build, Baseline, BeginRound, FinishRun, MeasureRound,
         GenerateInVain, MoreTests, GiveUpRun, Scan, Raise, world
<1>2. /\ UNCHANGED <<batches, fellBack, next, todo, records, baseline_from, Targets, Target>>
      /\ \A b : Scope(b)' = Scope(b)
  BY <1>1 DEF work, Targets, Target, Current, Scope
<1>3. Typed' /\ Held'
  BY <1>2 DEF Typed, Held
<1>4. Placed'
  <2>1. CASE Extract
    BY <1>2, <2>1 DEF Placed, Extract, NothingChanged
  <2>2. CASE BatchesDone
    BY <1>2, <2>2 DEF Placed, BatchesDone
  <2>3. CASE StartRun \/ Scan \/ Raise
    BY <1>2, <2>3 DEF Placed, StartRun, Scan, Raise
  <2>4. CASE Build \/ Baseline \/ BeginRound
    BY <1>2, <2>4 DEF Placed, Build, Baseline, BeginRound
  <2>5. CASE FinishRun \/ MeasureRound \/ GenerateInVain \/ GiveUpRun
    BY <1>2, <2>5 DEF Placed, FinishRun, MeasureRound, GenerateInVain, GiveUpRun, MoreTests
  <2> QED BY <2>1, <2>2, <2>3, <2>4, <2>5
<1>5. Honest'
  <2>1. CASE Extract \/ BatchesDone \/ Build \/ BeginRound \/ FinishRun \/ GenerateInVain
             \/ GiveUpRun \/ Scan \/ Raise
    <3>1. UNCHANGED reports
      BY <2>1 DEF Extract, BatchesDone, Build, BeginRound, FinishRun, GenerateInVain,
                  GiveUpRun, Scan, Raise
    <3> QED BY <1>1, <1>2, <3>1 DEF Honest, reports
  <2>2. CASE StartRun
    BY <1>1, <1>2, <2>2 DEF StartRun, Honest
  <2>3. CASE Baseline
    BY <1>1, <1>2, <2>3 DEF Baseline, Measure, Honest, world
  <2>4. CASE MeasureRound
    BY <1>1, <1>2, <2>4 DEF MeasureRound, Measure, Honest
  <2> QED BY <2>1, <2>2, <2>3, <2>4
<1>6. \A b : Scope(b) \in SUBSET Measured
  BY ScopeMeasured
<1>7. \A b : Reached(Scope(b)) => Reached(Scope(b))'
  <2> SUFFICES ASSUME NEW b, Reached(Scope(b)) PROVE Reached(Scope(b))'
    OBVIOUS
  <2>1. Scope(b) \subseteq actual' \/ Enough(Scope(b), actual')
    BY <1>1, <1>6, ReachedStays
  <2> QED BY <1>2, <2>1 DEF Reached, Enough
<1>8. \A r \in Elements(records') : r.done => Reached(Scope(r.batch))'
  BY <1>2, <1>7 DEF Earned
<1>9. Reached(Target) => Reached(Target)'
  <2> SUFFICES ASSUME Reached(Target) PROVE Reached(Target)'
    OBVIOUS
  <2>1. Target \in SUBSET Measured
    BY <1>6 DEF Target
  <2>2. Target \subseteq actual' \/ Enough(Target, actual')
    BY <1>1, <2>1, ReachedStays
  <2> QED BY <1>2, <2>2 DEF Reached, Enough
<1>10. Earned'
  <2>1. CASE Extract \/ BatchesDone \/ StartRun \/ Scan \/ Raise
    BY <1>8, <2>1 DEF Extract, BatchesDone, StartRun, Scan, Raise, Earned, NothingChanged
  <2>2. CASE Build
    BY <1>8, <2>2 DEF Build, Earned, Met, Run!GiveUp, run
  <2>3. CASE Baseline
    <3>1. Target \subseteq gap_source' => Reached(Target)'
      BY <1>2, <1>5 DEF Honest, Reached
    <3>2. level' # "open" => Target \subseteq gap_source'
      BY <2>3 DEF Baseline, Earned, run
    <3> QED BY <1>8, <2>3, <3>1, <3>2 DEF Baseline, Earned
  <2>4. CASE BeginRound
    BY <1>8, <1>9, <2>4 DEF BeginRound, Earned, Run!Begin
  <2>5. CASE FinishRun
    BY <1>8, <1>9, <2>5 DEF FinishRun, Earned, Run!Finish
  <2>6. CASE MeasureRound
    <3>1. /\ pc' = "round" /\ level' \in {"met", "open"}
          /\ level' = "met" => Enough(Target, gap_source')
      BY <2>6 DEF MeasureRound
    <3>2. gap_source' \subseteq actual'
      BY <1>5 DEF Honest
    <3>3. ASSUME level' = "met" PROVE Reached(Target)'
      <4>1. Enough(Target, actual')
        BY <1>6, <3>1, <3>2, <3>3, EnoughGrows DEF Target
      <4> QED BY <1>2, <4>1 DEF Reached, Enough
    <3> QED BY <1>8, <3>1, <3>3 DEF Earned
  <2>7. CASE GenerateInVain
    BY <1>8, <1>9, <2>7 DEF GenerateInVain, MoreTests, Earned, Met, Run!GiveUp, run
  <2>8. CASE GiveUpRun
    BY <1>8, <1>9, <2>8 DEF GiveUpRun, Earned, Met
  <2> QED BY <2>1, <2>2, <2>3, <2>4, <2>5, <2>6, <2>7, <2>8
<1>11. AllMetIsReal'
  <2>1. summary.exit_reason # "all_batches_met"
    BY <1>1 DEF Placed, NoSummary
  <2>2. UNCHANGED summary \/ summary'.exit_reason # "all_batches_met"
    <3>1. CASE Extract
      BY <3>1 DEF Extract, NothingChanged, Outcome
    <3> QED BY <3>1 DEF Extract, NothingChanged, Outcome, BatchesDone, StartRun, Build, Baseline, BeginRound,
           FinishRun, MeasureRound, GenerateInVain, MoreTests, GiveUpRun, Scan, Raise
  <2> QED BY <2>1, <2>2 DEF AllMetIsReal, AllMetHolds
<1> QED BY <1>3, <1>4, <1>5, <1>10, <1>11

\* The batches by file are different lists, and the empty one is no list among them.
LEMMA ListOfBatches ==
  ASSUME NEW bs, Batching(bs)
  PROVE  <<bs, <<>> >> \in Seq(Seq(Units)) /\ Once(<<bs, <<>> >>)
<1> DEFINE pair == <<bs, <<>> >>
<1>1. bs \in Seq(Seq(Functions)) /\ Len(bs) \in Nat
  BY DEF Batching
<1>2. bs \in Seq(Units)
  <2>1. \A k \in 1..Len(bs) : bs[k] \in Units
    BY <1>1 DEF Units
  <2> QED BY <1>1, <2>1
<1>3. pair \in Seq(Seq(Units)) /\ Len(pair) = 2 /\ pair[1] = bs /\ pair[2] = <<>>
  BY <1>2
<1> HIDE DEF pair
<1>4. ASSUME NEW k \in 1..Len(bs), NEW l \in 1..Len(bs), bs[k] = bs[l] PROVE k = l
  <2>1. bs[k] # <<>> /\ bs[k] \in Seq(Functions) /\ Once(bs)
    BY <1>1 DEF Batching
  <2>2. 1 \in 1..Len(bs[k]) /\ 1 \in 1..Len(bs[l]) /\ bs[k][1] = bs[l][1]
    BY <1>4, <2>1
  <2> QED BY <2>1, <2>2 DEF Once
<1>5. \A i \in 1..Len(pair) : i = 1 \/ Len(pair[i]) = 0
  BY <1>3
<1>6. Once(pair)
  BY <1>1, <1>3, <1>4, <1>5 DEF Once
<1> QED BY <1>3, <1>6 DEF pair

\* The fallback puts all that is to come into one list.
LEMMA InvFallBack == ASSUME Inv, FallBack PROVE Inv'
<1> USE DEF Inv
<1>1. /\ pc = "extract" /\ pc' \in {"scan", "batch"} /\ batches' = <<batches, <<>> >>
      /\ next = 1 /\ todo = <<>> /\ records = <<>> /\ summary = NoSummary
      /\ UNCHANGED <<next, todo, records, baseline_from, actual, gap_source, last_cov, run,
                     summary>>
  BY DEF FallBack, Placed, world, reports
<1>2. Elements(records') = {}
  BY <1>1 DEF Elements
<1>3. Placed' /\ Honest' /\ AllMetIsReal' /\ Earned'
  BY <1>1, <1>2 DEF Placed, Honest, AllMetIsReal, AllMetHolds, Earned, NoSummary
<1>4. Held'
  <2> SUFFICES ASSUME NEW f \in Targets'
               PROVE  \E k \in next'..Len(batches') : f \in Elements(batches'[k])
    BY DEF Held
  <2>1. PICK k \in 1..Len(batches') : f \in Elements(batches'[k])
    BY DEF Targets
  <2> QED BY <1>1, <2>1
<1>5. Typed'
  BY <1>1, ListOfBatches DEF Typed, Placed
<1> QED BY <1>3, <1>4, <1>5

\* The next batch moves from what is to come to what is left.
LEMMA InvNextBatch == ASSUME Inv, NextBatch PROVE Inv'
<1> USE DEF Inv
<1> DEFINE item == Item(batches[next], <<next>>)
<1>1. /\ pc = "batch" /\ todo = <<>> /\ todo' = <<item>>
      /\ next' = next + 1 /\ next \in 1..Len(batches)
      /\ UNCHANGED <<pc, batches, fellBack, records, baseline_from, actual, gap_source, last_cov,
                     run, summary, Targets>>
  BY DEF NextBatch, world, reports, Typed, Targets
<1>2. item \in Items /\ item.batch = batches[next]
  BY <1>1 DEF Typed, Items, Item
<1>3. Elements(todo') = {item}
  BY <1>1 DEF Elements
<1>4. Elements(todo) = {}
  BY <1>1 DEF Elements
<1>5. Typed'
  BY <1>1, <1>2 DEF Typed
<1>6. Held'
  <2> SUFFICES ASSUME NEW f \in Targets
               PROVE  \/ \E r \in Elements(records) : ~r.split /\ f \in Elements(r.batch)
                      \/ f \in Elements(item.batch)
                      \/ \E k \in next + 1..Len(batches) : f \in Elements(batches[k])
    BY <1>1, <1>3 DEF Held
  <2>1. next \in Nat /\ Len(batches) \in Nat
    BY DEF Typed
  <2>2. \A k \in next..Len(batches) : k = next \/ k \in next + 1..Len(batches)
    BY <2>1
  <2> QED BY <1>2, <1>4, <2>2 DEF Held
<1>7. Placed' /\ Honest' /\ AllMetIsReal'
  BY <1>1 DEF Placed, Honest, AllMetIsReal, AllMetHolds, NoSummary
<1>8. Earned'
  BY <1>1 DEF Earned, Reached, Scope, Enough
<1> QED BY <1>5, <1>6, <1>7, <1>8

\* A split keeps the functions of its batch, in one half or the other.
LEMMA HalvesKeep ==
  ASSUME Typed, todo # <<>>, Splits
  PROVE  /\ Halves \in Seq(Items)
         /\ \A f \in Elements(Current.batch) : \E w \in Elements(Halves) : f \in Elements(w.batch)
<1> DEFINE b == Current.batch
           m == Len(b) \div 2
           one == Item(SubSeq(b, 1, m), Append(Current.index, 1))
           two == Item(SubSeq(b, m + 1, Len(b)), Append(Current.index, 2))
<1>1. Current \in Items
  BY ElementsOfTail DEF Typed, Current
<1>2. b \in Seq(Units) /\ Current.index \in Seq(Nat) /\ Len(b) \in Nat
  BY <1>1 DEF Items
<1>3. m \in 0..Len(b)
  <2>1. \A n \in Nat : n \div 2 \in 0..n
    OBVIOUS
  <2> QED BY <1>2, <2>1
<1>4. /\ SubSeq(b, 1, m) \in Seq(Units) /\ SubSeq(b, m + 1, Len(b)) \in Seq(Units)
      /\ Elements(b) = Elements(SubSeq(b, 1, m)) \cup Elements(SubSeq(b, m + 1, Len(b)))
  BY <1>2, <1>3, ElementsOfCut
<1>5. Append(Current.index, 1) \in Seq(Nat) /\ Append(Current.index, 2) \in Seq(Nat)
  BY <1>2
<1>6. one \in Items /\ two \in Items
  BY <1>4, <1>5 DEF Items, Item
<1>7. Halves = <<one, two>>
  BY DEF Halves
<1>8. one.batch = SubSeq(b, 1, m) /\ two.batch = SubSeq(b, m + 1, Len(b))
  BY DEF Item
<1>9. Elements(b) = Elements(one.batch) \cup Elements(two.batch)
  BY <1>4, <1>8
<1> HIDE DEF one, two
<1>10. Halves \in Seq(Items) /\ Elements(Halves) = {one, two}
  BY <1>6, <1>7, ElementsOfPair
<1> QED BY <1>9, <1>10

\* Closing a run records its batch, or puts the halves of it first.
LEMMA InvCloseRun == ASSUME Inv, CloseRun PROVE Inv'
<1> USE DEF Inv
<1> DEFINE record == [batch |-> Current.batch, index |-> Current.index,
                      done |-> Met, split |-> Splits]
<1>1. /\ pc = "close" /\ pc' = "batch" /\ todo # <<>>
      /\ records' = Append(records, record)
      /\ todo' = IF Splits THEN Halves \o Tail(todo) ELSE Tail(todo)
      /\ baseline_from' \in {last_cov, baseline_from}
      /\ UNCHANGED <<batches, fellBack, next, actual, gap_source, last_cov, run, summary, Targets>>
  BY DEF CloseRun, Placed, NextBaseline, world, reports, Targets
<1>2. Current \in Items /\ Tail(todo) \in Seq(Items)
      /\ Elements(todo) = {Current} \cup Elements(Tail(todo))
  BY <1>1, ElementsOfTail DEF Typed, Current
<1>3. record \in Records
  BY <1>2 DEF Items, Records, Met, Splits
<1>4. Elements(records') = Elements(records) \cup {record}
  BY <1>1, <1>3, ElementsOfAppend DEF Typed
<1>5. todo' \in Seq(Items) /\ Elements(todo') = (IF Splits THEN Elements(Halves) ELSE {})
                                                \cup Elements(Tail(todo))
  <2>1. CASE Splits
    <3>1. Halves \in Seq(Items)
      BY <1>1, <2>1, HalvesKeep
    <3>2. todo' = Halves \o Tail(todo)
      BY <1>1, <2>1
    <3>3. \A s, t \in Seq(Items) : Elements(s \o t) = Elements(s) \cup Elements(t)
      BY ElementsOfConcat
    <3>4. Elements(Halves \o Tail(todo)) = Elements(Halves) \cup Elements(Tail(todo))
      BY <1>2, <3>1, <3>3
    <3> QED BY <1>2, <2>1, <3>1, <3>2, <3>4
  <2>2. CASE ~Splits
    BY <1>1, <1>2, <2>2
  <2> QED BY <2>1, <2>2
<1>6. Typed'
  BY <1>1, <1>3, <1>5 DEF Typed
<1>7. Held'
  <2> SUFFICES ASSUME NEW f \in Targets
               PROVE  \/ \E r \in Elements(records') : ~r.split /\ f \in Elements(r.batch)
                      \/ \E w \in Elements(todo') : f \in Elements(w.batch)
                      \/ \E k \in next..Len(batches) : f \in Elements(batches[k])
    BY <1>1 DEF Held
  <2>1. CASE \E w \in Elements(todo) : f \in Elements(w.batch)
    <3>1. PICK w \in Elements(todo) : f \in Elements(w.batch)
      BY <2>1
    <3>2. CASE w \in Elements(Tail(todo))
      BY <1>5, <3>1, <3>2
    <3>3. CASE w = Current /\ Splits
      BY <1>1, <1>5, <3>1, <3>3, HalvesKeep
    <3>4. CASE w = Current /\ ~Splits
      <4>1. ~record.split /\ record.batch = Current.batch
        BY <3>4
      <4> QED BY <1>4, <3>1, <3>4, <4>1
    <3> QED BY <1>2, <3>2, <3>3, <3>4
  <2>2. CASE ~\E w \in Elements(todo) : f \in Elements(w.batch)
    BY <1>4, <2>2 DEF Held
  <2> QED BY <2>1, <2>2
<1>8. Placed' /\ Honest' /\ AllMetIsReal'
  BY <1>1 DEF Placed, Honest, AllMetIsReal, AllMetHolds, NoSummary
<1>9. Earned'
  <2>1. record.done => Reached(Scope(record.batch))
    BY <1>1 DEF Earned, Target
  <2>2. \A b : Reached(Scope(b))' <=> Reached(Scope(b))
    BY <1>1 DEF Reached, Scope, Enough
  <2> QED BY <1>1, <1>4, <2>1, <2>2 DEF Earned
<1> QED BY <1>6, <1>7, <1>8, <1>9

\* "All batches met" is only said when nothing is left, and of records that are.
LEMMA InvSummarize == ASSUME Inv, Summarize PROVE Inv'
<1> USE DEF Inv
<1>1. UNCHANGED <<work, world, reports, run, Targets>> /\ pc = "report" /\ pc' = "end"
  BY DEF Summarize, work, Targets
<1>2. Typed' /\ Placed' /\ Held' /\ Honest'
  BY <1>1 DEF Typed, Placed, Held, Honest, work, world, reports
<1>3. Earned'
  BY <1>1 DEF Earned, Reached, Scope, Enough, work, world
<1>4. ASSUME summary'.exit_reason = "all_batches_met", ~fellBack,
             NEW f \in Diff
      PROVE  \E i \in Leaves : /\ f \in FunctionsOf(records[i].batch)
                              /\ Reached(NamesOf(FunctionsOf(records[i].batch)) \cap Measured)
  <2>1. Leaves # {} /\ \A i \in Leaves : records[i].done
    BY <1>4 DEF Summarize, Outcome
  <2>2. Len(batches) \in Nat /\ next \in Nat /\ next > Len(batches) /\ todo = <<>>
    BY <1>1, <2>1 DEF Typed, Placed, Leaves
  <2>3. Elements(todo) = {} /\ next..Len(batches) = {}
    BY <2>2 DEF Elements
  <2>4. f \in Targets /\ \A b : FunctionsOf(b) = Elements(b)
    BY <1>4 DEF Diff, FunctionsOf, Targets
  <2>5. PICK r \in Elements(records) : ~r.split /\ f \in Elements(r.batch)
    BY <2>3, <2>4 DEF Held
  <2>6. PICK i \in Leaves : r = records[i]
    BY <2>5 DEF Elements, Leaves
  <2>7. Reached(Scope(r.batch))
    BY <2>1, <2>5, <2>6 DEF Earned
  <2>8. Scope(r.batch) = NamesOf(Elements(r.batch)) \cap Measured
    <3>1. r.batch # <<>>
      BY <2>5 DEF Elements
    <3> QED BY <1>4, <3>1 DEF Scope
  <2> QED BY <2>4, <2>5, <2>6, <2>7, <2>8
<1>5. AllMetIsReal'
  <2> SUFFICES ASSUME summary'.exit_reason = "all_batches_met", ~fellBack, NEW f \in Diff
               PROVE  \E i \in Leaves : /\ f \in FunctionsOf(records[i].batch)
                                       /\ Reached(NamesOf(FunctionsOf(records[i].batch)) \cap Measured)
    BY <1>1 DEF AllMetIsReal, AllMetHolds, Diff, FunctionsOf, Leaves, Reached, Enough, NamesOf,
                work, world
  <2> QED BY <1>4
<1> QED BY <1>2, <1>3, <1>5

\* Every step keeps the invariant.
LEMMA InvNext == Inv /\ [Next]_vars => Inv'
<1> SUFFICES ASSUME Inv, [Next]_vars PROVE Inv'
  OBVIOUS
<1>1. CASE UNCHANGED vars
  <2>1. UNCHANGED <<Targets, Target, Met>>
    BY <1>1 DEF vars, work, run, Targets, Target, Scope, Current, Met
  <2>2. Typed' /\ Placed' /\ Held'
    BY <1>1, <2>1 DEF Inv, Typed, Placed, Held, vars, work
  <2>3. Honest' /\ Earned' /\ AllMetIsReal'
    <3>1. Honest'
      BY <1>1 DEF Inv, Honest, vars, work, world, reports
    <3>2. Earned'
      BY <1>1, <2>1 DEF Inv, Earned, Reached, Scope, Enough, vars, work, world, run
    <3>3. AllMetIsReal'
      BY <1>1 DEF Inv, AllMetIsReal, AllMetHolds, Diff, FunctionsOf, Leaves, Reached, Enough,
                  NamesOf, vars, work, world
    <3> QED BY <3>1, <3>2, <3>3
  <2> QED BY <2>2, <2>3 DEF Inv
<1>2. CASE Step
  BY <1>2, InvQuiet, InvFallBack, InvNextBatch, InvCloseRun, InvSummarize DEF Step
<1> QED BY <1>1, <1>2 DEF Next, Rest

\* When the MR loop says that all batches are met and the strategy did not fail, the
\* tests there are in the end hit as much of each batch as the target asks, however the
\* batches were cut, split and ordered, whichever report each run started from and
\* whatever the reports left out; and each function of the diff is in such a batch.
THEOREM AllMet == Spec => []AllMetIsReal
<1>1. Inv => AllMetIsReal
  BY DEF Inv
<1> QED BY <1>1, InvInit, InvNext, PTL DEF Spec

-----------------------------------------------------------------------------
(* Types *)

\* The types, and that a run that is under way has an item to run.
MRTyped == TypeOK /\ Placed

\* They hold at the start.
LEMMA MRTypeInit == Init => MRTyped
<1> SUFFICES ASSUME Init PROVE MRTyped
  OBVIOUS
<1>1. /\ Batching(batches) /\ Len(batches) \in Nat
      /\ batches \in Seq(Seq(Units)) /\ Once(batches) /\ fellBack \in BOOLEAN
  <2>1. batches \in Batchings /\ fellBack = FALSE
    BY DEF Init
  <2>2. Batching(batches)
    BY <2>1, MRConstants
  <2>3. batches \in Seq(Seq(Functions)) /\ Once(batches)
    BY <2>2 DEF Batching
  <2>4. Seq(Functions) \subseteq Seq(Units)
    BY DEF Units
  <2>5. Len(batches) \in Nat /\ batches \in [1..Len(batches) -> Seq(Functions)]
    BY <2>3
  <2>6. batches \in [1..Len(batches) -> Seq(Units)]
    BY <2>4, <2>5
  <2>7. batches \in Seq(Seq(Units))
    BY <2>5, <2>6
  <2> QED BY <2>1, <2>2, <2>3, <2>5, <2>7
<1>2. actual \in SUBSET Names
  BY MRConstants DEF Init
<1>3. todo \in Seq(Items) /\ records \in Seq(Records) /\ 1..Len(todo) = {}
  BY DEF Init
<1>4. summary \in Summaries
  BY DEF Init, NoSummary, Summaries
<1>5. level \in Run!Levels
  BY DEF Init, Run!Levels
<1>6. /\ pc = "extract" /\ skip \in SUBSET {"coverage", "scan"}
      /\ next = 1 /\ todo = <<>> /\ records = <<>>
      /\ {baseline_from, last_cov, newest} = {NoReport} /\ gap_source = {}
      /\ binary = "unusable" /\ tests \in BOOLEAN
      /\ round = 0 /\ judged = FALSE /\ short = FALSE /\ summary = NoSummary
  BY DEF Init
<1>7. /\ next \in 1..Len(batches) + 1 /\ round \in 0..MaxIter
      /\ {baseline_from, last_cov, newest} \subseteq Reports
      /\ \A i \in 1..Len(todo) : Len(todo[i].index) \in 1..MaxSplitDepth + 1
  <2>1. MaxIter \in Nat /\ 1 \in 1..Len(batches) + 1
    BY <1>1, MRConstants
  <2> QED BY <1>3, <1>6, <2>1 DEF Reports
<1>8. TypeOK
  BY <1>1, <1>2, <1>3, <1>4, <1>5, <1>6, <1>7 DEF TypeOK
<1> QED BY <1>1, <1>6, <1>8 DEF MRTyped, Placed

\* The run's part, which LoopPromise has.
RunTyped == round \in 0..MaxIter /\ judged \in BOOLEAN /\ level \in Run!Levels

\* Every step of the promise keeps the types of the run's part.
LEMMA RunTypes ==
  ASSUME RunTyped,
         Run!Baseline \/ Run!Begin \/ Run!Measure \/ Run!Finish \/ Run!GiveUp \/ UNCHANGED run
  PROVE  RunTyped'
<1>0. MaxIter \in Nat
  BY MRConstants
<1> USE DEF RunTyped, Run!Levels
<1>1. CASE Run!Baseline \/ Run!Finish \/ Run!GiveUp \/ UNCHANGED run
  BY <1>1 DEF Run!Baseline, Run!Finish, Run!GiveUp, run
<1>2. CASE Run!Begin
  <2>1. round < MaxIter /\ round' = round + 1 /\ judged' = FALSE /\ level' = level
    BY <1>2 DEF Run!Begin
  <2>2. round' \in 0..MaxIter
    BY <1>0, <2>1
  <2> QED BY <2>1, <2>2
<1>3. CASE Run!Measure
  BY <1>3 DEF Run!Measure
<1> QED BY <1>1, <1>2, <1>3

-----------------------------------------------------------------------------
\* The steps that are no run closed and no batch taken.
Quiet == \/ Extract \/ BatchesDone \/ StartRun \/ Build \/ Baseline \/ BeginRound
         \/ FinishRun \/ MeasureRound \/ GenerateInVain \/ GiveUpRun \/ Scan \/ Summarize
         \/ Raise

LEMMA QuietWork == Quiet => UNCHANGED work
BY DEF Quiet, Extract, BatchesDone, StartRun, Build, Baseline, BeginRound, FinishRun,
       MeasureRound, GenerateInVain, MoreTests, GiveUpRun, Scan, Summarize, Raise

\* Each step's part in the promise is a step of it.
LEMMA QuietRun ==
  ASSUME RunTyped, Quiet
  PROVE  RunTyped'
<1>1. CASE Extract \/ BatchesDone \/ Scan \/ Summarize \/ Raise
  BY <1>1, RunTypes DEF Extract, BatchesDone, Scan, Summarize, Raise
<1>2. CASE StartRun
  <2>1. 0 \in 0..MaxIter
    BY MRConstants
  <2>2. round' = 0 /\ judged' = FALSE /\ level' = "open"
    BY <1>2 DEF StartRun
  <2> QED BY <2>1, <2>2 DEF RunTyped, Run!Levels
<1>3. CASE Build \/ Baseline
  BY <1>3, RunTypes DEF Build, Baseline
<1>4. CASE BeginRound \/ FinishRun \/ GiveUpRun
  BY <1>4, RunTypes DEF BeginRound, FinishRun, GiveUpRun
<1>5. CASE MeasureRound \/ GenerateInVain
  BY <1>5, RunTypes DEF MeasureRound, GenerateInVain
<1> QED BY <1>1, <1>2, <1>3, <1>4, <1>5 DEF Quiet

\* The reports are sets of functions.
ReportsTyped ==
  /\ {last_cov, newest} \subseteq Reports /\ gap_source \subseteq Names /\ short \in BOOLEAN
  /\ binary \in {"usable", "unusable"} /\ tests \in BOOLEAN /\ actual \subseteq Names

\* What is measured is a report.
LEMMA MeasuredTyped ==
  ASSUME NEW hit \in SUBSET Names, Measure(hit)
  PROVE  {last_cov', newest'} \subseteq Reports /\ gap_source' \subseteq Names /\ short' \in BOOLEAN
BY DEF Measure, Reports

LEMMA QuietReports ==
  ASSUME TypeOK, Quiet
  PROVE  ReportsTyped'
<1>0. /\ baseline_from \in Reports /\ last_cov \in Reports /\ newest \in Reports
      /\ gap_source \subseteq Names /\ Measured \subseteq Names /\ short \in BOOLEAN
      /\ binary \in {"usable", "unusable"} /\ tests \in BOOLEAN /\ actual \subseteq Names
  BY MRConstants DEF TypeOK
<1> USE <1>0 DEF ReportsTyped
<1>1. CASE \/ Extract \/ BatchesDone \/ Build \/ BeginRound \/ FinishRun \/ GiveUpRun \/ Scan
           \/ Summarize \/ Raise
  BY <1>1 DEF Extract, BatchesDone, Build, BeginRound, FinishRun, GiveUpRun, Scan, Summarize,
              Raise, reports, world
<1>2. CASE StartRun
  BY <1>2 DEF StartRun, world, Reports
<1>3. CASE Baseline
  <2>1. CASE Measure(actual)
    BY <1>3, <2>1, MeasuredTyped DEF Baseline, world
  <2>2. CASE ~Measure(actual)
    BY <1>3, <2>2 DEF Baseline, world, Reports
  <2> QED BY <2>1, <2>2
<1>4. CASE MeasureRound
  <2>1. /\ tests' \in BOOLEAN /\ actual' \subseteq Names /\ UNCHANGED binary
        /\ Measure(actual')
    BY <1>4 DEF MeasureRound, MoreTests
  <2> QED BY <2>1, MeasuredTyped
<1>5. CASE GenerateInVain
  <2>1. /\ tests' \in BOOLEAN /\ actual' \subseteq Names /\ UNCHANGED <<binary, reports>>
    BY <1>5 DEF GenerateInVain, MoreTests
  <2> QED BY <2>1 DEF reports
<1> QED BY <1>1, <1>2, <1>3, <1>4, <1>5 DEF Quiet

\* The summary is one of those the code writes.
LEMMA QuietSummary ==
  ASSUME TypeOK, Quiet
  PROVE  summary' \in Summaries
<1>1. summary \in Summaries
  BY DEF TypeOK
<1>2. CASE Extract
  <2>1. \/ UNCHANGED summary
        \/ \E s \in {Outcome("error", "codegraph_disabled"),
                     Outcome("error", "codegraph_not_indexed"),
                     Outcome("done", "no_changed_functions")} : summary' = s
    BY <1>2 DEF Extract, NothingChanged
  <2> QED BY <1>1, <2>1 DEF Outcome, Summaries
<1>3. CASE Summarize
  BY <1>3 DEF Summarize, Outcome, Summaries
<1>4. CASE ~Extract /\ ~Summarize
  BY <1>1, <1>4 DEF Quiet, BatchesDone, StartRun, Build, Baseline, BeginRound, FinishRun,
                    MeasureRound, GenerateInVain, MoreTests, GiveUpRun, Scan, Raise
<1> QED BY <1>2, <1>3, <1>4

\* The places.
LEMMA QuietPlaces ==
  ASSUME MRTyped, Quiet
  PROVE  /\ pc' \in {"extract", "batch", "build", "baseline", "round", "work", "close", "scan",
                     "report", "end", "raised"}
         /\ Placed'
<1>1. UNCHANGED <<batches, next, todo, records>>
  BY QuietWork DEF work
<1> USE <1>1 DEF MRTyped, Placed
<1>2. CASE Extract \/ BatchesDone
  BY <1>2 DEF Extract, NothingChanged, BatchesDone
<1>3. CASE StartRun \/ Scan \/ Summarize \/ Raise
  BY <1>3 DEF StartRun, Scan, Summarize, Raise
<1>4. CASE Build \/ Baseline \/ BeginRound
  BY <1>4 DEF Build, Baseline, BeginRound
<1>5. CASE FinishRun \/ MeasureRound \/ GenerateInVain \/ GiveUpRun
  BY <1>5 DEF FinishRun, MeasureRound, GenerateInVain, GiveUpRun, MoreTests
<1> QED BY <1>2, <1>3, <1>4, <1>5 DEF Quiet

\* What closing a run makes of the batch's work and of the records, place by place.
Closed == [batch |-> Current.batch, index |-> Current.index, done |-> Met, split |-> Splits]
FirstHalf == Item(SubSeq(Current.batch, 1, Len(Current.batch) \div 2), Append(Current.index, 1))
OtherHalf == Item(SubSeq(Current.batch, Len(Current.batch) \div 2 + 1, Len(Current.batch)),
                  Append(Current.index, 2))

LEMMA CloseEffect ==
  ASSUME TypeOK, todo # <<>>, CloseRun
  PROVE  /\ Current = todo[1] /\ Current \in Items /\ Closed \in Records
         /\ Len(todo) \in Nat \ {0} /\ Len(records) \in Nat
         /\ records' \in Seq(Records) /\ Len(records') = Len(records) + 1
         /\ \A i \in 1..Len(records) : records'[i] = records[i]
         /\ records'[Len(records) + 1] = Closed
         /\ Splits => /\ FirstHalf \in Items /\ OtherHalf \in Items /\ todo' \in Seq(Items)
                      /\ Len(todo') = Len(todo) + 1
                      /\ todo'[1] = FirstHalf /\ todo'[2] = OtherHalf
                      /\ \A i \in 3..Len(todo) + 1 : todo'[i] = todo[i - 1]
         /\ ~Splits => /\ todo' \in Seq(Items) /\ Len(todo') = Len(todo) - 1
                       /\ \A i \in 1..Len(todo) - 1 : todo'[i] = todo[i + 1]
<1>1. todo \in Seq(Items) /\ records \in Seq(Records)
  BY DEF TypeOK
<1>2. /\ Current = todo[1] /\ Current \in Items /\ Len(todo) \in Nat \ {0}
      /\ Tail(todo) \in Seq(Items) /\ Len(Tail(todo)) = Len(todo) - 1
      /\ \A i \in 1..Len(todo) - 1 : Tail(todo)[i] = todo[i + 1]
  BY <1>1 DEF Current
<1>3. Closed \in Records
  BY <1>2 DEF Closed, Items, Records, Met, Splits
<1>4. records' = Append(records, Closed)
  BY DEF CloseRun, Closed
<1>5. /\ Len(records) \in Nat
      /\ records' \in Seq(Records) /\ Len(records') = Len(records) + 1
      /\ \A i \in 1..Len(records) : records'[i] = records[i]
      /\ records'[Len(records) + 1] = Closed
  BY <1>1, <1>3, <1>4
<1>6. ASSUME Splits
      PROVE  /\ FirstHalf \in Items /\ OtherHalf \in Items /\ todo' \in Seq(Items)
             /\ Len(todo') = Len(todo) + 1
             /\ todo'[1] = FirstHalf /\ todo'[2] = OtherHalf
             /\ \A i \in 3..Len(todo) + 1 : todo'[i] = todo[i - 1]
  <2> DEFINE b == Current.batch
             m == Len(b) \div 2
  <2>1. b \in Seq(Units) /\ Current.index \in Seq(Nat) /\ Len(b) \in Nat
    BY <1>2 DEF Items
  <2>2. m \in 0..Len(b)
    <3>1. \A n \in Nat : n \div 2 \in 0..n
      OBVIOUS
    <3> QED BY <2>1, <3>1
  <2>3. SubSeq(b, 1, m) \in Seq(Units) /\ SubSeq(b, m + 1, Len(b)) \in Seq(Units)
    BY <2>1, <2>2, ElementsOfCut
  <2>4. Append(Current.index, 1) \in Seq(Nat) /\ Append(Current.index, 2) \in Seq(Nat)
    BY <2>1
  <2>5. FirstHalf \in Items /\ OtherHalf \in Items
    BY <2>3, <2>4 DEF FirstHalf, OtherHalf, Items, Item
  <2>6. todo' = <<FirstHalf, OtherHalf>> \o Tail(todo)
    BY <1>6 DEF CloseRun, Halves, FirstHalf, OtherHalf
  <2> HIDE DEF b, m
  <2>7. ASSUME NEW s \in Seq(Items), s = <<FirstHalf, OtherHalf>>, NEW t \in Seq(Items)
        PROVE  /\ s \o t \in Seq(Items) /\ Len(s \o t) = Len(t) + 2
               /\ (s \o t)[1] = FirstHalf /\ (s \o t)[2] = OtherHalf
               /\ \A i \in 3..Len(t) + 2 : (s \o t)[i] = t[i - 2]
    <3>1. Len(s) = 2 /\ s[1] = FirstHalf /\ s[2] = OtherHalf
      BY <2>7
    <3>2. /\ s \o t \in Seq(Items) /\ Len(s \o t) = Len(s) + Len(t) /\ Len(t) \in Nat
          /\ \A i \in 1..Len(s) : (s \o t)[i] = s[i]
          /\ \A i \in 1..Len(t) : (s \o t)[Len(s) + i] = t[i]
      OBVIOUS
    <3>3. ASSUME NEW i \in 3..Len(t) + 2 PROVE (s \o t)[i] = t[i - 2]
      <4>1. i - 2 \in 1..Len(t) /\ 2 + (i - 2) = i
        BY <3>2
      <4> QED BY <3>1, <3>2, <4>1
    <3> QED BY <3>1, <3>2, <3>3
  <2>8. <<FirstHalf, OtherHalf>> \in Seq(Items)
    BY <2>5
  <2>9. /\ todo' \in Seq(Items) /\ Len(todo') = Len(Tail(todo)) + 2
        /\ todo'[1] = FirstHalf /\ todo'[2] = OtherHalf
        /\ \A i \in 3..Len(Tail(todo)) + 2 : todo'[i] = Tail(todo)[i - 2]
    BY <1>2, <2>6, <2>7, <2>8
  <2>10. \A i \in 3..Len(todo) + 1 : todo'[i] = todo[i - 1]
    <3> SUFFICES ASSUME NEW i \in 3..Len(todo) + 1 PROVE todo'[i] = todo[i - 1]
      OBVIOUS
    <3>1. i \in 3..Len(Tail(todo)) + 2 /\ i - 2 \in 1..Len(todo) - 1 /\ (i - 2) + 1 = i - 1
      BY <1>2
    <3> QED BY <1>2, <2>9, <3>1
  <2> QED BY <1>2, <2>5, <2>9, <2>10
<1>7. ASSUME ~Splits
      PROVE  /\ todo' \in Seq(Items) /\ Len(todo') = Len(todo) - 1
             /\ \A i \in 1..Len(todo) - 1 : todo'[i] = todo[i + 1]
  BY <1>2, <1>7 DEF CloseRun
<1> QED BY <1>2, <1>3, <1>5, <1>6, <1>7

-----------------------------------------------------------------------------
\* A batch is taken with an index of length 1, a split lengthens one that is short enough.
LEMMA MRTypeNext == MRTyped /\ [Next]_vars => MRTyped'
<1> SUFFICES ASSUME MRTyped, [Next]_vars PROVE MRTyped'
  OBVIOUS
<1>0. MaxSplitDepth \in Nat /\ MaxIter \in Nat /\ TypeOK
  BY MRConstants DEF MRTyped
<1>1. CASE Quiet
  <2>1. UNCHANGED <<batches, skip, fellBack, next, todo, records, baseline_from>>
    BY <1>1, QuietWork DEF work
  <2>2. RunTyped'
    BY <1>0, <1>1, QuietRun DEF TypeOK, RunTyped
  <2>3. ReportsTyped' /\ summary' \in Summaries
    BY <1>0, <1>1, QuietReports, QuietSummary
  <2>4. /\ pc' \in {"extract", "batch", "build", "baseline", "round", "work", "close", "scan",
                    "report", "end", "raised"}
        /\ Placed'
    BY <1>1, QuietPlaces
  <2>5. TypeOK'
    BY <1>0, <2>1, <2>2, <2>3, <2>4 DEF TypeOK, RunTyped, ReportsTyped
  <2> QED BY <2>4, <2>5 DEF MRTyped
<1>2. CASE NextBatch
  <2>1. /\ pc' = "batch" /\ todo' = <<Item(batches[next], <<next>>)>> /\ next' = next + 1
        /\ next <= Len(batches)
        /\ UNCHANGED <<batches, skip, fellBack, records, baseline_from, world, reports, run,
                       summary>>
    BY <1>2 DEF NextBatch
  <2>2. next \in 1..Len(batches) /\ Len(batches) \in Nat /\ batches \in Seq(Seq(Units))
    BY <1>0, <2>1 DEF TypeOK
  <2>3. Item(batches[next], <<next>>) \in Items /\ Len(<<next>>) = 1
    BY <2>2 DEF Items, Item
  <2>4. /\ todo' \in Seq(Items) /\ next' \in 1..Len(batches) + 1
        /\ \A i \in 1..Len(todo') : Len(todo'[i].index) \in 1..MaxSplitDepth + 1
    <3>1. Item(batches[next], <<next>>).index = <<next>>
      BY DEF Item
    <3> HIDE DEF Item
    <3>2. todo' \in Seq(Items) /\ Len(todo') = 1 /\ todo'[1] = Item(batches[next], <<next>>)
      BY <2>1, <2>3
    <3>3. \A i \in 1..Len(todo') : i = 1
      BY <3>2
    <3>4. 1 \in 1..MaxSplitDepth + 1
      BY <1>0
    <3>5. next' \in 1..Len(batches) + 1
      BY <2>1, <2>2
    <3>6. Len(todo'[1].index) = 1
      BY <2>3, <3>1, <3>2
    <3> QED BY <3>2, <3>3, <3>4, <3>5, <3>6
  <2>5. TypeOK'
    BY <1>0, <2>1, <2>4 DEF TypeOK, world, reports, run
  <2>6. Placed'
    BY <1>2, <2>1 DEF NextBatch, MRTyped, Placed
  <2> QED BY <2>5, <2>6 DEF MRTyped
<1>3. CASE CloseRun
  <2>1. /\ pc = "close" /\ pc' = "batch" /\ todo # <<>>
        /\ UNCHANGED <<batches, skip, fellBack, next, world, reports, run, summary>>
        /\ baseline_from' \in {last_cov, baseline_from}
    BY <1>3 DEF CloseRun, MRTyped, Placed, NextBaseline
  <2>2. todo' \in Seq(Items) /\ records' \in Seq(Records)
    BY <1>0, <1>3, <2>1, CloseEffect
  <2>3. ASSUME NEW i \in 1..Len(todo') PROVE Len(todo'[i].index) \in 1..MaxSplitDepth + 1
    <3>0. \A k \in 1..Len(todo) : Len(todo[k].index) \in 1..MaxSplitDepth + 1
      BY <1>0 DEF TypeOK
    <3>1. CASE ~Splits
      <4>1. i \in 1..Len(todo) - 1 /\ i + 1 \in 1..Len(todo) /\ todo'[i] = todo[i + 1]
        BY <1>0, <1>3, <2>1, <3>1, CloseEffect
      <4> QED BY <3>0, <4>1
    <3>2. CASE Splits
      <4>0. Len(todo') = Len(todo) + 1 /\ Len(todo) \in Nat \ {0} /\ Current = todo[1]
            /\ Current \in Items
        BY <1>0, <1>3, <2>1, <3>2, CloseEffect
      <4>1. CASE i \in 3..Len(todo) + 1
        <5>1. i - 1 \in 1..Len(todo) /\ todo'[i] = todo[i - 1]
          BY <1>0, <1>3, <2>1, <3>2, <4>0, <4>1, CloseEffect
        <5> QED BY <3>0, <5>1
      <4>2. CASE i \notin 3..Len(todo) + 1
        <5>1. i = 1 \/ i = 2
          BY <4>0, <4>2
        <5>2. todo'[i] = FirstHalf \/ todo'[i] = OtherHalf
          BY <1>0, <1>3, <2>1, <3>2, <5>1, CloseEffect
        <5>3. /\ FirstHalf.index = Append(Current.index, 1)
              /\ OtherHalf.index = Append(Current.index, 2)
          BY DEF FirstHalf, OtherHalf, Item
        <5>4. Current.index \in Seq(Nat)
          BY <4>0 DEF Items
        <5>5. Len(Current.index) \in 1..MaxSplitDepth + 1 /\ Len(Current.index) - 1 < MaxSplitDepth
          BY <3>0, <3>2, <4>0 DEF Splits, Depth
        <5>6. /\ Len(Append(Current.index, 1)) = Len(Current.index) + 1
              /\ Len(Append(Current.index, 2)) = Len(Current.index) + 1
          BY <5>4
        <5> QED BY <1>0, <5>2, <5>3, <5>5, <5>6
      <4> QED BY <4>1, <4>2
    <3> QED BY <3>1, <3>2
  <2>4. TypeOK'
    BY <1>0, <2>1, <2>2, <2>3 DEF TypeOK, world, reports, run
  <2>5. Placed'
    BY <2>1 DEF MRTyped, Placed
  <2> QED BY <2>4, <2>5 DEF MRTyped
<1>5. CASE FallBack
  <2>1. /\ pc = "extract" /\ pc' \in {"scan", "batch"} /\ batches' = <<batches, <<>> >>
        /\ fellBack' = TRUE /\ next = 1 /\ todo = <<>> /\ records = <<>> /\ Batching(batches)
        /\ summary = NoSummary
        /\ UNCHANGED <<skip, next, todo, records, baseline_from, world, reports, run, summary>>
    BY <1>5 DEF FallBack, MRTyped, Placed
  <2>2. batches' \in Seq(Seq(Units)) /\ Once(batches') /\ Len(batches') = 2
    BY <2>1, ListOfBatches
  <2>3. TypeOK'
    BY <1>0, <2>1, <2>2 DEF TypeOK, world, reports, run
  <2>4. Placed'
    BY <2>1 DEF Placed
  <2> QED BY <2>3, <2>4 DEF MRTyped
<1>4. CASE UNCHANGED vars
  <2>1. TypeOK'
    BY <1>0, <1>4 DEF TypeOK, vars, work, world, reports, run
  <2>2. Placed'
    BY <1>4 DEF MRTyped, Placed, vars, work
  <2> QED BY <2>1, <2>2 DEF MRTyped
<1> QED BY <1>1, <1>2, <1>3, <1>4, <1>5 DEF Next, Step, Rest, Quiet

\* Every variable of the MR loop keeps its type; no index of an item is empty or
\* longer than the split depth allows.
THEOREM MRTypeCorrect == Spec => []TypeOK
<1>1. MRTyped => TypeOK
  BY DEF MRTyped
<1> QED BY <1>1, MRTypeInit, MRTypeNext, PTL DEF Spec

-----------------------------------------------------------------------------
(* The report handed down *)

\* What a run reports holds what the report it was given holds, if it shows it all.
Chain == baseline_from # NoReport /\ last_cov # NoReport /\ ~short => baseline_from \subseteq last_cov

\* A round adds to what was hit before it, and a run hands on what it reports.
LEMMA ChainNext == Inv /\ Chain /\ [Next]_vars => Chain'
<1> SUFFICES ASSUME Inv, Chain, [Next]_vars PROVE Chain'
  OBVIOUS
<1>1. CASE UNCHANGED <<baseline_from, last_cov, short>>
  BY <1>1 DEF Chain
<1>2. CASE StartRun \/ Baseline
  BY <1>2 DEF Chain, StartRun, Baseline, work
<1>3. CASE MeasureRound
  <2>1. /\ ~short' => last_cov' = actual'
        /\ actual \subseteq actual' /\ baseline_from' = baseline_from
    BY <1>3 DEF MeasureRound, Measure, MoreTests, work
  <2>2. baseline_from # NoReport => baseline_from \subseteq actual
    BY DEF Inv, Honest
  <2> QED BY <2>1, <2>2 DEF Chain
<1>4. CASE CloseRun
  BY <1>4 DEF Chain, CloseRun, NextBaseline, reports
<1>5. CASE \/ Extract \/ FallBack \/ NextBatch \/ BatchesDone \/ Build \/ BeginRound
           \/ FinishRun \/ GenerateInVain \/ GiveUpRun \/ Scan \/ Summarize \/ Raise
  BY <1>1, <1>5 DEF Extract, FallBack, NextBatch, BatchesDone, Build, BeginRound, FinishRun,
                    GenerateInVain, MoreTests, GiveUpRun, Scan, Summarize, Raise, work, reports
<1> QED BY <1>1, <1>2, <1>3, <1>4, <1>5 DEF Next, Step, Rest, vars, work, reports

\* Only the close of a batch's last run sets the report handed down, and never back.
LEMMA Advances ==
  ASSUME Chain, [Next]_vars, baseline_from # NoReport
  PROVE  baseline_from' # NoReport /\ (baseline_from \subseteq baseline_from' \/ short)
<1>1. CASE CloseRun
  BY <1>1 DEF CloseRun, NextBaseline, Chain
<1>2. CASE NextBatch \/ FallBack
  BY <1>2 DEF NextBatch, FallBack
<1>3. CASE Quiet \/ UNCHANGED vars
  BY <1>3, QuietWork DEF vars, work
<1> QED BY <1>1, <1>2, <1>3 DEF Next, Step, Rest, Quiet

\* The report that batches start from is never taken back, also when a batch measured
\* nothing or its build failed, nor replaced by one that hits less, unless the
\* measurement that made that one was cut short.
THEOREM BaselineKept == Spec => BaselineNeverRetreats
<1>1. Init => Inv /\ Chain
  BY InvInit DEF Init, Chain
<1>2. Inv /\ Chain /\ [Next]_vars => (Inv /\ Chain)'
  BY InvNext, ChainNext
<1>3. Chain /\ [Next]_vars =>
        [baseline_from # NoReport => /\ baseline_from' # NoReport
                                     /\ baseline_from \subseteq baseline_from' \/ short]_vars
  BY Advances
<1> QED BY <1>1, <1>2, <1>3, PTL DEF Spec, BaselineNeverRetreats

-----------------------------------------------------------------------------
(* No function is tried twice *)

Apart(b, c) == Elements(b) \cap Elements(c) = {}
Distinct(b) == \A k, l \in 1..Len(b) : b[k] = b[l] => k = l

\* The batches that are held: those left, those that came to an end, those to come.
Spread ==
  /\ \A i \in 1..Len(todo) : Distinct(todo[i].batch)
  /\ \A i, j \in 1..Len(todo) : i # j => Apart(todo[i].batch, todo[j].batch)
  /\ \A i, j \in Leaves : i # j => Apart(records[i].batch, records[j].batch)
  /\ \A i \in 1..Len(todo) : \A j \in Leaves : Apart(todo[i].batch, records[j].batch)
  /\ \A k \in next..Len(batches) :
       /\ \A i \in 1..Len(todo) : Apart(todo[i].batch, batches[k])
       /\ \A i \in Leaves : Apart(records[i].batch, batches[k])

\* A cut of a sequence without repetition makes two such that share nothing.
LEMMA CutApart ==
  ASSUME NEW S, NEW s \in Seq(S), NEW m \in 0..Len(s), Distinct(s)
  PROVE  LET l == SubSeq(s, 1, m)
             r == SubSeq(s, m + 1, Len(s))
         IN Distinct(l) /\ Distinct(r) /\ Apart(l, r)
<1> DEFINE l == SubSeq(s, 1, m)
           r == SubSeq(s, m + 1, Len(s))
<1>1. /\ Len(s) \in Nat /\ m \in Nat /\ m <= Len(s)
      /\ Len(l) = m /\ \A i \in 1..m : l[i] = s[i]
      /\ Len(r) = Len(s) - m /\ \A i \in 1..Len(s) - m : r[i] = s[m + i]
  OBVIOUS
<1> HIDE DEF l, r
<1>2. Distinct(l)
  BY <1>1 DEF Distinct
<1>3. Distinct(r)
  <2> SUFFICES ASSUME NEW k \in 1..Len(r), NEW j \in 1..Len(r), r[k] = r[j] PROVE k = j
    BY DEF Distinct
  <2>1. m + k \in 1..Len(s) /\ m + j \in 1..Len(s) /\ s[m + k] = s[m + j]
    BY <1>1
  <2> QED BY <1>1, <2>1 DEF Distinct
<1>4. Apart(l, r)
  <2> SUFFICES ASSUME NEW k \in 1..Len(l), NEW j \in 1..Len(r), l[k] = r[j] PROVE FALSE
    BY DEF Apart, Elements
  <2>1. k \in 1..Len(s) /\ m + j \in 1..Len(s) /\ k # m + j /\ s[k] = s[m + j]
    BY <1>1
  <2> QED BY <2>1 DEF Distinct
<1> QED BY <1>2, <1>3, <1>4 DEF l, r

\* Which of the work there was an item of what is left stems from.
From(i) == IF Splits THEN IF i = 1 THEN 1 ELSE i - 1 ELSE i + 1

\* Closing a run leaves work that is part of the work there was, still spread out;
\* the batch closed is part of it only when it was split.
LEMMA CloseKeepsApart ==
  ASSUME TypeOK, Spread, todo # <<>>, CloseRun
  PROVE  /\ \A i \in 1..Len(todo') :
              /\ From(i) \in 1..Len(todo) /\ (~Splits => From(i) # 1)
              /\ Elements(todo'[i].batch) \subseteq Elements(todo[From(i)].batch)
              /\ Distinct(todo'[i].batch)
         /\ \A i, j \in 1..Len(todo') : i # j => Apart(todo'[i].batch, todo'[j].batch)
<1>1. CASE ~Splits
  <2>1. Len(todo) \in Nat \ {0} /\ Len(todo') = Len(todo) - 1
    BY <1>1, CloseEffect
  <2>2. \A i \in 1..Len(todo) - 1 : todo'[i] = todo[i + 1]
    BY <1>1, CloseEffect
  <2>3. \A i \in 1..Len(todo') : From(i) = i + 1 /\ From(i) \in 1..Len(todo) /\ From(i) # 1
                                 /\ todo'[i] = todo[From(i)]
    BY <1>1, <2>1, <2>2 DEF From
  <2>4. \A i, j \in 1..Len(todo') : i # j => From(i) # From(j)
    BY <2>3
  <2> QED BY <2>3, <2>4 DEF Spread
<1>2. CASE Splits
  <2>1. /\ Len(todo) \in Nat \ {0} /\ Len(todo') = Len(todo) + 1
        /\ Current = todo[1] /\ Current \in Items
        /\ todo'[1] = FirstHalf /\ todo'[2] = OtherHalf
    BY <1>2, CloseEffect
  <2>2. \A i \in 3..Len(todo) + 1 : todo'[i] = todo[i - 1]
    BY <1>2, CloseEffect
  <2> DEFINE b == Current.batch
             m == Len(b) \div 2
             l == SubSeq(b, 1, m)
             r == SubSeq(b, m + 1, Len(b))
  <2>3. b \in Seq(Units) /\ Len(b) \in Nat /\ Distinct(b)
    BY <2>1 DEF Items, Spread
  <2>4. m \in 0..Len(b)
    <3>1. \A n \in Nat : n \div 2 \in 0..n
      OBVIOUS
    <3> QED BY <2>3, <3>1
  <2>5. todo'[1].batch = l /\ todo'[2].batch = r
    <3>1. FirstHalf.batch = l /\ OtherHalf.batch = r
      BY DEF FirstHalf, OtherHalf, Item
    <3> QED BY <2>1, <3>1
  <2> HIDE DEF b, m
  <2>6. Elements(l) \subseteq Elements(b) /\ Elements(r) \subseteq Elements(b)
    BY <2>3, <2>4, ElementsOfCut
  <2>7. Distinct(l) /\ Distinct(r) /\ Apart(l, r)
    BY <2>3, <2>4, CutApart
  <2> HIDE DEF l, r
  <2>8. b = todo[1].batch /\ From(1) = 1 /\ From(2) = 1
    BY <1>2, <2>1 DEF From, b
  <2>9. \A i \in 1..Len(todo') : i # 1 /\ i # 2 =>
          From(i) = i - 1 /\ From(i) \in 2..Len(todo) /\ todo'[i] = todo[From(i)]
    BY <1>2, <2>1, <2>2 DEF From
  <2>10. ASSUME NEW i \in 1..Len(todo')
         PROVE  /\ From(i) \in 1..Len(todo)
                /\ Elements(todo'[i].batch) \subseteq Elements(todo[From(i)].batch)
                /\ Distinct(todo'[i].batch)
    <3>1. CASE i = 1 \/ i = 2
      BY <2>1, <2>5, <2>6, <2>7, <2>8, <3>1
    <3>2. CASE i # 1 /\ i # 2
      BY <2>1, <2>9, <3>2 DEF Spread
    <3> QED BY <3>1, <3>2
  <2>11. ASSUME NEW i \in 1..Len(todo'), NEW j \in 1..Len(todo'), i # j
         PROVE  Apart(todo'[i].batch, todo'[j].batch)
    <3>1. CASE From(i) # From(j)
      BY <2>10, <3>1 DEF Spread, Apart
    <3>2. CASE From(i) = From(j)
      <4>1. i \in {1, 2} /\ j \in {1, 2}
        <5>1. CASE i # 1 /\ i # 2 /\ j # 1 /\ j # 2
          BY <2>9, <3>2, <2>11, <5>1
        <5>2. CASE i # 1 /\ i # 2 /\ (j = 1 \/ j = 2)
          BY <2>8, <2>9, <3>2, <5>2
        <5>3. CASE (i = 1 \/ i = 2) /\ j # 1 /\ j # 2
          BY <2>8, <2>9, <3>2, <5>3
        <5> QED BY <5>1, <5>2, <5>3
      <4>2. (i = 1 /\ j = 2) \/ (i = 2 /\ j = 1)
        BY <2>11, <4>1
      <4> QED BY <2>5, <2>7, <4>2 DEF Apart
    <3> QED BY <3>1, <3>2
  <2> QED BY <1>2, <2>10, <2>11
<1> QED BY <1>1, <1>2

\* Closing a run moves its batch to the records, or its halves to what is left.
LEMMA SpreadCloseRun ==
  ASSUME TypeOK, Spread, todo # <<>>, CloseRun
  PROVE  Spread'
<1>1. /\ \A i \in 1..Len(todo') :
              /\ From(i) \in 1..Len(todo) /\ (~Splits => From(i) # 1)
              /\ Elements(todo'[i].batch) \subseteq Elements(todo[From(i)].batch)
              /\ Distinct(todo'[i].batch)
      /\ \A i, j \in 1..Len(todo') : i # j => Apart(todo'[i].batch, todo'[j].batch)
  BY CloseKeepsApart
<1>2. /\ Len(todo) \in Nat \ {0} /\ Len(records) \in Nat /\ Len(records') = Len(records) + 1
      /\ \A i \in 1..Len(records) : records'[i] = records[i]
      /\ records'[Len(records) + 1] = Closed /\ Current = todo[1]
  BY CloseEffect
<1>3. next' = next /\ batches' = batches
  BY DEF CloseRun
<1>4. Closed.batch = todo[1].batch /\ Closed.split = Splits
  BY <1>2 DEF Closed
\* What a leaf holds was a leaf's or the closed batch's.
<1>5. ASSUME NEW i \in Leaves'
      PROVE  \/ i \in Leaves /\ records'[i] = records[i]
             \/ i = Len(records) + 1 /\ ~Splits /\ records'[i].batch = todo[1].batch
  <2>1. i \in 1..Len(records) + 1 /\ ~records'[i].split
    BY <1>2 DEF Leaves
  <2>2. CASE i = Len(records) + 1
    BY <1>2, <1>4, <2>1, <2>2
  <2>3. CASE i # Len(records) + 1
    BY <1>2, <2>1, <2>3 DEF Leaves
  <2> QED BY <2>2, <2>3
<1>6. 1 \in 1..Len(todo) /\ Len(records) + 1 \notin Leaves
  BY <1>2 DEF Leaves
<1>7. ASSUME NEW i \in Leaves', NEW j \in Leaves', i # j
      PROVE  Apart(records'[i].batch, records'[j].batch)
  <2>1. CASE i \in Leaves /\ j \in Leaves
    BY <1>5, <1>6, <1>7, <2>1 DEF Spread
  <2>2. CASE i \in Leaves /\ j \notin Leaves
    BY <1>5, <1>6, <2>2 DEF Spread, Apart
  <2>3. CASE i \notin Leaves /\ j \in Leaves
    BY <1>5, <1>6, <2>3 DEF Spread, Apart
  <2> QED BY <1>5, <1>7, <2>1, <2>2, <2>3
<1>8. ASSUME NEW i \in 1..Len(todo'), NEW j \in Leaves'
      PROVE  Apart(todo'[i].batch, records'[j].batch)
  <2>1. CASE j \in Leaves
    BY <1>1, <1>5, <1>6, <2>1 DEF Spread, Apart
  <2>2. CASE j \notin Leaves
    BY <1>1, <1>5, <1>6, <2>2 DEF Spread, Apart
  <2> QED BY <2>1, <2>2
<1>9. ASSUME NEW k \in next..Len(batches)
      PROVE  /\ \A i \in 1..Len(todo') : Apart(todo'[i].batch, batches[k])
             /\ \A i \in Leaves' : Apart(records'[i].batch, batches[k])
  <2>1. /\ \A i \in 1..Len(todo) : Apart(todo[i].batch, batches[k])
        /\ \A i \in Leaves : Apart(records[i].batch, batches[k])
    BY DEF Spread
  <2> QED BY <1>1, <1>5, <1>6, <2>1 DEF Apart
<1> QED BY <1>1, <1>3, <1>7, <1>8, <1>9 DEF Spread

\* A batch that is taken shares nothing with the others.
LEMMA SpreadNextBatch ==
  ASSUME TypeOK, Spread, NextBatch
  PROVE  Spread'
<1> DEFINE b == batches[next]
<1>1. /\ todo = <<>> /\ todo' = <<Item(b, <<next>>)>> /\ next' = next + 1
      /\ next <= Len(batches) /\ UNCHANGED <<batches, records>>
  BY DEF NextBatch
<1>2. /\ next \in 1..Len(batches) /\ Len(batches) \in Nat /\ batches \in Seq(Seq(Units))
      /\ Once(batches)
  BY <1>1 DEF TypeOK
<1>3. Len(todo') = 1 /\ todo'[1].batch = b /\ \A i \in 1..Len(todo') : i = 1
  BY <1>1 DEF Item
<1>4. Leaves' = Leaves
  BY <1>1 DEF Leaves
<1> HIDE DEF b
<1>5. Distinct(b)
  BY <1>2 DEF Once, Distinct, b
<1>6. \A i \in Leaves : Apart(records[i].batch, b)
  <2>1. next \in next..Len(batches)
    BY <1>2
  <2> QED BY <2>1 DEF Spread, b
<1>7. ASSUME NEW k \in next + 1..Len(batches)
      PROVE  Apart(b, batches[k]) /\ k \in next..Len(batches)
  <2>1. k \in 1..Len(batches) /\ next # k /\ k \in next..Len(batches)
    BY <1>2
  <2> QED BY <1>2, <2>1 DEF Once, Apart, Elements, b
<1>8. \A k \in next + 1..Len(batches) : \A i \in Leaves : Apart(records[i].batch, batches[k])
  BY <1>7 DEF Spread
<1>9. \A i, j \in Leaves : i # j => Apart(records[i].batch, records[j].batch)
  BY DEF Spread
<1>10. \A i \in 1..Len(todo') : \A j \in Leaves : Apart(todo'[i].batch, records[j].batch)
  BY <1>3, <1>6 DEF Apart
<1> QED BY <1>1, <1>3, <1>4, <1>5, <1>7, <1>8, <1>9, <1>10 DEF Spread

\* No other step moves a batch.
LEMMA SpreadNext == MRTyped /\ Spread /\ [Next]_vars => Spread'
<1> SUFFICES ASSUME MRTyped, Spread, [Next]_vars PROVE Spread'
  OBVIOUS
<1>1. CASE Quiet \/ UNCHANGED vars
  <2>1. UNCHANGED <<batches, next, todo, records>>
    BY <1>1, QuietWork DEF vars, work
  <2>2. Leaves' = Leaves
    BY <2>1 DEF Leaves
  <2> QED BY <2>1, <2>2 DEF Spread
<1>2. CASE NextBatch
  BY <1>2, SpreadNextBatch DEF MRTyped
<1>3. CASE CloseRun
  <2>1. todo # <<>>
    BY <1>3 DEF CloseRun, MRTyped, Placed
  <2> QED BY <1>3, <2>1, SpreadCloseRun DEF MRTyped
<1>4. CASE FallBack
  <2>1. todo' = <<>> /\ records' = <<>>
    BY <1>4 DEF FallBack, MRTyped, Placed
  <2>2. 1..Len(todo') = {} /\ Leaves' = {}
    BY <2>1 DEF Leaves
  <2> QED BY <2>2 DEF Spread
<1> QED BY <1>1, <1>2, <1>3, <1>4 DEF Next, Step, Rest, Quiet

\* Held somewhere, and spread: held in one place.
LEMMA HeldOnce ==
  ASSUME TypeOK, Held, Spread
  PROVE  EveryTargetHeldOnce
<1> SUFFICES ASSUME NEW f \in Targets
             PROVE  Cardinality(Tried(f)) + Cardinality(Waiting(f)) + Cardinality(ToCome(f)) = 1
  BY DEF EveryTargetHeldOnce
<1>0. Cardinality({}) = 0 /\ \A x : Cardinality({x}) = 1
  BY FS_EmptySet, FS_Singleton
<1>1. next \in Nat \ {0} /\ Len(batches) \in Nat /\ Once(batches)
  BY DEF TypeOK
<1>2. CASE Tried(f) # {}
  <2>1. PICK i \in Leaves : f \in Elements(records[i].batch)
    BY <1>2 DEF Tried
  <2>2. Tried(f) = {i}
    BY <2>1 DEF Tried, Spread, Apart
  <2>3. Waiting(f) = {}
    BY <2>1 DEF Waiting, Spread, Apart
  <2>4. ToCome(f) = {}
    BY <2>1 DEF ToCome, Spread, Apart
  <2>5. /\ Cardinality(Tried(f)) = 1 /\ Cardinality(Waiting(f)) = 0
        /\ Cardinality(ToCome(f)) = 0
    BY <1>0, <2>2, <2>3, <2>4, Zenon
  <2> QED BY <2>5
<1>3. CASE Tried(f) = {} /\ Waiting(f) # {}
  <2>1. PICK i \in 1..Len(todo) : f \in Elements(todo[i].batch)
    BY <1>3 DEF Waiting
  <2>2. Waiting(f) = {i}
    BY <2>1 DEF Waiting, Spread, Apart
  <2>3. ToCome(f) = {}
    BY <2>1 DEF ToCome, Spread, Apart
  <2>4. /\ Cardinality(Tried(f)) = 0 /\ Cardinality(Waiting(f)) = 1
        /\ Cardinality(ToCome(f)) = 0
    BY <1>0, <1>3, <2>2, <2>3, Zenon
  <2> QED BY <2>4
<1>4. CASE Tried(f) = {} /\ Waiting(f) = {}
  <2>1. ~\E r \in Elements(records) : ~r.split /\ f \in Elements(r.batch)
    BY <1>4 DEF Tried, Leaves, Elements
  <2>2. ~\E w \in Elements(todo) : f \in Elements(w.batch)
    BY <1>4 DEF Waiting, Elements
  <2>3. PICK k \in next..Len(batches) : f \in Elements(batches[k])
    BY <2>1, <2>2 DEF Held
  <2>4. ASSUME NEW j \in next..Len(batches), f \in Elements(batches[j]) PROVE j = k
    <3>1. j \in 1..Len(batches) /\ k \in 1..Len(batches)
      BY <1>1
    <3> QED BY <1>1, <2>3, <2>4, <3>1 DEF Once, Elements
  <2>5. ToCome(f) = {k}
    BY <2>3, <2>4 DEF ToCome
  <2>6. /\ Cardinality(Tried(f)) = 0 /\ Cardinality(Waiting(f)) = 0
        /\ Cardinality(ToCome(f)) = 1
    BY <1>0, <1>4, <2>5, Zenon
  <2> QED BY <2>6
<1> QED BY <1>2, <1>3, <1>4

\* Whatever the batches, and however deep they are split, each changed function is
\* at any time in exactly one place: in a run that came to an end, in the work left
\* of the current batch, or in a batch to come.
THEOREM TargetsHeldOnce == Spec => []EveryTargetHeldOnce
<1>1. Init => MRTyped /\ Inv /\ Spread
  <2> SUFFICES ASSUME Init PROVE Spread
    BY MRTypeInit, InvInit
  <2>1. Leaves = {} /\ 1..Len(todo) = {}
    BY DEF Init, Leaves
  <2> QED BY <2>1 DEF Spread
<1>2. MRTyped /\ Inv /\ Spread /\ [Next]_vars => (MRTyped /\ Inv /\ Spread)'
  BY MRTypeNext, InvNext, SpreadNext
<1>3. MRTyped /\ Inv /\ Spread => EveryTargetHeldOnce
  BY HeldOnce DEF MRTyped, Inv
<1> QED BY <1>1, <1>2, <1>3, PTL DEF Spec

-----------------------------------------------------------------------------
(* What failure leaves behind *)

\* An item of depth d has at most a 2^-d part, rounded up, of its batch.
PartOf(item) ==
  /\ item.index[1] \in 1..Len(batches)
  /\ Depth(item) \in 0..MaxSplitDepth
  /\ (Len(item.batch) - 1) * 2 ^ Depth(item) < Len(batches[item.index[1]])

Shrunk ==
  /\ \A i \in 1..Len(todo) : PartOf(todo[i])
  /\ \A i \in 1..Len(records) :
       /\ PartOf(records[i])
       /\ ~records[i].split /\ ~records[i].done =>
            Len(records[i].batch) < 2 \/ Depth(records[i]) = MaxSplitDepth

\* Either half of n is at most n/2, rounded up.
LEMMA HalfOf ==
  ASSUME NEW n \in Nat, n >= 2
  PROVE  LET m == n \div 2
         IN m \in 1..n - 1 /\ (m - 1) * 2 <= n - 1 /\ (n - m - 1) * 2 <= n - 1
OBVIOUS

\* A part that halves, as its batch doubles in depth, stays small.
LEMMA HalvesSmall ==
  ASSUME NEW L \in Nat, NEW h \in Nat, NEW p \in Nat, NEW n \in Nat,
         (L - 1) * p < n, (h - 1) * 2 <= L - 1
  PROVE  (h - 1) * (2 * p) < n
<1>1. \A a, b, c \in Int : c >= 0 /\ a <= b => a * c <= b * c
  OBVIOUS
<1>2. ((h - 1) * 2) * p <= (L - 1) * p
  BY <1>1
<1>3. ((h - 1) * 2) * p = (h - 1) * (2 * p)
  OBVIOUS
<1>4. (L - 1) * p \in Int /\ (h - 1) * (2 * p) \in Int
  OBVIOUS
<1> HIDE <1>1
<1> QED BY <1>2, <1>3, <1>4

\* The halves of an item that may be split are parts of its batch.
LEMMA HalvesPart ==
  ASSUME TypeOK, todo # <<>>, Splits, CloseRun, PartOf(Current)
  PROVE  PartOf(FirstHalf) /\ PartOf(OtherHalf)
<1> DEFINE b == Current.batch
           m == Len(b) \div 2
           x == Current.index
<1>1. Current \in Items
  BY CloseEffect
<1>2. b \in Seq(Units) /\ Len(b) \in Nat /\ x \in Seq(Nat) /\ Len(x) \in Nat
  BY <1>1 DEF Items
<1>3. /\ Len(b) >= 2 /\ Len(x) - 1 < MaxSplitDepth /\ Len(x) - 1 \in 0..MaxSplitDepth
      /\ MaxSplitDepth \in Nat
      /\ x[1] \in 1..Len(batches) /\ (Len(b) - 1) * 2 ^ (Len(x) - 1) < Len(batches[x[1]])
  BY MRConstants DEF Splits, Depth, PartOf
<1>4. /\ FirstHalf.batch = SubSeq(b, 1, m) /\ FirstHalf.index = Append(x, 1)
      /\ OtherHalf.batch = SubSeq(b, m + 1, Len(b)) /\ OtherHalf.index = Append(x, 2)
  BY DEF FirstHalf, OtherHalf, Item
<1> HIDE DEF b, x
<1>5. m \in 1..Len(b) - 1 /\ (m - 1) * 2 <= Len(b) - 1 /\ (Len(b) - m - 1) * 2 <= Len(b) - 1
  BY <1>2, <1>3, HalfOf
<1> HIDE DEF m
<1>6. Len(SubSeq(b, 1, m)) = m /\ Len(SubSeq(b, m + 1, Len(b))) = Len(b) - m
  BY <1>2, <1>5
<1>7. ASSUME NEW y \in {1, 2}
      PROVE  Append(x, y)[1] = x[1] /\ Len(Append(x, y)) - 1 = Len(x) - 1 + 1
  BY <1>2, <1>3
<1> DEFINE d == Len(x) - 1
<1>8. d \in Nat /\ d + 1 \in 0..MaxSplitDepth
  BY <1>2, <1>3
<1>9. 2 ^ d \in Nat /\ 2 ^ (d + 1) = 2 * 2 ^ d
  BY <1>8, PowerDoubles
<1>10. Len(batches[x[1]]) \in Nat
  <2>1. batches \in Seq(Seq(Units))
    BY DEF TypeOK, Batching
  <2>2. batches[x[1]] \in Seq(Units)
    BY <1>3, <2>1
  <2> QED BY <2>2
<1>11. (Len(b) - 1) * 2 ^ d < Len(batches[x[1]])
  BY <1>3
<1> HIDE DEF d
<1>12. (m - 1) * 2 ^ (d + 1) < Len(batches[x[1]])
  <2>1. m \in Nat
    BY <1>2, <1>5
  <2>2. (m - 1) * (2 * 2 ^ d) < Len(batches[x[1]])
    BY <1>2, <1>5, <1>9, <1>10, <1>11, <2>1, HalvesSmall
  <2> QED BY <1>9, <2>2
<1>13. (Len(b) - m - 1) * 2 ^ (d + 1) < Len(batches[x[1]])
  <2>1. Len(b) - m \in Nat
    BY <1>2, <1>5
  <2>2. (Len(b) - m - 1) * (2 * 2 ^ d) < Len(batches[x[1]])
    BY <1>2, <1>5, <1>9, <1>10, <1>11, <2>1, HalvesSmall
  <2> QED BY <1>9, <2>2
<1>14. PartOf(FirstHalf)
  <2>1. FirstHalf.index[1] = x[1] /\ Depth(FirstHalf) = d + 1 /\ Len(FirstHalf.batch) = m
    BY <1>4, <1>6, <1>7 DEF Depth, d
  <2> QED BY <1>3, <1>8, <1>12, <2>1 DEF PartOf
<1>15. PartOf(OtherHalf)
  <2>1. /\ OtherHalf.index[1] = x[1] /\ Depth(OtherHalf) = d + 1
        /\ Len(OtherHalf.batch) = Len(b) - m
    BY <1>4, <1>6, <1>7 DEF Depth, d
  <2> QED BY <1>3, <1>8, <1>13, <2>1 DEF PartOf
<1> QED BY <1>14, <1>15

\* A record is as small as its item was, and one not split was too small or too deep.
LEMMA ShrunkCloseRun ==
  ASSUME TypeOK, Shrunk, todo # <<>>, CloseRun
  PROVE  Shrunk'
<1>1. batches' = batches
  BY DEF CloseRun
<1>2. /\ Len(todo) \in Nat \ {0} /\ Len(records) \in Nat /\ Len(records') = Len(records) + 1
      /\ \A i \in 1..Len(records) : records'[i] = records[i]
      /\ records'[Len(records) + 1] = Closed /\ Current = todo[1]
  BY CloseEffect
<1>3. PartOf(Current)
  BY <1>2 DEF Shrunk
<1>4. ASSUME NEW i \in 1..Len(todo') PROVE PartOf(todo'[i])
  <2>1. CASE ~Splits
    <3>1. Len(todo') = Len(todo) - 1 /\ \A j \in 1..Len(todo) - 1 : todo'[j] = todo[j + 1]
      BY <2>1, CloseEffect
    <3>2. i + 1 \in 1..Len(todo) /\ todo'[i] = todo[i + 1]
      BY <1>2, <3>1
    <3> QED BY <3>2 DEF Shrunk
  <2>2. CASE Splits
    <3>1. /\ Len(todo') = Len(todo) + 1 /\ todo'[1] = FirstHalf /\ todo'[2] = OtherHalf
          /\ \A j \in 3..Len(todo) + 1 : todo'[j] = todo[j - 1]
      BY <2>2, CloseEffect
    <3>2. CASE i = 1 \/ i = 2
      BY <1>3, <2>2, <3>1, <3>2, HalvesPart
    <3>3. CASE i # 1 /\ i # 2
      <4>1. i - 1 \in 1..Len(todo) /\ todo'[i] = todo[i - 1]
        BY <1>2, <3>1, <3>3
      <4> QED BY <4>1 DEF Shrunk
    <3> QED BY <3>2, <3>3
  <2> QED BY <2>1, <2>2
<1>5. PartOf(Closed)
  BY <1>3 DEF PartOf, Closed, Depth
<1>6. ~Closed.split /\ ~Closed.done => Len(Closed.batch) < 2 \/ Depth(Closed) = MaxSplitDepth
  <2>1. Current \in Items
    BY CloseEffect
  <2>2. Len(Current.batch) \in Nat
    BY <2>1 DEF Items
  <2>3. ~Splits /\ ~Met => Len(Current.batch) < 2 \/ ~(Depth(Current) < MaxSplitDepth)
    BY <2>2 DEF Splits
  <2>4. Depth(Current) \in 0..MaxSplitDepth /\ MaxSplitDepth \in Nat
    BY <1>3, MRConstants DEF PartOf
  <2>5. ~(Depth(Current) < MaxSplitDepth) => Depth(Current) = MaxSplitDepth
    BY <2>4
  <2>6. /\ Closed.batch = Current.batch /\ Depth(Closed) = Depth(Current)
        /\ Closed.split = Splits /\ Closed.done = Met
    BY DEF Closed, Depth
  <2> QED BY <2>3, <2>5, <2>6
<1>7. ASSUME NEW i \in 1..Len(records')
      PROVE  /\ PartOf(records'[i])
             /\ ~records'[i].split /\ ~records'[i].done =>
                  Len(records'[i].batch) < 2 \/ Depth(records'[i]) = MaxSplitDepth
  <2>1. CASE i = Len(records) + 1
    BY <1>2, <1>5, <1>6, <2>1
  <2>2. CASE i # Len(records) + 1
    <3>1. i \in 1..Len(records) /\ records'[i] = records[i]
      BY <1>2, <2>2
    <3> QED BY <3>1 DEF Shrunk
  <2> QED BY <2>1, <2>2
<1> QED BY <1>1, <1>4, <1>7 DEF Shrunk, PartOf, Depth

\* A batch that is taken is the whole of itself.
LEMMA ShrunkNextBatch ==
  ASSUME TypeOK, Shrunk, NextBatch
  PROVE  Shrunk'
<1> DEFINE item == Item(batches[next], <<next>>)
<1>1. todo' = <<item>> /\ next <= Len(batches) /\ UNCHANGED <<batches, records>>
  BY DEF NextBatch
<1>2. next \in 1..Len(batches) /\ batches \in Seq(Seq(Units)) /\ MaxSplitDepth \in Nat
  BY <1>1, MRConstants DEF TypeOK, Batching
<1>3. item.batch = batches[next] /\ item.index = <<next>>
  BY DEF Item
<1> HIDE DEF item
<1>4. batches[next] \in Seq(Units) /\ Len(batches[next]) \in Nat
  BY <1>2
<1>5. 0 \in Nat /\ 2 ^ 0 = 1
  <2>1. 0 \in Nat /\ 1..0 = {}
    OBVIOUS
  <2>2. Cardinality(SUBSET (1..0)) = 2 ^ 0
    BY <2>1, PowerIsCount
  <2>3. SUBSET (1..0) = {{}}
    BY <2>1
  <2>4. Cardinality({{}}) = 1
    BY FS_Singleton
  <2> QED BY <2>1, <2>2, <2>3, <2>4
<1>6. Depth(item) = 0 /\ item.index[1] = next
  BY <1>3 DEF Depth
<1>7. (Len(item.batch) - 1) * 2 ^ Depth(item) < Len(batches[item.index[1]])
  <2>1. \A n \in Nat : (n - 1) * 1 < n
    OBVIOUS
  <2> QED BY <1>3, <1>4, <1>5, <1>6, <2>1
<1>8. PartOf(item)
  BY <1>2, <1>6, <1>7 DEF PartOf
<1>9. Len(todo') = 1 /\ \A i \in 1..Len(todo') : todo'[i] = item
  BY <1>1
<1> QED BY <1>1, <1>8, <1>9 DEF Shrunk, PartOf, Depth

\* No other step makes an item or a record.
LEMMA ShrunkNext == MRTyped /\ Shrunk /\ [Next]_vars => Shrunk'
<1> SUFFICES ASSUME MRTyped, Shrunk, [Next]_vars PROVE Shrunk'
  OBVIOUS
<1>1. CASE Quiet \/ UNCHANGED vars
  <2>1. UNCHANGED <<batches, todo, records>>
    BY <1>1, QuietWork DEF vars, work
  <2> QED BY <2>1 DEF Shrunk, PartOf, Depth
<1>2. CASE NextBatch
  BY <1>2, ShrunkNextBatch DEF MRTyped
<1>3. CASE CloseRun
  <2>1. todo # <<>>
    BY <1>3 DEF CloseRun, MRTyped, Placed
  <2> QED BY <1>3, <2>1, ShrunkCloseRun DEF MRTyped
<1>4. CASE FallBack
  <2>1. todo' = <<>> /\ records' = <<>>
    BY <1>4 DEF FallBack, MRTyped, Placed
  <2>2. 1..Len(todo') = {} /\ 1..Len(records') = {}
    BY <2>1
  <2> QED BY <2>2 DEF Shrunk
<1> QED BY <1>1, <1>2, <1>3, <1>4 DEF Next, Step, Rest, Quiet

\* Rounding up: what is less than one part above n/p is at most that.
LEMMA RoundedUp ==
  ASSUME NEW n \in Nat, NEW p \in Nat \ {0}, NEW l \in Nat, (l - 1) * p < n
  PROVE  l <= (n + p - 1) \div p
<1>1. \A a, c \in Int : c * p <= a => c <= a \div p
  OBVIOUS
<1>2. (l - 1) * p = l * p - p /\ l * p \in Int
  OBVIOUS
<1>3. l * p <= n + p - 1
  BY <1>2
<1> QED BY <1>1, <1>3

\* Of the leaves that are not met, the pairs and more are at the last depth.
LEMMA ShrunkIsIsolated ==
  ASSUME TypeOK, Shrunk
  PROVE  FailureIsolated
<1> SUFFICES ASSUME NEW i \in Leaves, ~records[i].done
             PROVE  Len(records[i].batch) <=
                      (Len(batches[records[i].index[1]]) + 2 ^ MaxSplitDepth - 1)
                        \div 2 ^ MaxSplitDepth
  BY DEF FailureIsolated
<1> DEFINE l == Len(records[i].batch)
           n == Len(batches[records[i].index[1]])
           p == 2 ^ MaxSplitDepth
           d == Depth(records[i])
<1>1. i \in 1..Len(records) /\ ~records[i].split
  BY DEF Leaves
<1>2. /\ (l - 1) * 2 ^ d < n /\ d \in 0..MaxSplitDepth
      /\ records[i].index[1] \in 1..Len(batches)
      /\ l < 2 \/ d = MaxSplitDepth
  BY <1>1 DEF Shrunk, PartOf
<1>3. l \in Nat /\ n \in Nat
  <2>1. records[i] \in Records /\ batches \in Seq(Seq(Units))
    BY <1>1 DEF TypeOK, Batching
  <2>2. batches[records[i].index[1]] \in Seq(Units) /\ records[i].batch \in Seq(Units)
    BY <1>2, <2>1 DEF Records
  <2> QED BY <2>2
<1>4. p \in Nat \ {0} /\ 2 ^ d \in Nat \ {0}
  <2>1. \A k \in Nat : 2 ^ k \in Nat \ {0}
    BY PowerDoubles
  <2>2. MaxSplitDepth \in Nat /\ d \in Nat
    <3> HIDE DEF l, n, p, d
    <3> QED BY <1>2, MRConstants
  <2> QED BY <2>1, <2>2
<1> HIDE DEF l, n, p, d
<1>5. ASSUME d = MaxSplitDepth PROVE (l - 1) * p < n
  BY <1>2, <1>5 DEF p
<1>6. ASSUME l = 1 PROVE (l - 1) * p < n
  <2>1. (l - 1) * 2 ^ d = 0 /\ (l - 1) * p = 0
    BY <1>4, <1>6
  <2> QED BY <1>2, <2>1
<1>7. ASSUME l = 0 PROVE (l - 1) * p < n
  <2>1. (l - 1) * p = 0 - p
    BY <1>4, <1>7
  <2> QED BY <1>3, <1>4, <2>1
<1>8. l <= (n + p - 1) \div p
  <2>1. (l - 1) * p < n
    <3>1. l = 0 \/ l = 1 \/ d = MaxSplitDepth
      BY <1>2, <1>3
    <3> QED BY <1>5, <1>6, <1>7, <3>1
  <2> QED BY <1>3, <1>4, <2>1, RoundedUp
<1> QED BY <1>8 DEF l, n, p

\* Whatever the split depth, what is reported as not met is a single function or
\* at most a 2^-MaxSplitDepth part, rounded up, of the batch it was put into.
THEOREM FailureIsSmall == Spec => []FailureIsolated
<1>1. Init => MRTyped /\ Shrunk
  <2> SUFFICES ASSUME Init PROVE Shrunk
    BY MRTypeInit
  <2>1. 1..Len(todo) = {} /\ 1..Len(records) = {}
    BY DEF Init
  <2> QED BY <2>1 DEF Shrunk
<1>2. MRTyped /\ Shrunk /\ [Next]_vars => (MRTyped /\ Shrunk)'
  BY MRTypeNext, ShrunkNext
<1>3. MRTyped /\ Shrunk => FailureIsolated
  BY ShrunkIsIsolated DEF MRTyped
<1> QED BY <1>1, <1>2, <1>3, PTL DEF Spec

-----------------------------------------------------------------------------
(* How many runs a batch costs *)

RunsOf(k) == {i \in 1..Len(records) : records[i].index[1] = k}

\* The runs of an item and of all its halves, at most.
Cost(item) == 2 ^ (MaxSplitDepth + 1 - Depth(item)) - 1

\* After n runs, the items of ws can have their runs numbered, from r[i] on, with
\* all numbers below the bound.
Fits(n, r, ws) ==
  /\ r \in [1..Len(ws) -> Nat] /\ n < r[1]
  /\ \A i \in 1..Len(ws) : r[i] + Cost(ws[i]) <= 2 ^ (MaxSplitDepth + 1)
  /\ \A i \in 1..Len(ws) - 1 : r[i] + Cost(ws[i]) <= r[i + 1]

Tally ==
  /\ \A i \in 1..Len(todo) : todo[i].index[1] = next - 1
  /\ \A i \in 1..Len(records) : records[i].index[1] < next
  /\ \A k \in 1..Len(batches) : Cardinality(RunsOf(k)) < 2 ^ (MaxSplitDepth + 1)
  /\ todo # <<>> => \E r : Fits(Cardinality(RunsOf(next - 1)), r, todo)

\* What an item costs: its own run, and its halves' when it is not at the last level.
LEMMA CostOf ==
  ASSUME NEW item, Depth(item) \in 0..MaxSplitDepth
  PROVE  /\ Cost(item) \in Nat /\ Cost(item) >= 1
         /\ \A half : Depth(half) = Depth(item) + 1 /\ Depth(item) < MaxSplitDepth =>
              Cost(half) \in Nat /\ Cost(item) = 1 + Cost(half) + Cost(half)
<1> DEFINE e == MaxSplitDepth - Depth(item)
<1>1. /\ MaxSplitDepth \in Nat /\ Depth(item) \in Nat /\ e \in Nat
      /\ MaxSplitDepth + 1 - Depth(item) = e + 1
  BY MRConstants
<1>2. 2 ^ e \in Nat \ {0} /\ 2 ^ (e + 1) = 2 * 2 ^ e
  BY <1>1, PowerDoubles
<1>3. Cost(item) = 2 * 2 ^ e - 1
  BY <1>1, <1>2 DEF Cost
<1>4. ASSUME NEW half, Depth(half) = Depth(item) + 1 PROVE Cost(half) = 2 ^ e - 1
  <2>1. MaxSplitDepth + 1 - Depth(half) = e
    BY <1>1, <1>4
  <2> QED BY <2>1 DEF Cost
<1> HIDE DEF e
<1>5. Cost(item) \in Nat /\ Cost(item) >= 1
  BY <1>2, <1>3
<1>6. ASSUME NEW half, Depth(half) = Depth(item) + 1
      PROVE  Cost(half) \in Nat /\ Cost(item) = 1 + Cost(half) + Cost(half)
  BY <1>2, <1>3, <1>4, <1>6
<1> QED BY <1>5, <1>6

\* The runs of a batch can be counted.
LEMMA RunsFinite ==
  ASSUME TypeOK, NEW k
  PROVE  IsFiniteSet(RunsOf(k)) /\ Cardinality(RunsOf(k)) \in Nat
<1>1. Len(records) \in Nat
  BY DEF TypeOK
<1>2. IsFiniteSet(1..Len(records)) /\ RunsOf(k) \subseteq 1..Len(records)
  BY <1>1, FS_Interval DEF RunsOf
<1> QED BY <1>2, FS_Subset, FS_CardinalityType

\* A run that is closed counts for its batch, and for no other.
LEMMA CloseCounts ==
  ASSUME TypeOK, todo # <<>>, CloseRun, NEW k
  PROVE  Cardinality(RunsOf(k))' = IF k = Current.index[1] THEN Cardinality(RunsOf(k)) + 1
                                   ELSE Cardinality(RunsOf(k))
<1>1. /\ Len(records) \in Nat /\ Len(records') = Len(records) + 1
      /\ \A i \in 1..Len(records) : records'[i] = records[i]
      /\ records'[Len(records) + 1] = Closed
  BY CloseEffect
<1>2. Closed.index = Current.index
  BY DEF Closed
<1>3. CASE k = Current.index[1]
  <2>1. RunsOf(k)' = RunsOf(k) \cup {Len(records) + 1} /\ Len(records) + 1 \notin RunsOf(k)
    BY <1>1, <1>2, <1>3 DEF RunsOf
  <2>2. Cardinality(RunsOf(k) \cup {Len(records) + 1}) = Cardinality(RunsOf(k)) + 1
    BY <2>1, RunsFinite, FS_AddElement
  <2> QED BY <1>3, <2>1, <2>2
<1>4. CASE k # Current.index[1]
  <2>1. RunsOf(k)' = RunsOf(k)
    BY <1>1, <1>2, <1>4 DEF RunsOf
  <2> QED BY <1>4, <2>1
<1> QED BY <1>3, <1>4

\* After a run, its item's number is free no more: the halves share the rest.
LEMMA FitsCloseRun ==
  ASSUME TypeOK, Shrunk, todo # <<>>, CloseRun, todo' # <<>>,
         NEW n \in Nat, NEW r, Fits(n, r, todo)
  PROVE  \E q : Fits(n + 1, q, todo')
<1> DEFINE B == 2 ^ (MaxSplitDepth + 1)
<1>1. /\ Len(todo) \in Nat \ {0} /\ Current = todo[1] /\ todo' \in Seq(Items)
  BY CloseEffect
<1>2. \A i \in 1..Len(todo) : Depth(todo[i]) \in 0..MaxSplitDepth
  BY DEF Shrunk, PartOf
<1>3. \A i \in 1..Len(todo) : Cost(todo[i]) \in Nat /\ Cost(todo[i]) >= 1
  BY <1>2, CostOf
<1>4. B \in Nat
  BY MRConstants, PowerDoubles
<1>5. /\ r \in [1..Len(todo) -> Nat] /\ n < r[1]
      /\ \A i \in 1..Len(todo) : r[i] + Cost(todo[i]) <= B
      /\ \A i \in 1..Len(todo) - 1 : r[i] + Cost(todo[i]) <= r[i + 1]
  BY DEF Fits
<1> HIDE DEF B
<1>6. Len(todo') \in Nat \ {0}
  BY <1>1
<1>7. ASSUME NEW q, q \in [1..Len(todo') -> Nat], n + 1 < q[1],
             \A i \in 1..Len(todo') : q[i] + Cost(todo'[i]) <= B,
             \A i \in 1..Len(todo') - 1 : q[i] + Cost(todo'[i]) <= q[i + 1]
      PROVE  Fits(n + 1, q, todo')
  BY <1>7 DEF Fits, B
<1>8. CASE ~Splits
  <2> DEFINE q == [i \in 1..Len(todo') |-> r[i + 1]]
  <2>1. Len(todo') = Len(todo) - 1 /\ \A i \in 1..Len(todo) - 1 : todo'[i] = todo[i + 1]
    BY <1>8, CloseEffect
  <2>2. \A i \in 1..Len(todo') : i + 1 \in 1..Len(todo) /\ todo'[i] = todo[i + 1]
    BY <1>1, <2>1
  <2>3. q \in [1..Len(todo') -> Nat] /\ \A i \in 1..Len(todo') : q[i] = r[i + 1]
    BY <1>5, <2>2
  <2> HIDE DEF q
  <2>4. n + 1 < q[1]
    <3>1. 1 \in 1..Len(todo) - 1 /\ 1 \in 1..Len(todo') /\ q[1] = r[2]
      BY <1>1, <1>6, <2>1, <2>3
    <3>2. r[1] + Cost(todo[1]) <= r[2] /\ r[1] \in Nat /\ r[2] \in Nat
      BY <1>1, <1>5, <3>1
    <3> QED BY <1>1, <1>3, <1>5, <3>1, <3>2
  <2>5. \A i \in 1..Len(todo') : q[i] + Cost(todo'[i]) <= B
    BY <1>5, <2>2, <2>3
  <2>6. ASSUME NEW i \in 1..Len(todo') - 1 PROVE q[i] + Cost(todo'[i]) <= q[i + 1]
    <3>1. i \in 1..Len(todo') /\ i + 1 \in 1..Len(todo') /\ i + 1 \in 1..Len(todo) - 1
      BY <1>6, <2>1
    <3>2. q[i] = r[i + 1] /\ q[i + 1] = r[i + 1 + 1] /\ todo'[i] = todo[i + 1]
      BY <2>2, <2>3, <3>1
    <3> QED BY <1>5, <3>1, <3>2
  <2> QED BY <1>7, <2>3, <2>4, <2>5, <2>6
<1>9. CASE Splits
  <2> DEFINE h == Cost(FirstHalf)
             q == [i \in 1..Len(todo') |-> IF i = 1 THEN r[1] + 1
                                           ELSE IF i = 2 THEN r[1] + 1 + h ELSE r[i - 1]]
  <2>1. /\ Len(todo') = Len(todo) + 1 /\ todo'[1] = FirstHalf /\ todo'[2] = OtherHalf
        /\ Current \in Items
    BY <1>9, CloseEffect
  <2>2. \A i \in 3..Len(todo) + 1 : todo'[i] = todo[i - 1]
    BY <1>9, CloseEffect
  <2>3. /\ Depth(FirstHalf) = Depth(Current) + 1 /\ Depth(OtherHalf) = Depth(Current) + 1
        /\ Depth(Current) < MaxSplitDepth
    <3>1. Current.index \in Seq(Nat)
      BY <2>1 DEF Items
    <3>2. /\ FirstHalf.index = Append(Current.index, 1)
          /\ OtherHalf.index = Append(Current.index, 2)
      BY DEF FirstHalf, OtherHalf, Item
    <3>3. /\ Len(Append(Current.index, 1)) = Len(Current.index) + 1
          /\ Len(Append(Current.index, 2)) = Len(Current.index) + 1
          /\ Len(Current.index) \in Nat
      BY <3>1
    <3> QED BY <1>9, <3>2, <3>3 DEF Depth, Splits
  <2>4. h \in Nat /\ Cost(OtherHalf) = h /\ Cost(Current) = 1 + h + h
    <3>1. Depth(Current) \in 0..MaxSplitDepth
      BY <1>1, <1>2
    <3>2. Cost(OtherHalf) = Cost(FirstHalf)
      BY <2>3 DEF Cost
    <3> QED BY <2>3, <3>1, <3>2, CostOf
  <2> HIDE DEF h
  <2>5. r[1] \in Nat /\ 1 \in 1..Len(todo) /\ r[1] + (1 + h + h) <= B
    <3>1. 1 \in 1..Len(todo)
      BY <1>1
    <3>2. r[1] \in Nat /\ r[1] + Cost(todo[1]) <= B
      BY <1>5, <3>1
    <3>3. Cost(todo[1]) = 1 + h + h
      BY <1>1, <2>4
    <3> QED BY <3>1, <3>2, <3>3
  <2>6. \A i \in 1..Len(todo') :
          i = 1 \/ i = 2 \/ (i \in 3..Len(todo) + 1 /\ i - 1 \in 2..Len(todo))
    BY <1>1, <2>1
  <2>7. q \in [1..Len(todo') -> Nat]
    BY <1>5, <2>4, <2>5, <2>6
  <2>8. /\ q[1] = r[1] + 1 /\ q[2] = r[1] + 1 + h
        /\ \A i \in 3..Len(todo) + 1 : q[i] = r[i - 1]
    BY <1>1, <2>1
  <2> HIDE DEF q
  <2>9. n + 1 < q[1]
    BY <1>5, <2>5, <2>8
  <2>10. ASSUME NEW i \in 1..Len(todo') PROVE q[i] + Cost(todo'[i]) <= B
    <3>1. CASE i = 1
      BY <1>4, <2>1, <2>4, <2>5, <2>8, <3>1 DEF h
    <3>2. CASE i = 2
      BY <1>4, <2>1, <2>4, <2>5, <2>8, <3>2
    <3>3. CASE i # 1 /\ i # 2
      <4>1. i \in 3..Len(todo) + 1 /\ i - 1 \in 1..Len(todo)
        BY <2>6, <3>3
      <4> QED BY <1>5, <2>2, <2>8, <4>1
    <3> QED BY <3>1, <3>2, <3>3
  <2>11. ASSUME NEW i \in 1..Len(todo') - 1 PROVE q[i] + Cost(todo'[i]) <= q[i + 1]
    <3>1. CASE i = 1
      <4>1. Cost(todo'[1]) = h
        BY <2>1 DEF h
      <4>2. q[1] + h <= q[2]
        BY <2>4, <2>5, <2>8
      <4> QED BY <3>1, <4>1, <4>2
    <3>2. CASE i = 2
      <4>1. 1 \in 1..Len(todo) - 1 /\ 3 \in 3..Len(todo) + 1
        BY <1>1, <2>1, <2>11, <3>2
      <4>2. r[1] + Cost(todo[1]) <= r[2] /\ q[3] = r[2]
        BY <1>5, <2>8, <4>1
      <4>3. r[2] \in Nat
        BY <1>5, <4>1
      <4>4. q[2] + h <= q[3]
        BY <1>1, <2>4, <2>5, <2>8, <4>2, <4>3
      <4> QED BY <2>1, <2>4, <3>2, <4>4
    <3>3. CASE i # 1 /\ i # 2
      <4>1. /\ i \in 3..Len(todo) + 1 /\ i + 1 \in 3..Len(todo) + 1
            /\ i - 1 \in 1..Len(todo) - 1 /\ (i - 1) + 1 = i /\ (i + 1) - 1 = i
        BY <1>1, <2>1, <2>11, <3>3
      <4>2. q[i] = r[i - 1] /\ q[i + 1] = r[i] /\ todo'[i] = todo[i - 1]
        BY <2>2, <2>8, <4>1
      <4> QED BY <1>5, <4>1, <4>2
    <3> QED BY <3>1, <3>2, <3>3
  <2> QED BY <1>7, <2>7, <2>9, <2>10, <2>11
<1> QED BY <1>8, <1>9

\* A run that is closed uses the first of its item's numbers.
LEMMA TallyCloseRun ==
  ASSUME TypeOK, Shrunk, Tally, todo # <<>>, CloseRun
  PROVE  Tally'
<1> DEFINE B == 2 ^ (MaxSplitDepth + 1)
           C(k) == Cardinality(RunsOf(k))
<1>1. next' = next /\ batches' = batches
  BY DEF CloseRun
<1>2. /\ Len(todo) \in Nat \ {0} /\ Len(records) \in Nat /\ Len(records') = Len(records) + 1
      /\ \A i \in 1..Len(records) : records'[i] = records[i]
      /\ records'[Len(records) + 1] = Closed
      /\ Current = todo[1] /\ Current \in Items
  BY CloseEffect
<1>3. next \in Nat /\ Current.index[1] = next - 1
  BY <1>2 DEF Tally, TypeOK
<1>4. ASSUME NEW i \in 1..Len(todo') PROVE todo'[i].index[1] = next - 1
  <2>0. \A j \in 1..Len(todo) : todo[j].index[1] = next - 1
    BY DEF Tally
  <2>1. CASE ~Splits
    <3>1. Len(todo') = Len(todo) - 1 /\ \A j \in 1..Len(todo) - 1 : todo'[j] = todo[j + 1]
      BY <2>1, CloseEffect
    <3>2. i + 1 \in 1..Len(todo) /\ todo'[i] = todo[i + 1]
      BY <1>2, <3>1
    <3> QED BY <2>0, <3>2
  <2>2. CASE Splits
    <3>1. /\ Len(todo') = Len(todo) + 1 /\ todo'[1] = FirstHalf /\ todo'[2] = OtherHalf
          /\ \A j \in 3..Len(todo) + 1 : todo'[j] = todo[j - 1]
      BY <2>2, CloseEffect
    <3>2. CASE i = 1 \/ i = 2
      <4>1. Current.index \in Seq(Nat)
        BY <1>2 DEF Items
      <4>2. Len(Current.index) \in 1..MaxSplitDepth + 1
        BY <1>2 DEF TypeOK
      <4>3. /\ Append(Current.index, 1)[1] = Current.index[1]
            /\ Append(Current.index, 2)[1] = Current.index[1]
        BY <4>1, <4>2
      <4>4. /\ FirstHalf.index = Append(Current.index, 1)
            /\ OtherHalf.index = Append(Current.index, 2)
        BY DEF FirstHalf, OtherHalf, Item
      <4> QED BY <1>3, <3>1, <3>2, <4>3, <4>4
    <3>3. CASE i # 1 /\ i # 2
      <4>1. i - 1 \in 1..Len(todo) /\ todo'[i] = todo[i - 1]
        BY <1>2, <3>1, <3>3
      <4> QED BY <2>0, <4>1
    <3> QED BY <3>2, <3>3
  <2> QED BY <2>1, <2>2
<1>5. ASSUME NEW i \in 1..Len(records') PROVE records'[i].index[1] < next
  <2>1. CASE i = Len(records) + 1
    <3>1. records'[i].index = Current.index
      BY <1>2, <2>1 DEF Closed
    <3> QED BY <1>3, <3>1
  <2>2. CASE i # Len(records) + 1
    <3>1. i \in 1..Len(records) /\ records'[i] = records[i]
      BY <1>2, <2>2
    <3> QED BY <3>1 DEF Tally
  <2> QED BY <2>1, <2>2
<1>6. PICK r : Fits(C(next - 1), r, todo)
  BY DEF Tally
<1>7. ASSUME NEW k PROVE C(k)' = IF k = next - 1 THEN C(k) + 1 ELSE C(k)
  BY <1>3, CloseCounts
<1>8. C(next - 1)' = C(next - 1) + 1
  <2> DEFINE k0 == next - 1
  <2>1. \A k : Cardinality(RunsOf(k))' = IF k = k0 THEN C(k) + 1 ELSE C(k)
    BY <1>7
  <2> QED BY <1>1, <2>1 DEF RunsOf
<1>9. C(next - 1) \in Nat
  BY RunsFinite
<1>10. C(next - 1) + 1 < B
  <2>1. 1 \in 1..Len(todo) /\ B \in Nat
    BY <1>2, MRConstants, PowerDoubles
  <2>2. r[1] \in Nat /\ C(next - 1) < r[1] /\ r[1] + Cost(todo[1]) <= B
    BY <1>6, <2>1 DEF Fits
  <2>3. Cost(todo[1]) \in Nat /\ Cost(todo[1]) >= 1
    BY <2>1, CostOf DEF Shrunk, PartOf
  <2> HIDE DEF B, C
  <2> QED BY <1>9, <2>1, <2>2, <2>3
<1>11. ASSUME NEW k \in 1..Len(batches) PROVE C(k)' < B
  <2>1. C(k) < B
    BY DEF Tally
  <2> QED BY <1>7, <1>10, <2>1
<1>12. ASSUME todo' # <<>> PROVE \E q : Fits(C(next - 1)', q, todo')
  <2> HIDE DEF C
  <2>1. \E q : Fits(C(next - 1) + 1, q, todo')
    BY <1>6, <1>9, <1>12, FitsCloseRun
  <2> QED BY <1>8, <2>1
<1> QED BY <1>1, <1>4, <1>5, <1>11, <1>12 DEF Tally

\* A batch that is taken may cost as much as its size in powers of two allows.
LEMMA TallyNextBatch ==
  ASSUME TypeOK, Shrunk, Tally, NextBatch
  PROVE  Tally'
<1> DEFINE item == Item(batches[next], <<next>>)
           B == 2 ^ (MaxSplitDepth + 1)
<1>1. todo' = <<item>> /\ next' = next + 1 /\ UNCHANGED <<batches, records>> /\ next \in Nat
  BY DEF NextBatch, TypeOK
<1>2. Depth(item) = 0 /\ item.index[1] = next
  BY DEF Depth, Item
<1> HIDE DEF item
<1>3. Len(todo') = 1 /\ todo'[1] = item /\ \A i \in 1..Len(todo') : i = 1
  BY <1>1
<1>4. \A i \in 1..Len(records) : records[i].index[1] < next /\ records[i].index[1] \in Nat
  <2>1. Len(batches) \in Nat /\ \A i \in 1..Len(records) : records[i].index[1] \in 1..Len(batches)
    BY DEF TypeOK, Batching, Shrunk, PartOf
  <2> QED BY <2>1 DEF Tally
<1>5. RunsOf(next) = {}
  BY <1>1, <1>4 DEF RunsOf
<1>6. \A k : RunsOf(k)' = RunsOf(k)
  BY <1>1 DEF RunsOf
<1>7. next' - 1 = next
  BY <1>1
<1>8. Cardinality(RunsOf(next - 1))' = 0
  <2>1. RunsOf(next - 1)' = {}
    BY <1>1, <1>5, <1>7 DEF RunsOf
  <2> QED BY <2>1, FS_EmptySet
<1>9. 1 + Cost(item) <= B
  <2>1. MaxSplitDepth + 1 - Depth(item) = MaxSplitDepth + 1 /\ B \in Nat
    BY <1>2, MRConstants, PowerDoubles
  <2> QED BY <2>1 DEF Cost
<1> DEFINE q == [i \in 1..Len(todo') |-> 1]
<1>10. q \in [1..Len(todo') -> Nat] /\ q[1] = 1
  BY <1>3
<1> HIDE DEF q
<1>11. Fits(0, q, todo')
  <2>1. \A i \in 1..Len(todo') : q[i] + Cost(todo'[i]) <= B
    BY <1>3, <1>9, <1>10
  <2>2. 1..Len(todo') - 1 = {}
    BY <1>3
  <2> QED BY <1>10, <2>1, <2>2 DEF Fits
<1>12. \E r : Fits(Cardinality(RunsOf(next - 1))', r, todo')
  BY <1>8, <1>11
<1>13. \A i \in 1..Len(todo') : todo'[i].index[1] = next' - 1
  BY <1>2, <1>3, <1>7
<1>14. \A i \in 1..Len(records) : records[i].index[1] < next + 1
  BY <1>1, <1>4
<1>15. \A k \in 1..Len(batches) : Cardinality(RunsOf(k)) < B
  BY DEF Tally
<1> QED BY <1>1, <1>6, <1>12, <1>13, <1>14, <1>15 DEF Tally

\* No other step counts.
LEMMA TallyNext == MRTyped /\ Shrunk /\ Tally /\ [Next]_vars => Tally'
<1> SUFFICES ASSUME MRTyped, Shrunk, Tally, [Next]_vars PROVE Tally'
  OBVIOUS
<1>1. CASE Quiet \/ UNCHANGED vars
  <2>1. UNCHANGED <<batches, next, todo, records>>
    BY <1>1, QuietWork DEF vars, work
  <2> QED BY <2>1 DEF Tally, RunsOf
<1>2. CASE NextBatch
  BY <1>2, TallyNextBatch DEF MRTyped
<1>3. CASE CloseRun
  <2>1. todo # <<>>
    BY <1>3 DEF CloseRun, MRTyped, Placed
  <2> QED BY <1>3, <2>1, TallyCloseRun DEF MRTyped
<1>4. CASE FallBack
  <2>1. todo' = <<>> /\ records' = <<>> /\ next' = 1
    BY <1>4 DEF FallBack, MRTyped, Placed
  <2>2. 1..Len(todo') = {} /\ 1..Len(records') = {}
    BY <2>1
  <2>3. \A k : RunsOf(k)' = {}
    BY <2>2 DEF RunsOf
  <2>4. 2 ^ (MaxSplitDepth + 1) \in Nat \ {0}
    BY MRConstants, PowerDoubles
  <2>5. \A k : Cardinality(RunsOf(k)') < 2 ^ (MaxSplitDepth + 1)
    BY <2>3, <2>4, FS_EmptySet
  <2> QED BY <2>1, <2>2, <2>5 DEF Tally, RunsOf
<1> QED BY <1>1, <1>2, <1>3, <1>4 DEF Next, Step, Rest, Quiet

\* However its runs end, a batch costs fewer than 2^(MaxSplitDepth + 1) of them.
THEOREM RunsAreBounded == Spec => []RunsBounded
<1>1. Init => MRTyped /\ Shrunk /\ Tally
  <2> SUFFICES ASSUME Init PROVE Shrunk /\ Tally
    BY MRTypeInit
  <2>1. 1..Len(todo) = {} /\ 1..Len(records) = {} /\ todo = <<>>
    BY DEF Init
  <2>2. \A k : RunsOf(k) = {}
    BY <2>1 DEF RunsOf
  <2>3. 2 ^ (MaxSplitDepth + 1) \in Nat \ {0}
    BY MRConstants, PowerDoubles
  <2>4. \A k : Cardinality(RunsOf(k)) < 2 ^ (MaxSplitDepth + 1)
    BY <2>2, <2>3, FS_EmptySet
  <2> QED BY <2>1, <2>4 DEF Shrunk, Tally
<1>2. MRTyped /\ Shrunk /\ Tally /\ [Next]_vars => (MRTyped /\ Shrunk /\ Tally)'
  BY MRTypeNext, ShrunkNext, TallyNext
<1>3. Tally => RunsBounded
  BY DEF Tally, RunsBounded, RunsOf
<1> QED BY <1>1, <1>2, <1>3, PTL DEF Spec

=============================================================================
