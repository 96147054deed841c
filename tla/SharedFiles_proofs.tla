------------------------- MODULE SharedFiles_proofs -------------------------
(***************************************************************************)
(* The files several processes share: the dashboard's reading of a state   *)
(* that is being rewritten, bad cases merged by several runs, and the      *)
(* cached answers of container runtimes.                                   *)
(***************************************************************************)
EXTENDS Badcase, SandboxRuntime, Dashboard, TLAPS

-----------------------------------------------------------------------------
(* The listing of runs *)

\* One file at most is there, unfinished or with the last save, and it stays.
FileInv ==
  /\ saves \in Nat
  /\ held \in [RunTypes -> {Missing, Torn, TornInside, saves}]
  /\ \A f, g \in RunTypes : held[f] # Missing /\ held[g] # Missing => f = g
  /\ saves > 0 => \E f \in RunTypes : held[f] # Missing
  /\ saving \in RunTypes \cup {"none"}
  /\ saving # "none" => held[saving] \in Unfinished

\* While the listing looks at the second file the first was missing: what had been saved
\* before is in the second.
ReaderInv ==
  /\ before \in Nat /\ before <= saves
  /\ dstep \in {"idle", "look", "read", "listed", "raised"}
  /\ dstep \in {"look", "read"} =>
       reading \in RunTypes /\ attempts \in Nat /\ attempts < Attempts /\ seen \subseteq {Torn}
  /\ dstep = "look" => attempts = 0
  /\ dstep = "look" /\ reading = "mr" /\ before > 0 => held["mr"] # Missing
  /\ dstep = "read" => held[reading] # Missing

ListInv == FileInv /\ ReaderInv /\ ListingTrue

\* A save, or its end, leaves a file there, and reports no older state.
LEMMA RunSaves ==
  ASSUME ListInv,
         (\E f \in RunTypes : BeginSave(f)) \/ WritePart \/ EndSave \/ CrashSave
           \/ WriteAnalysis
  PROVE  ListInv'
<1>1. /\ UNCHANGED <<dstep, reading, attempts, entry, before, seen>>
      /\ saves' \in {saves, saves + 1}
      /\ \A f \in RunTypes : held[f] # Missing => held'[f] # Missing
      /\ FileInv'
  <2>1. CASE \E f \in RunTypes : BeginSave(f)
    BY <2>1 DEF BeginSave, readerVars, ListInv, FileInv, Missing, Torn, TornInside, Unfinished
  <2>2. CASE EndSave
    BY <2>2 DEF EndSave, readerVars, ListInv, FileInv, Missing, Torn, TornInside, Unfinished
  <2>3. CASE CrashSave \/ WriteAnalysis
    BY <2>3 DEF CrashSave, WriteAnalysis, readerVars, ListInv, FileInv
  <2>4. CASE WritePart
    <3>1. PICK contents \in Unfinished : held' = [held EXCEPT ![saving] = contents]
      BY <2>4 DEF WritePart
    <3>2. saving \in RunTypes /\ UNCHANGED <<saving, saves, readerVars>>
      BY <2>4 DEF WritePart, ListInv, FileInv
    <3>3. held \in [RunTypes -> {Missing, Torn, TornInside, saves}] /\ FileInv
      BY DEF ListInv, FileInv
    <3>4. /\ held'[saving] = contents
          /\ \A f \in RunTypes \ {saving} : held'[f] = held[f]
      BY <3>1, <3>2, <3>3
    <3>5. contents # Missing /\ contents \in {Missing, Torn, TornInside, saves}
      BY <3>1 DEF Missing, Torn, TornInside, Unfinished
    <3>6. held' \in [RunTypes -> {Missing, Torn, TornInside, saves}]
      BY <3>1, <3>3, <3>5
    <3>7. held[saving] # Missing
      BY <3>2, <3>3 DEF FileInv, RunTypes, Missing, Torn, TornInside, Unfinished
    <3>8. \A f \in RunTypes : held'[f] # Missing <=> held[f] # Missing
      BY <3>4, <3>5, <3>7
    <3>9. FileInv'
      BY <3>1, <3>2, <3>3, <3>4, <3>6, <3>8 DEF FileInv
    <3> QED BY <3>2, <3>3, <3>8, <3>9 DEF readerVars
  <2> QED BY <2>1, <2>2, <2>3, <2>4
<1>2. ReaderInv'
  BY <1>1 DEF ListInv, FileInv, ReaderInv, RunTypes
<1>3. ListingTrue'
  BY <1>1 DEF ListInv, FileInv, ReaderInv, ListingTrue
<1> QED BY <1>1, <1>2, <1>3 DEF ListInv

\* The listing changes no file.
LEMMA FilesRead == ASSUME FileInv, UNCHANGED writerVars PROVE FileInv'
BY DEF writerVars, FileInv

\* Looking for the file of a run.
LEMMA RunLooked ==
  ASSUME ListInv, ScanRun \/ Exists \/ LookFurther
  PROVE  ListInv'
<1>1. FileInv' /\ UNCHANGED <<held, saves>>
  BY FilesRead DEF ScanRun, Exists, LookFurther, writerVars, ListInv
<1>2. CASE ScanRun
  BY <1>1, <1>2, DashboardConstants DEF ScanRun, ListInv, FileInv, ReaderInv, ListingTrue, RunTypes
<1>3. CASE Exists
  BY <1>1, <1>3 DEF Exists, ListInv, ReaderInv, ListingTrue
<1>4. CASE LookFurther
  <2>1. /\ dstep = "look" /\ held[reading] = Missing /\ UNCHANGED <<attempts, before, seen>>
        /\ attempts = 0 /\ reading \in RunTypes
    BY <1>4 DEF LookFurther, ListInv, ReaderInv
  <2>2. CASE reading = "loop" /\ reading' = "mr" /\ UNCHANGED <<dstep, entry>>
    <3>1. before > 0 => held["mr"] # Missing
      BY <2>1, <2>2 DEF ListInv, FileInv, ReaderInv, RunTypes
    <3> QED BY <1>1, <2>1, <2>2, <3>1 DEF ListInv, ReaderInv, ListingTrue, RunTypes
  <2>3. CASE /\ reading = "mr" /\ dstep' = "listed" /\ UNCHANGED reading
             /\ entry' = Entry(IF analysis THEN "analyze" ELSE "none", 0)
    <3>1. before = 0
      BY <2>1, <2>3 DEF ListInv, ReaderInv
    <3>2. entry'.type \in {"analyze", "none"}
      BY <2>3 DEF Entry
    <3> QED BY <1>1, <2>1, <2>3, <3>1, <3>2 DEF ListInv, ReaderInv, ListingTrue, RunTypes
  <2> QED BY <1>4, <2>2, <2>3 DEF LookFurther
<1> QED BY <1>2, <1>3, <1>4

\* An attempt to read it.
LEMMA RunRead ==
  ASSUME ListInv, ReadState \/ DecodeFails
  PROVE  ListInv'
<1>1. FileInv' /\ UNCHANGED <<held, saves>>
  BY FilesRead DEF ReadState, DecodeFails, writerVars, ListInv
<1>2. /\ dstep = "read" /\ attempts' = attempts + 1 /\ seen' = seen \cup {held[reading]}
      /\ UNCHANGED <<reading, before>>
  BY DEF ReadState, DecodeFails
<1>3. /\ reading \in RunTypes /\ attempts \in Nat /\ attempts < Attempts /\ seen \subseteq {Torn}
      /\ before \in Nat /\ saves \in Nat /\ before <= saves /\ held[reading] # Missing
      /\ held[reading] \in {Torn, TornInside, saves}
  BY <1>2 DEF ListInv, FileInv, ReaderInv
<1>4. CASE /\ Readable(held[reading]) /\ held[reading] # TornInside
           /\ dstep' = "listed" /\ entry' = Entry(reading, held[reading])
  <2>1. entry'.type \in RunTypes /\ entry'.save = saves /\ saves # 0
    BY <1>3, <1>4 DEF Readable, Entry, Missing
  <2> QED BY <1>1, <1>2, <1>3, <1>4, <2>1 DEF ListInv, ReaderInv, ListingTrue, RunTypes
<1>5. CASE ~Readable(held[reading]) /\ attempts' < Attempts /\ UNCHANGED <<dstep, entry>>
  BY <1>1, <1>2, <1>3, <1>5 DEF Readable, ListInv, ReaderInv, ListingTrue
<1>6. CASE /\ ~Readable(held[reading]) /\ attempts' = Attempts
           /\ dstep' = "listed" /\ entry' = Entry("none", 0)
  <2>1. entry'.type = "none" /\ seen' = {Torn}
    BY <1>2, <1>3, <1>6 DEF Readable, Entry
  <2>2. ReaderInv'
    BY <1>1, <1>2, <1>3, <1>6 DEF ReaderInv
  <2>3. ListingTrue'
    <3>1. attempts' # 0 /\ entry'.type \notin RunTypes
      BY <1>2, <1>3, <2>1 DEF RunTypes
    <3> QED BY <1>6, <2>1, <3>1 DEF ListingTrue
  <2> QED BY <1>1, <2>2, <2>3 DEF ListInv
<1>7. CASE held[reading] = TornInside /\ dstep' = "raised"
  BY <1>1, <1>2, <1>3, <1>7 DEF ListInv, ReaderInv, ListingTrue
<1> QED BY <1>4, <1>5, <1>6, <1>7 DEF ReadState, DecodeFails

\* A listed run shows a state no older than the last one saved before the listing began,
\* and a listing fails only over a file cut inside a character, for any number of saves,
\* crashes and attempts.
THEOREM ListingIsTrue == SpecDashboard => []ListingTrue
<1>1. InitDashboard => ListInv
  BY DEF InitDashboard, ListInv, FileInv, ReaderInv, ListingTrue, RunTypes, Missing
<1>2. ListInv /\ [NextDashboard]_dashboardVars => ListInv'
  <2>1. ListInv /\ UNCHANGED dashboardVars => ListInv'
    BY DEF dashboardVars, writerVars, readerVars, ListInv, FileInv, ReaderInv, ListingTrue
  <2> QED BY <2>1, RunSaves, RunLooked, RunRead DEF NextDashboard
<1>3. ListInv => ListingTrue
  BY DEF ListInv
<1> QED BY <1>1, <1>2, <1>3, PTL DEF SpecDashboard

-----------------------------------------------------------------------------
(* The bad case library *)

LibEntries == [num : Nat, title : Titles, by : SUBSET Mergers]
Merges  == [step : {"start", "adjudicate", "end"}, number : Nat, titles : SUBSET Titles,
            candidates : Seq(Titles \cup {Malformed}), text : Seq(LibEntries)]

LibraryType ==
  /\ library \in Seq(LibEntries)
  /\ merger \in [Mergers -> Merges]
  /\ began \in [Mergers -> SUBSET Mergers]

Before(e, f) == e.num < f.num /\ e.title # f.title

\* merge q goes on without e's number and title, and so does its text
Knows(q, e) ==
  /\ e.num < q.number /\ e.title \in q.titles
  /\ \A k \in 1..Len(q.text) : Before(e, q.text[k])

\* the text of m's merge q: entries of its own, their numbers going up to the next one
TextInv(m, q) ==
  /\ \A k \in 1..Len(q.text) :
       q.text[k].by = {m} /\ q.text[k].num < q.number /\ q.text[k].title \in q.titles
  /\ \A k, l \in 1..Len(q.text) : k < l => Before(q.text[k], q.text[l])

MergeInv ==
  \A m \in Mergers :
    /\ TextInv(m, merger[m])
    /\ merger[m].step = "adjudicate" => Knows(merger[m], Base)
    /\ \A n \in began[m] : merger[n].step = "end"

\* an entry is of one merge that has ended, and later merges knew it
EntryInv ==
  \A i \in 1..Len(library) :
    /\ Before(Base, library[i])
    /\ \E m \in Mergers :
         /\ library[i].by = {m} /\ merger[m].step = "end"
         /\ \A n \in Mergers :
              m \in began[n] /\ merger[n].step = "adjudicate" => Knows(merger[n], library[i])

\* of two entries of merges one of which had ended, or of one merge
OrderInv ==
  \A i, j \in 1..Len(library) : \A m \in library[i].by, n \in library[j].by :
    m \in began[n] \/ (m = n /\ i < j) => Before(library[i], library[j])

TopInv == \E top \in Existing : \A e \in Existing : e.num <= top.num

LibraryInv == LibraryType /\ MergeInv /\ EntryInv /\ OrderInv /\ TopInv

\* What a sequence of entries holds.
LEMMA EntryTypes ==
  ASSUME NEW s \in Seq(LibEntries), NEW i \in 1..Len(s)
  PROVE  s[i] \in LibEntries /\ s[i].num \in Nat /\ s[i].by \subseteq Mergers
<1>1. s[i] \in LibEntries
  OBVIOUS
<1> QED BY <1>1 DEF LibEntries

\* What is known of the library itself holds while it stays the same.
LEMMA LibraryKept ==
  ASSUME OrderInv, TopInv, UNCHANGED <<library, began>>
  PROVE  OrderInv' /\ TopInv'
<1>1. Existing' = Existing
  BY DEF Existing, Base
<1>2. TopInv'
  BY <1>1 DEF TopInv
<1>3. OrderInv'
  BY DEF OrderInv, Before
<1> QED BY <1>2, <1>3

Numbers == {e.num : e \in Existing} \cup {0}

\* The next number is above all there are.
LEMMA NextNumber ==
  ASSUME LibraryType, TopInv
  PROVE  Max(Numbers) \in Nat /\ \A e \in Existing : e.num < Max(Numbers) + 1
<1>1. PICK top \in Existing : \A e \in Existing : e.num <= top.num
  BY DEF TopInv
<1>2. \A e \in Existing : e.num \in Nat
  <2>1. \A i \in 1..Len(library) : library[i] \in LibEntries
    BY DEF LibraryType
  <2> QED BY <2>1 DEF Existing, LibEntries, Base
<1>3. top.num \in Numbers /\ \A x \in Numbers : x <= top.num /\ x \in Nat
  BY <1>1, <1>2 DEF Numbers
<1>4. Max(Numbers) \in Numbers /\ \A x \in Numbers : x <= Max(Numbers)
  BY <1>3 DEF Max
<1>5. \A e \in Existing : e.num \in Numbers
  BY DEF Numbers
<1> QED BY <1>2, <1>3, <1>4, <1>5

\* A merge begins.
LEMMA LibraryRead ==
  ASSUME LibraryInv, NEW m \in Mergers, ReadLibrary(m)
  PROVE  LibraryInv'
<1>1. PICK c \in SeqOf(Titles \cup {Malformed}, MaxCandidates) :
        merger' = [merger EXCEPT ![m] =
          [step |-> "adjudicate", number |-> Max(Numbers) + 1,
           titles |-> {e.title : e \in Existing}, candidates |-> c, text |-> <<>>]]
  BY DEF ReadLibrary, Numbers
<1>2. c \in Seq(Titles \cup {Malformed})
  BY BadcaseConstants DEF SeqOf
<1>3. Max(Numbers) \in Nat /\ \A e \in Existing : e.num < Max(Numbers) + 1
  BY NextNumber DEF LibraryInv
<1>4. {e.title : e \in Existing} \subseteq Titles
  <2>1. \A i \in 1..Len(library) : library[i] \in LibEntries
    BY DEF LibraryInv, LibraryType
  <2> QED BY <2>1, BadcaseConstants DEF Existing, LibEntries, Base
<1>5. /\ merger[m].step = "start" /\ UNCHANGED library
      /\ began' = [began EXCEPT ![m] = {n \in Mergers : merger[n].step = "end"}]
  BY DEF ReadLibrary
<1>6. LibraryType'
  BY <1>1, <1>2, <1>3, <1>4, <1>5 DEF LibraryInv, LibraryType, Merges
<1>7. \A n \in Mergers : n # m => merger'[n] = merger[n] /\ began'[n] = began[n]
  BY <1>1, <1>5 DEF LibraryInv, LibraryType
<1>8. merger'[m].step = "adjudicate" /\ merger'[m].text = <<>>
      /\ began'[m] = {n \in Mergers : merger[n].step = "end"}
  BY <1>1, <1>5 DEF LibraryInv, LibraryType
<1>9. \A e \in Existing : Knows(merger'[m], e)
  BY <1>1, <1>3 DEF Knows, LibraryInv, LibraryType
<1>10. MergeInv'
  <2>1. Knows(merger'[m], Base) /\ TextInv(m, merger'[m])
    BY <1>8, <1>9 DEF Existing, TextInv
  <2>2. \A n \in Mergers : \A k \in began'[n] : merger'[k].step = "end"
    BY <1>5, <1>7, <1>8 DEF LibraryInv, LibraryType, MergeInv
  <2>3. \A n \in Mergers : n # m => TextInv(n, merger'[n])
                        /\ (merger'[n].step = "adjudicate" => Knows(merger'[n], Base))
    BY <1>7 DEF LibraryInv, MergeInv
  <2>4. Base' = Base
    BY DEF Base
  <2> QED BY <2>1, <2>2, <2>3, <2>4 DEF MergeInv
<1>11. EntryInv'
  <2> SUFFICES ASSUME NEW i \in 1..Len(library)
               PROVE  /\ Before(Base, library[i])
                      /\ \E n \in Mergers :
                           /\ library[i].by = {n} /\ merger'[n].step = "end"
                           /\ \A k \in Mergers : n \in began'[k] /\ merger'[k].step = "adjudicate"
                                                   => Knows(merger'[k], library[i])
    BY <1>5 DEF EntryInv, Base
  <2>1. PICK n \in Mergers :
          /\ library[i].by = {n} /\ merger[n].step = "end"
          /\ \A k \in Mergers : n \in began[k] /\ merger[k].step = "adjudicate"
                                  => Knows(merger[k], library[i])
    BY DEF LibraryInv, EntryInv
  <2>2. n # m
    BY <1>5, <2>1
  <2>3. Knows(merger'[m], library[i])
    BY <1>9 DEF Existing
  <2> QED BY <1>7, <2>1, <2>2, <2>3 DEF LibraryInv, EntryInv
<1>12. \A i \in 1..Len(library) : m \notin library[i].by
  BY <1>5 DEF LibraryInv, EntryInv
<1>13. OrderInv'
  BY <1>5, <1>7, <1>12 DEF LibraryInv, LibraryType, LibEntries, OrderInv
<1>14. TopInv'
  BY <1>5 DEF LibraryInv, TopInv, Existing, Base
<1> QED BY <1>6, <1>10, <1>11, <1>13, <1>14 DEF LibraryInv

\* A candidate is rejected.
LEMMA CandidateRejected ==
  ASSUME LibraryInv, NEW m \in Mergers, Reject(m)
  PROVE  LibraryInv'
<1>1. /\ UNCHANGED <<library, began>> /\ merger[m].candidates # <<>>
      /\ merger' = [merger EXCEPT ![m].candidates = Tail(@)]
  BY DEF Reject
<1>2. Tail(merger[m].candidates) \in Seq(Titles \cup {Malformed})
  BY <1>1 DEF LibraryInv, LibraryType, Merges
<1>3. LibraryType'
  BY <1>1, <1>2 DEF LibraryInv, LibraryType, Merges
<1>4. \A n \in Mergers : /\ merger'[n].step = merger[n].step /\ merger'[n].number = merger[n].number
                         /\ merger'[n].titles = merger[n].titles
                         /\ merger'[n].text = merger[n].text
  BY <1>1 DEF LibraryInv, LibraryType, Merges
<1>5. MergeInv' /\ EntryInv'
  BY <1>1, <1>4 DEF LibraryInv, MergeInv, EntryInv, TextInv, Knows, Base, Before
<1>6. OrderInv' /\ TopInv'
  BY <1>1, LibraryKept DEF LibraryInv
<1> QED BY <1>3, <1>5, <1>6 DEF LibraryInv

\* A candidate gets the next number.
LEMMA CandidateAdmitted ==
  ASSUME LibraryInv, NEW m \in Mergers, Admit(m)
  PROVE  LibraryInv'
<1> DEFINE new == [num |-> merger[m].number, title |-> Adjudicated(m), by |-> {m}]
           q   == merger[m]
           r   == merger'[m]
<1>1. /\ UNCHANGED <<library, began>> /\ q.step = "adjudicate" /\ q.candidates # <<>>
      /\ Adjudicated(m) \in Titles /\ Adjudicated(m) \notin q.titles
      /\ merger' = [merger EXCEPT ![m].candidates = Tail(@), ![m].number = @ + 1,
                      ![m].titles = @ \cup {Adjudicated(m)}, ![m].text = Append(@, new)]
  BY DEF Admit
<1>2. q \in Merges /\ merger \in [Mergers -> Merges]
  BY DEF LibraryInv, LibraryType
<1>3. /\ Tail(q.candidates) \in Seq(Titles \cup {Malformed}) /\ q.text \in Seq(LibEntries)
      /\ q.number \in Nat
  BY <1>1, <1>2 DEF Merges
<1>4. new \in LibEntries /\ Append(q.text, new) \in Seq(LibEntries)
  BY <1>1, <1>3 DEF LibEntries
<1>5. LibraryType'
  BY <1>1, <1>2, <1>3, <1>4 DEF LibraryInv, LibraryType, Merges
<1>6. \A n \in Mergers : n # m => merger'[n] = merger[n]
  BY <1>1, <1>2
<1>7. /\ r.step = q.step /\ r.number = q.number + 1
      /\ r.titles = q.titles \cup {Adjudicated(m)} /\ r.text = Append(q.text, new)
  BY <1>1, <1>2 DEF Merges
<1>8. \A k \in 1..Len(r.text) :
        r.text[k] = new \/ (k \in 1..Len(q.text) /\ r.text[k] = q.text[k])
  BY <1>3, <1>7
<1>9. Len(r.text) = Len(q.text) + 1 /\ Len(q.text) \in Nat
      /\ \A k \in 1..Len(q.text) : r.text[k] = q.text[k]
  BY <1>3, <1>7
<1>10. \A e : Knows(q, e) => e.num < q.number /\ e.title \in q.titles
  BY DEF Knows
<1>11. \A e \in Existing : Knows(q, e) => Knows(r, e)
  <2> SUFFICES ASSUME NEW e \in Existing, Knows(q, e) PROVE Knows(r, e)
    OBVIOUS
  <2>1. e.num \in Nat
    <3>1. \A i \in 1..Len(library) : library[i] \in LibEntries
      BY DEF LibraryInv, LibraryType
    <3> QED BY <3>1 DEF Existing, LibEntries, Base
  <2>2. Before(e, new)
    BY <1>1, <1>10 DEF Before
  <2>3. e.num < r.number /\ e.title \in r.titles
    BY <1>3, <1>7, <1>10, <2>1
  <2> QED BY <1>8, <2>2, <2>3 DEF Knows
<1>12. TextInv(m, r)
  <2>1. TextInv(m, q)
    BY DEF LibraryInv, MergeInv
  <2>2. \A k \in 1..Len(q.text) : Before(q.text[k], new)
    BY <1>1, <2>1 DEF TextInv, Before
  <2>3. \A k \in 1..Len(q.text) : q.text[k].num \in Nat
    BY <1>3, EntryTypes
  <2>4. \A k \in 1..Len(r.text) :
          r.text[k].by = {m} /\ r.text[k].num < r.number /\ r.text[k].title \in r.titles
    BY <1>3, <1>7, <1>8, <2>1, <2>3 DEF TextInv
  <2>5. \A k, l \in 1..Len(r.text) : k < l => Before(r.text[k], r.text[l])
    <3> SUFFICES ASSUME NEW k \in 1..Len(r.text), NEW l \in 1..Len(r.text), k < l
                 PROVE  Before(r.text[k], r.text[l])
      OBVIOUS
    <3>1. k \in 1..Len(q.text) /\ r.text[k] = q.text[k]
      BY <1>9
    <3>2. CASE l \in 1..Len(q.text)
      BY <1>9, <2>1, <3>1, <3>2 DEF TextInv
    <3>3. CASE l = Len(q.text) + 1
      <4>1. r.text[l] = new
        BY <1>3, <1>7, <3>3
      <4> QED BY <2>2, <3>1, <4>1
    <3> QED BY <1>9, <3>2, <3>3
  <2> QED BY <2>4, <2>5 DEF TextInv
<1>13. MergeInv'
  <2>1. Base' = Base /\ Base \in Existing
    BY DEF Base, Existing
  <2>2. Knows(r, Base)
    BY <1>1, <1>11, <2>1 DEF LibraryInv, MergeInv
  <2>3. \A n \in Mergers : merger'[n].step = merger[n].step
    BY <1>6, <1>7
  <2> QED BY <1>1, <1>6, <1>12, <2>1, <2>2, <2>3 DEF LibraryInv, LibraryType, MergeInv
<1>14. EntryInv'
  <2>1. \A n \in Mergers : merger'[n].step = merger[n].step
    BY <1>6, <1>7
  <2>2. \A i \in 1..Len(library) : library[i] \in Existing
    BY DEF Existing
  <2>3. \A i \in 1..Len(library), n \in Mergers :
          Knows(merger[n], library[i]) => Knows(merger'[n], library[i])
    BY <1>6, <1>11, <2>2
  <2> SUFFICES ASSUME NEW i \in 1..Len(library)
               PROVE  /\ Before(Base, library[i])
                      /\ \E n \in Mergers :
                           /\ library[i].by = {n} /\ merger'[n].step = "end"
                           /\ \A k \in Mergers : n \in began[k] /\ merger'[k].step = "adjudicate"
                                                   => Knows(merger'[k], library[i])
    BY <1>1 DEF EntryInv, Base
  <2>4. PICK n \in Mergers :
          /\ library[i].by = {n} /\ merger[n].step = "end"
          /\ \A k \in Mergers : n \in began[k] /\ merger[k].step = "adjudicate"
                                  => Knows(merger[k], library[i])
    BY DEF LibraryInv, EntryInv
  <2>5. \A k \in Mergers : n \in began[k] /\ merger'[k].step = "adjudicate"
                             => Knows(merger'[k], library[i])
    BY <2>1, <2>3, <2>4
  <2> QED BY <2>1, <2>4, <2>5 DEF LibraryInv, EntryInv
<1>15. OrderInv' /\ TopInv'
  BY <1>1, LibraryKept DEF LibraryInv
<1> QED BY <1>5, <1>13, <1>14, <1>15 DEF LibraryInv

\* A merge appends its text.
LEMMA LibraryAppended ==
  ASSUME LibraryInv, NEW m \in Mergers, AppendLibrary(m)
  PROVE  LibraryInv'
<1> DEFINE q == merger[m]
<1>1. /\ q.step = "adjudicate" /\ library' = library \o q.text /\ UNCHANGED began
      /\ merger' = [merger EXCEPT ![m].step = "end"]
  BY DEF AppendLibrary
<1>2. /\ q \in Merges /\ merger \in [Mergers -> Merges] /\ q.text \in Seq(LibEntries)
      /\ library \in Seq(LibEntries)
  BY DEF LibraryInv, LibraryType, Merges
<1>3. LibraryType'
  <2>1. library \o q.text \in Seq(LibEntries)
    BY <1>2
  <2>2. merger' \in [Mergers -> Merges]
    BY <1>1, <1>2 DEF Merges
  <2> QED BY <1>1, <2>1, <2>2 DEF LibraryInv, LibraryType
<1>4. /\ \A n \in Mergers : n # m => merger'[n] = merger[n]
      /\ merger'[m].step = "end" /\ merger'[m].number = q.number
      /\ merger'[m].titles = q.titles /\ merger'[m].text = q.text
  BY <1>1, <1>2 DEF Merges
<1>5. /\ Len(library') = Len(library) + Len(q.text) /\ Len(library) \in Nat /\ Len(q.text) \in Nat
      /\ \A i \in 1..Len(library) : library'[i] = library[i]
      /\ \A k \in 1..Len(q.text) : library'[Len(library) + k] = q.text[k]
  BY <1>1, <1>2
<1>6. \A i \in 1..Len(library') : i \notin 1..Len(library) =>
        i - Len(library) \in 1..Len(q.text) /\ library'[i] = q.text[i - Len(library)]
  BY <1>5
<1>7. TextInv(m, q) /\ Knows(q, Base) /\ Base' = Base
  BY <1>1 DEF LibraryInv, MergeInv, Base
<1>8. \A n \in Mergers : m \notin began[n]
  BY <1>1 DEF LibraryInv, MergeInv
<1>9. MergeInv'
  BY <1>1, <1>4, <1>7, <1>8 DEF LibraryInv, MergeInv, TextInv
<1>10. \A i \in 1..Len(library) : m \notin library[i].by
  BY <1>1 DEF LibraryInv, EntryInv
<1>11. EntryInv'
  <2> SUFFICES ASSUME NEW i \in 1..Len(library')
               PROVE  /\ Before(Base, library'[i])
                      /\ \E n \in Mergers :
                           /\ library'[i].by = {n} /\ merger'[n].step = "end"
                           /\ \A k \in Mergers : n \in began[k] /\ merger'[k].step = "adjudicate"
                                                   => Knows(merger'[k], library'[i])
    BY <1>1, <1>7 DEF EntryInv
  <2>1. CASE i \in 1..Len(library)
    <3>1. library'[i] = library[i]
      BY <1>5, <2>1
    <3>2. PICK n \in Mergers :
            /\ library[i].by = {n} /\ merger[n].step = "end"
            /\ \A k \in Mergers : n \in began[k] /\ merger[k].step = "adjudicate"
                                    => Knows(merger[k], library[i])
      BY <2>1 DEF LibraryInv, EntryInv
    <3>3. merger'[n].step = "end"
      BY <1>4, <3>2
    <3>4. \A k \in Mergers : n \in began[k] /\ merger'[k].step = "adjudicate"
                               => Knows(merger'[k], library[i])
      BY <1>4, <3>2
    <3> QED BY <2>1, <3>1, <3>2, <3>3, <3>4 DEF LibraryInv, EntryInv
  <2>2. CASE i \notin 1..Len(library)
    <3>1. i - Len(library) \in 1..Len(q.text) /\ library'[i] = q.text[i - Len(library)]
      BY <1>6, <2>2
    <3> QED BY <1>4, <1>7, <1>8, <3>1 DEF Knows, TextInv
  <2> QED BY <2>1, <2>2
<1>12. OrderInv'
  <2> SUFFICES ASSUME NEW i \in 1..Len(library'), NEW j \in 1..Len(library'),
                      NEW n \in library'[i].by, NEW k \in library'[j].by,
                      n \in began[k] \/ (n = k /\ i < j)
               PROVE  Before(library'[i], library'[j])
    BY <1>1 DEF OrderInv
  <2>1. CASE i \in 1..Len(library) /\ j \in 1..Len(library)
    BY <1>5, <2>1 DEF LibraryInv, OrderInv
  <2>2. CASE i \in 1..Len(library) /\ j \notin 1..Len(library)
    <3>1. j - Len(library) \in 1..Len(q.text) /\ library'[j] = q.text[j - Len(library)]
          /\ library'[i] = library[i]
      BY <1>5, <1>6, <2>2
    <3>2. k = m
      BY <1>7, <3>1 DEF TextInv
    <3>3. n \in began[m]
      BY <1>10, <2>2, <3>1, <3>2
    <3>4. Knows(q, library[i])
      BY <1>1, <2>2, <3>1, <3>3 DEF LibraryInv, EntryInv
    <3> QED BY <3>1, <3>4 DEF Knows
  <2>3. CASE i \notin 1..Len(library)
    <3>1. i - Len(library) \in 1..Len(q.text) /\ library'[i] = q.text[i - Len(library)]
      BY <1>6, <2>3
    <3>2. n = m
      BY <1>7, <3>1 DEF TextInv
    <3>3. k \in Mergers
      BY <1>3, EntryTypes DEF LibraryType
    <3>4. k = m /\ i < j
      BY <1>8, <3>2, <3>3
    <3>5. j \notin 1..Len(library)
      BY <1>5, <2>3, <3>4
    <3>6. j - Len(library) \in 1..Len(q.text) /\ library'[j] = q.text[j - Len(library)]
          /\ i - Len(library) < j - Len(library)
      BY <1>5, <1>6, <3>4, <3>5
    <3> QED BY <1>7, <3>1, <3>6 DEF TextInv
  <2> QED BY <2>1, <2>2, <2>3
<1>13. TopInv'
  <2>1. PICK top \in Existing : \A e \in Existing : e.num <= top.num
    BY DEF LibraryInv, TopInv
  <2>2. \A e \in Existing' : e \in Existing \/ \E k \in 1..Len(q.text) : e = q.text[k]
    <3>1. \A i \in 1..Len(library') :
            library'[i] \in Existing \/ \E k \in 1..Len(q.text) : library'[i] = q.text[k]
      BY <1>5, <1>6 DEF Existing
    <3> QED BY <3>1 DEF Existing, Base
  <2>3. Existing \subseteq Existing' /\ \A k \in 1..Len(q.text) : q.text[k] \in Existing'
    <3>1. \A i \in 1..Len(library) : i \in 1..Len(library')
      BY <1>5
    <3>2. \A k \in 1..Len(q.text) : Len(library) + k \in 1..Len(library')
      BY <1>5
    <3> QED BY <1>5, <3>1, <3>2 DEF Existing, Base
  <2>4. \A e \in Existing' : e.num \in Nat
    <3>1. \A i \in 1..Len(library') : library'[i] \in LibEntries
      BY <1>3 DEF LibraryType
    <3> QED BY <3>1 DEF Existing, LibEntries, Base
  <2>5. CASE q.text = <<>>
    BY <1>2, <2>1, <2>2, <2>3, <2>5 DEF TopInv
  <2>6. CASE q.text # <<>>
    <3> DEFINE t == q.text[Len(q.text)]
    <3>1. Len(q.text) \in 1..Len(q.text)
      BY <1>2, <2>6
    <3>2. t \in Existing' /\ top \in Existing'
      BY <2>1, <2>3, <3>1
    <3>3. \A k \in 1..Len(q.text) : q.text[k].num <= t.num
      <4> SUFFICES ASSUME NEW k \in 1..Len(q.text) PROVE q.text[k].num <= t.num
        OBVIOUS
      <4>1. q.text[k].num \in Nat /\ t.num \in Nat
        BY <1>2, <3>1, EntryTypes
      <4>2. CASE k < Len(q.text)
        BY <1>7, <3>1, <4>1, <4>2 DEF TextInv, Before
      <4>3. CASE k = Len(q.text)
        BY <4>1, <4>3
      <4> QED BY <1>5, <4>2, <4>3
    <3> HIDE DEF t
    <3>4. CASE t.num <= top.num
      <4>1. \A e \in Existing' : e.num <= top.num
        BY <2>1, <2>2, <2>3, <2>4, <3>2, <3>3, <3>4
      <4> QED BY <3>2, <4>1 DEF TopInv
    <3>5. CASE top.num <= t.num
      <4>1. \A e \in Existing' : e.num <= t.num
        BY <2>1, <2>2, <2>3, <2>4, <3>2, <3>3, <3>5
      <4> QED BY <3>2, <4>1 DEF TopInv
    <3> QED BY <2>4, <3>2, <3>4, <3>5
  <2> QED BY <2>5, <2>6
<1> QED BY <1>3, <1>9, <1>11, <1>12, <1>13 DEF LibraryInv

\* Where no two merges overlap no two entries share a number or a title, for any number
\* of merges and candidates.
THEOREM ClashesOverlap == SpecBadcase => []ClashOnlyByOverlap
<1>1. InitBadcase => LibraryInv
  <2> SUFFICES ASSUME InitBadcase PROVE LibraryInv
    OBVIOUS
  <2>1. library = <<>> /\ merger = [m \in Mergers |-> Idle] /\ began = [m \in Mergers |-> {}]
    BY DEF InitBadcase
  <2>2. LibraryType
    BY <2>1 DEF LibraryType, Merges, Idle
  <2>3. MergeInv
    BY <2>1 DEF MergeInv, TextInv, Idle
  <2>4. EntryInv /\ OrderInv
    BY <2>1 DEF EntryInv, OrderInv
  <2>5. TopInv
    <3>1. Existing = {Base}
      BY <2>1 DEF Existing
    <3> QED BY <3>1 DEF TopInv, Base
  <2> QED BY <2>2, <2>3, <2>4, <2>5 DEF LibraryInv
<1>2. LibraryInv /\ [NextBadcase]_badcaseVars => LibraryInv'
  <2>1. LibraryInv /\ UNCHANGED badcaseVars => LibraryInv'
    <3>1. UNCHANGED badcaseVars /\ MergeInv /\ EntryInv => MergeInv' /\ EntryInv'
      BY DEF badcaseVars, MergeInv, EntryInv, TextInv, Knows, Before, Base
    <3> QED BY <3>1, LibraryKept DEF badcaseVars, LibraryInv, LibraryType
  <2> QED BY <2>1, LibraryRead, CandidateRejected, CandidateAdmitted, LibraryAppended
          DEF NextBadcase, RestBadcase
<1>3. LibraryInv => ClashOnlyByOverlap
  <2> SUFFICES ASSUME LibraryInv PROVE ClashOnlyByOverlap
    OBVIOUS
  <2>1. \A i \in 1..Len(library) : library[i].num \in Nat
    BY EntryTypes DEF LibraryInv, LibraryType
  <2>2. \A i \in 1..Len(library) : library[i].num # Base.num /\ library[i].title # Base.title
    BY <2>1 DEF LibraryInv, EntryInv, Before, Base
  <2>3. ASSUME NEW i \in 1..Len(library), NEW j \in 1..Len(library), i # j,
               library[i].num = library[j].num \/ library[i].title = library[j].title
        PROVE  \E m \in library[i].by, n \in library[j].by : Overlap(m, n)
    <3>1. PICK m \in Mergers : library[i].by = {m}
      BY DEF LibraryInv, EntryInv
    <3>2. PICK n \in Mergers : library[j].by = {n}
      BY DEF LibraryInv, EntryInv
    <3>3. ~Before(library[i], library[j]) /\ ~Before(library[j], library[i])
      BY <2>1, <2>3 DEF Before
    <3>4. m # n
      BY <2>3, <3>1, <3>2, <3>3 DEF LibraryInv, OrderInv
    <3>5. m \notin began[n] /\ n \notin began[m]
      BY <3>1, <3>2, <3>3 DEF LibraryInv, OrderInv
    <3> QED BY <3>1, <3>2, <3>4, <3>5 DEF Overlap
  <2> QED BY <2>2, <2>3 DEF ClashOnlyByOverlap
<1> QED BY <1>1, <1>2, <1>3, PTL DEF SpecBadcase

-----------------------------------------------------------------------------
(* The answers of container runtimes *)

Answers == {"yes", "no"}
Cached  == [RuntimeSet -> [ok : Answers \cup {"unknown"}, ts : Int]]
Asking  == {"ask", "probe", "merge", "write", "fill"}

Process ==
  [step : Asking \cup {"idle", "chosen", "ran", "failed"}, inside : BOOLEAN, shimmed : BOOLEAN,
   left : Seq(RuntimeSet), known : [RuntimeSet -> Answers \cup {"unknown"}],
   merged : Cached, chosen : RuntimeSet \cup {"host"}]

\* what is cached is no younger than a probe that said so
Backed(entries) ==
  \A rt \in RuntimeSet :
    entries[rt].ok # "unknown" => entries[rt].ts <= probed[rt][entries[rt].ok]

ProcessInv(q) ==
  /\ q \in Process /\ Backed(q.merged)
  /\ q.step \in Asking => q.left # <<>>
  /\ q.step \in {"merge", "write", "fill"} => q.known[Head(q.left)] # "unknown"
  /\ q.step = "merge" => time <= probed[Head(q.left)][q.known[Head(q.left)]]

RuntimeInv ==
  /\ time \in Nat
  /\ probed \in [RuntimeSet -> [Answers -> Int]]
  /\ \A rt \in RuntimeSet : \A ok \in Answers : probed[rt][ok] <= time
  /\ disk \in [torn : BOOLEAN, entries : Cached] /\ Backed(disk.entries)
  /\ proc \in [Procs -> Process] /\ \A p \in Procs : ProcessInv(proc[p])

\* A change from unknown is backed by a recent probe.
Recent(q, r) ==
  \A rt \in RuntimeSet :
    q.known[rt] = "unknown" /\ r.known[rt] # "unknown" => time - probed'[rt][r.known[rt]] < TTL

\* A process asks for the first runtime it has not asked for.
LEMMA HeadIsRuntime ==
  ASSUME NEW q \in Process, q.left # <<>>
  PROVE  Head(q.left) \in RuntimeSet /\ Tail(q.left) \in Seq(RuntimeSet)
BY DEF Process

\* There is a runtime to try.
LEMMA RuntimesToTry == Runtimes \in Seq(RuntimeSet) /\ Runtimes # <<>>
BY RuntimeConstants DEF RuntimeSet

\* A file that is torn or missing claims nothing.
LEMMA NothingCached == NoEntries \in Cached /\ Backed(NoEntries)
BY DEF NoEntries, Cached, Backed

\* What an answer does to a process.
LEMMA AnswerTaken ==
  ASSUME NEW q \in Process, q.left # <<>>, NEW ok \in Answers
  PROVE  /\ Answered(q, ok) \in Process
         /\ Answered(q, ok).merged = q.merged
         /\ Answered(q, ok).step \in {"ask", "chosen"}
         /\ Answered(q, ok).step = "ask" => Answered(q, ok).left # <<>>
         /\ Answered(q, ok).known = [q.known EXCEPT ![Head(q.left)] = ok]
<1> DEFINE with == [q EXCEPT !.known[Head(q.left)] = ok]
<1>1. Head(q.left) \in RuntimeSet /\ Tail(q.left) \in Seq(RuntimeSet)
  BY HeadIsRuntime
<1>2. /\ with \in Process /\ with.merged = q.merged
      /\ with.known = [q.known EXCEPT ![Head(q.left)] = ok]
  BY <1>1 DEF Process
<1>3. CASE ok = "yes"
  <2>1. Answered(q, ok) = [with EXCEPT !.step = "chosen", !.chosen = Head(q.left)]
    BY <1>3 DEF Answered
  <2> QED BY <1>1, <1>2, <2>1 DEF Process, Asking
<1>4. CASE ok = "no" /\ Tail(q.left) # <<>>
  <2>1. Answered(q, ok) = [with EXCEPT !.step = "ask", !.left = Tail(q.left)]
    BY <1>4 DEF Answered
  <2> QED BY <1>1, <1>2, <1>4, <2>1 DEF Process, Asking
<1>5. CASE ok = "no" /\ Tail(q.left) = <<>>
  <2>1. Answered(q, ok) = [with EXCEPT !.step = "chosen", !.chosen = "host"]
    BY <1>5 DEF Answered
  <2> QED BY <1>1, <1>2, <2>1 DEF Process, Asking
<1> QED BY <1>3, <1>4, <1>5 DEF Answers

AllRecent == \A p \in Procs : Recent(proc[p], proc'[p])

\* A process moves to r, and writes what is backed.
LEMMA ProcessMoved ==
  ASSUME RuntimeInv, NEW p \in Procs, NEW r, ProcessInv(r), Recent(proc[p], r),
         proc' = [proc EXCEPT ![p] = r], UNCHANGED <<time, probed>>,
         disk' \in [torn : BOOLEAN, entries : Cached], Backed(disk'.entries)
  PROVE  RuntimeInv' /\ AllRecent
<1>1. r \in Process /\ proc' \in [Procs -> Process]
  BY DEF RuntimeInv, ProcessInv
<1>2. \A o \in Procs : proc'[o] = IF o = p THEN r ELSE proc[o]
  BY DEF RuntimeInv
<1>3. \A o \in Procs : ProcessInv(proc'[o])
  BY <1>2 DEF RuntimeInv
<1>4. \A o \in Procs : ProcessInv(proc[o])'
  BY <1>3 DEF ProcessInv, Backed
<1>5. Backed(disk.entries)'
  BY DEF Backed
<1>6. \A q \in Process : Recent(q, q)
  BY DEF Recent
<1>7. AllRecent
  BY <1>2, <1>6 DEF RuntimeInv, AllRecent
<1> QED BY <1>1, <1>4, <1>5, <1>7 DEF RuntimeInv

\* A process asks for a sandbox, or is replaced by a new image.
LEMMA SandboxAsked ==
  ASSUME RuntimeInv, NEW p \in Procs, GetSandbox(p) \/ ExecHost(p) \/ RunPipe(p)
  PROVE  RuntimeInv' /\ AllRecent
<1> DEFINE q == proc[p]
<1>1. /\ UNCHANGED <<time, disk, probed>> /\ q \in Process /\ ProcessInv(q)
      /\ disk' \in [torn : BOOLEAN, entries : Cached] /\ Backed(disk'.entries)
  BY DEF GetSandbox, ExecHost, RunPipe, RuntimeInv
<1>2. CASE GetSandbox(p)
  <2>1. PICK shimmed \in BOOLEAN :
          proc' = [proc EXCEPT ![p] = [q EXCEPT !.step = "ask", !.left = Runtimes,
                                                !.shimmed = shimmed]]
    BY <1>2 DEF GetSandbox, RuntimeInv
  <2> DEFINE r == [q EXCEPT !.step = "ask", !.left = Runtimes, !.shimmed = shimmed]
  <2>2. ProcessInv(r) /\ r.known = q.known
    BY <1>1, RuntimesToTry DEF ProcessInv, Process, Asking
  <2>3. Recent(q, r)
    BY <2>2 DEF Recent
  <2> QED BY <1>1, <2>1, <2>2, <2>3, ProcessMoved
<1>3. CASE \E b \in BOOLEAN : proc' = [proc EXCEPT ![p] = Image(p, b)]
  <2>1. PICK b \in BOOLEAN : proc' = [proc EXCEPT ![p] = Image(p, b)]
    BY <1>3
  <2>2. ProcessInv(Image(p, b))
    BY RuntimesToTry, NothingCached DEF Image, Fresh, Unasked, ProcessInv, Process, Asking
  <2>3. Recent(q, Image(p, b))
    BY DEF Recent, Image, Fresh, Unasked
  <2> QED BY <1>1, <2>1, <2>2, <2>3, ProcessMoved
<1>4. CASE \E step \in {"ran", "failed"} : proc' = [proc EXCEPT ![p] = [q EXCEPT !.step = step]]
  <2>1. PICK step \in {"ran", "failed"} : proc' = [proc EXCEPT ![p] = [q EXCEPT !.step = step]]
    BY <1>4
  <2> DEFINE r == [q EXCEPT !.step = step]
  <2>2. ProcessInv(r) /\ r.known = q.known
    BY <1>1 DEF ProcessInv, Process, Asking
  <2>3. Recent(q, r)
    BY <2>2 DEF Recent
  <2> QED BY <1>1, <2>1, <2>2, <2>3, ProcessMoved
<1>5. CASE ExecHost(p)
  <2>1. CASE q.shimmed
    <3>1. proc' = [proc EXCEPT ![p] = Image(p, q.inside)]
      BY <1>1, <1>5, <2>1 DEF ExecHost, RuntimeInv, Image
    <3> QED BY <1>1, <1>3, <3>1 DEF Process
  <2>2. CASE ~q.shimmed
    <3>1. proc' = [proc EXCEPT ![p] = [q EXCEPT !.step = "ran"]]
      BY <1>1, <1>5, <2>2 DEF ExecHost, RuntimeInv
    <3> QED BY <1>4, <3>1
  <2> QED BY <2>1, <2>2
<1>6. CASE RunPipe(p)
  <2>1. CASE proc' = [proc EXCEPT ![p].step = "failed"]
    BY <1>4, <2>1 DEF RuntimeInv
  <2>2. CASE q.shimmed /\ proc' = [proc EXCEPT ![p] = IF @.shimmed THEN Image(p, TRUE)
                                                     ELSE [@ EXCEPT !.step = "ran"]]
    <3>1. proc' = [proc EXCEPT ![p] = Image(p, TRUE)]
      BY <2>2 DEF RuntimeInv
    <3> QED BY <1>3, <3>1
  <2>3. CASE ~q.shimmed /\ proc' = [proc EXCEPT ![p] = IF @.shimmed THEN Image(p, TRUE)
                                                      ELSE [@ EXCEPT !.step = "ran"]]
    <3>1. proc' = [proc EXCEPT ![p] = [q EXCEPT !.step = "ran"]]
      BY <2>3 DEF RuntimeInv
    <3> QED BY <1>4, <3>1
  <2> QED BY <1>6, <2>1, <2>2, <2>3 DEF RunPipe
<1> QED BY <1>2, <1>5, <1>6

\* A process takes an answer: it knew it, or it was backed and recent.
LEMMA AnswerKept ==
  ASSUME RuntimeInv, NEW p \in Procs, NEW q, ProcessInv(q), q.left # <<>>, NEW ok \in Answers,
         q.known = proc[p].known, UNCHANGED probed,
         q.known[Head(q.left)] = ok \/ time - probed[Head(q.left)][ok] < TTL
  PROVE  ProcessInv(Answered(q, ok)) /\ Recent(proc[p], Answered(q, ok))
<1> DEFINE r == Answered(q, ok)
<1>1. q \in Process /\ Head(q.left) \in RuntimeSet
  BY HeadIsRuntime DEF ProcessInv
<1>2. /\ r \in Process /\ r.merged = q.merged /\ r.step \in {"ask", "chosen"}
      /\ r.step = "ask" => r.left # <<>>
      /\ r.known = [q.known EXCEPT ![Head(q.left)] = ok]
  BY <1>1, AnswerTaken
<1> HIDE DEF r
<1>3. ProcessInv(r)
  BY <1>2 DEF ProcessInv, Asking
<1>4. Recent(proc[p], r)
  BY <1>1, <1>2 DEF Recent, Process
<1> QED BY <1>3, <1>4 DEF r

\* The answer is in memory or in the file.
LEMMA AnswerFound ==
  ASSUME RuntimeInv, NEW p \in Procs, AskMemory(p) \/ AskDisk(p)
  PROVE  RuntimeInv' /\ AllRecent
<1> DEFINE q == proc[p]
           rt == Head(q.left)
<1>1. /\ UNCHANGED <<time, disk, probed>> /\ q \in Process /\ ProcessInv(q)
      /\ disk' \in [torn : BOOLEAN, entries : Cached] /\ Backed(disk'.entries)
      /\ q.step = "ask"
  BY DEF AskMemory, AskDisk, RuntimeInv
<1>2. q.left # <<>> /\ rt \in RuntimeSet
  BY <1>1, HeadIsRuntime DEF ProcessInv, Asking
<1>3. CASE AskMemory(p)
  <2>1. q.known[rt] \in Answers
    BY <1>1, <1>2, <1>3 DEF AskMemory, Asked, Process
  <2>2. proc' = [proc EXCEPT ![p] = Answered(q, q.known[rt])]
    BY <1>3 DEF AskMemory, Asked, RuntimeInv
  <2>3. ProcessInv(Answered(q, q.known[rt])) /\ Recent(q, Answered(q, q.known[rt]))
    BY <1>1, <1>2, <2>1, AnswerKept
  <2> QED BY <1>1, <2>2, <2>3, ProcessMoved
<1>4. CASE AskDisk(p) /\ OnDisk(rt)
  <2> DEFINE e == disk.entries[rt]
  <2>1. e.ok \in Answers /\ e.ts \in Int /\ time - e.ts < TTL
    BY <1>2, <1>4 DEF OnDisk, RuntimeInv, Cached
  <2>2. e.ts <= probed[rt][e.ok] /\ probed[rt][e.ok] \in Int /\ time \in Nat /\ TTL \in Nat
    BY <1>2, <2>1, RuntimeConstants DEF RuntimeInv, Backed, Answers
  <2>3. proc' = [proc EXCEPT ![p] = Answered(q, e.ok)]
    BY <1>4 DEF AskDisk, Asked, RuntimeInv
  <2>4. time - probed[rt][e.ok] < TTL
    BY <2>1, <2>2
  <2>5. ProcessInv(Answered(q, e.ok)) /\ Recent(q, Answered(q, e.ok))
    BY <1>1, <1>2, <2>1, <2>4, AnswerKept
  <2> QED BY <1>1, <2>3, <2>5, ProcessMoved
<1>5. CASE AskDisk(p) /\ ~OnDisk(rt)
  <2> DEFINE r == [q EXCEPT !.step = "probe"]
  <2>1. proc' = [proc EXCEPT ![p] = r]
    BY <1>5 DEF AskDisk, Asked, RuntimeInv
  <2>2. ProcessInv(r) /\ r.known = q.known
    BY <1>1, <1>2 DEF ProcessInv, Process, Asking
  <2>3. Recent(q, r)
    BY <2>2 DEF Recent
  <2> QED BY <1>1, <2>1, <2>2, <2>3, ProcessMoved
<1> QED BY <1>3, <1>4, <1>5

\* A runtime is probed.
LEMMA RuntimeProbed ==
  ASSUME RuntimeInv, NEW p \in Procs, Probe(p)
  PROVE  RuntimeInv' /\ AllRecent
<1> DEFINE q == proc[p]
           rt == Head(q.left)
<1>1. PICK ok \in Answers :
        /\ proc' = [proc EXCEPT ![p].step = "merge", ![p].known[rt] = ok]
        /\ probed' = [probed EXCEPT ![rt][ok] = time]
  BY DEF Probe, Asked, Answers
<1>2. q.step = "probe" /\ UNCHANGED <<time, disk>> /\ q \in Process /\ ProcessInv(q)
  BY DEF Probe, RuntimeInv
<1>3. q.left # <<>> /\ rt \in RuntimeSet
  BY <1>2, HeadIsRuntime DEF ProcessInv, Asking
<1> DEFINE r == [q EXCEPT !.step = "merge", !.known[rt] = ok]
<1>4. /\ r \in Process /\ r.step = "merge" /\ r.left = q.left /\ r.merged = q.merged
      /\ r.known = [q.known EXCEPT ![rt] = ok]
  BY <1>2, <1>3 DEF Process, Asking
<1>5. proc' = [proc EXCEPT ![p] = r]
  BY <1>1 DEF RuntimeInv
<1>6. \A o \in Procs : proc'[o] = IF o = p THEN r ELSE proc[o]
  BY <1>5 DEF RuntimeInv
<1> HIDE DEF r
<1>7. /\ probed' \in [RuntimeSet -> [Answers -> Int]] /\ probed'[rt][ok] = time
      /\ \A t \in RuntimeSet, a \in Answers :
           probed[t][a] <= probed'[t][a] /\ probed'[t][a] <= time
  BY <1>1, <1>3 DEF RuntimeInv
<1>8. \A e \in Cached : Backed(e) => Backed(e)'
  <2> SUFFICES ASSUME NEW e \in Cached, Backed(e), NEW t \in RuntimeSet, e[t].ok # "unknown"
               PROVE  e[t].ts <= probed'[t][e[t].ok]
    BY DEF Backed
  <2>1. e[t].ok \in Answers /\ e[t].ts \in Int
    BY DEF Cached
  <2>2. e[t].ts <= probed[t][e[t].ok]
    BY DEF Backed
  <2>3. probed[t][e[t].ok] \in Int /\ probed'[t][e[t].ok] \in Int
    BY <1>7, <2>1 DEF RuntimeInv
  <2> QED BY <1>7, <2>1, <2>2, <2>3
<1>9. \A o \in Procs : ProcessInv(proc[o])'
  <2> SUFFICES ASSUME NEW o \in Procs PROVE ProcessInv(proc[o])'
    OBVIOUS
  <2>1. CASE o = p
    <3>1. proc'[o] = r /\ r.merged \in Cached /\ Backed(r.merged)
      BY <1>2, <1>4, <1>6, <2>1 DEF Process, ProcessInv
    <3>2. r.known[rt] = ok /\ ok # "unknown"
      BY <1>2, <1>3, <1>4 DEF Process, Answers
    <3>3. time' \in Nat /\ time' = time
      BY <1>2 DEF RuntimeInv
    <3> QED BY <1>3, <1>4, <1>7, <1>8, <3>1, <3>2, <3>3 DEF ProcessInv
  <2>2. CASE o # p
    <3> DEFINE w == proc[o]
               wt == Head(w.left)
    <3>1. proc'[o] = w /\ w \in Process /\ ProcessInv(w) /\ w.merged \in Cached
      BY <1>6, <2>2 DEF RuntimeInv, Process
    <3>2. Backed(w.merged)'
      BY <1>6, <1>8, <2>2, <3>1 DEF ProcessInv
    <3>3. ASSUME w.step = "merge" PROVE time' <= probed'[wt][w.known[wt]]
      <4>1. wt \in RuntimeSet /\ w.known[wt] # "unknown" /\ time <= probed[wt][w.known[wt]]
        BY <3>1, <3>3, HeadIsRuntime DEF ProcessInv, Asking
      <4>2. w.known[wt] \in Answers
        BY <3>1, <4>1 DEF Process
      <4>3. /\ probed[wt][w.known[wt]] \in Int /\ probed'[wt][w.known[wt]] \in Int
            /\ probed[wt][w.known[wt]] <= probed'[wt][w.known[wt]]
        BY <1>7, <4>1, <4>2 DEF RuntimeInv
      <4> QED BY <1>2, <4>1, <4>3 DEF RuntimeInv
    <3> QED BY <3>1, <3>2, <3>3 DEF ProcessInv
  <2> QED BY <2>1, <2>2
<1>10. Backed(disk.entries)'
  BY <1>2, <1>8 DEF RuntimeInv, Backed
<1>11. AllRecent
  <2> SUFFICES ASSUME NEW o \in Procs PROVE Recent(proc[o], proc'[o])
    BY DEF AllRecent
  <2>1. CASE o = p
    <3>1. \A t \in RuntimeSet : t # rt => r.known[t] = q.known[t]
      BY <1>2, <1>4 DEF Process
    <3>2. r.known[rt] = ok /\ time - time < TTL
      BY <1>2, <1>3, <1>4, RuntimeConstants DEF Process, RuntimeInv
    <3> QED BY <1>6, <1>7, <2>1, <3>1, <3>2 DEF Recent
  <2>2. CASE o # p
    BY <1>6, <2>2 DEF Recent
  <2> QED BY <2>1, <2>2
<1>12. proc' \in [Procs -> Process]
  BY <1>4, <1>5 DEF RuntimeInv
<1> QED BY <1>2, <1>7, <1>9, <1>10, <1>11, <1>12 DEF RuntimeInv

\* The answer is merged with the file's, and the file rewritten.
LEMMA FileWritten ==
  ASSUME RuntimeInv, NEW p \in Procs, MergeEntries(p) \/ Truncate(p)
  PROVE  RuntimeInv' /\ AllRecent
<1> DEFINE q == proc[p]
           rt == Head(q.left)
<1>1. UNCHANGED <<time, probed>> /\ q \in Process /\ ProcessInv(q) /\ q.step \in {"merge", "write"}
  BY DEF MergeEntries, Truncate, RuntimeInv
<1>2. q.left # <<>> /\ rt \in RuntimeSet /\ q.known[rt] \in Answers
  BY <1>1, HeadIsRuntime DEF ProcessInv, Asking, Process
<1>3. CASE MergeEntries(p)
  <2> DEFINE r == [q EXCEPT !.step = "write", !.merged = MergedBack(p)]
  <2>1. ReadBack \in Cached /\ Backed(ReadBack)
    BY NothingCached DEF ReadBack, RuntimeInv
  <2>2. MergedBack(p) = [ReadBack EXCEPT ![rt] = [ok |-> q.known[rt], ts |-> time]]
    BY DEF MergedBack, Asked
  <2>3. time <= probed[rt][q.known[rt]] /\ time \in Int
    BY <1>1, <1>3 DEF ProcessInv, MergeEntries, RuntimeInv
  <2>4. MergedBack(p) \in Cached
    BY <1>2, <2>1, <2>2, <2>3 DEF Cached
  <2>5. Backed(MergedBack(p))
    BY <1>2, <2>1, <2>2, <2>3 DEF Backed, Cached
  <2>6. proc' = [proc EXCEPT ![p] = r]
    BY <1>3 DEF MergeEntries, RuntimeInv
  <2>7. /\ r \in Process /\ r.step = "write" /\ r.left = q.left /\ r.known = q.known
        /\ r.merged = MergedBack(p)
    BY <1>1, <2>4 DEF Process, Asking
  <2> HIDE DEF r
  <2>8. ProcessInv(r) /\ Recent(q, r)
    BY <1>2, <2>5, <2>7 DEF ProcessInv, Recent, Answers
  <2>9. disk' \in [torn : BOOLEAN, entries : Cached] /\ Backed(disk'.entries)
    BY <1>3 DEF MergeEntries, RuntimeInv
  <2> QED BY <1>1, <2>6, <2>8, <2>9, ProcessMoved
<1>4. CASE Truncate(p)
  <2> DEFINE r == [q EXCEPT !.step = "fill"]
  <2>1. proc' = [proc EXCEPT ![p] = r] /\ disk' = [torn |-> TRUE, entries |-> NoEntries]
    BY <1>4 DEF Truncate, RuntimeInv
  <2>2. ProcessInv(r) /\ r.known = q.known
    BY <1>1, <1>2 DEF ProcessInv, Process, Asking, Answers
  <2>3. Recent(q, r)
    BY <2>2 DEF Recent
  <2>4. disk' \in [torn : BOOLEAN, entries : Cached] /\ Backed(disk'.entries)
    BY <2>1, NothingCached
  <2> QED BY <1>1, <2>1, <2>2, <2>3, <2>4, ProcessMoved
<1> QED BY <1>3, <1>4

\* A process goes on with what it has found itself.
LEMMA ProbeDone ==
  ASSUME RuntimeInv, NEW p \in Procs, Fill(p) \/ CannotWrite(p)
  PROVE  RuntimeInv' /\ AllRecent
<1> DEFINE q == proc[p]
           c == [q EXCEPT !.merged = NoEntries]
           ok == q.known[Head(q.left)]
<1>1. /\ UNCHANGED <<time, probed>> /\ q \in Process /\ ProcessInv(q)
      /\ q.step \in {"merge", "write", "fill"} /\ Done(p)
  BY DEF Fill, CannotWrite, RuntimeInv
<1>2. q.left # <<>> /\ Head(q.left) \in RuntimeSet /\ ok \in Answers
  BY <1>1, HeadIsRuntime DEF ProcessInv, Asking, Process
<1>3. /\ c \in Process /\ c.step = q.step /\ c.left = q.left /\ c.known = q.known
      /\ c.merged = NoEntries
  BY <1>1, NothingCached DEF Process
<1>4. proc' = [proc EXCEPT ![p] = Answered(c, ok)]
  BY <1>1 DEF Done, Asked, RuntimeInv
<1> HIDE DEF c
<1>5. ProcessInv(c)
  BY <1>1, <1>3, NothingCached DEF ProcessInv
<1>6. ProcessInv(Answered(c, ok)) /\ Recent(q, Answered(c, ok))
  BY <1>1, <1>2, <1>3, <1>5, AnswerKept
<1>7. disk' \in [torn : BOOLEAN, entries : Cached] /\ Backed(disk'.entries)
  <2>1. q.merged \in Cached /\ Backed(q.merged)
    BY <1>1 DEF Process, ProcessInv
  <2>2. \/ disk' = [torn |-> FALSE, entries |-> q.merged]
        \/ disk' = [torn |-> TRUE, entries |-> NoEntries]
        \/ disk' = disk
    BY DEF Fill, CannotWrite
  <2>3. \A b \in BOOLEAN, e \in Cached :
          [torn |-> b, entries |-> e] \in [torn : BOOLEAN, entries : Cached]
    OBVIOUS
  <2>4. \A b \in BOOLEAN, e \in Cached : [torn |-> b, entries |-> e].entries = e
    OBVIOUS
  <2>5. CASE disk' = disk
    BY <2>5 DEF RuntimeInv
  <2>6. CASE disk' = [torn |-> FALSE, entries |-> q.merged]
    BY <2>1, <2>3, <2>4, <2>6
  <2>7. CASE disk' = [torn |-> TRUE, entries |-> NoEntries]
    BY <2>3, <2>4, <2>7, NothingCached
  <2> QED BY <2>2, <2>5, <2>6, <2>7
<1> QED BY <1>1, <1>4, <1>6, <1>7, ProcessMoved

\* Time passes, but not between a probe and its stamp.
LEMMA TimePassed ==
  ASSUME RuntimeInv, Tick
  PROVE  RuntimeInv' /\ AllRecent
<1>1. time' = time + 1 /\ UNCHANGED <<disk, proc, probed>>
      /\ \A p \in Procs : proc[p].step # "merge"
  BY DEF Tick
<1>2. time' \in Nat /\ \A rt \in RuntimeSet : \A ok \in Answers : probed'[rt][ok] <= time'
  BY <1>1 DEF RuntimeInv
<1>3. \A p \in Procs : ProcessInv(proc[p])'
  BY <1>1 DEF RuntimeInv, ProcessInv, Backed
<1>4. AllRecent
  BY <1>1 DEF AllRecent, Recent
<1> QED BY <1>1, <1>2, <1>3, <1>4 DEF RuntimeInv, Backed

\* An answer a process goes by was found less than the time to live ago, for any number
\* of processes and runtimes and any order of their reading and writing the file.
THEOREM AnswersAreRecent == SpecRuntime => AnswersRecent
<1>1. InitRuntime => RuntimeInv
  <2> SUFFICES ASSUME InitRuntime PROVE RuntimeInv
    OBVIOUS
  <2>1. time = 0 /\ disk = [torn |-> FALSE, entries |-> NoEntries] /\ proc = [p \in Procs |-> Fresh]
        /\ probed = [rt \in RuntimeSet |-> [ok \in {"yes", "no"} |-> -TTL]]
    BY DEF InitRuntime
  <2>2. -TTL \in Int /\ -TTL <= 0
    BY RuntimeConstants
  <2>3. probed \in [RuntimeSet -> [Answers -> Int]]
        /\ \A rt \in RuntimeSet : \A ok \in Answers : probed[rt][ok] <= time
    BY <2>1, <2>2 DEF Answers
  <2>4. Fresh \in Process /\ ProcessInv(Fresh)
    BY NothingCached DEF Fresh, Unasked, Process, ProcessInv, Asking
  <2> QED BY <2>1, <2>3, <2>4, NothingCached DEF RuntimeInv
<1>2. RuntimeInv /\ [NextRuntime]_runtimeVars => RuntimeInv' /\ AllRecent
  <2>1. RuntimeInv /\ UNCHANGED runtimeVars => RuntimeInv' /\ AllRecent
    BY DEF runtimeVars, RuntimeInv, ProcessInv, Backed, AllRecent, Recent
  <2> QED BY <2>1, SandboxAsked, AnswerFound, RuntimeProbed, FileWritten, ProbeDone, TimePassed
          DEF NextRuntime, ProcessStep
<1>3. AllRecent =>
        \A p \in Procs, rt \in RuntimeSet :
          proc[p].known[rt] = "unknown" /\ proc'[p].known[rt] # "unknown"
            => time - probed'[rt][proc'[p].known[rt]] < TTL
  BY DEF AllRecent, Recent
<1> QED BY <1>1, <1>2, <1>3, PTL DEF SpecRuntime, AnswersRecent

=============================================================================
