------------------------------ MODULE Badcase ------------------------------
(***************************************************************************)
(* The bad case library of a project: src/aicoverage/badcase.py.  Several  *)
(* runs on one workspace may merge candidates into it, each reading the    *)
(* file first and appending to it in the end, without a lock.              *)
(*                                                                         *)
(* A title stands for all titles that are alike once normalized.           *)
(***************************************************************************)
EXTENDS SequencesExt

CONSTANTS
  Mergers,     \* one merge_candidates each
  Titles, Malformed,  \* titles, and a candidate with a field missing
  BaseTitle,   \* the title of the only entry of BASE.md, which has number 1
  MaxCandidates

ASSUME BadcaseConstants ==
  /\ Malformed \notin Titles /\ BaseTitle \in Titles /\ MaxCandidates \in Nat

VARIABLES
  library,    \* the project's file, in order: [num, title, by]
  merger,     \* a merge: [step, number, titles, candidates, text]
  began       \* history: the merges that had ended when one read the file

badcaseVars == <<library, merger, began>>

Base == [num |-> 1, title |-> BaseTitle, by |-> {}]

Idle == [step |-> "start", number |-> 0, titles |-> {}, candidates |-> <<>>, text |-> <<>>]

InitBadcase ==
  /\ library = <<>> /\ merger = [m \in Mergers |-> Idle] /\ began = [m \in Mergers |-> {}]

\* (mutant) the tool's own entries are left out
ExistingOfProject == {library[i] : i \in 1..Len(library)}

\* _load_by_workspace
Existing == {Base} \cup {library[i] : i \in 1..Len(library)}

\* the file is read; the quality agent's candidates are at hand
ReadLibrary(m) ==
  /\ merger[m].step = "start"
  /\ \E candidates \in SeqOf(Titles \cup {Malformed}, MaxCandidates) :
       merger' = [merger EXCEPT ![m] =
         [step |-> "adjudicate", number |-> Max({e.num : e \in Existing} \cup {0}) + 1,
          titles |-> {e.title : e \in Existing}, candidates |-> candidates, text |-> <<>>]]
  /\ began' = [began EXCEPT ![m] = {n \in Mergers : merger[n].step = "end"}]
  /\ UNCHANGED library

Adjudicated(m) == Head(merger[m].candidates)

\* a bad candidate does not keep out a good one
Reject(m) ==
  /\ merger[m].step = "adjudicate" /\ merger[m].candidates # <<>>
  /\ Adjudicated(m) = Malformed \/ Adjudicated(m) \in merger[m].titles
  /\ merger' = [merger EXCEPT ![m].candidates = Tail(@)]
  /\ UNCHANGED <<library, began>>

Admit(m) ==
  /\ merger[m].step = "adjudicate" /\ merger[m].candidates # <<>>
  /\ Adjudicated(m) \in Titles \ merger[m].titles
  /\ merger' = [merger EXCEPT ![m].candidates = Tail(@), ![m].number = @ + 1,
                  ![m].titles = @ \cup {Adjudicated(m)},
                  ![m].text = Append(@, [num |-> merger[m].number, title |-> Adjudicated(m),
                                         by |-> {m}])]
  /\ UNCHANGED <<library, began>>

\* nothing is written of nothing; an append is one write of a small text
AppendLibrary(m) ==
  /\ merger[m].step = "adjudicate" /\ merger[m].candidates = <<>>
  /\ library' = library \o merger[m].text
  /\ merger' = [merger EXCEPT ![m].step = "end"]
  /\ UNCHANGED began

RestBadcase == (\A m \in Mergers : merger[m].step = "end") /\ UNCHANGED badcaseVars

NextBadcase ==
  \/ \E m \in Mergers : ReadLibrary(m) \/ Reject(m) \/ Admit(m) \/ AppendLibrary(m)
  \/ RestBadcase

SpecBadcase == InitBadcase /\ [][NextBadcase]_badcaseVars

-----------------------------------------------------------------------------
(* Correctness *)

Overlap(m, n) == m # n /\ m \notin began[n] /\ n \notin began[m]

\* Two entries have one number or one title only if they come from merges that
\* overlapped in time: never within one merge, never from merges of which one had
\* ended when the other began, and never with the tool's own entries.  (badcase.py:
\* merge_candidates, rules 2 and 3.)
ClashOnlyByOverlap ==
  /\ \A i, j \in 1..Len(library) :
       i # j /\ (library[i].num = library[j].num \/ library[i].title = library[j].title) =>
         \E m \in library[i].by, n \in library[j].by : Overlap(m, n)
  /\ \A i \in 1..Len(library) : library[i].num # Base.num /\ library[i].title # Base.title

=============================================================================
