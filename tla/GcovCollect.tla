---------------------------- MODULE GcovCollect ----------------------------
(***************************************************************************)
(* Collecting coverage: src/aicoverage/gcov.py runs gcov on every object   *)
(* of an instrumented build, several at a time, then merges what was       *)
(* written.  A source compiled twice is counted in two outputs; the        *)
(* objects of unit tests count apart.                                      *)
(*                                                                         *)
(* gcov is an input: what it writes of an object, and how it ends.  An     *)
(* item is a line or a function of one file.                               *)
(***************************************************************************)
EXTENDS Integers, FiniteSets

CONSTANTS
  Objects,     \* the .gcno files
  UnitTests,   \* those under ut_dir
  Items,
  Counts,      \* execution counts
  BranchLists  \* what may be said of the branches of a line

ASSUME CollectConstants == UnitTests \subseteq Objects /\ Counts \subseteq Nat

Absent == -1   \* an item that an output does not list

VARIABLES
  gstep,    \* "gcov", "merge", "done" or "raised"
  pending,  \* objects whose gcov has not ended
  outputs,  \* what is in the directory of an object
  isUt,     \* gcno_is_ut
  unmerged, \* outputs still to be merged
  best,     \* the count of an item
  bestE2e,  \* the same without unit tests
  from,     \* the objects whose copy is the best of an item: one, or none yet
  failed    \* history: objects whose gcov failed

gcovVars == <<gstep, pending, outputs, isUt, unmerged, best, bestE2e, from, failed>>

Copies  == [Items -> Counts \cup {Absent}]
Nothing == [x \in Items |-> Absent]
Branches == [Items -> BranchLists]

\* state "cut": a file that is compressed and not complete
NoOutput == [state |-> "none", counts |-> Nothing, branches |-> <<>>]

InitCollect ==
  /\ gstep = "gcov" /\ pending = Objects
  /\ outputs = [o \in Objects |-> NoOutput] /\ isUt = [o \in Objects |-> FALSE]
  /\ unmerged = {}
  /\ best = Nothing /\ bestE2e = Nothing /\ from = [x \in Items |-> {}]
  /\ failed = {}

Completes(o) ==
  \E counts \in Copies, branches \in Branches :
    outputs' = [outputs EXCEPT ![o] = [state |-> "complete", counts |-> counts, branches |-> branches]]

\* an exit code is not looked at: gcov may have written nothing
RunGcov(o) ==
  /\ gstep = "gcov" /\ o \in pending
  /\ Completes(o) \/ UNCHANGED outputs
  /\ isUt' = [isUt EXCEPT ![o] = o \in UnitTests]
  /\ pending' = pending \ {o}
  /\ UNCHANGED <<gstep, unmerged, best, bestE2e, from, failed>>

\* it cannot be started, or is killed by the timeout: the object is then taken for
\* none of the unit tests', and what it wrote is read
GcovFails(o) ==
  /\ gstep = "gcov" /\ o \in pending
  /\ \/ Completes(o)
     \/ outputs' = [outputs EXCEPT ![o].state = "cut"]
     \/ UNCHANGED outputs
  /\ pending' = pending \ {o} /\ failed' = failed \cup {o}
  /\ UNCHANGED <<gstep, isUt, unmerged, best, bestE2e, from>>

With(state) == {o \in Objects : outputs[o].state = state}

\* all outputs are read before any is merged.  A cut one raises EOFError, which
\* _read_gcov_json does not catch.
ReadOutputs ==
  /\ gstep = "gcov" /\ pending = {}
  /\ IF With("cut") # {}
     THEN gstep' = "raised" /\ UNCHANGED unmerged
     ELSE gstep' = "merge" /\ unmerged' = With("complete")
  /\ UNCHANGED <<pending, outputs, isUt, best, bestE2e, from, failed>>

\* (mutant) the first copy read stays
BetterFirst(count, than) == than = Absent

\* a copy is taken if there is none yet or it counts more; Absent is less than any
Better(count, than) == count > than

\* one output, in whatever order the directories are listed.  The branches of a line
\* are those of the copy taken: of copies that count the same, of the first one read.
MergeOutput(o) ==
  LET counts == outputs[o].counts
  IN /\ gstep = "merge" /\ o \in unmerged
     /\ unmerged' = unmerged \ {o}
     /\ best' = [x \in Items |-> IF Better(counts[x], best[x]) THEN counts[x] ELSE best[x]]
     /\ from' = [x \in Items |-> IF Better(counts[x], best[x]) THEN {o} ELSE from[x]]
     /\ bestE2e' = IF isUt[o] THEN bestE2e
                   ELSE [x \in Items |-> IF Better(counts[x], bestE2e[x]) THEN counts[x]
                                                                          ELSE bestE2e[x]]
     /\ UNCHANGED <<gstep, pending, outputs, isUt, failed>>

Merged ==
  /\ gstep = "merge" /\ unmerged = {} /\ gstep' = "done"
  /\ UNCHANGED <<pending, outputs, isUt, unmerged, best, bestE2e, from, failed>>

RestCollect == gstep \in {"done", "raised"} /\ UNCHANGED gcovVars

NextCollect ==
  \/ \E o \in Objects : RunGcov(o) \/ GcovFails(o) \/ MergeOutput(o)
  \/ ReadOutputs \/ Merged \/ RestCollect

SpecCollect == InitCollect /\ [][NextCollect]_gcovVars

\* the branches of a line in the report
KeptBranches(x) == {outputs[o].branches[x] : o \in from[x]}

\* ut_hit of a function
UtHit(x) == best[x] > 0 /\ ~(bestE2e[x] > 0)

-----------------------------------------------------------------------------
(* Correctness *)

Holding(x) == {o \in With("complete") : outputs[o].counts[x] # Absent}
Hitting(x) == {o \in Holding(x) : outputs[o].counts[x] > 0}

\* The counts of a report are the same in whatever order gcov ended and the outputs were
\* read: an item is in it if some output lists it, its count is that of a copy it was
\* taken from, branches and all, and no copy counts more.  (Which of several such copies
\* that is, and with it the branches of a line, does depend on the order.)  A function
\* is said to be covered by unit tests only if objects of unit tests hit it and nothing
\* else did; one of them whose gcov failed counts as something else.  And a collection
\* is lost only to a gcov that failed.  (gcov.py: collect.)
MergeIsMaximum ==
  /\ gstep = "done" => \A x \in Items :
       /\ best[x] = Absent <=> Holding(x) = {}
       /\ \A o \in Holding(x) : outputs[o].counts[x] <= best[x]
       /\ \A o \in from[x] : o \in Holding(x) /\ outputs[o].counts[x] = best[x]
       /\ Holding(x) # {} => KeptBranches(x) # {}
       /\ UtHit(x) <=> Hitting(x) # {} /\ Hitting(x) \subseteq UnitTests \ failed
  /\ gstep = "raised" => With("cut") # {} /\ With("cut") \subseteq failed

=============================================================================
