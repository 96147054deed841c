----------------------------- MODULE Dashboard -----------------------------
(***************************************************************************)
(* The listing of runs: scan_runs of src/aicoverage/dashboard/store.py     *)
(* reads the directory of a run while the run, another process, rewrites   *)
(* its state in place (save_loop_state of state.py).                       *)
(***************************************************************************)
EXTENDS Integers

CONSTANTS
  MaxSaves,   \* a bound of the model
  Attempts    \* retries + 1 of _read_json

ASSUME DashboardConstants == MaxSaves \in Nat /\ Attempts \in Nat \ {0}

\* a loop has loop_state.json, an MR run mr_summary.json
RunTypes == {"loop", "mr"}

\* contents of a file: the number of the save it holds, or
Missing == 0
Torn == -1       \* an unfinished file that is no JSON, the empty one included
TornInside == -2 \* one that ends inside a character of several bytes
Unfinished == {Torn, TornInside}

VARIABLES
  held,      \* contents of the file of a type
  saving,    \* the type of the save under way, "none" without one
  saves,     \* saves that ended
  analysis,  \* analysis.md is there
  dstep,     \* "idle", "look", "read", "listed" or "raised"
  reading, attempts,
  entry,     \* what the run is listed as, type "none" if not at all
  before,    \* history: saves when the listing began
  seen       \* history: what the attempts have read

writerVars == <<held, saving, saves, analysis>>
readerVars == <<dstep, reading, attempts, entry, before, seen>>
dashboardVars == <<writerVars, readerVars>>

Entry(type, save) == [type |-> type, save |-> save]

InitDashboard ==
  /\ held = [f \in RunTypes |-> Missing] /\ saving = "none" /\ saves = 0 /\ analysis = FALSE
  /\ dstep = "idle" /\ reading = "none" /\ attempts = 0 /\ entry = Entry("none", 0)
  /\ before = 0 /\ seen = {}

-----------------------------------------------------------------------------
(* The run *)

\* write_text empties the file before it fills it
BeginSave(f) ==
  /\ saving = "none" /\ saves < MaxSaves
  /\ \A g \in RunTypes \ {f} : held[g] = Missing
  /\ saving' = f /\ held' = [held EXCEPT ![f] = Torn]
  /\ UNCHANGED <<saves, analysis, readerVars>>

\* the state goes out in pieces, whose ends fall anywhere
WritePart ==
  /\ saving # "none"
  /\ \E contents \in Unfinished : held' = [held EXCEPT ![saving] = contents]
  /\ UNCHANGED <<saving, saves, analysis, readerVars>>

EndSave ==
  /\ saving # "none" /\ saving' = "none" /\ saves' = saves + 1
  /\ held' = [held EXCEPT ![saving] = saves']
  /\ UNCHANGED <<analysis, readerVars>>

\* the process is killed; it may be resumed
CrashSave ==
  /\ saving # "none" /\ saving' = "none"
  /\ UNCHANGED <<held, saves, analysis, readerVars>>

WriteAnalysis == ~analysis /\ analysis' = TRUE /\ UNCHANGED <<held, saving, saves, readerVars>>

-----------------------------------------------------------------------------
(* The listing *)

ScanRun ==
  /\ dstep \in {"idle", "listed", "raised"}
  /\ dstep' = "look" /\ reading' = "loop" /\ attempts' = 0 /\ before' = saves /\ seen' = {}
  /\ UNCHANGED <<entry, writerVars>>

\* the first file there is, whatever is in it
Exists ==
  /\ dstep = "look" /\ held[reading] # Missing
  /\ dstep' = "read" /\ UNCHANGED <<reading, attempts, entry, before, seen, writerVars>>

LookFurther ==
  /\ dstep = "look" /\ held[reading] = Missing
  /\ \/ reading = "loop" /\ reading' = "mr" /\ UNCHANGED <<dstep, entry>>
     \/ /\ reading = "mr" /\ dstep' = "listed"
        /\ entry' = Entry(IF analysis THEN "analyze" ELSE "none", 0)
        /\ UNCHANGED reading
  /\ UNCHANGED <<attempts, before, seen, writerVars>>

\* (mutant) an empty file is an empty state
ReadableEmpty(contents) == TRUE

Readable(contents) == contents # Torn

\* _read_json; a file that cannot be decoded is not among the errors it handles, and the
\* listing of all runs ends with it
ReadState ==
  /\ dstep = "read" /\ attempts' = attempts + 1 /\ seen' = seen \cup {held[reading]}
  /\ held[reading] # TornInside
  /\ \/ /\ Readable(held[reading])
        /\ dstep' = "listed" /\ entry' = Entry(reading, held[reading])
     \/ /\ ~Readable(held[reading]) /\ attempts' < Attempts
        /\ UNCHANGED <<dstep, entry>>
     \/ /\ ~Readable(held[reading]) /\ attempts' = Attempts
        /\ dstep' = "listed" /\ entry' = Entry("none", 0)
  /\ UNCHANGED <<reading, before, writerVars>>

DecodeFails ==
  /\ dstep = "read" /\ attempts' = attempts + 1 /\ seen' = seen \cup {held[reading]}
  /\ held[reading] = TornInside /\ dstep' = "raised"
  /\ UNCHANGED <<reading, entry, before, writerVars>>

NextDashboard ==
  \/ \E f \in RunTypes : BeginSave(f)
  \/ WritePart \/ EndSave \/ CrashSave \/ WriteAnalysis
  \/ ScanRun \/ Exists \/ LookFurther \/ ReadState \/ DecodeFails

SpecDashboard == InitDashboard /\ [][NextDashboard]_dashboardVars

-----------------------------------------------------------------------------
(* Correctness *)

\* A run is listed with a state that was saved, none older than the last one saved
\* before the listing began; it is left out only if every attempt met a save that was
\* not finished; it passes for an analysis without a run only if nothing of it had been
\* saved by then; and the listing as a whole fails only over a file that ends inside a
\* character.  (store.py: scan_runs and _read_json, against save_loop_state.)
ListingTrue ==
  /\ dstep = "listed" =>
       /\ entry.type \in RunTypes => entry.save \in (IF before = 0 THEN 1 ELSE before)..saves
       /\ entry.type = "none" /\ attempts > 0 => attempts = Attempts /\ seen = {Torn}
       /\ entry.type = "analyze" \/ (entry.type = "none" /\ attempts = 0) => before = 0
  /\ dstep = "raised" => TornInside \in seen

=============================================================================
