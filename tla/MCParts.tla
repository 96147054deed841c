------------------------------ MODULE MCParts ------------------------------
(* The parts of the system that share no state while they run, each on its own:
   the one named by part moves, the others stay as they were in the beginning. *)
EXTENDS
  ChangeBatches, ScanTrack, BuildFresh, GcovCollect, CoverageReport, Badcase, SandboxRuntime,
  Dashboard, AgentCall

CONSTANT Parts

VARIABLE part

changeVars == <<extractVars, traceVars>>
trackVars  == <<scanVars, execVars>>
collectVars == <<buildVars, gcovVars, reportVars>>
sharedVars == <<badcaseVars, runtimeVars, dashboardVars>>

\* of a part that rests the inputs do not matter
FixedChange ==
  /\ diff = <<>> /\ calls = {} /\ strategy = "file"
  /\ index = CHOOSE i \in Indexes : TRUE

FixedReport ==
  /\ program = CHOOSE p \in Programs : TRUE
  /\ targets = {}

FixedCall == max_retries = CHOOSE n \in RetryLimits : TRUE

\* files are alike, so it does not matter which of them is added later
FirstSources == {"f"}

PartsInit ==
  /\ part \in Parts
  /\ InitExtract /\ InitTrace /\ (part # "batches" => FixedChange)
  /\ InitReport /\ (part # "report" => FixedReport)
  /\ InitCall /\ (part # "call" => FixedCall)
  /\ InitBuild /\ FirstSources \subseteq Sources /\ (part # "build" => Sources = SourceFiles)
  /\ InitExecutor /\ InitScan /\ InitCollect /\ InitBadcase /\ InitRuntime /\ InitDashboard

PartsNext ==
  \/ /\ part = "batches" /\ Next
     /\ UNCHANGED <<part, trackVars, collectVars, sharedVars, callVars>>
  \/ /\ part = "scan" /\ NextScan
     /\ UNCHANGED <<part, changeVars, collectVars, sharedVars, callVars>>
  \/ /\ part = "rounds" /\ NextExecutor
     /\ UNCHANGED <<part, changeVars, scanVars, collectVars, sharedVars, callVars>>
  \/ /\ part = "build" /\ NextBuild
     /\ UNCHANGED <<part, changeVars, trackVars, gcovVars, reportVars, sharedVars, callVars>>
  \/ /\ part = "gcov" /\ NextCollect
     /\ UNCHANGED <<part, changeVars, trackVars, buildVars, reportVars, sharedVars, callVars>>
  \/ /\ part = "report" /\ NextReport
     /\ UNCHANGED <<part, changeVars, trackVars, buildVars, gcovVars, sharedVars, callVars>>
  \/ /\ part = "badcases" /\ NextBadcase
     /\ UNCHANGED <<part, changeVars, trackVars, collectVars, runtimeVars, dashboardVars, callVars>>
  \/ /\ part = "sandbox" /\ NextRuntime
     /\ UNCHANGED <<part, changeVars, trackVars, collectVars, badcaseVars, dashboardVars, callVars>>
  \/ /\ part = "dashboard" /\ NextDashboard
     /\ UNCHANGED <<part, changeVars, trackVars, collectVars, badcaseVars, runtimeVars, callVars>>
  \/ /\ part = "call" /\ NextCall
     /\ UNCHANGED <<part, changeVars, trackVars, collectVars, sharedVars>>

partsVars == <<part, changeVars, trackVars, collectVars, sharedVars, callVars>>

PartsSpec == PartsInit /\ [][PartsNext]_partsVars

-----------------------------------------------------------------------------
(* Changes: diffs of up to two files, and all graphs made of nine calls *)

Hunk(start, count, hint) == [start |-> start, count |-> count, hint |-> hint]
Row(f, name, qname, start, end) ==
  [file |-> f, name |-> name, qname |-> qname, start |-> start, end |-> end]

\* nested, overloaded, broken and foreign ranges
MCIndexes ==
  {{Row("f", "a", "a", 1, 9), Row("f", "b", "b", 4, 6), Row("f", "b", "broken", 8, 7),
    Row("g", "t", "t(int)", 2, 3), Row("g", "t", "t(char)", 5, 6), Row("g", "a", "a", 7, 9)}}
  \cup {{Row("lib/f", "b", "b", 1, 6), Row("lib/f", "a", "a", 1, 6), Row("old/f", "b", "b", 1, 3),
          Row("g", "t", "t", 3, 5)}}

\* changes in an inner and an outer function and of a place without one; hints
\* that agree, disagree or are missing; a deletion
MCDiffs ==
  {<<>>,
   <<[file |-> "f", hunks |-> <<Hunk(5, 0, "x")>>]>>,
   <<[file |-> "f", hunks |-> <<Hunk(2, 1, NoHint), Hunk(5, 2, NoHint)>>],
     [file |-> "g", hunks |-> <<Hunk(3, 3, "t")>>]>>,
   <<[file |-> "g", hunks |-> <<Hunk(1, 2, "t"), Hunk(5, 3, "a")>>],
     [file |-> "f", hunks |-> <<Hunk(10, 4, "a")>>]>>}

MCEndsWith == [f \in {"f", "g"} |-> IF f = "f" THEN {"f", "lib/f", "old/f"} ELSE {f}]

\* "N::a" is a method of that name
MCBare == [n \in {"main", "a", "b", "t", "N::a"} |-> IF n = "N::a" THEN "a" ELSE n]

MCCallGraphs ==
  SUBSET {<<"main", "a">>, <<"main", "b">>, <<"main", "t">>, <<"a", "b">>, <<"b", "a">>,
          <<"a", "t">>, <<"b", "t">>, <<"N::a", "t">>, <<"t", "a">>}

-----------------------------------------------------------------------------
(* Reports: programs of up to 4, 199, 10 000 and 19 999 functions *)

Named == {<<"f", "a">>, <<"f", "a(int)">>, <<"g", "a">>, <<"g", "b">>}

MCPrograms ==
  {[functions |-> Named, others |-> 0], [functions |-> {<<"f", "a">>, <<"f", "a(int)">>}, others |-> 197],
   [functions |-> {<<"f", "a">>}, others |-> 9999], [functions |-> {<<"f", "a">>}, others |-> 19998]}

\* one in a file without it, one that is gone
MCScopes ==
  {{}, {<<"f", "a">>, <<"g", "b">>}, {<<"f", "a(int)">>, <<"g", "a">>}, {<<"f", "b">>, <<"g", "a">>}}

MCHostName == [f \in Named |-> IF f = <<"f", "a(int)">> THEN <<"f", "_Z1ai">> ELSE f]

MCOtherHits ==
  [n \in {0, 197, 9999, 19998} |-> (0..n) \cap ({0, 1} \cup ((n - 3)..n))]

-----------------------------------------------------------------------------
(* The sandbox *)

MCRuntimes == <<"docker", "podman">>

=============================================================================
