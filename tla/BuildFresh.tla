----------------------------- MODULE BuildFresh -----------------------------
(* Stage [1] of a run: the instrumented build, and the test that lets a run
   reuse the binary of an earlier one (build.py, loop.py:490-515). The build
   command is a project's own; here it works as make does, by time stamps. A
   build that hits its timeout fails the stage, but only its shell is killed:
   what the shell started goes on.

   Every file is written at a time of its own, so that a source's time stamp is
   also its version. Time stamps that are set back are not modelled. *)
EXTENDS Naturals, FiniteSets

CONSTANTS
  SourceFiles,
  Tolerance,     \* the second is_fresh allows, in units of the clock
  MaxClock       \* bound of the model: the time at which nothing more is written

ASSUME BuildConstants == Tolerance \in Nat /\ MaxClock \in Nat

VARIABLES
  clock,
  source,        \* when each source was last written; 0, it does not exist
  object,        \* of each source, the version compiled and when (.o and .gcno)
  binary,        \* versions linked, when each was compiled, and when it was linked
  listed,        \* cfg._source_files_cache: the sources found when it was first asked
  making,        \* what the build command has yet to look at
  orphan,        \* the same, of a build that outlived its timeout
  stage,         \* where stage [1] is
  atStart,         \* the sources when the stage began
  used           \* the binary that the stage lets the run measure

buildVars ==
  <<clock, source, object, binary, listed, making, orphan, stage, atStart, used>>

NotBuilt == [of |-> 0, at |-> 0]
NoBinary == [of |-> [f \in SourceFiles |-> 0], read |-> [f \in SourceFiles |-> 0], at |-> 0]
NotMaking == [all |-> {}, left |-> {}, since |-> 0]
NotListed == {"not listed"}

Sources == {f \in SourceFiles : source[f] > 0}

InitBuild ==
  /\ clock = 1
  /\ source \in [SourceFiles -> {0, 1}] /\ Sources # {}
  /\ object = [f \in SourceFiles |-> NotBuilt] /\ binary = NoBinary
  /\ listed = NotListed
  /\ making = NotMaking /\ orphan = NotMaking
  /\ stage = "idle" /\ atStart = source /\ used = NoBinary

Pass == clock < MaxClock /\ clock' = clock + 1

-----------------------------------------------------------------------------
(* Around the run *)

\* somebody writes a source, or adds one
Edit(f) ==
  /\ Pass
  /\ source' = [source EXCEPT ![f] = clock + 1]
  /\ UNCHANGED <<object, binary, listed, making, orphan, stage, atStart, used>>

Wait ==
  /\ Pass
  /\ UNCHANGED <<source, object, binary, listed, making, orphan, stage, atStart, used>>

-----------------------------------------------------------------------------
(* The build command *)

Outdated(f) == source[f] > object[f].at

Compile(f) ==
  IF Outdated(f)
  THEN /\ Pass
       /\ object' = [object EXCEPT ![f] = [of |-> source[f], at |-> clock + 1]]
  ELSE UNCHANGED <<clock, object>>

CompileOwn(f) ==
  /\ f \in making.left /\ Compile(f)
  /\ making' = [making EXCEPT !.left = @ \ {f}]
  /\ UNCHANGED <<source, binary, listed, orphan, stage, atStart, used>>

CompileOrphan(f) ==
  /\ f \in orphan.left /\ Compile(f)
  /\ orphan' = [orphan EXCEPT !.left = @ \ {f}]
  /\ UNCHANGED <<source, binary, listed, making, stage, atStart, used>>

\* a source added since make began is not in what it links
Linked(make) ==
  [of   |-> [f \in SourceFiles |-> IF f \in make.all THEN object[f].of ELSE 0],
   read |-> [f \in SourceFiles |-> IF f \in make.all THEN object[f].at ELSE make.since],
   at   |-> clock + 1]

Link(make) ==
  /\ make.since > 0 /\ make.left = {}
  /\ \A f \in make.all : object[f] # NotBuilt
  /\ IF \E f \in make.all : object[f].at > binary.at
     THEN Pass /\ binary' = Linked(make)
     ELSE UNCHANGED <<clock, binary>>

OrphanLinks ==
  /\ Link(orphan) /\ orphan' = NotMaking
  /\ UNCHANGED <<source, object, listed, making, stage, atStart, used>>

OrphanFails ==
  /\ orphan.since > 0 /\ orphan' = NotMaking
  /\ UNCHANGED <<clock, source, object, binary, listed, making, stage, atStart, used>>

-----------------------------------------------------------------------------
(* is_fresh *)

source_files == IF listed = NotListed THEN Sources ELSE listed

\* (mutant) one source that is older will do
NewerSourceOldest(b) == \A f \in source_files : source[f] > b.at + Tolerance

NewerSource(b) == \E f \in source_files : source[f] > b.at + Tolerance

\* the binary exists, and a .gcno does
Instrumented == binary # NoBinary /\ \E f \in SourceFiles : object[f] # NotBuilt

is_fresh == Instrumented /\ ~NewerSource(binary)

-----------------------------------------------------------------------------
(* Stage [1] *)

\* the requirement analysis, where it is made, asks for the sources first
ListSources ==
  /\ stage = "idle" /\ listed' = source_files
  /\ UNCHANGED <<clock, source, object, binary, making, orphan, stage, atStart, used>>

\* a failing clean command, or none, may leave anything behind
Clean ==
  \E gone \in SUBSET SourceFiles, keeps \in BOOLEAN :
    /\ object' = [f \in SourceFiles |-> IF f \in gone THEN NotBuilt ELSE object[f]]
    /\ binary' = IF keeps THEN binary ELSE NoBinary

StartStage(skip_build) ==
  /\ stage # "building"
  /\ atStart' = source
  /\ listed' = IF skip_build /\ Instrumented THEN source_files ELSE listed
  /\ IF skip_build /\ is_fresh
     THEN /\ stage' = "reused" /\ used' = binary
          /\ UNCHANGED <<object, binary, making>>
     ELSE /\ stage' = "building" /\ used' = NoBinary
          /\ Clean
          /\ making' = [all |-> Sources, left |-> Sources, since |-> clock]
  /\ UNCHANGED <<clock, source, orphan>>

BuildSucceeds ==
  /\ Link(making)
  /\ stage' = "built" /\ used' = binary' /\ making' = NotMaking
  /\ UNCHANGED <<source, object, listed, orphan, atStart>>

\* the command fails, or leaves no binary or no .gcno
BuildFailed ==
  /\ making.since > 0
  /\ stage' = "failed" /\ making' = NotMaking
  /\ UNCHANGED <<clock, source, object, binary, listed, orphan, atStart, used>>

BuildTimesOut ==
  /\ making.since > 0 /\ orphan = NotMaking
  /\ stage' = "failed" /\ making' = NotMaking /\ orphan' = making
  /\ UNCHANGED <<clock, source, object, binary, listed, atStart, used>>

NextBuild ==
  \/ \E f \in SourceFiles : Edit(f) \/ CompileOwn(f) \/ CompileOrphan(f)
  \/ Wait
  \/ OrphanLinks \/ OrphanFails
  \/ ListSources
  \/ \E skip_build \in BOOLEAN : StartStage(skip_build)
  \/ BuildSucceeds
  \/ BuildFailed
  \/ BuildTimesOut

SpecBuild == InitBuild /\ [][NextBuild]_buildVars

-----------------------------------------------------------------------------
(* What a run measures is its source (is_fresh's docstring), whatever builds
   failed, timed out and went on, and whatever was edited in between. A binary
   just built has every source as it was when the stage began; only one that a
   build given up earlier links meanwhile may lack a source added since. A
   binary that is reused has every source of the listing too, except for those
   written after its build had looked at them and no later than a second after
   linking, which time stamps cannot tell. *)
WrittenUnderTheBuild(f) == used.read[f] < atStart[f] /\ atStart[f] <= used.at + Tolerance

MeasuresTheSource ==
  /\ stage = "built" =>
       \A f \in SourceFiles :
         used.of[f] >= atStart[f] \/ (used.of[f] = 0 /\ WrittenUnderTheBuild(f))
  /\ stage = "reused" =>
       \A f \in listed : used.of[f] = atStart[f] \/ WrittenUnderTheBuild(f)

=============================================================================
