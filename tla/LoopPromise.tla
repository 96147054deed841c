----------------------------- MODULE LoopPromise -----------------------------
(***************************************************************************)
(* What one uninterrupted run of the coverage loop promises (README.md,    *)
(* docstrings of src/aicoverage/loop.py): rounds are worked through one    *)
(* after the other up to a limit, each is measured at most once, and the   *)
(* run is closed once, as done when the coverage reached is good enough    *)
(* and for a stated reason when it is not.                                 *)
(*                                                                         *)
(* level: "met" when the last measured round is at the targets, "full"     *)
(* when nothing testable is left though a target is not a number reached   *)
(* (or nothing was measured yet), else "open".                             *)
(***************************************************************************)
EXTENDS Naturals

CONSTANT Limit   \* the rounds the run is given

VARIABLES round, judged, level, outcome

vars == <<round, judged, level, outcome>>

Levels == {"open", "full", "met"}

\* judged: the current round has its result
Init == round = 0 /\ judged = FALSE /\ level = "open" /\ outcome = "open"

Baseline ==
  /\ outcome = "open" /\ round = 0 /\ level = "open"
  /\ level' = "full"
  /\ UNCHANGED <<round, judged, outcome>>

Begin ==
  /\ outcome = "open" /\ round < Limit
  /\ round' = round + 1 /\ judged' = FALSE
  /\ UNCHANGED <<level, outcome>>

Measure ==
  /\ outcome = "open" /\ round > 0 /\ ~judged
  /\ judged' = TRUE /\ level' \in Levels
  /\ UNCHANGED <<round, outcome>>

Finish ==
  /\ outcome = "open" /\ level # "open"
  /\ outcome' = "threshold_met"
  /\ UNCHANGED <<round, judged, level>>

\* the target takes precedence over every other reason
GiveUp ==
  /\ outcome = "open" /\ level # "met"
  /\ \/ outcome' = "build_failed" /\ round = 0
     \/ outcome' = "max_iter_reached" /\ round = Limit
     \/ outcome' \in {"coverage_ceiling", "execute_fail_loop", "budget_exhausted"} /\ judged
     \/ outcome' \in {"gen_no_output", "verify_fail_exceeded"} /\ round > 0 /\ ~judged
  /\ UNCHANGED <<round, judged, level>>

Progress == Begin \/ Measure \/ Finish \/ GiveUp

Next == Baseline \/ Progress

Spec == Init /\ [][Next]_vars /\ WF_vars(Progress)

=============================================================================
