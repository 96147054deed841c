--------------------------- MODULE LoopRefinement ---------------------------
(* CoverageLoop, run without interruption, implements LoopPromise. *)
EXTENDS CoverageLoop

Full(r) == /\ r.func = shape.funcs
           /\ Vacuous \/ CondPct(r) >= CondTarget

Level == IF previous # NoReport /\ Met(previous) THEN "met"
         ELSE IF Full(GapSource) THEN "full"
         ELSE "open"

Judged == /\ current_iter \in Rounds
          /\ iterations[current_iter].coverage_after # NoMetrics

Promise == INSTANCE LoopPromise WITH
  Limit   <- MaxIter,
  round   <- current_iter,
  judged  <- Judged,
  level   <- Level,
  outcome <- IF status = "running" THEN "open" ELSE exit_reason

\* Every uninterrupted run of run_loop keeps the promise: rounds in order, one
\* result each, the run closed in the end, and for the right reason.
KeepsPromise == Promise!Spec

=============================================================================
