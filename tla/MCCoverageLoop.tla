--------------------------- MODULE MCCoverageLoop ---------------------------
(* Instances of CoverageLoop for TLC. *)
EXTENDS LoopRefinement

View(funcs, branches, scoped, missing) ==
  [funcs |-> funcs, branches |-> branches, scoped |-> scoped, missing |-> missing]

\* partial targets, a scope without branches, a scope none of whose targets exist
FreshShapes == {View(2, 1, FALSE, FALSE), View(1, 0, TRUE, FALSE), View(0, 0, TRUE, TRUE)}

\* one function, hit or not, is enough to tell the resumption paths apart
ResumeShapes == {View(1, 0, FALSE, FALSE)}
=============================================================================
