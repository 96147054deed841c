------------------------------ MODULE MCMRLoop ------------------------------
(* MRLoop on diffs of up to five functions, of which fa and fb are overloads and *)
(* fe is not in the coverage data.                                               *)
EXTENDS MRLoop

CONSTANTS fa, fb, fc, fd, fe

MCNameOf == [f \in {fa, fb, fc, fd, fe} |->
               CASE f \in {fa, fb} -> "ab" [] f = fc -> "c" [] f = fd -> "d" [] f = fe -> "e"]

\* nothing changed; one batch that halves unevenly twice; two batches; pairs
MCBatchings == {<<>>,
                << <<fa, fb, fc, fd, fe>> >>,
                << <<fa, fc, fe>>, <<fd, fb>> >>,
                << <<fc, fd>>, <<fa, fe>> >>}

=============================================================================
