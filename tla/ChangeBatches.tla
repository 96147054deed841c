---------------------------- MODULE ChangeBatches ----------------------------
(***************************************************************************)
(* [M0] and [M1] of run_mr_loop: the functions a diff changes, file by     *)
(* file, then the batches they are tried in.  Composes DiffExtract and     *)
(* CallGraph; what it makes is what MRLoop starts from.                    *)
(***************************************************************************)
EXTENDS DiffExtract, CallGraph

vars == <<extractVars, traceVars>>

Init == InitExtract /\ InitTrace

Extract == ExtractFile /\ UNCHANGED traceVars

\* conflicts are left to the reader of the report
Split ==
  /\ ~Extracting
  /\ split_batches([i \in 1..Len(TrustedFunctions) |-> as_target(TrustedFunctions[i])])
  /\ UNCHANGED extractVars

Batch == Batching /\ UNCHANGED extractVars

Rest == step = "done" /\ UNCHANGED vars

Next == Extract \/ Split \/ Batch \/ Rest

Spec == Init /\ [][Next]_vars

-----------------------------------------------------------------------------
(* Correctness *)

\* the functions around line l that no other of them is strictly inside of
Owners(f, l) ==
  {r \in Covering(f, l) : \A q \in Covering(f, l) :
     r.start <= q.start /\ q.end <= r.end => q.start = r.start /\ q.end = r.end}

ChangedIn(d, name) ==
  \E l \in ChangedLines(d) : \E r \in Owners(d.file, l) : r.name = name

\* the lists of functions, which on the fallback are in the first of the two batches
Lists == IF fellBack THEN batches[1] ELSE batches

BatchesOf(target) == {k \in 1..Len(Lists) : target \in Elems(Lists[k])}

\* From the diff to the batches nothing is lost and nothing added: a changed line
\* inside a function either has that function in exactly one batch (at least one
\* where batches are cut by size, and overloads share a name), or has it reported
\* as a conflict; and a function in a batch has a changed line of its own.  (The
\* line itself is among those of the function where the index knows the file by its
\* path; of several files that end like it ranges may take each other's place.)
\* Where the call graph could not be used this is true of the batches by file, one
\* level further down than MRLoop looks for them.  (mr_loop.py: [M0] and [M1].)
BatchesAreTheChange ==
  step = "done" =>
    /\ \A d \in Elems(diff) : \A l \in ChangedLines(d) :
         Covering(d.file, l) # {} =>
           \E r \in Owners(d.file, l), f \in Elems(functions) :
             /\ f.file = d.file /\ f.qname = r.qname
             /\ (\E q \in index : q.file = d.file) => l \in f.lines
             /\ LET n == Cardinality(BatchesOf(as_target(f)))
                IN IF ~f.trusted THEN n = 0
                   ELSE IF strategy = "size" THEN n >= 1 ELSE n = 1
    /\ \A k \in 1..Len(Lists) : \A target \in Elems(Lists[k]) :
         \E d \in Elems(diff) : d.file = target[1] /\ ChangedIn(d, target[2])

=============================================================================
