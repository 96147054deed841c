----------------------------- MODULE DiffExtract -----------------------------
(***************************************************************************)
(* From a diff to the functions it changes: the hunks of src/aicoverage/   *)
(* mrdiff.py, the reverse lookup of line ranges in callgraph.py and the    *)
(* attribution of diffextract.py.                                          *)
(*                                                                         *)
(* git's output and the rows of the index are inputs.  A hunk is where it  *)
(* starts in the new file, how many lines it has there, and the function   *)
(* its header names, if any.                                               *)
(***************************************************************************)
EXTENDS Naturals, Sequences, FiniteSets

CONSTANTS
  Diffs,     \* sequences of [file, hunks], a file once
  Indexes,   \* sets of rows [file, name, qname, start, end]
  EndsWith,  \* EndsWith[f]: the files whose path ends with that of f
  NoHint     \* a hunk header without a function

Elems(s) == {s[i] : i \in 1..Len(s)}

\* What git and the index hold: lines are numbers, a file has one diff, and a row
\* of a file is told by its name and its first line.
ASSUME DiffInputs ==
  /\ \A d \in Diffs :
       /\ d \in Seq(Elems(d)) /\ \A i, j \in 1..Len(d) : d[i].file = d[j].file => i = j
       /\ \A i \in 1..Len(d) :
            /\ d[i].hunks \in Seq(Elems(d[i].hunks))
            /\ \A h \in Elems(d[i].hunks) : h.start \in Nat /\ h.count \in Nat
  /\ \A rows \in Indexes : \A r, q \in rows :
       /\ r.start \in Nat /\ r.end \in Nat
       /\ r.file = q.file /\ r.qname = q.qname /\ r.start = q.start => r = q

VARIABLES
  diff, index,
  extracted,   \* how many files of the diff are done
  functions,   \* the changed functions, in order
  unresolved   \* the files without any

extractVars == <<diff, index, extracted, functions, unresolved>>

-----------------------------------------------------------------------------
(* Lines and ranges *)

\* where lines were only deleted, the place of the deletion
HunkLines(h) == IF h.count = 0 THEN {h.start} ELSE h.start..(h.start + h.count) - 1

ChangedLines(d) == UNION {HunkLines(h) : h \in Elems(d.hunks)}
Hints(d) == {h.hint : h \in Elems(d.hunks)} \ {NoHint}

\* the rows of the very file, or else of any whose path ends like it
Ranges(f) ==
  LET exact == {r \in index : r.file = f}
      rows == IF exact # {} THEN exact ELSE {r \in index : r.file \in EndsWith[f]}
  IN {r \in rows : r.start <= r.end}

Covering(f, l) == {r \in Ranges(f) : l \in r.start..r.end}

Span(r) == r.end - r.start

Tighter(r, q) == Span(r) < Span(q) \/ (Span(r) = Span(q) /\ r.start >= q.start)

\* (mutant) the outermost
InnermostOuter(rs) == CHOOSE r \in rs : \A q \in rs : Tighter(q, r)

\* of ranges alike, the one the index has first
Innermost(rs) == CHOOSE r \in rs : \A q \in rs : Tighter(r, q)

\* one of each name and first line, by line; of ranges of several files that are
\* alike in both, and of those that begin together, any comes first
functions_covering_lines(f, lines) ==
  LET hit == {Innermost(Covering(f, l)) : l \in {l \in lines : Covering(f, l) # {}}}
      Key(r) == <<r.qname, r.start>>
      keys == {Key(r) : r \in hit}
  IN {s \in [1..Cardinality(keys) -> hit] :
        /\ {Key(s[i]) : i \in DOMAIN s} = keys
        /\ \A i, j \in DOMAIN s : i <= j => s[i].start <= s[j].start}

\* hunk headers name none of the functions found: one of the two is wrong
Trusted(d, ranges) == Hints(d) = {} \/ \E r \in Elems(ranges) : r.name \in Hints(d)

\* a function with every changed line of its range, inner functions' included
ChangedFunction(d, r, trusted) ==
  [file |-> d.file, name |-> r.name, qname |-> r.qname, trusted |-> trusted,
   lines |-> ChangedLines(d) \cap (r.start..r.end)]

-----------------------------------------------------------------------------

InitExtract ==
  /\ diff \in Diffs /\ index \in Indexes
  /\ extracted = 0 /\ functions = <<>> /\ unresolved = {}

Extracting == extracted < Len(diff)

ExtractFile ==
  LET d == diff[extracted + 1]
  IN /\ Extracting
     /\ extracted' = extracted + 1
     /\ \E ranges \in functions_covering_lines(d.file, ChangedLines(d)) :
          /\ functions' = functions \o
               [i \in 1..Len(ranges) |-> ChangedFunction(d, ranges[i], Trusted(d, ranges))]
          /\ unresolved' = IF ranges = <<>> THEN unresolved \cup {d.file} ELSE unresolved
     /\ UNCHANGED <<diff, index>>

as_target(f) == <<f.file, f.name>>

\* of the first n functions those to be trusted
Kept ==
  LET kept[n \in 0..Len(functions)] ==
        IF n = 0 THEN <<>>
        ELSE IF functions[n].trusted THEN Append(kept[n - 1], functions[n]) ELSE kept[n - 1]
  IN kept

TrustedFunctions == Kept[Len(functions)]

=============================================================================
