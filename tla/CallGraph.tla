------------------------------ MODULE CallGraph ------------------------------
(***************************************************************************)
(* Batches along call chains: the reverse breadth-first search and the     *)
(* grouping of src/aicoverage/callgraph.py, as run_mr_loop uses them (one  *)
(* path a target).                                                         *)
(*                                                                         *)
(* The call edges are an input.  Node names may be qualified where the     *)
(* search asks for the bare name.  The order in which the callers of a     *)
(* function are looked at is that of a hash set: any.                      *)
(***************************************************************************)
EXTENDS Naturals, Sequences, FiniteSets

CONSTANTS
  Names, Bare,      \* node names, and what _bare_name makes of each
  Entries,          \* the configured entry points, bare
  MaxDepth,         \* max_depth of the search
  BatchSize,        \* of the size strategy
  Files,
  CallGraphs        \* sets of <<caller, callee>>

ASSUME GraphConstants ==
  /\ Bare \in [Names -> Names] /\ \A n \in Names : Bare[Bare[n]] = Bare[n]
  /\ Entries # {} /\ MaxDepth \in Nat /\ BatchSize \in Nat \ {0}
  /\ \A g \in CallGraphs : g \subseteq Names \X Names

VARIABLES
  calls, strategy,
  fellBack,              \* the strategy asked for failed
  step,                  \* "wait", "trace", "group" or "done"
  changed,               \* the functions to be batched, as <<file, name>>
  todo, traced,          \* targets to trace, the path of each, <<>> for none
  queue, path, callers,  \* of the search: the paths to extend, the one being
                         \* extended and the callers it has left
  visited,               \* empty between two searches
  grouped,               \* how many functions are in a batch
  batches, unreachable

searchVars == <<queue, path, callers, visited>>
groupVars  == <<grouped, batches, unreachable>>
traceVars  == <<calls, strategy, fellBack, step, changed, todo, traced, searchVars, groupVars>>

Targets == Files \X Names

InitTrace ==
  /\ calls \in CallGraphs /\ strategy \in {"chain", "file", "size"}
  /\ fellBack = FALSE /\ step = "wait" /\ changed = <<>>
  /\ todo = <<>> /\ traced = [n \in Names |-> <<>>]
  /\ queue = <<>> /\ path = <<>> /\ callers = {} /\ visited = {}
  /\ grouped = 0 /\ batches = <<>> /\ unreachable = <<>>

split_batches(functions_changed) ==
  /\ step = "wait" /\ changed' = functions_changed
  /\ IF strategy = "chain"
     THEN step' = "trace" /\ todo' = [i \in 1..Len(changed') |-> changed'[i][2]]
     ELSE step' = "group" /\ UNCHANGED todo
  /\ UNCHANGED <<calls, strategy, fellBack, traced, searchVars, groupVars>>

\* no entry points configured, no index, a locked database: batches by file
FallBack ==
  /\ step = "trace" /\ todo # <<>> /\ Len(todo) = Len(changed) /\ visited = {}
  /\ step' = "group" /\ strategy' = "file" /\ fellBack' = TRUE
  /\ UNCHANGED <<calls, changed, todo, traced, searchVars, groupVars>>

-----------------------------------------------------------------------------
(* The search *)

Target == Head(todo)
Searching == step = "trace" /\ visited # {}
BetweenSearches == step = "trace" /\ visited = {} /\ todo # <<>>

\* the search for the target ends with path p, or with none
Answer(p) ==
  /\ traced' = [traced EXCEPT ![Target] = p] /\ todo' = Tail(todo)
  /\ queue' = <<>> /\ path' = <<>> /\ callers' = {} /\ visited' = {}

CallersOf(n) == {c \in Names : <<c, Bare[n]>> \in calls}
Indexed(n) == \E e \in calls : Bare[n] \in {e[1], e[2]}

\* an entry itself, or a name the index knows no call of
TraceTrivial ==
  /\ BetweenSearches
  /\ \/ Bare[Target] \in Entries /\ Answer(<<Target>>)
     \/ Bare[Target] \notin Entries /\ ~Indexed(Target) /\ Answer(<<>>)
  /\ UNCHANGED <<calls, strategy, fellBack, step, changed, groupVars>>

BeginSearch ==
  /\ BetweenSearches /\ Bare[Target] \notin Entries /\ Indexed(Target)
  /\ queue' = << <<Target>> >> /\ visited' = {Target, Bare[Target]}
  /\ UNCHANGED <<calls, strategy, fellBack, step, changed, todo, traced, path, callers, groupVars>>

\* (mutant) depth < max_depth
TooDeepEarly(p) == Len(p) > MaxDepth

\* a level is opened while its depth, the calls on its paths, is at most max_depth
TooDeep(p) == Len(p) > MaxDepth + 1

\* the next path of this level or of the next one
ExtendPath ==
  /\ Searching /\ callers = {} /\ queue # <<>> /\ ~TooDeep(Head(queue))
  /\ path' = Head(queue) /\ queue' = Tail(queue) /\ callers' = CallersOf(Head(queue)[1])
  /\ UNCHANGED <<calls, strategy, fellBack, step, changed, todo, traced, visited, groupVars>>

GiveUpSearch ==
  /\ Searching /\ callers = {} /\ (queue # <<>> => TooDeep(Head(queue)))
  /\ Answer(<<>>)
  /\ UNCHANGED <<calls, strategy, fellBack, step, changed, groupVars>>

OnPath(c) == \E i \in 1..Len(path) : Bare[c] = Bare[path[i]]

\* (mutant) the caller at the wrong end of the path
EntryFoundAppended(c) ==
  /\ Bare[c] \in Entries /\ ~OnPath(c)
  /\ Answer(Append(path, c))

EntryFound(c) ==
  /\ Bare[c] \in Entries /\ ~OnPath(c)
  /\ Answer(<<c>> \o path)

\* (mutant) only the path itself guards against cycles
SeenOnPath(c) == OnPath(c)

Seen(c) == OnPath(c) \/ Bare[c] \in visited

Follow(c) ==
  /\ Bare[c] \notin Entries /\ ~Seen(c)
  /\ queue' = Append(queue, <<c>> \o path) /\ visited' = visited \cup {Bare[c]}
  /\ callers' = callers \ {c} /\ UNCHANGED <<path, todo, traced>>

Skip(c) ==
  /\ OnPath(c) \/ (Bare[c] \notin Entries /\ Seen(c))
  /\ callers' = callers \ {c} /\ UNCHANGED <<queue, path, visited, todo, traced>>

VisitCaller ==
  /\ Searching
  /\ \E c \in callers : EntryFound(c) \/ Follow(c) \/ Skip(c)
  /\ UNCHANGED <<calls, strategy, fellBack, step, changed, groupVars>>

TracesDone ==
  /\ step = "trace" /\ todo = <<>> /\ step' = "group"
  /\ UNCHANGED <<calls, strategy, fellBack, changed, todo, traced, searchVars, groupVars>>

-----------------------------------------------------------------------------
(* Batches *)

\* the entry, and the function it calls on the way to f
Route(f) ==
  LET p == traced[f[2]] IN <<p[1], IF Len(p) > 1 THEN p[2] ELSE p[1]>>

\* whether f goes into batch k
Joins(f, k) ==
  CASE strategy = "size" -> k = Len(batches) /\ Len(batches[k]) < BatchSize
    [] strategy = "file" -> batches[k][1][1] = f[1]
    [] OTHER             -> Route(batches[k][1]) = Route(f)

Unreachable(f) == strategy = "chain" /\ traced[f[2]] = <<>>

Grouped == changed[grouped + 1]

GroupFunction ==
  /\ step = "group" /\ grouped < Len(changed)
  /\ grouped' = grouped + 1
  /\ \/ /\ Unreachable(Grouped)
        /\ unreachable' = Append(unreachable, Grouped) /\ UNCHANGED batches
     \/ /\ ~Unreachable(Grouped)
        /\ \/ \E k \in 1..Len(batches) :
                Joins(Grouped, k) /\ batches' = [batches EXCEPT ![k] = Append(@, Grouped)]
           \/ /\ \A k \in 1..Len(batches) : ~Joins(Grouped, k)
              /\ batches' = Append(batches, <<Grouped>>)
        /\ UNCHANGED unreachable
  /\ UNCHANGED <<calls, strategy, fellBack, step, changed, todo, traced, searchVars>>

\* (mutant) the unreachable functions are left out
LastBatchDropped == <<>>

LastBatch == IF unreachable = <<>> THEN <<>> ELSE <<unreachable>>

\* On the fallback run_mr_loop takes what split_batches returns, the pair of the batches
\* and of no unreachable function, for the list of batches.
BatchesMade ==
  /\ step = "group" /\ grouped = Len(changed)
  /\ step' = "done"
  /\ batches' = IF fellBack THEN <<batches, <<>> >> ELSE batches \o LastBatch
  /\ UNCHANGED <<calls, strategy, fellBack, changed, todo, traced, searchVars, grouped, unreachable>>

Batching == \/ FallBack \/ TraceTrivial \/ BeginSearch
            \/ ExtendPath \/ VisitCaller \/ GiveUpSearch \/ TracesDone
            \/ GroupFunction \/ BatchesMade

NextTrace == Batching \/ \E fs \in Seq(Targets) : split_batches(fs)

SpecTrace == InitTrace /\ [][NextTrace]_traceVars

-----------------------------------------------------------------------------
(* Correctness *)

\* x calls y as far as the search can see
Calls(x, y) == <<x, Bare[y]>> \in calls

Chain(p, t) ==
  /\ p # <<>> /\ p[Len(p)] = t /\ Bare[p[1]] \in Entries
  /\ \A i \in 1..Len(p) - 1 : Calls(p[i], p[i + 1])
  /\ \A i, j \in 1..Len(p) : Bare[p[i]] = Bare[p[j]] => i = j

\* The path a function is batched by is a chain of calls from an entry down to
\* it, without a detour, whatever the order the callers were looked at in and
\* however the calls go round in circles.  (callgraph.py: trace_to_entrypoints.)
ChainsReal == \A t \in Names : traced[t] # <<>> => Chain(traced[t], t)

\* The search looks at every function once: of the paths it holds no two begin
\* with the same function, so that it ends soon on every graph.  (callgraph.py:
\* visited.)
ExpandedOnce ==
  /\ \A i, j \in 1..Len(queue) : Bare[queue[i][1]] = Bare[queue[j][1]] => i = j
  /\ \A i \in 1..Len(queue), j \in 1..Len(path) : Bare[queue[i][1]] # Bare[path[j]]

\* what calls t over at most k calls
Callers(t) ==
  LET up[k \in Nat] ==
        IF k = 0 THEN {t} ELSE {c \in Names : \E n \in up[k - 1] : Calls(c, n)} \cup up[k - 1]
  IN up

ReachedWithin(t, k) == \E n \in Callers(t)[k] : Bare[n] \in Entries

\* A changed function is called unreachable (dead code, not wired) only if no
\* chain of max_depth + 1 calls leads to it, and the chain it is batched by is a
\* shortest one.  (callgraph.py: the levels of the search; mr_loop.py: the text
\* that tells the agent so.)
UnreachableIsReal ==
  /\ \A i \in 1..Len(unreachable) : ~ReachedWithin(unreachable[i][2], MaxDepth + 1)
  /\ \A t \in Names : Len(traced[t]) > 1 => ~ReachedWithin(t, Len(traced[t]) - 2)

=============================================================================
