------------------------ MODULE ChangeBatches_proofs ------------------------
(***************************************************************************)
(* From a diff to batches along call chains.                               *)
(*                                                                         *)
(* The reverse search returns chains of calls and holds no function twice, *)
(* on every call graph, cyclic ones included, for every depth limit and    *)
(* every order in which callers are met.  Its chains are shortest ones,    *)
(* and where it finds none there is none.                                  *)
(*                                                                         *)
(* The first two rest on what every path the search holds is (Partial: a   *)
(* chain that an entry is still missing from), and on visited covering all *)
(* that is on a path (Heads).  The last two rest on the search going up    *)
(* level by level: what has been seen covers all that is nearer (Near), no *)
(* path is a detour (Shortest), and what has been seen has its callers     *)
(* seen or waiting (Closed).                                               *)
(*                                                                         *)
(* That the batches are the change rests on the functions found so far     *)
(* (ExtractInv) and on the batches having different tags (Grouping).       *)
(***************************************************************************)
EXTENDS ChangeBatches, NatLemmas, TLAPS

\* a chain down to t, without an entry yet
Partial(p, t) ==
  /\ p \in Seq(Names) /\ p # <<>> /\ p[Len(p)] = t
  /\ \A i \in 1..Len(p) - 1 : Calls(p[i], p[i + 1])
  /\ \A i, j \in 1..Len(p) : Bare[p[i]] = Bare[p[j]] => i = j

Covered(p) == \A j \in 1..Len(p) : Bare[p[j]] \in visited

TypeT ==
  /\ calls \subseteq Names \X Names
  /\ changed \in Seq(Targets) /\ todo \in Seq(Names)
  /\ traced \in [Names -> Seq(Names)]
  /\ queue \in Seq(Seq(Names)) /\ path \in Seq(Names)
  /\ callers \in SUBSET Names /\ visited \in SUBSET Names

\* between searches nothing of a search is left
Idle ==
  /\ visited = {} => queue = <<>> /\ path = <<>> /\ callers = {}
  /\ visited # {} => step = "trace" /\ todo # <<>>

Paths ==
  visited # {} =>
    /\ \A i \in 1..Len(queue) : Partial(queue[i], Target) /\ Covered(queue[i])
    /\ path # <<>> => Partial(path, Target) /\ Covered(path)
    /\ callers # {} => path # <<>>
    /\ \A c \in callers : Calls(c, path[1])

\* the head of a path is on no other path
Heads ==
  /\ \A i, k \in 1..Len(queue) : \A j \in 1..Len(queue[k]) :
       Bare[queue[i][1]] = Bare[queue[k][j]] => i = k
  /\ \A i \in 1..Len(queue), j \in 1..Len(path) : Bare[queue[i][1]] # Bare[path[j]]

TraceInv == TypeT /\ Idle /\ Paths /\ Heads /\ ChainsReal

-----------------------------------------------------------------------------

\* The bare name of a name is a name.
LEMMA BareTyped == \A n \in Names : Bare[n] \in Names
BY GraphConstants

\* A sequence with one more element in front.
LEMMA Prepended ==
  ASSUME NEW S, NEW e \in S, NEW s \in Seq(S)
  PROVE  /\ <<e>> \o s \in Seq(S) /\ Len(<<e>> \o s) = Len(s) + 1 /\ <<e>> \o s # <<>>
         /\ (<<e>> \o s)[1] = e
         /\ \A i \in 1..Len(s) : (<<e>> \o s)[i + 1] = s[i]
         /\ \A i \in 1..Len(<<e>> \o s) :
              i # 1 => i - 1 \in 1..Len(s) /\ (<<e>> \o s)[i] = s[i - 1]
OBVIOUS

\* A caller that is not on a path makes it one call longer.
LEMMA Longer ==
  ASSUME NEW p, NEW t, Partial(p, t), NEW c \in Names, Calls(c, p[1]),
         \A i \in 1..Len(p) : Bare[c] # Bare[p[i]]
  PROVE  Partial(<<c>> \o p, t)
<1> DEFINE q == <<c>> \o p
<1>1. p \in Seq(Names) /\ p # <<>> /\ Len(p) \in Nat \ {0}
  BY DEF Partial
<1>2. /\ q \in Seq(Names) /\ q # <<>> /\ Len(q) = Len(p) + 1 /\ q[1] = c
      /\ \A i \in 1..Len(p) : q[i + 1] = p[i]
      /\ \A i \in 1..Len(q) : i # 1 => i - 1 \in 1..Len(p) /\ q[i] = p[i - 1]
  BY <1>1, Prepended
<1> HIDE DEF q
<1>3. q[Len(q)] = t
  BY <1>1, <1>2 DEF Partial
<1>4. ASSUME NEW i \in 1..Len(q) - 1 PROVE Calls(q[i], q[i + 1])
  <2>1. i \in 1..Len(p) /\ q[i + 1] = p[i]
    BY <1>1, <1>2
  <2>2. CASE i = 1
    BY <1>2, <2>1, <2>2
  <2>3. CASE i # 1
    <3>1. q[i] = p[i - 1] /\ i - 1 \in 1..Len(p) - 1 /\ (i - 1) + 1 = i
      BY <1>1, <1>2, <2>1, <2>3
    <3>2. Calls(p[i - 1], p[(i - 1) + 1])
      BY <3>1 DEF Partial
    <3> QED BY <2>1, <3>1, <3>2
  <2> QED BY <2>2, <2>3
<1>5. ASSUME NEW i \in 1..Len(q), NEW j \in 1..Len(q), Bare[q[i]] = Bare[q[j]] PROVE i = j
  <2>1. CASE i = 1 \/ j = 1
    BY <1>2, <1>5, <2>1
  <2>2. CASE i # 1 /\ j # 1
    <3>1. i - 1 \in 1..Len(p) /\ j - 1 \in 1..Len(p) /\ Bare[p[i - 1]] = Bare[p[j - 1]]
      BY <1>2, <1>5, <2>2
    <3>2. i - 1 = j - 1
      BY <3>1 DEF Partial
    <3> QED BY <1>1, <1>2, <3>2
  <2> QED BY <2>1, <2>2
<1> QED BY <1>2, <1>3, <1>4, <1>5 DEF q, Partial

\* A path that an entry begins is a chain.
LEMMA Arrived ==
  ASSUME NEW p, NEW t, Partial(p, t), Bare[p[1]] \in Entries
  PROVE  Chain(p, t)
BY DEF Partial, Chain

\* An answer that is a chain, or none, leaves nothing of the search.
LEMMA AnswerGiven ==
  ASSUME TraceInv, todo # <<>>, NEW p \in Seq(Names), p # <<>> => Chain(p, Target),
         Answer(p), UNCHANGED <<calls, step, changed>>
  PROVE  TraceInv'
<1>1. Target \in Names /\ todo' \in Seq(Names)
  BY DEF TraceInv, TypeT, Answer, Target
<1>2. /\ queue' = <<>> /\ path' = <<>> /\ callers' = {} /\ visited' = {}
      /\ traced' = [traced EXCEPT ![Target] = p]
  BY DEF Answer
<1>3. TypeT'
  BY <1>1, <1>2 DEF TraceInv, TypeT
<1>4. Idle' /\ Paths' /\ Heads'
  BY <1>2 DEF Idle, Paths, Heads
<1>5. ChainsReal'
  <2>1. \A t \in Names : traced'[t] = IF t = Target THEN p ELSE traced[t]
    BY <1>1, <1>2 DEF TraceInv, TypeT
  <2>2. \A q, t : Chain(q, t)' <=> Chain(q, t)
    BY DEF Chain, Calls
  <2> QED BY <2>1, <2>2 DEF TraceInv, ChainsReal
<1> QED BY <1>3, <1>4, <1>5 DEF TraceInv

\* So does no answer.
LEMMA NoneGiven ==
  ASSUME TraceInv, todo # <<>>, Answer(<<>>), UNCHANGED <<calls, step, changed>>
  PROVE  TraceInv'
<1> DEFINE p == <<>>
<1>1. p \in Seq(Names) /\ (p # <<>> => Chain(p, Target)) /\ Answer(p)
  OBVIOUS
<1> HIDE DEF p
<1> QED BY <1>1, AnswerGiven

\* A step that leaves the search and its answers alone, between two searches.
LEMMA SearchUntouched ==
  ASSUME TraceInv, UNCHANGED <<calls, traced, searchVars>>, changed' \in Seq(Targets),
         todo' \in Seq(Names), visited = {} \/ (UNCHANGED <<step, todo>>)
  PROVE  TraceInv'
<1>1. UNCHANGED <<calls, traced, queue, path, callers, visited>>
  BY DEF searchVars
<1>2. TypeT' /\ Heads' /\ Idle'
  <2>1. TypeT'
    BY <1>1 DEF TraceInv, TypeT
  <2>2. Heads'
    BY <1>1 DEF TraceInv, Heads
  <2>3. Idle'
    BY <1>1 DEF TraceInv, Idle
  <2> QED BY <2>1, <2>2, <2>3
<1>3. ChainsReal'
  BY <1>1 DEF TraceInv, ChainsReal, Chain, Calls
<1>4. Paths'
  <2>1. CASE visited = {}
    BY <1>1, <2>1 DEF Paths
  <2>2. CASE visited # {}
    <3>1. Target' = Target
      BY <2>2 DEF Target
    <3>2. \A i \in 1..Len(queue) : Partial(queue[i], Target) /\ Covered(queue[i])
      BY <2>2 DEF TraceInv, Paths
    <3>3. path # <<>> => Partial(path, Target) /\ Covered(path)
      BY <2>2 DEF TraceInv, Paths
    <3>4. (callers # {} => path # <<>>) /\ \A c \in callers : Calls(c, path[1])
      BY <2>2 DEF TraceInv, Paths
    <3> QED BY <1>1, <3>1, <3>2, <3>3, <3>4 DEF Paths, Partial, Covered, Calls
  <2> QED BY <2>1, <2>2
<1> QED BY <1>2, <1>3, <1>4 DEF TraceInv

\* The invariant holds before functions are given.
LEMMA TraceInit == InitTrace => TraceInv
<1> SUFFICES ASSUME InitTrace PROVE TraceInv
  OBVIOUS
<1>1. TypeT
  BY GraphConstants DEF InitTrace, TypeT
<1>2. Idle /\ Paths /\ Heads
  BY DEF InitTrace, Idle, Paths, Heads
<1>3. ChainsReal
  BY DEF InitTrace, ChainsReal
<1> QED BY <1>1, <1>2, <1>3 DEF TraceInv

\* Functions are given between searches.
LEMMA SplitKeeps ==
  ASSUME TraceInv, NEW fs \in Seq(Targets), split_batches(fs)
  PROVE  TraceInv'
<1>1. step = "wait" /\ changed' = fs /\ UNCHANGED <<calls, traced, searchVars>>
  BY DEF split_batches
<1>2. visited = {}
  BY <1>1 DEF TraceInv, Idle
<1>3. todo' \in Seq(Names)
  <2>1. CASE strategy = "chain"
    <3>1. todo' = [i \in 1..Len(fs) |-> fs[i][2]] /\ Len(fs) \in Nat
      BY <1>1, <2>1 DEF split_batches
    <3>2. \A i \in 1..Len(fs) : fs[i][2] \in Names
      BY DEF Targets
    <3> QED BY <3>1, <3>2
  <2>2. CASE strategy # "chain"
    BY <2>2 DEF split_batches, TraceInv, TypeT
  <2> QED BY <2>1, <2>2
<1> QED BY <1>1, <1>2, <1>3, SearchUntouched

\* An entry is its own chain, and an unknown name has none.
LEMMA TrivialKeeps ==
  ASSUME TraceInv, TraceTrivial
  PROVE  TraceInv'
<1>1. todo # <<>> /\ UNCHANGED <<calls, step, changed>> /\ Target \in Names
  BY DEF TraceTrivial, BetweenSearches, TraceInv, TypeT, Target
<1>2. CASE Bare[Target] \in Entries /\ Answer(<<Target>>)
  <2>1. <<Target>> \in Seq(Names) /\ Chain(<<Target>>, Target)
    BY <1>1, <1>2 DEF Chain
  <2> QED BY <1>1, <1>2, <2>1, AnswerGiven
<1>3. CASE Answer(<<>>)
  BY <1>1, <1>3, NoneGiven
<1> QED BY <1>2, <1>3 DEF TraceTrivial

\* A search begins with the target alone.
LEMMA BeginKeeps ==
  ASSUME TraceInv, BeginSearch
  PROVE  TraceInv'
<1>1. /\ step = "trace" /\ todo # <<>> /\ Target \in Names /\ Bare[Target] \in Names
      /\ path = <<>> /\ callers = {}
      /\ queue' = << <<Target>> >> /\ visited' = {Target, Bare[Target]}
      /\ UNCHANGED <<calls, step, changed, todo, traced, path, callers>>
  BY BareTyped DEF BeginSearch, BetweenSearches, TraceInv, TypeT, Idle, Target
<1>2. TypeT' /\ Idle'
  BY <1>1 DEF TraceInv, TypeT, Idle
<1>3. Partial(<<Target>>, Target)' /\ Covered(<<Target>>)' /\ Target' = Target
  BY <1>1 DEF Partial, Covered, Target
<1>4. Paths' /\ Heads'
  BY <1>1, <1>3 DEF Paths, Heads
<1>5. ChainsReal'
  BY <1>1 DEF TraceInv, ChainsReal, Chain, Calls
<1> QED BY <1>2, <1>4, <1>5 DEF TraceInv

\* The path taken off the queue is the one extended next.
LEMMA ExtendKeeps ==
  ASSUME TraceInv, ExtendPath
  PROVE  TraceInv'
<1>1. /\ visited # {} /\ queue # <<>> /\ queue \in Seq(Seq(Names)) /\ Len(queue) \in Nat \ {0}
      /\ path' = queue[1] /\ queue' = Tail(queue) /\ callers' = CallersOf(queue[1][1])
      /\ UNCHANGED <<calls, step, changed, todo, traced, visited>>
  BY DEF ExtendPath, Searching, TraceInv, TypeT
<1>2. /\ queue' \in Seq(Seq(Names)) /\ Len(queue') = Len(queue) - 1
      /\ \A i \in 1..Len(queue') : queue'[i] = queue[i + 1] /\ i + 1 \in 1..Len(queue)
      /\ 1 \in 1..Len(queue)
  BY <1>1
<1>3. Target' = Target
  BY <1>1 DEF Target
<1>4. Partial(path', Target) /\ Covered(path')
  BY <1>1, <1>2 DEF TraceInv, Paths
<1>5. TypeT' /\ Idle'
  BY <1>1, <1>2 DEF TraceInv, TypeT, Idle, CallersOf
<1>6. Paths'
  <2>1. \A i \in 1..Len(queue') : Partial(queue'[i], Target) /\ Covered(queue'[i])
    BY <1>1, <1>2 DEF TraceInv, Paths
  <2>2. path' # <<>>
    BY <1>4 DEF Partial
  <2>3. \A c \in callers' : Calls(c, path'[1])
    BY <1>1 DEF CallersOf, Calls
  <2> QED BY <1>1, <1>3, <1>4, <2>1, <2>2, <2>3 DEF Paths, Partial, Covered, Calls
<1>7. Heads'
  <2>1. ASSUME NEW i \in 1..Len(queue'), NEW k \in 1..Len(queue'), NEW j \in 1..Len(queue'[k]),
               Bare[queue'[i][1]] = Bare[queue'[k][j]]
        PROVE  i = k
    <3>1. /\ i + 1 \in 1..Len(queue) /\ k + 1 \in 1..Len(queue) /\ j \in 1..Len(queue[k + 1])
          /\ Bare[queue[i + 1][1]] = Bare[queue[k + 1][j]]
      BY <1>2, <2>1
    <3>2. i + 1 = k + 1
      BY <3>1 DEF TraceInv, Heads
    <3> QED BY <1>2, <3>2
  <2>2. ASSUME NEW i \in 1..Len(queue'), NEW j \in 1..Len(path')
        PROVE  Bare[queue'[i][1]] # Bare[path'[j]]
    <3>1. i + 1 # 1
      BY <1>2
    <3> QED BY <1>1, <1>2, <3>1 DEF TraceInv, Heads
  <2> QED BY <2>1, <2>2 DEF Heads
<1>8. ChainsReal'
  BY <1>1 DEF TraceInv, ChainsReal, Chain, Calls
<1> QED BY <1>5, <1>6, <1>7, <1>8 DEF TraceInv

\* Giving up is no answer.
LEMMA GiveUpKeeps ==
  ASSUME TraceInv, GiveUpSearch
  PROVE  TraceInv'
<1>1. todo # <<>> /\ UNCHANGED <<calls, step, changed>> /\ Answer(<<>>)
  BY DEF GiveUpSearch, Searching, TraceInv, Idle
<1> QED BY <1>1, NoneGiven

\* What a step at a caller knows of it.
LEMMA Caller ==
  ASSUME TraceInv, Searching, NEW c \in callers
  PROVE  /\ c \in Names /\ Bare[c] \in Names /\ todo # <<>> /\ path # <<>>
         /\ Partial(path, Target) /\ Covered(path) /\ Calls(c, path[1])
BY BareTyped DEF TraceInv, TypeT, Idle, Paths, Searching

\* An entry that calls the path completes a chain.
LEMMA EntryKeeps ==
  ASSUME TraceInv, Searching, NEW c \in callers, EntryFound(c), UNCHANGED <<calls, step, changed>>
  PROVE  TraceInv'
<1>1. Partial(<<c>> \o path, Target)
  BY Caller, Longer DEF EntryFound, OnPath
<1>2. <<c>> \o path \in Seq(Names) /\ (<<c>> \o path)[1] = c
  BY Caller, Prepended DEF TraceInv, TypeT
<1>3. Chain(<<c>> \o path, Target)
  BY <1>1, <1>2, Arrived DEF EntryFound
<1> QED BY <1>2, <1>3, Caller, AnswerGiven DEF EntryFound

\* A caller not seen before begins a new path, whose head is on no other.
LEMMA FollowKeeps ==
  ASSUME TraceInv, Searching, NEW c \in callers, Follow(c), UNCHANGED <<calls, step, changed>>
  PROVE  TraceInv'
<1> DEFINE q == <<c>> \o path
<1>1. /\ visited # {} /\ ~OnPath(c) /\ Bare[c] \notin visited
      /\ queue' = Append(queue, q) /\ visited' = visited \cup {Bare[c]}
      /\ callers' = callers \ {c} /\ UNCHANGED <<path, todo, traced>>
  BY DEF Follow, Seen, Searching
<1>2. /\ c \in Names /\ Bare[c] \in Names /\ todo # <<>> /\ path # <<>>
      /\ Partial(path, Target) /\ Covered(path) /\ Calls(c, path[1])
      /\ queue \in Seq(Seq(Names)) /\ path \in Seq(Names)
  BY Caller DEF TraceInv, TypeT
<1>3. Partial(q, Target)
  BY <1>1, <1>2, Longer DEF OnPath
<1>4. /\ q \in Seq(Names) /\ q # <<>> /\ Len(q) = Len(path) + 1 /\ q[1] = c
      /\ \A j \in 1..Len(q) : j # 1 => j - 1 \in 1..Len(path) /\ q[j] = path[j - 1]
  BY <1>2, Prepended
<1> HIDE DEF q
<1>5. /\ queue' \in Seq(Seq(Names)) /\ Len(queue) \in Nat /\ Len(queue') = Len(queue) + 1
      /\ \A i \in 1..Len(queue) : queue'[i] = queue[i]
      /\ queue'[Len(queue) + 1] = q
      /\ \A i \in 1..Len(queue') : i \in 1..Len(queue) \/ i = Len(queue) + 1
  BY <1>1, <1>2, <1>4
<1>6. Target' = Target
  BY <1>1 DEF Target
<1>7. \A j \in 1..Len(q) : Bare[q[j]] \in visited'
  BY <1>1, <1>2, <1>4 DEF Covered
<1>8. TypeT' /\ Idle'
  BY <1>1, <1>2, <1>5 DEF TraceInv, TypeT, Idle
<1>9. \A i \in 1..Len(queue) : Partial(queue[i], Target) /\ Covered(queue[i])
  BY <1>1 DEF TraceInv, Paths
<1>10. Paths'
  <2>1. \A i \in 1..Len(queue') :
          Partial(queue'[i], Target) /\ \A j \in 1..Len(queue'[i]) : Bare[queue'[i][j]] \in visited'
    BY <1>1, <1>3, <1>5, <1>7, <1>9 DEF Covered
  <2>2. \A j \in 1..Len(path) : Bare[path[j]] \in visited'
    BY <1>1, <1>2 DEF Covered
  <2>3. \A d \in callers' : Calls(d, path[1])
    BY <1>1 DEF TraceInv, Paths
  <2> QED BY <1>1, <1>2, <1>6, <2>1, <2>2, <2>3 DEF Paths, Partial, Covered, Calls
<1>11. Heads'
  <2>1. \A i \in 1..Len(queue) : queue[i] \in Seq(Names) /\ 1 \in 1..Len(queue[i])
    BY <1>9 DEF Partial
  <2>2. ASSUME NEW i \in 1..Len(queue'), NEW k \in 1..Len(queue'), NEW j \in 1..Len(queue'[k]),
               Bare[queue'[i][1]] = Bare[queue'[k][j]]
        PROVE  i = k
    <3>1. CASE i \in 1..Len(queue) /\ k \in 1..Len(queue)
      BY <1>5, <2>2, <3>1 DEF TraceInv, Heads
    <3>2. CASE i \in 1..Len(queue) /\ k = Len(queue) + 1
      <4>1. Bare[queue[i][1]] = Bare[q[j]] /\ j \in 1..Len(q) /\ Bare[queue[i][1]] \in visited
        BY <1>5, <1>9, <2>1, <2>2, <3>2 DEF Covered
      <4>2. j # 1
        BY <1>1, <1>4, <4>1
      <4>3. j - 1 \in 1..Len(path) /\ Bare[queue[i][1]] = Bare[path[j - 1]]
        BY <1>4, <4>1, <4>2
      <4> QED BY <3>2, <4>3 DEF TraceInv, Heads
    <3>3. CASE i = Len(queue) + 1 /\ k \in 1..Len(queue)
      <4>1. Bare[c] = Bare[queue[k][j]] /\ j \in 1..Len(queue[k])
        BY <1>4, <1>5, <2>2, <3>3
      <4> QED BY <1>1, <1>9, <3>3, <4>1 DEF Covered
    <3>4. CASE i = Len(queue) + 1 /\ k = Len(queue) + 1
      BY <3>4
    <3> QED BY <1>5, <3>1, <3>2, <3>3, <3>4
  <2>3. ASSUME NEW i \in 1..Len(queue'), NEW j \in 1..Len(path')
        PROVE  Bare[queue'[i][1]] # Bare[path'[j]]
    <3>1. CASE i \in 1..Len(queue)
      BY <1>1, <1>5, <3>1 DEF TraceInv, Heads
    <3>2. CASE i = Len(queue) + 1
      BY <1>1, <1>4, <1>5, <3>2 DEF OnPath
    <3> QED BY <1>5, <3>1, <3>2
  <2> QED BY <2>2, <2>3 DEF Heads
<1>12. ChainsReal'
  BY <1>1 DEF TraceInv, ChainsReal, Chain, Calls
<1> QED BY <1>8, <1>10, <1>11, <1>12 DEF TraceInv

\* A caller that is left out changes no path.
LEMMA SkipKeeps ==
  ASSUME TraceInv, Searching, NEW c \in callers, Skip(c), UNCHANGED <<calls, step, changed>>
  PROVE  TraceInv'
<1>1. /\ callers' = callers \ {c}
      /\ UNCHANGED <<calls, step, changed, queue, path, visited, todo, traced>>
  BY DEF Skip
<1>2. TypeT' /\ Idle' /\ Heads'
  BY <1>1 DEF TraceInv, TypeT, Idle, Heads
<1>3. Paths'
  BY <1>1 DEF TraceInv, Paths, Partial, Covered, Calls, Target
<1>4. ChainsReal'
  BY <1>1 DEF TraceInv, ChainsReal, Chain, Calls
<1> QED BY <1>2, <1>3, <1>4 DEF TraceInv

\* One caller, in any order.
LEMMA VisitKeeps ==
  ASSUME TraceInv, VisitCaller
  PROVE  TraceInv'
<1>1. Searching /\ UNCHANGED <<calls, step, changed>>
  BY DEF VisitCaller
<1>2. PICK c \in callers : EntryFound(c) \/ Follow(c) \/ Skip(c)
  BY DEF VisitCaller
<1> QED BY <1>1, <1>2, EntryKeeps, FollowKeeps, SkipKeeps

\* The steps that change nothing the invariant speaks of, but step.
LEMMA OtherKeeps ==
  ASSUME TraceInv,
         FallBack \/ TracesDone \/ GroupFunction \/ BatchesMade \/ UNCHANGED traceVars
  PROVE  TraceInv'
<1>1. UNCHANGED <<calls, changed, todo, traced, searchVars>>
  BY DEF FallBack, TracesDone, GroupFunction, BatchesMade, traceVars
<1>2. visited = {} \/ UNCHANGED <<step, todo>>
  BY DEF FallBack, TracesDone, GroupFunction, BatchesMade, traceVars, TraceInv, Idle
<1>3. changed' \in Seq(Targets) /\ todo' \in Seq(Names)
  BY <1>1 DEF TraceInv, TypeT
<1> QED BY <1>1, <1>2, <1>3, SearchUntouched

\* Every step keeps the invariant.
LEMMA TraceStep == TraceInv /\ [NextTrace]_traceVars => TraceInv'
BY SplitKeeps, TrivialKeeps, BeginKeeps, ExtendKeeps, GiveUpKeeps, VisitKeeps, OtherKeeps
   DEF NextTrace, Batching

\* The invariant gives both properties.
LEMMA TraceImplies == TraceInv => ChainsReal /\ ExpandedOnce
<1> SUFFICES ASSUME TraceInv PROVE ExpandedOnce
  BY DEF TraceInv
<1>1. ASSUME NEW i \in 1..Len(queue) PROVE 1 \in 1..Len(queue[i])
  BY <1>1 DEF TraceInv, TypeT, Idle, Paths, Partial
<1> QED BY <1>1 DEF TraceInv, Heads, ExpandedOnce

\* The path a function is batched by is a chain of calls from an entry, on every graph.
THEOREM TracesAreChains == SpecTrace => []ChainsReal
<1>1. SpecTrace => []TraceInv
  BY TraceInit, TraceStep, PTL DEF SpecTrace
<1> QED BY <1>1, TraceImplies, PTL

\* The search never holds two paths that begin with the same function, nor one that
\* begins with a function of the path it is extending.
THEOREM SearchExpandsOnce == SpecTrace => []ExpandedOnce
<1>1. SpecTrace => []TraceInv
  BY TraceInit, TraceStep, PTL DEF SpecTrace
<1> QED BY <1>1, TraceImplies, PTL

-----------------------------------------------------------------------------
(* What calls a function over at most k calls *)

\* The functions that call one of S, and S.
Up(S) == {c \in Names : \E n \in S : Calls(c, n)} \cup S

\* Callers starts at the function itself and goes up one call at a time.
LEMMA CallersFacts ==
  ASSUME NEW t \in Names
  PROVE  /\ Callers(t)[0] = {t}
         /\ \A k \in Nat : /\ Callers(t)[k] \in SUBSET Names
                           /\ Callers(t)[k + 1] = Up(Callers(t)[k])
<1> DEFINE G == [S \in SUBSET Names |-> Up(S)]
<1>1. G \in [SUBSET Names -> SUBSET Names] /\ {t} \in SUBSET Names
  BY DEF Up
<1>2. PICK f : f \in [Nat -> SUBSET Names] /\ f[0] = {t} /\ \A k \in Nat : f[k + 1] = G[f[k]]
  <2> HIDE DEF G
  <2>1. \E f : Iterated(f, SUBSET Names, {t}, G)
    BY <1>1, Iterates
  <2> QED BY <2>1 DEF Iterated
<1>3. \A k \in Nat : f[k + 1] = Up(f[k])
  BY <1>2
<1> HIDE DEF G
<1>4. \A k \in Nat : f[k] = IF k = 0 THEN {t} ELSE Up(f[k - 1])
  <2> SUFFICES ASSUME NEW k \in Nat, k # 0 PROVE f[k] = Up(f[k - 1])
    BY <1>2
  <2>1. k - 1 \in Nat /\ k - 1 + 1 = k
    OBVIOUS
  <2> QED BY <1>3, <2>1
<1>5. f = [k \in Nat |-> IF k = 0 THEN {t}
                         ELSE {c \in Names : \E n \in f[k - 1] : Calls(c, n)} \cup f[k - 1]]
  BY <1>2, <1>4 DEF Up
<1>6. Callers(t) = [k \in Nat |->
                      IF k = 0 THEN {t}
                      ELSE {c \in Names : \E n \in Callers(t)[k - 1] : Calls(c, n)}
                           \cup Callers(t)[k - 1]]
  BY <1>5 DEF Callers
<1> DEFINE C == Callers(t)
<1>7. C = [k \in Nat |-> IF k = 0 THEN {t} ELSE Up(C[k - 1])]
  BY <1>6 DEF Up
<1> HIDE DEF C
<1>8. C[0] = {t} /\ \A k \in Nat : C[k + 1] = Up(C[k])
  <2>1. \A k \in Nat : C[k] = IF k = 0 THEN {t} ELSE Up(C[k - 1])
    BY <1>7
  <2>2. \A k \in Nat : k + 1 \in Nat /\ k + 1 # 0 /\ k + 1 - 1 = k
    OBVIOUS
  <2> QED BY <2>1, <2>2
<1>9. \A k \in Nat : C[k] \in SUBSET Names
  <2> DEFINE T == {k \in Nat : C[k] \in SUBSET Names}
  <2>1. 0 \in T /\ \A k \in Nat : k \in T => k + 1 \in T
    BY <1>8 DEF Up
  <2> HIDE DEF T
  <2>2. Nat \subseteq T
    BY <2>1, Induction
  <2> QED BY <2>2 DEF T
<1> QED BY <1>8, <1>9 DEF C

\* It grows with the number of calls.
LEMMA CallersGrow ==
  ASSUME NEW t \in Names, NEW k \in Nat, NEW j \in 0..k
  PROVE  Callers(t)[j] \subseteq Callers(t)[k]
<1> DEFINE T == {i \in Nat : Callers(t)[j] \subseteq Callers(t)[j + i]}
<1>1. j + 0 = j /\ \A i \in Nat : j + i \in Nat /\ j + (i + 1) = (j + i) + 1
  OBVIOUS
<1>2. 0 \in T
  BY <1>1
<1>3. \A i \in Nat : Callers(t)[j + i] \subseteq Callers(t)[(j + i) + 1]
  BY <1>1, CallersFacts DEF Up
<1>4. \A i \in Nat : i \in T => i + 1 \in T
  BY <1>1, <1>3
<1> HIDE DEF T
<1>5. Nat \subseteq T
  BY <1>2, <1>4, Induction
<1>6. k - j \in T /\ j + (k - j) = k
  BY <1>5
<1> QED BY <1>6 DEF T

\* The calls alone decide.
LEMMA CallersSame ==
  ASSUME UNCHANGED calls, NEW t \in Names
  PROVE  \A k : ReachedWithin(t, k)' <=> ReachedWithin(t, k)
<1>1. Callers(t)' = Callers(t)
  BY DEF Callers, Calls
<1> QED BY <1>1 DEF ReachedWithin

-----------------------------------------------------------------------------
(* The search goes up level by level *)

\* the calls below which all has been seen, and one more
Level == IF path = <<>> THEN 1 ELSE Len(path)

\* The queue holds this level's paths, then the next one's.
Waves ==
  visited # {} =>
    /\ \A i \in 1..Len(queue) : Len(queue[i]) \in {Level, Level + 1}
    /\ \A i, j \in 1..Len(queue) : i <= j => Len(queue[i]) <= Len(queue[j])

NoEntrySeen == \A n \in Names : Bare[n] \in visited => Bare[n] \notin Entries

\* What calls the target over fewer calls than the level has been seen.
Near == visited # {} => \A n \in Callers(Target)[Level - 1] : Bare[n] \in visited

\* No path of the queue is longer than the way its head is known to have.
Shortest ==
  visited # {} =>
    \A i \in 1..Len(queue) : \A k \in Nat : \A n \in Callers(Target)[k] :
      Bare[n] = Bare[queue[i][1]] => Len(queue[i]) <= k + 1

\* What has been seen has its callers seen, or waits, or is being looked at.
Closed ==
  \A n, c \in Names : Bare[n] \in visited /\ Calls(c, n) =>
    \/ Bare[c] \in visited
    \/ \E i \in 1..Len(queue) : Bare[queue[i][1]] = Bare[n]
    \/ c \in callers /\ Bare[path[1]] = Bare[n]

SearchInv == Waves /\ NoEntrySeen /\ Near /\ Shortest /\ Closed

\* What the search rests on, in the middle of it.
LEMMA InSearch ==
  ASSUME TraceInv, visited # {}
  PROVE  /\ Target \in Names /\ Level \in Nat \ {0} /\ todo # <<>>
         /\ Len(queue) \in Nat
         /\ \A i \in 1..Len(queue) : Len(queue[i]) \in Nat \ {0} /\ queue[i] \in Seq(Names)
                                     /\ queue[i][1] \in Names
         /\ callers \subseteq Names /\ path \in Seq(Names)
         /\ callers # {} => path # <<>> /\ Level = Len(path) /\ path[1] \in Names
<1>1. todo # <<>> /\ todo \in Seq(Names) /\ path \in Seq(Names) /\ callers \subseteq Names
      /\ queue \in Seq(Seq(Names))
  BY DEF TraceInv, TypeT, Idle
<1>2. Target \in Names
  BY <1>1 DEF Target
<1>3. \A i \in 1..Len(queue) : Len(queue[i]) \in Nat \ {0} /\ queue[i] \in Seq(Names)
                               /\ queue[i][1] \in Names
  <2> SUFFICES ASSUME NEW i \in 1..Len(queue)
               PROVE  Len(queue[i]) \in Nat \ {0} /\ queue[i] \in Seq(Names)
                      /\ queue[i][1] \in Names
    OBVIOUS
  <2>1. queue[i] \in Seq(Names) /\ queue[i] # <<>>
    BY <1>1 DEF TraceInv, Paths, Partial
  <2> QED BY <2>1
<1>4. Level \in Nat \ {0}
  BY <1>1 DEF Level
<1>5. callers # {} => path # <<>> /\ Level = Len(path) /\ path[1] \in Names
  <2>1. callers # {} => path # <<>>
    BY DEF TraceInv, Paths
  <2> QED BY <1>1, <2>1 DEF Level
<1> QED BY <1>1, <1>2, <1>3, <1>4, <1>5

\* When a level is done, what calls the target over one call more has been seen too.
LEMMA NextWave ==
  ASSUME TraceInv, SearchInv, visited # {}, callers = {},
         queue # <<>> => Len(queue[1]) = Level + 1
  PROVE  \A n \in Callers(Target)[Level] : Bare[n] \in visited
<1>1. Target \in Names /\ Level \in Nat \ {0} /\ Len(queue) \in Nat
  BY InSearch
<1>2. /\ Callers(Target)[Level] = Up(Callers(Target)[Level - 1])
      /\ Callers(Target)[Level - 1] \subseteq Names
  <2>1. Level - 1 \in Nat /\ (Level - 1) + 1 = Level
    BY <1>1
  <2> QED BY <1>1, <2>1, CallersFacts
<1>3. \A n \in Callers(Target)[Level - 1] : Bare[n] \in visited
  BY DEF SearchInv, Near
<1> SUFFICES ASSUME NEW n \in Names, NEW m \in Callers(Target)[Level - 1], Calls(n, m)
             PROVE  Bare[n] \in visited
  BY <1>2, <1>3 DEF Up
<1>4. Bare[n] \in visited \/ \E i \in 1..Len(queue) : Bare[queue[i][1]] = Bare[m]
  BY <1>2, <1>3 DEF SearchInv, Closed
<1>5. ASSUME NEW i \in 1..Len(queue), Bare[queue[i][1]] = Bare[m] PROVE FALSE
  <2>1. Len(queue[i]) <= (Level - 1) + 1
    <3>1. \A k \in Nat : \A l \in Callers(Target)[k] :
            Bare[l] = Bare[queue[i][1]] => Len(queue[i]) <= k + 1
      BY DEF SearchInv, Shortest
    <3>2. Level - 1 \in Nat
      BY <1>1
    <3>3. Bare[m] = Bare[queue[i][1]]
      BY <1>5
    <3> QED BY <3>1, <3>2, <3>3
  <2>2. 1 \in 1..Len(queue) /\ 1 <= i /\ queue # <<>>
    BY <1>1, <1>5
  <2>3. Len(queue[1]) <= Len(queue[i])
    BY <2>2 DEF SearchInv, Waves
  <2>4. Len(queue[i]) \in Nat
    BY InSearch
  <2> QED BY <1>1, <2>1, <2>2, <2>3, <2>4
<1> QED BY <1>4, <1>5

\* A search begins with the target seen, and alone.
LEMMA BeginSearches ==
  ASSUME TraceInv, BeginSearch
  PROVE  SearchInv'
<1>1. /\ Target \in Names /\ Bare[Target] \in Names /\ Bare[Target] \notin Entries
      /\ path' = <<>> /\ callers' = {}
      /\ queue' = << <<Target>> >> /\ visited' = {Target, Bare[Target]}
      /\ UNCHANGED <<calls, todo>>
  BY BareTyped DEF BeginSearch, BetweenSearches, TraceInv, TypeT, Idle, Target
<1>2. Target' = Target /\ Callers(Target)' = Callers(Target) /\ Level' = 1
  BY <1>1 DEF Target, Callers, Calls, Level
<1>3. \A n \in Names : Bare[n] \in visited' => Bare[n] = Bare[Target]
  BY <1>1, GraphConstants
<1>4. Len(queue') = 1 /\ queue'[1] = <<Target>> /\ queue'[1][1] = Target /\ Len(queue'[1]) = 1
      /\ \A i \in 1..Len(queue') : i = 1
  BY <1>1
<1>5. Waves' /\ NoEntrySeen'
  BY <1>1, <1>2, <1>3, <1>4 DEF Waves, NoEntrySeen
<1>6. Near'
  <2>1. Level' - 1 = 0 /\ Callers(Target)[0] = {Target}
    BY <1>1, <1>2, CallersFacts
  <2> QED BY <1>1, <1>2, <2>1 DEF Near
<1>7. Shortest'
  <2> SUFFICES ASSUME NEW i \in 1..Len(queue'), NEW k \in Nat PROVE Len(queue'[i]) <= k + 1
    BY DEF Shortest
  <2>1. i = 1 /\ Len(queue'[1]) = 1
    BY <1>4
  <2> QED BY <2>1
<1>8. Closed'
  <2>1. 1 \in 1..Len(queue') /\ Bare[queue'[1][1]] = Bare[Target]
    BY <1>4
  <2> QED BY <1>3, <2>1 DEF Closed
<1> QED BY <1>5, <1>6, <1>7, <1>8 DEF SearchInv

\* The first path of a new level is only taken up when the level before is done.
LEMMA ExtendSearches ==
  ASSUME TraceInv, SearchInv, ExtendPath
  PROVE  SearchInv'
<1>1. /\ visited # {} /\ callers = {} /\ queue # <<>> /\ queue \in Seq(Seq(Names))
      /\ path' = queue[1] /\ queue' = Tail(queue) /\ callers' = CallersOf(queue[1][1])
      /\ UNCHANGED <<calls, todo, visited>>
  BY DEF ExtendPath, Searching, TraceInv, TypeT
<1>2. /\ Target \in Names /\ Level \in Nat \ {0} /\ Len(queue) \in Nat
      /\ \A i \in 1..Len(queue) : Len(queue[i]) \in Nat \ {0} /\ queue[i] \in Seq(Names)
                                  /\ queue[i][1] \in Names
  BY <1>1, InSearch
<1>3. /\ Len(queue') = Len(queue) - 1 /\ 1 \in 1..Len(queue)
      /\ \A i \in 1..Len(queue') : queue'[i] = queue[i + 1] /\ i + 1 \in 1..Len(queue)
      /\ \A i \in 1..Len(queue) : i # 1 => i - 1 \in 1..Len(queue') /\ queue'[i - 1] = queue[i]
  BY <1>1
<1>4. Callers(Target)' = Callers(Target)
  BY <1>1 DEF Target, Callers, Calls
<1>5. path' # <<>> /\ Level' = Len(queue[1])
  BY <1>1, <1>2, <1>3 DEF Level
<1>6. /\ \A i \in 1..Len(queue) : Len(queue[i]) \in {Level, Level + 1}
      /\ \A i, j \in 1..Len(queue) : i <= j => Len(queue[i]) <= Len(queue[j])
  BY <1>1 DEF SearchInv, Waves
<1>7. Waves'
  <2>1. ASSUME NEW i \in 1..Len(queue') PROVE Len(queue'[i]) \in {Level', Level' + 1}
    <3>1. i + 1 \in 1..Len(queue) /\ queue'[i] = queue[i + 1] /\ 1 <= i + 1
      BY <1>3
    <3>2. Len(queue[1]) <= Len(queue[i + 1])
      BY <1>3, <1>6, <3>1
    <3>3. /\ Len(queue[1]) \in {Level, Level + 1}
          /\ Len(queue[i + 1]) \in {Level, Level + 1}
      BY <1>3, <1>6, <3>1
    <3> QED BY <1>2, <1>5, <3>1, <3>2, <3>3
  <2>2. ASSUME NEW i \in 1..Len(queue'), NEW j \in 1..Len(queue'), i <= j
        PROVE  Len(queue'[i]) <= Len(queue'[j])
    <3>1. i + 1 <= j + 1
      BY <2>2
    <3> QED BY <1>3, <1>6, <3>1
  <2> QED BY <2>1, <2>2 DEF Waves
<1>8. Near'
  <2>1. CASE Len(queue[1]) = Level
    BY <1>1, <1>4, <1>5, <2>1 DEF SearchInv, Near
  <2>2. CASE Len(queue[1]) = Level + 1
    <3>1. \A n \in Callers(Target)[Level] : Bare[n] \in visited
      BY <1>1, <2>2, NextWave
    <3>2. Level' - 1 = Level
      BY <1>2, <1>5, <2>2
    <3> QED BY <1>1, <1>4, <3>1, <3>2 DEF Near
  <2> QED BY <1>3, <1>6, <2>1, <2>2
<1>9. Shortest'
  BY <1>1, <1>3, <1>4 DEF SearchInv, Shortest
<1>10. NoEntrySeen'
  BY <1>1 DEF SearchInv, NoEntrySeen
<1>11. Closed'
  <2> SUFFICES ASSUME NEW n \in Names, NEW c \in Names, Bare[n] \in visited, Calls(c, n)
               PROVE  \/ Bare[c] \in visited
                      \/ \E i \in 1..Len(queue') : Bare[queue'[i][1]] = Bare[n]
                      \/ c \in callers' /\ Bare[path'[1]] = Bare[n]
    BY <1>1 DEF Closed, Calls
  <2>1. Bare[c] \in visited \/ \E i \in 1..Len(queue) : Bare[queue[i][1]] = Bare[n]
    BY <1>1 DEF SearchInv, Closed
  <2>2. ASSUME NEW i \in 1..Len(queue), Bare[queue[i][1]] = Bare[n], i # 1
        PROVE  \E j \in 1..Len(queue') : Bare[queue'[j][1]] = Bare[n]
    BY <1>3, <2>2
  <2>3. ASSUME Bare[queue[1][1]] = Bare[n]
        PROVE  c \in callers' /\ Bare[path'[1]] = Bare[n]
    BY <1>1, <2>3 DEF CallersOf, Calls
  <2> QED BY <2>1, <2>2, <2>3
<1> QED BY <1>7, <1>8, <1>9, <1>10, <1>11 DEF SearchInv

\* A caller that is new is one call further up than the level.
LEMMA FollowSearches ==
  ASSUME TraceInv, SearchInv, Searching, NEW c \in callers, Follow(c), UNCHANGED calls
  PROVE  SearchInv'
<1> DEFINE q == <<c>> \o path
<1>1. /\ visited # {} /\ Bare[c] \notin Entries /\ Bare[c] \notin visited
      /\ queue' = Append(queue, q) /\ visited' = visited \cup {Bare[c]}
      /\ callers' = callers \ {c} /\ UNCHANGED <<calls, path, todo>>
  BY DEF Follow, Seen, Searching
<1>2. /\ Target \in Names /\ Level \in Nat \ {0} /\ Len(queue) \in Nat /\ c \in Names
      /\ \A i \in 1..Len(queue) : Len(queue[i]) \in Nat \ {0}
      /\ path \in Seq(Names) /\ Level = Len(path) /\ queue \in Seq(Seq(Names))
  BY <1>1, InSearch DEF TraceInv, TypeT
<1>3. q \in Seq(Names) /\ Len(q) = Level + 1 /\ q[1] = c
  BY <1>2, Prepended
<1> HIDE DEF q
<1>4. /\ Len(queue') = Len(queue) + 1
      /\ \A i \in 1..Len(queue) : queue'[i] = queue[i]
      /\ queue'[Len(queue) + 1] = q
      /\ \A i \in 1..Len(queue') : i \in 1..Len(queue) \/ i = Len(queue) + 1
      /\ 1..Len(queue) \subseteq 1..Len(queue') /\ Len(queue) + 1 \in 1..Len(queue')
  BY <1>1, <1>2, <1>3
<1>5. Callers(Target)' = Callers(Target) /\ Level' = Level
  BY <1>1 DEF Target, Callers, Calls, Level
<1>6. Waves'
  <2>1. /\ \A i \in 1..Len(queue) : Len(queue[i]) \in {Level, Level + 1}
        /\ \A i, j \in 1..Len(queue) : i <= j => Len(queue[i]) <= Len(queue[j])
    BY <1>1 DEF SearchInv, Waves
  <2>2. \A i \in 1..Len(queue') : Len(queue'[i]) \in {Level, Level + 1}
    BY <1>3, <1>4, <2>1
  <2>3. ASSUME NEW i \in 1..Len(queue'), NEW j \in 1..Len(queue'), i <= j
        PROVE  Len(queue'[i]) <= Len(queue'[j])
    <3>1. CASE j = Len(queue) + 1
      BY <1>2, <1>3, <1>4, <2>2, <3>1
    <3>2. CASE j # Len(queue) + 1
      <4>1. i \in 1..Len(queue) /\ j \in 1..Len(queue)
        BY <1>2, <1>4, <2>3, <3>2
      <4> QED BY <1>4, <2>1, <2>3, <4>1
    <3> QED BY <3>1, <3>2
  <2> QED BY <1>5, <2>2, <2>3 DEF Waves
<1>7. NoEntrySeen'
  BY <1>1 DEF SearchInv, NoEntrySeen
<1>8. Near'
  BY <1>1, <1>5 DEF SearchInv, Near
<1>9. Shortest'
  <2> SUFFICES ASSUME NEW i \in 1..Len(queue'), NEW k \in Nat, NEW n \in Callers(Target)[k],
                      Bare[n] = Bare[queue'[i][1]]
               PROVE  Len(queue'[i]) <= k + 1
    BY <1>5 DEF Shortest
  <2>1. CASE i \in 1..Len(queue)
    BY <1>1, <1>4, <2>1 DEF SearchInv, Shortest
  <2>2. CASE i = Len(queue) + 1
    <3>1. Bare[n] \notin visited /\ Len(queue'[i]) = Level + 1
      BY <1>1, <1>3, <1>4, <2>2
    <3>2. n \notin Callers(Target)[Level - 1]
      BY <1>1, <3>1 DEF SearchInv, Near
    <3>3. ~(k <= Level - 1)
      <4>1. ASSUME k <= Level - 1 PROVE FALSE
        <5>1. Level - 1 \in Nat /\ k \in 0..Level - 1
          BY <1>2, <4>1
        <5>2. Callers(Target)[k] \subseteq Callers(Target)[Level - 1]
          BY <1>2, <5>1, CallersGrow
        <5> QED BY <3>2, <5>2
      <4> QED BY <4>1
    <3> QED BY <1>2, <3>1, <3>3
  <2> QED BY <1>4, <2>1, <2>2
<1>10. Closed'
  <2> SUFFICES ASSUME NEW n \in Names, NEW d \in Names, Bare[n] \in visited', Calls(d, n),
                      Bare[d] \notin visited'
               PROVE  \/ \E i \in 1..Len(queue') : Bare[queue'[i][1]] = Bare[n]
                      \/ d \in callers' /\ Bare[path[1]] = Bare[n]
    BY <1>1 DEF Closed, Calls
  <2>1. CASE Bare[n] \in visited
    <3>1. \/ \E i \in 1..Len(queue) : Bare[queue[i][1]] = Bare[n]
          \/ d \in callers /\ Bare[path[1]] = Bare[n]
      BY <1>1, <2>1 DEF SearchInv, Closed
    <3>2. d # c
      BY <1>1
    <3> QED BY <1>1, <1>4, <3>1, <3>2
  <2>2. CASE Bare[n] \notin visited
    <3>1. Bare[n] = Bare[queue'[Len(queue) + 1][1]]
      BY <1>1, <1>3, <1>4, <2>2
    <3> QED BY <1>4, <3>1
  <2> QED BY <2>1, <2>2
<1> QED BY <1>6, <1>7, <1>8, <1>9, <1>10 DEF SearchInv

\* A caller that is left out has been seen.
LEMMA SkipSearches ==
  ASSUME TraceInv, SearchInv, Searching, NEW c \in callers, Skip(c), UNCHANGED calls
  PROVE  SearchInv'
<1>1. /\ visited # {} /\ callers' = callers \ {c}
      /\ UNCHANGED <<calls, queue, path, visited, todo>>
  BY DEF Skip, Searching
<1>2. Bare[c] \in visited
  <2>1. CASE OnPath(c)
    BY <2>1, Caller DEF OnPath, Covered
  <2>2. CASE ~OnPath(c)
    BY <2>2 DEF Skip, Seen
  <2> QED BY <2>1, <2>2
<1>3. Callers(Target)' = Callers(Target) /\ Level' = Level
  BY <1>1 DEF Target, Callers, Calls, Level
<1>4. Waves' /\ NoEntrySeen' /\ Near' /\ Shortest'
  BY <1>1, <1>3 DEF SearchInv, Waves, NoEntrySeen, Near, Shortest
<1>5. Closed'
  BY <1>1, <1>2 DEF SearchInv, Closed, Calls
<1> QED BY <1>4, <1>5 DEF SearchInv

\* Between two searches nothing is seen.
LEMMA NothingSeen ==
  ASSUME visited = {}
  PROVE  SearchInv
BY DEF SearchInv, Waves, NoEntrySeen, Near, Shortest, Closed

-----------------------------------------------------------------------------
(* What the answers say *)

\* The search for the target has found an entry that is as near as any.
LEMMA EntryIsNear ==
  ASSUME TraceInv, SearchInv, Searching
  PROVE  ~ReachedWithin(Target, Level - 1)
<1>1. Target \in Names /\ Level - 1 \in Nat
  BY InSearch DEF Searching
<1>2. Callers(Target)[Level - 1] \subseteq Names
  BY <1>1, CallersFacts
<1> QED BY <1>2 DEF SearchInv, Near, NoEntrySeen, Searching, ReachedWithin

\* What has been seen up to some number of calls holds no entry.
LEMMA SeenIsUnreached ==
  ASSUME SearchInv, Target \in Names, NEW j \in Nat, NEW k \in 0..j,
         \A n \in Callers(Target)[j] : Bare[n] \in visited
  PROVE  ~ReachedWithin(Target, k)
<1>1. Callers(Target)[k] \subseteq Callers(Target)[j] /\ Callers(Target)[j] \subseteq Names
  BY CallersFacts, CallersGrow
<1> QED BY <1>1 DEF SearchInv, NoEntrySeen, ReachedWithin

\* With nothing left to extend all that calls the target has been seen.
LEMMA AllSeen ==
  ASSUME TraceInv, SearchInv, visited # {}, callers = {}, queue = <<>>, NEW k \in Nat
  PROVE  \A n \in Callers(Target)[k] : Bare[n] \in visited
<1> DEFINE T == {i \in Nat : \A n \in Callers(Target)[i] : Bare[n] \in visited}
<1>1. Target \in Names /\ Level - 1 \in Nat /\ 0 \in 0..Level - 1
  BY InSearch
<1>2. 0 \in T
  <2>1. Callers(Target)[0] \subseteq Callers(Target)[Level - 1]
    BY <1>1, CallersGrow
  <2> QED BY <2>1 DEF SearchInv, Near
<1>3. ASSUME NEW i \in Nat, i \in T PROVE i + 1 \in T
  <2>1. Callers(Target)[i + 1] = Up(Callers(Target)[i]) /\ Callers(Target)[i] \subseteq Names
    BY <1>1, CallersFacts
  <2>2. \A n, c \in Names : Bare[n] \in visited /\ Calls(c, n) => Bare[c] \in visited
    BY DEF SearchInv, Closed
  <2>3. \A n \in Callers(Target)[i] : Bare[n] \in visited
    BY <1>3
  <2>4. \A n \in Callers(Target)[i + 1] : Bare[n] \in visited
    BY <2>1, <2>2, <2>3 DEF Up
  <2> QED BY <2>4
<1> HIDE DEF T
<1>4. Nat \subseteq T
  BY <1>2, <1>3, Induction
<1> QED BY <1>4 DEF T

\* A search that is given up has looked max_depth + 1 calls up.
LEMMA GivenUpIsUnreached ==
  ASSUME TraceInv, SearchInv, GiveUpSearch
  PROVE  ~ReachedWithin(Target, MaxDepth + 1)
<1>1. /\ visited # {} /\ callers = {} /\ MaxDepth + 1 \in Nat
      /\ queue # <<>> => Len(queue[1]) > MaxDepth + 1
  BY GraphConstants DEF GiveUpSearch, Searching, TooDeep
<1>2. Target \in Names /\ Level \in Nat \ {0} /\ Len(queue) \in Nat
  BY <1>1, InSearch
<1>3. CASE queue = <<>>
  <2>1. \A n \in Callers(Target)[MaxDepth + 1] : Bare[n] \in visited
    BY <1>1, <1>3, AllSeen
  <2>2. MaxDepth + 1 \in 0..MaxDepth + 1
    BY <1>1
  <2> QED BY <1>1, <1>2, <2>1, <2>2, SeenIsUnreached
<1>4. CASE queue # <<>>
  <2>1. 1 \in 1..Len(queue)
    BY <1>2, <1>4, <1>1 DEF TraceInv, TypeT
  <2>2. Len(queue[1]) \in {Level, Level + 1}
    BY <1>1, <2>1 DEF SearchInv, Waves
  <2>3. CASE Len(queue[1]) = Level
    <3>1. Level - 1 \in Nat /\ MaxDepth + 1 \in 0..Level - 1
      BY <1>1, <1>2, <1>4, <2>3
    <3>2. \A n \in Callers(Target)[Level - 1] : Bare[n] \in visited
      BY <1>1 DEF SearchInv, Near
    <3> QED BY <1>2, <3>1, <3>2, SeenIsUnreached
  <2>4. CASE Len(queue[1]) = Level + 1
    <3>1. Level \in Nat /\ MaxDepth + 1 \in 0..Level
      BY <1>1, <1>2, <1>4, <2>4
    <3>2. \A n \in Callers(Target)[Level] : Bare[n] \in visited
      BY <1>1, <2>4, NextWave
    <3> QED BY <1>2, <3>1, <3>2, SeenIsUnreached
  <2> QED BY <2>2, <2>3, <2>4
<1> QED BY <1>3, <1>4

\* Nothing calls a name the index does not know.
LEMMA UnknownIsUnreached ==
  ASSUME Target \in Names, Bare[Target] \notin Entries, ~Indexed(Target), NEW k \in Nat
  PROVE  ~ReachedWithin(Target, k)
<1> DEFINE T == {i \in Nat : Callers(Target)[i] = {Target}}
<1>1. \A c \in Names : ~Calls(c, Target)
  <2> SUFFICES ASSUME NEW c \in Names, <<c, Bare[Target]>> \in calls PROVE FALSE
    BY DEF Calls
  <2> DEFINE e == <<c, Bare[Target]>>
  <2>1. e \in calls /\ Bare[Target] \in {e[1], e[2]}
    OBVIOUS
  <2> HIDE DEF e
  <2> QED BY <2>1 DEF Indexed
<1>2. Up({Target}) = {Target}
  BY <1>1 DEF Up
<1>3. 0 \in T /\ \A i \in Nat : i \in T => i + 1 \in T
  <2>1. /\ Callers(Target)[0] = {Target}
        /\ \A i \in Nat : Callers(Target)[i + 1] = Up(Callers(Target)[i])
    BY CallersFacts
  <2>2. \A i \in Nat : i + 1 \in Nat
    OBVIOUS
  <2> QED BY <1>2, <2>1, <2>2
<1> HIDE DEF T
<1>4. Nat \subseteq T
  BY <1>3, Induction
<1> QED BY <1>4 DEF T, ReachedWithin

\* A function to be batched waits to be traced, or has a path, or is called by no entry.
Sought(n) ==
  \/ \E j \in 1..Len(todo) : todo[j] = n
  \/ traced[n] # <<>>
  \/ ~ReachedWithin(n, MaxDepth + 1)

Verdict ==
  /\ grouped \in Nat /\ unreachable \in Seq(Targets)
  /\ strategy = "chain" /\ step # "wait" =>
       \A n \in Names : (\E i \in 1..Len(changed) : changed[i][2] = n) => Sought(n)
  /\ strategy = "chain" /\ step = "group" => todo = <<>>
  /\ \A n \in Names : /\ (\E i \in 1..Len(unreachable) : unreachable[i][2] = n)
                           => ~ReachedWithin(n, MaxDepth + 1)
                      /\ Len(traced[n]) > 1 => ~ReachedWithin(n, Len(traced[n]) - 2)

ReachInv == TraceInv /\ SearchInv /\ Verdict

\* Paths that were shortest stay shortest.
LEMMA AnswersStill ==
  ASSUME UNCHANGED <<calls, traced>>,
         \A n \in Names : Len(traced[n]) > 1 => ~ReachedWithin(n, Len(traced[n]) - 2)
  PROVE  \A n \in Names : Len(traced'[n]) > 1 => ~ReachedWithin(n, Len(traced[n]) - 2)'
<1> SUFFICES ASSUME NEW n \in Names, Len(traced'[n]) > 1
             PROVE  ~ReachedWithin(n, Len(traced[n]) - 2)'
  OBVIOUS
<1>1. Callers(n)' = Callers(n)
  BY DEF Callers, Calls
<1> QED BY <1>1 DEF ReachedWithin

\* An answer says how far the entries are.
LEMMA AnswerIsReal ==
  ASSUME TraceInv, Verdict, step = "trace", todo # <<>>, NEW p \in Seq(Names), Answer(p),
         p = <<>> => ~ReachedWithin(Target, MaxDepth + 1),
         Len(p) > 1 => ~ReachedWithin(Target, Len(p) - 2),
         UNCHANGED <<calls, strategy, step, changed, groupVars>>
  PROVE  SearchInv' /\ Verdict'
<1>1. /\ Target \in Names /\ todo \in Seq(Names) /\ todo' = Tail(todo) /\ visited' = {}
      /\ traced \in [Names -> Seq(Names)] /\ traced' = [traced EXCEPT ![Target] = p]
      /\ UNCHANGED <<calls, strategy, step, changed, grouped, unreachable>>
  BY DEF TraceInv, TypeT, Answer, Target, groupVars
<1>2. SearchInv'
  BY <1>1 DEF SearchInv, Waves, NoEntrySeen, Near, Shortest, Closed
<1>3. \A n \in Names : traced'[n] = IF n = Target THEN p ELSE traced[n]
  BY <1>1
<1>4. \A n \in Names : \A k : ReachedWithin(n, k)' <=> ReachedWithin(n, k)
  BY <1>1, CallersSame
<1>5. ASSUME NEW n \in Names, Sought(n) PROVE Sought(n)'
  <2>1. CASE n = Target
    BY <1>3, <1>4, <2>1 DEF Sought
  <2>2. CASE n # Target
    <3>1. CASE \E j \in 1..Len(todo) : todo[j] = n
      <4>1. PICK j \in 1..Len(todo) : todo[j] = n
        BY <3>1
      <4>2. j # 1
        BY <2>2, <4>1 DEF Target
      <4>3. j - 1 \in 1..Len(todo') /\ todo'[j - 1] = n
        BY <1>1, <4>1, <4>2
      <4> QED BY <4>3 DEF Sought
    <3>2. CASE traced[n] # <<>> \/ ~ReachedWithin(n, MaxDepth + 1)
      BY <1>3, <1>4, <2>2, <3>2 DEF Sought
    <3> QED BY <1>5, <3>1, <3>2 DEF Sought
  <2> QED BY <2>1, <2>2
<1>6. ASSUME NEW n \in Names, Len(traced'[n]) > 1
      PROVE  ~ReachedWithin(n, Len(traced'[n]) - 2)
  BY <1>3, <1>6 DEF Verdict
<1>7. Verdict'
  <2>1. strategy' = "chain" /\ step' # "wait" =>
          \A n \in Names : (\E i \in 1..Len(changed') : changed'[i][2] = n) => Sought(n)'
    BY <1>1, <1>5 DEF Verdict
  <2>2. \A n \in Names : (\E i \in 1..Len(unreachable') : unreachable'[i][2] = n)
                           => ~ReachedWithin(n, MaxDepth + 1)'
    BY <1>1, <1>4 DEF Verdict
  <2>3. \A n \in Names : Len(traced'[n]) > 1 => ~ReachedWithin(n, Len(traced[n]) - 2)'
    <3> SUFFICES ASSUME NEW n \in Names, Len(traced'[n]) > 1
                 PROVE  ~ReachedWithin(n, Len(traced[n]) - 2)'
      OBVIOUS
    <3>1. ~ReachedWithin(n, Len(traced'[n]) - 2)
      BY <1>6
    <3>2. Callers(n)' = Callers(n)
      BY <1>1 DEF Callers, Calls
    <3> QED BY <3>1, <3>2 DEF ReachedWithin
  <2>4. step' # "group" /\ grouped' \in Nat /\ unreachable' \in Seq(Targets)
    BY <1>1 DEF Verdict
  <2> QED BY <2>1, <2>2, <2>3, <2>4 DEF Verdict
<1> QED BY <1>2, <1>7

\* While the calls and the answers stay, what was said of them stays true.
LEMMA SaidStill ==
  ASSUME Verdict, UNCHANGED <<calls, strategy, changed, todo, traced>>,
         step' = step \/ (step = "trace" /\ step' = "group" /\ todo = <<>>)
                      \/ (step = "group" /\ step' = "done"),
         grouped' \in Nat, unreachable' \in Seq(Targets),
         \A n \in Names : (\E i \in 1..Len(unreachable') : unreachable'[i][2] = n)
                           => ~ReachedWithin(n, MaxDepth + 1)
  PROVE  Verdict'
<1>1. \A n \in Names : \A k : ReachedWithin(n, k)' <=> ReachedWithin(n, k)
  BY CallersSame
<1>2. \A n \in Names : Sought(n) => Sought(n)'
  BY <1>1 DEF Sought
<1>3. \A n \in Names : Len(traced'[n]) > 1 => ~ReachedWithin(n, Len(traced[n]) - 2)'
  BY AnswersStill DEF Verdict
<1>4. \A n \in Names : (\E i \in 1..Len(unreachable') : unreachable'[i][2] = n)
                         => ~ReachedWithin(n, MaxDepth + 1)'
  BY <1>1
<1>5. strategy' = "chain" /\ step' # "wait" =>
        \A n \in Names : (\E i \in 1..Len(changed') : changed'[i][2] = n) => Sought(n)'
  BY <1>2 DEF Verdict
<1>6. strategy' = "chain" /\ step' = "group" => todo' = <<>>
  BY DEF Verdict
<1> QED BY <1>3, <1>4, <1>5, <1>6 DEF Verdict

\* A step that adds nothing to what is unreachable.
LEMMA NothingSaid ==
  ASSUME Verdict, UNCHANGED <<calls, strategy, changed, todo, traced, grouped, unreachable>>,
         step' = step \/ (step = "trace" /\ step' = "group" /\ todo = <<>>)
                      \/ (step = "group" /\ step' = "done")
  PROVE  Verdict'
<1>1. /\ grouped' \in Nat /\ unreachable' \in Seq(Targets)
      /\ \A n \in Names : (\E i \in 1..Len(unreachable') : unreachable'[i][2] = n)
                           => ~ReachedWithin(n, MaxDepth + 1)
  BY DEF Verdict
<1> QED BY <1>1, SaidStill

\* A step that leaves the search alone.
LEMMA SearchSame ==
  ASSUME SearchInv, UNCHANGED <<calls, queue, path, callers, visited, todo>>
  PROVE  SearchInv'
<1>1. Callers(Target)' = Callers(Target) /\ Level' = Level
  BY DEF Callers, Calls, Target, Level
<1>2. Waves' /\ NoEntrySeen' /\ Near'
  BY <1>1 DEF SearchInv, Waves, NoEntrySeen, Near
<1>3. Shortest'
  BY <1>1 DEF SearchInv, Shortest
<1>4. Closed'
  BY DEF SearchInv, Closed, Calls
<1> QED BY <1>2, <1>3, <1>4 DEF SearchInv

\* Nothing has been said before functions are given.
LEMMA ReachInit == InitTrace => ReachInv
<1> SUFFICES ASSUME InitTrace PROVE ReachInv
  OBVIOUS
<1>1. SearchInv
  BY NothingSeen DEF InitTrace
<1>2. Verdict
  BY DEF InitTrace, Verdict
<1> QED BY <1>1, <1>2, TraceInit DEF ReachInv

\* Functions given are all still to be traced.
LEMMA SplitSays ==
  ASSUME ReachInv, NEW fs \in Seq(Targets), split_batches(fs)
  PROVE  SearchInv' /\ Verdict'
<1>1. /\ step = "wait" /\ step' \in {"trace", "group"} /\ changed' = fs
      /\ strategy' = strategy /\ (strategy = "chain" => step' = "trace")
      /\ UNCHANGED <<calls, traced, visited, grouped, unreachable>>
  BY DEF split_batches, searchVars, groupVars
<1>2. SearchInv'
  <2>1. visited' = {}
    BY <1>1 DEF ReachInv, TraceInv, Idle
  <2> QED BY <2>1 DEF SearchInv, Waves, NoEntrySeen, Near, Shortest, Closed
<1>3. ASSUME strategy = "chain", NEW n \in Names, NEW i \in 1..Len(fs), fs[i][2] = n
      PROVE  Sought(n)'
  <2>1. todo' = [j \in 1..Len(fs) |-> fs[j][2]] /\ Len(fs) \in Nat
    BY <1>1, <1>3 DEF split_batches
  <2>2. i \in 1..Len(todo') /\ todo'[i] = n
    BY <1>3, <2>1
  <2> QED BY <2>2 DEF Sought
<1>4. \A n \in Names : \A k : ReachedWithin(n, k)' <=> ReachedWithin(n, k)
  BY <1>1, CallersSame
<1>5. \A n \in Names : Len(traced'[n]) > 1 => ~ReachedWithin(n, Len(traced[n]) - 2)'
  BY <1>1, AnswersStill DEF ReachInv, Verdict
<1>6. \A n \in Names : (\E i \in 1..Len(unreachable') : unreachable'[i][2] = n)
                         => ~ReachedWithin(n, MaxDepth + 1)'
  BY <1>1, <1>4 DEF ReachInv, Verdict
<1>7. strategy' = "chain" =>
        \A n \in Names : (\E i \in 1..Len(changed') : changed'[i][2] = n) => Sought(n)'
  BY <1>1, <1>3
<1>8. /\ strategy' = "chain" => step' # "group"
      /\ grouped' \in Nat /\ unreachable' \in Seq(Targets)
  BY <1>1 DEF ReachInv, Verdict
<1>9. Verdict'
  BY <1>5, <1>6, <1>7, <1>8 DEF Verdict
<1> QED BY <1>2, <1>9

\* Once the batches are by file no function is called unreachable.
LEMMA FallBackSays ==
  ASSUME ReachInv, FallBack
  PROVE  SearchInv' /\ Verdict'
<1>1. /\ strategy' = "file" /\ visited' = {}
      /\ UNCHANGED <<calls, traced, grouped, unreachable>>
  BY DEF FallBack, searchVars, groupVars
<1>2. SearchInv'
  BY <1>1 DEF SearchInv, Waves, NoEntrySeen, Near, Shortest, Closed
<1>3. \A n \in Names : \A k : ReachedWithin(n, k)' <=> ReachedWithin(n, k)
  BY <1>1, CallersSame
<1>4. \A n \in Names : Len(traced'[n]) > 1 => ~ReachedWithin(n, Len(traced[n]) - 2)'
  BY <1>1, AnswersStill DEF ReachInv, Verdict
<1>5. \A n \in Names : (\E i \in 1..Len(unreachable') : unreachable'[i][2] = n)
                         => ~ReachedWithin(n, MaxDepth + 1)'
  BY <1>1, <1>3 DEF ReachInv, Verdict
<1>6. strategy' # "chain" /\ grouped' \in Nat /\ unreachable' \in Seq(Targets)
  BY <1>1 DEF ReachInv, Verdict
<1>7. Verdict'
  BY <1>4, <1>5, <1>6 DEF Verdict
<1> QED BY <1>2, <1>7

\* An entry is no calls away from itself, and an unknown name is any number.
LEMMA TrivialSays ==
  ASSUME ReachInv, TraceTrivial
  PROVE  SearchInv' /\ Verdict'
<1>1. /\ step = "trace" /\ todo # <<>> /\ Target \in Names /\ TraceInv /\ Verdict
      /\ UNCHANGED <<calls, strategy, step, changed, groupVars>>
  BY DEF TraceTrivial, BetweenSearches, ReachInv, TraceInv, TypeT, Target
<1>2. CASE Answer(<<Target>>)
  <2> DEFINE p == <<Target>>
  <2>1. p \in Seq(Names) /\ p # <<>> /\ ~(Len(p) > 1) /\ Answer(p)
    BY <1>1, <1>2
  <2> HIDE DEF p
  <2> QED BY <1>1, <2>1, AnswerIsReal
<1>3. CASE Bare[Target] \notin Entries /\ ~Indexed(Target) /\ Answer(<<>>)
  <2> DEFINE p == <<>>
  <2>1. p \in Seq(Names) /\ ~(Len(p) > 1) /\ Answer(p)
    BY <1>3
  <2>2. ~ReachedWithin(Target, MaxDepth + 1)
    <3>1. MaxDepth + 1 \in Nat
      BY GraphConstants
    <3> QED BY <1>1, <1>3, <3>1, UnknownIsUnreached
  <2> HIDE DEF p
  <2> QED BY <1>1, <2>1, <2>2, AnswerIsReal
<1> QED BY <1>2, <1>3 DEF TraceTrivial

\* A search that is given up gives no path.
LEMMA GiveUpSays ==
  ASSUME ReachInv, GiveUpSearch
  PROVE  SearchInv' /\ Verdict'
<1> DEFINE p == <<>>
<1>1. /\ step = "trace" /\ todo # <<>> /\ TraceInv /\ SearchInv /\ Verdict
      /\ UNCHANGED <<calls, strategy, step, changed, groupVars>>
  BY DEF GiveUpSearch, Searching, ReachInv, TraceInv, Idle
<1>2. p \in Seq(Names) /\ ~(Len(p) > 1) /\ Answer(p)
  BY DEF GiveUpSearch
<1>3. ~ReachedWithin(Target, MaxDepth + 1)
  BY <1>1, GivenUpIsUnreached
<1> HIDE DEF p
<1> QED BY <1>1, <1>2, <1>3, AnswerIsReal

\* An entry that is found is found on the nearest level.
LEMMA EntrySays ==
  ASSUME ReachInv, Searching, NEW c \in callers, EntryFound(c),
         UNCHANGED <<calls, strategy, step, changed, groupVars>>
  PROVE  SearchInv' /\ Verdict'
<1> DEFINE p == <<c>> \o path
<1>1. step = "trace" /\ visited # {} /\ TraceInv /\ SearchInv /\ Verdict /\ Answer(p)
  BY DEF Searching, ReachInv, EntryFound
<1>2. todo # <<>> /\ c \in Names /\ path \in Seq(Names) /\ Level = Len(path)
  BY <1>1, InSearch
<1>3. p \in Seq(Names) /\ p # <<>> /\ Len(p) = Level + 1
  BY <1>2, Prepended
<1>4. ~ReachedWithin(Target, Len(p) - 2)
  <2>1. Level \in Nat
    BY <1>1, InSearch
  <2>2. Len(p) - 2 = Level - 1
    BY <1>3, <2>1
  <2> QED BY <1>1, <2>2, EntryIsNear
<1> HIDE DEF p
<1> QED BY <1>1, <1>2, <1>3, <1>4, AnswerIsReal

\* A function is called unreachable when it has been traced, and has no path.
LEMMA GroupSays ==
  ASSUME ReachInv, GroupFunction
  PROVE  Verdict'
<1>1. /\ step = "group" /\ grouped \in Nat /\ grouped < Len(changed) /\ grouped' = grouped + 1
      /\ UNCHANGED <<calls, strategy, step, changed, todo, traced>>
      /\ changed \in Seq(Targets) /\ unreachable \in Seq(Targets)
  BY DEF GroupFunction, ReachInv, TraceInv, TypeT, Verdict
<1>2. CASE unreachable' = unreachable
  <2>1. \A n \in Names : (\E i \in 1..Len(unreachable') : unreachable'[i][2] = n)
             => ~ReachedWithin(n, MaxDepth + 1)
    BY <1>2 DEF ReachInv, Verdict
  <2> QED BY <1>1, <1>2, <2>1, SaidStill DEF ReachInv
<1>3. CASE Unreachable(Grouped) /\ unreachable' = Append(unreachable, Grouped)
  <2>1. /\ grouped + 1 \in 1..Len(changed) /\ Grouped \in Targets /\ Grouped[2] \in Names
        /\ Grouped = changed[grouped + 1]
    BY <1>1 DEF Grouped, Targets
  <2>2. strategy = "chain" /\ traced[Grouped[2]] = <<>> /\ todo = <<>>
    BY <1>1, <1>3 DEF Unreachable, ReachInv, Verdict
  <2>3. ~ReachedWithin(Grouped[2], MaxDepth + 1)
    <3>1. Sought(Grouped[2])
      BY <1>1, <2>1, <2>2 DEF ReachInv, Verdict
    <3> QED BY <2>2, <3>1 DEF Sought
  <2>4. /\ unreachable' \in Seq(Targets)
        /\ \A n \in Names : (\E i \in 1..Len(unreachable') : unreachable'[i][2] = n)
             => n = Grouped[2] \/ \E i \in 1..Len(unreachable) : unreachable[i][2] = n
    BY <1>1, <1>3, <2>1
  <2>5. \A n \in Names : (\E i \in 1..Len(unreachable') : unreachable'[i][2] = n)
             => ~ReachedWithin(n, MaxDepth + 1)
    BY <2>3, <2>4 DEF ReachInv, Verdict
  <2> QED BY <1>1, <2>4, <2>5, SaidStill DEF ReachInv
<1> QED BY <1>2, <1>3 DEF GroupFunction

\* Every step keeps what was said true.
LEMMA ReachStep == ReachInv /\ [NextTrace]_traceVars => ReachInv'
<1> SUFFICES ASSUME ReachInv, [NextTrace]_traceVars PROVE SearchInv' /\ Verdict'
  BY TraceStep DEF ReachInv
<1>1. TraceInv /\ SearchInv /\ Verdict
  BY DEF ReachInv
<1>2. ASSUME NEW fs \in Seq(Targets), split_batches(fs) PROVE SearchInv' /\ Verdict'
  BY <1>2, SplitSays
<1>3. CASE BeginSearch
  BY <1>1, <1>3, BeginSearches, NothingSaid DEF BeginSearch, groupVars
<1>4. CASE ExtendPath
  BY <1>1, <1>4, ExtendSearches, NothingSaid DEF ExtendPath, groupVars
<1>5. CASE VisitCaller
  <2>1. Searching /\ UNCHANGED <<calls, strategy, step, changed, groupVars>>
    BY <1>5 DEF VisitCaller
  <2>2. UNCHANGED <<calls, grouped, unreachable>>
    BY <2>1 DEF groupVars
  <2>3. PICK c \in callers : EntryFound(c) \/ Follow(c) \/ Skip(c)
    BY <1>5 DEF VisitCaller
  <2>4. CASE EntryFound(c)
    BY <2>1, <2>4, EntrySays
  <2>5. CASE Follow(c)
    <3>1. SearchInv'
      BY <1>1, <2>1, <2>5, FollowSearches
    <3> QED BY <1>1, <2>1, <2>2, <2>5, <3>1, NothingSaid DEF Follow
  <2>6. CASE Skip(c)
    <3>1. SearchInv'
      BY <1>1, <2>1, <2>6, SkipSearches
    <3> QED BY <1>1, <2>1, <2>2, <2>6, <3>1, NothingSaid DEF Skip
  <2> QED BY <2>3, <2>4, <2>5, <2>6
<1>6. CASE TracesDone \/ BatchesMade \/ UNCHANGED traceVars
  <2>1. UNCHANGED <<calls, queue, path, callers, visited, todo>>
    BY <1>6 DEF TracesDone, BatchesMade, traceVars, searchVars
  <2>2. SearchInv'
    BY <1>1, <2>1, SearchSame
  <2>3. Verdict'
    BY <1>1, <1>6, NothingSaid DEF TracesDone, BatchesMade, traceVars, groupVars
  <2> QED BY <2>2, <2>3
<1>7. CASE GroupFunction
  <2>1. UNCHANGED <<calls, queue, path, callers, visited, todo>>
    BY <1>7 DEF GroupFunction, searchVars
  <2>2. SearchInv'
    BY <1>1, <2>1, SearchSame
  <2> QED BY <1>7, <2>2, GroupSays
<1> QED BY <1>2, <1>3, <1>4, <1>5, <1>6, <1>7, FallBackSays, TrivialSays, GiveUpSays
        DEF NextTrace, Batching

\* A function called unreachable is one that no chain of max_depth + 1 calls from an entry
\* leads to, and the path a function is batched by is a shortest one, on every call graph,
\* cyclic or infinite, for every depth limit and every order of the callers.
THEOREM UnreachableReal == SpecTrace => []UnreachableIsReal
<1>1. SpecTrace => []ReachInv
  BY ReachInit, ReachStep, PTL DEF SpecTrace
<1>2. ReachInv => UnreachableIsReal
  <2> SUFFICES ASSUME ReachInv PROVE UnreachableIsReal
    OBVIOUS
  <2>1. \A i \in 1..Len(unreachable) : unreachable[i][2] \in Names
    BY DEF ReachInv, Verdict, Targets
  <2> QED BY <2>1 DEF ReachInv, Verdict, UnreachableIsReal
<1> QED BY <1>1, <1>2, PTL

-----------------------------------------------------------------------------
(* The functions around a line *)

\* Of the ranges around a line one is innermost.
LEMMA InnermostIs ==
  ASSUME index \in Indexes, NEW f, NEW l \in Nat, Covering(f, l) # {}
  PROVE  /\ Innermost(Covering(f, l)) \in Covering(f, l)
         /\ \A q \in Covering(f, l) : Tighter(Innermost(Covering(f, l)), q)
<1> DEFINE C == Covering(f, l)
           Spans == {Span(r) : r \in C}
<1>1. \A r \in C : /\ r.start \in Nat /\ r.end \in Nat /\ r.start <= l /\ l <= r.end
                   /\ Span(r) \in Nat /\ r.start \in 0..l
  BY DiffInputs DEF Covering, Ranges, Span
<1>2. C # {}
  OBVIOUS
<1> HIDE DEF C
<1>3. PICK m \in Spans : \A j \in Spans : m <= j
  <2>1. Spans \in SUBSET Nat /\ Spans # {}
    BY <1>1, <1>2
  <2> HIDE DEF Spans
  <2> QED BY <2>1, LeastElement
<1> DEFINE Starts == {s \in 0..l : \E r \in C : Span(r) = m /\ r.start = s}
<1>4. PICK s \in Starts : \A j \in Starts : j <= s
  <2>1. Starts \in SUBSET (0..l)
    OBVIOUS
  <2>2. Starts # {}
    <3>1. PICK r \in C : Span(r) = m
      BY <1>3
    <3>2. r.start \in Starts
      BY <1>1, <3>1
    <3> QED BY <3>2
  <2> HIDE DEF Starts
  <2> QED BY <2>1, <2>2, GreatestElement
<1>5. PICK r \in C : Span(r) = m /\ r.start = s
  BY <1>4
<1>6. \A q \in C : Tighter(r, q)
  <2> SUFFICES ASSUME NEW q \in C PROVE Tighter(r, q)
    OBVIOUS
  <2>1. m <= Span(q)
    BY <1>3
  <2>2. CASE Span(q) = m
    <3>1. q.start \in Starts
      BY <1>1, <2>2
    <3>2. q.start <= s
      BY <1>4, <3>1
    <3> QED BY <1>1, <1>5, <2>2, <3>2 DEF Tighter
  <2>3. CASE Span(q) # m
    <3>1. m \in Nat /\ Span(q) \in Nat
      BY <1>1, <1>5
    <3> QED BY <1>5, <2>1, <2>3, <3>1 DEF Tighter
  <2> QED BY <2>2, <2>3
<1> DEFINE Best(x) == \A q \in C : Tighter(x, q)
<1>7. \E x \in C : Best(x)
  BY <1>6
<1> HIDE DEF Best
<1>8. (CHOOSE x \in C : Best(x)) \in C /\ Best(CHOOSE x \in C : Best(x))
  BY <1>7
<1> QED BY <1>8 DEF Best, Innermost, C

\* The innermost one is an owner of the line.
LEMMA InnermostOwns ==
  ASSUME index \in Indexes, NEW f, NEW l \in Nat, Covering(f, l) # {}
  PROVE  Innermost(Covering(f, l)) \in Owners(f, l)
<1> DEFINE C == Covering(f, l)
           r == Innermost(C)
<1>1. r \in C /\ \A q \in C : Tighter(r, q)
  BY InnermostIs
<1>2. \A q \in C : q.start \in Nat /\ q.end \in Nat
  BY DiffInputs DEF Covering, Ranges
<1> HIDE DEF r
<1>3. \A q \in C : r.start <= q.start /\ q.end <= r.end => q.start = r.start /\ q.end = r.end
  BY <1>1, <1>2 DEF Tighter, Span
<1> QED BY <1>1, <1>3 DEF Owners, r

\* The changed lines of a file are finitely many numbers.
LEMMA LinesFinite ==
  ASSUME diff \in Diffs, NEW k \in 1..Len(diff)
  PROVE  ChangedLines(diff[k]) \in SUBSET Nat /\ IsFiniteSet(ChangedLines(diff[k]))
<1> DEFINE hs == diff[k].hunks
           Places == {HunkLines(h) : h \in Elems(hs)}
<1>1. hs \in Seq(Elems(hs)) /\ \A h \in Elems(hs) : h.start \in Nat /\ h.count \in Nat
  BY DiffInputs
<1>2. \A h \in Elems(hs) : HunkLines(h) \in SUBSET Nat /\ IsFiniteSet(HunkLines(h))
  <2> SUFFICES ASSUME NEW h \in Elems(hs)
               PROVE  HunkLines(h) \in SUBSET Nat /\ IsFiniteSet(HunkLines(h))
    OBVIOUS
  <2>1. h.start \in Nat /\ h.count \in Nat
    BY <1>1
  <2>2. CASE h.count = 0
    BY <2>1, <2>2, FS_Singleton DEF HunkLines
  <2>3. CASE h.count # 0
    <3> DEFINE b == (h.start + h.count) - 1
    <3>1. b \in Int /\ h.start \in Int
      BY <2>1
    <3> HIDE DEF b
    <3>2. IsFiniteSet(h.start..b)
      BY <3>1, FS_Interval
    <3>3. h.start..b \in SUBSET Nat
      BY <2>1, <3>1
    <3> QED BY <2>3, <3>2, <3>3 DEF HunkLines, b
  <2> QED BY <2>2, <2>3
<1>3. IsFiniteSet(Places)
  <2> DEFINE f == [i \in 1..Len(hs) |-> HunkLines(hs[i])]
  <2>1. Len(hs) \in Nat
    BY <1>1
  <2>2. f \in Surjection(1..Len(hs), Places)
    BY DEF Surjection, Elems
  <2> DEFINE n == Len(hs)
  <2> HIDE DEF f, Places, n
  <2>3. n \in Int /\ 1 \in Int
    BY <2>1 DEF n
  <2>4. IsFiniteSet(1..n)
    BY <2>3, FS_Interval
  <2>5. f \in Surjection(1..n, Places)
    BY <2>2 DEF n
  <2> QED BY <2>4, <2>5, FS_Surjection
<1>4. IsFiniteSet(UNION Places)
  <2>1. \A T \in Places : IsFiniteSet(T)
    BY <1>2
  <2> HIDE DEF Places
  <2> QED BY <1>3, <2>1, FS_UNION
<1>5. UNION Places \in SUBSET Nat
  BY <1>2
<1> QED BY <1>4, <1>5 DEF ChangedLines

\* What is found for the changed lines of a file: the innermost ranges, one of each
\* name and first line.
LEMMA RangesFound ==
  ASSUME diff \in Diffs, index \in Indexes, NEW k \in 1..Len(diff), NEW f,
         NEW ranges \in functions_covering_lines(f, ChangedLines(diff[k]))
  PROVE  /\ ranges \in Seq(index)
         /\ \A i \in 1..Len(ranges) : \E l \in ChangedLines(diff[k]) :
              Covering(f, l) # {} /\ ranges[i] = Innermost(Covering(f, l))
         /\ \A l \in ChangedLines(diff[k]) : Covering(f, l) # {} =>
              \E i \in 1..Len(ranges) : /\ ranges[i].qname = Innermost(Covering(f, l)).qname
                                        /\ ranges[i].start = Innermost(Covering(f, l)).start
<1> DEFINE lines == ChangedLines(diff[k])
           some == {l \in lines : Covering(f, l) # {}}
           hit == {Innermost(Covering(f, l)) : l \in some}
           Key(r) == <<r.qname, r.start>>
           keys == {Key(r) : r \in hit}
<1>1. lines \in SUBSET Nat /\ IsFiniteSet(lines)
  BY LinesFinite
<1>2. hit \subseteq index
  <2> SUFFICES ASSUME NEW l \in lines, Covering(f, l) # {}
               PROVE  Innermost(Covering(f, l)) \in index
    OBVIOUS
  <2>1. l \in Nat
    BY <1>1
  <2>2. Innermost(Covering(f, l)) \in Covering(f, l)
    BY <2>1, InnermostIs
  <2> QED BY <2>2 DEF Covering, Ranges
<1>3. Cardinality(keys) \in Nat
  <2> DEFINE g == [l \in some |-> Key(Innermost(Covering(f, l)))]
  <2>1. g \in Surjection(some, keys)
    BY DEF Surjection
  <2> HIDE DEF g, keys
  <2>3. some \in SUBSET lines
    OBVIOUS
  <2> HIDE DEF some, lines
  <2>4. IsFiniteSet(some)
    BY <1>1, <2>3, FS_Subset
  <2>5. IsFiniteSet(keys)
    BY <2>1, <2>4, FS_Surjection
  <2> QED BY <2>5, FS_CardinalityType
<1>4. /\ ranges \in [1..Cardinality(keys) -> hit]
      /\ {Key(ranges[i]) : i \in DOMAIN ranges} = keys
  BY DEF functions_covering_lines
<1> HIDE DEF keys
<1>5. ranges \in Seq(hit) /\ DOMAIN ranges = 1..Len(ranges)
  BY <1>3, <1>4
<1> HIDE DEF hit
<1>6. ranges \in Seq(index)
  BY <1>2, <1>5
<1>7. \A i \in 1..Len(ranges) : ranges[i] \in hit
  BY <1>5
<1>8. ASSUME NEW l \in lines, Covering(f, l) # {}
      PROVE  \E i \in 1..Len(ranges) : /\ ranges[i].qname = Innermost(Covering(f, l)).qname
                                       /\ ranges[i].start = Innermost(Covering(f, l)).start
  <2>1. Key(Innermost(Covering(f, l))) \in keys
    BY <1>8 DEF keys, hit
  <2>2. PICK i \in DOMAIN ranges : Key(ranges[i]) = Key(Innermost(Covering(f, l)))
    BY <1>4, <2>1
  <2> QED BY <1>5, <2>2
<1> QED BY <1>6, <1>7, <1>8 DEF hit

-----------------------------------------------------------------------------
(* The functions of a diff *)

\* Of the functions those to be trusted are kept, and no others.
LEMMA KeptAre ==
  ASSUME NEW R, functions \in Seq(R)
  PROVE  /\ TrustedFunctions \in Seq(R)
         /\ Elems(TrustedFunctions) = {f \in Elems(functions) : f.trusted}
<1> DEFINE N == Len(functions)
           V == Nat \X Seq(R)
           More(x) == x[1] < N /\ functions[x[1] + 1].trusted
           G == [x \in V |-> <<x[1] + 1, IF More(x) THEN Append(x[2], functions[x[1] + 1])
                                         ELSE x[2]>>]
           S == <<0, <<>>>>
<1>1. N \in Nat /\ \A i \in 1..N : functions[i] \in R
  OBVIOUS
<1>2. S \in V /\ G \in [V -> V]
  <2>1. S \in V
    <3>1. <<>> \in Seq(R)
      OBVIOUS
    <3> QED BY <3>1
  <2>2. ASSUME NEW x \in V
        PROVE  <<x[1] + 1, IF More(x) THEN Append(x[2], functions[x[1] + 1]) ELSE x[2]>> \in V
    <3>1. x[1] \in Nat /\ x[2] \in Seq(R)
      OBVIOUS
    <3>2. CASE More(x)
      <4>1. functions[x[1] + 1] \in R
        BY <1>1, <3>1, <3>2
      <4>2. Append(x[2], functions[x[1] + 1]) \in Seq(R)
        BY <3>1, <4>1
      <4>3. x[1] + 1 \in Nat
        BY <3>1
      <4> DEFINE p == Append(x[2], functions[x[1] + 1])
      <4>4. (IF More(x) THEN p ELSE x[2]) = p
        BY <3>2
      <4> HIDE DEF More, p
      <4>5. <<x[1] + 1, p>> \in V
        BY <4>2, <4>3 DEF p
      <4> QED BY <4>4, <4>5 DEF p
    <3>3. CASE ~More(x)
      BY <3>1, <3>3
    <3> QED BY <3>2, <3>3
  <2> HIDE DEF V
  <2> QED BY <2>1, <2>2
<1>3. PICK g : g \in [Nat -> V] /\ g[0] = S /\ \A n \in Nat : g[n + 1] = G[g[n]]
  <2> HIDE DEF G, S, V
  <2>1. \E g : Iterated(g, V, S, G)
    BY <1>2, Iterates
  <2> QED BY <2>1 DEF Iterated
<1>4. \A n \in Nat : g[n][1] = n
  <2> DEFINE T == {n \in Nat : g[n][1] = n}
  <2>1. 0 \in T
    BY <1>3
  <2>2. ASSUME NEW n \in Nat, n \in T PROVE n + 1 \in T
    <3>1. g[n] \in V /\ g[n + 1] = G[g[n]]
      BY <1>3
    <3>2. g[n + 1][1] = g[n][1] + 1
      BY <3>1
    <3> QED BY <2>2, <3>2
  <2> HIDE DEF T
  <2>3. Nat \subseteq T
    BY <2>1, <2>2, Induction
  <2> QED BY <2>3 DEF T
<1> DEFINE k == [n \in 0..N |-> g[n][2]]
<1>5. \A n \in 0..N : k[n] = IF n = 0 THEN <<>>
                            ELSE IF functions[n].trusted THEN Append(k[n - 1], functions[n])
                                 ELSE k[n - 1]
  <2> SUFFICES ASSUME NEW n \in 0..N
               PROVE  k[n] = IF n = 0 THEN <<>>
                             ELSE IF functions[n].trusted THEN Append(k[n - 1], functions[n])
                                  ELSE k[n - 1]
    OBVIOUS
  <2>1. CASE n = 0
    BY <1>1, <1>3, <2>1
  <2>2. CASE n # 0
    <3>1. n - 1 \in Nat /\ n - 1 \in 0..N /\ (n - 1) + 1 = n /\ n - 1 < N
      BY <1>1, <2>2
    <3>2. g[n - 1] \in V /\ g[n] = G[g[n - 1]] /\ g[n - 1][1] = n - 1
      BY <1>3, <1>4, <3>1
    <3>3. g[n][2] = IF functions[n].trusted THEN Append(g[n - 1][2], functions[n])
                    ELSE g[n - 1][2]
      BY <3>1, <3>2
    <3> QED BY <2>2, <3>1, <3>3
  <2> QED BY <2>1, <2>2
<1> HIDE DEF k
<1>6. k = [n \in 0..N |-> IF n = 0 THEN <<>>
                         ELSE IF functions[n].trusted THEN Append(k[n - 1], functions[n])
                              ELSE k[n - 1]]
  BY <1>5 DEF k
<1>7. Kept = [n \in 0..N |-> IF n = 0 THEN <<>>
                            ELSE IF functions[n].trusted THEN Append(Kept[n - 1], functions[n])
                                 ELSE Kept[n - 1]]
  BY <1>6 DEF Kept
<1> DEFINE K == Kept
           Good(n) == /\ K[n] \in Seq(R)
                      /\ Elems(K[n]) = {functions[i] : i \in {i \in 1..n : functions[i].trusted}}
           T == {n \in Nat : n <= N => Good(n)}
<1> HIDE DEF K
<1>8. 0 \in T
  <2>1. K[0] = <<>>
    BY <1>1, <1>7 DEF K
  <2>2. 1..0 = {} /\ Elems(K[0]) = {}
    BY <2>1 DEF Elems
  <2>3. {functions[i] : i \in {i \in 1..0 : functions[i].trusted}} = {}
    BY <2>2
  <2>4. K[0] \in Seq(R)
    BY <2>1
  <2>5. Good(0)
    BY <2>2, <2>3, <2>4
  <2> HIDE DEF Good
  <2> QED BY <2>5
<1>9. ASSUME NEW n \in Nat, n \in T PROVE n + 1 \in T
  <2> SUFFICES ASSUME n + 1 <= N PROVE Good(n + 1)
    OBVIOUS
  <2>1. n + 1 \in 0..N /\ n + 1 # 0 /\ (n + 1) - 1 = n /\ n <= N /\ n + 1 \in 1..N
    BY <1>1
  <2>2. K[n + 1] = IF functions[n + 1].trusted THEN Append(K[n], functions[n + 1]) ELSE K[n]
    BY <1>7, <2>1 DEF K
  <2>3. K[n] \in Seq(R) /\ Elems(K[n]) = {functions[i] : i \in {i \in 1..n : functions[i].trusted}}
    BY <1>9, <2>1
  <2>4. functions[n + 1] \in R
    BY <1>1, <2>1
  <2>5. \A i : i \in 1..n + 1 <=> i \in 1..n \/ i = n + 1
    OBVIOUS
  <2>6. CASE functions[n + 1].trusted
    <3>1. K[n + 1] = Append(K[n], functions[n + 1])
      BY <2>2, <2>6
    <3>2. Elems(K[n + 1]) = Elems(K[n]) \cup {functions[n + 1]}
      BY <2>3, <2>4, <3>1 DEF Elems
    <3> QED BY <2>3, <2>4, <2>5, <2>6, <3>1, <3>2
  <2>7. CASE ~functions[n + 1].trusted
    BY <2>2, <2>3, <2>5, <2>7
  <2> QED BY <2>6, <2>7
<1> HIDE DEF T
<1>10. Nat \subseteq T
  BY <1>8, <1>9, Induction
<1>11. Good(N)
  <2>1. N \in T /\ N <= N
    BY <1>1, <1>10
  <2> HIDE DEF N, Good
  <2> QED BY <2>1 DEF T
<1> QED BY <1>11 DEF K, TrustedFunctions, Elems

-----------------------------------------------------------------------------
(* From the diff to its functions *)

Functions == {ChangedFunction(d, r, t) : d \in Elems(diff), r \in index, t \in BOOLEAN}

\* Function f is the one that owns line l of diff d.
Takes(f, d, r, l) ==
  /\ f.file = d.file /\ f.qname = r.qname
  /\ (\E q \in index : q.file = d.file) => l \in f.lines

\* every changed line of the k-th file that is in a function has it among fs
Attributed(k, fs) ==
  \A l \in ChangedLines(diff[k]) : Covering(diff[k].file, l) # {} =>
    \E r \in Owners(diff[k].file, l), f \in Elems(fs) : Takes(f, diff[k], r, l)

\* f comes from one of the first n files
From(f, n) == \E k \in 1..n : diff[k].file = f.file /\ ChangedIn(diff[k], f.name)

ExtractInv ==
  /\ diff \in Diffs /\ index \in Indexes /\ extracted \in 0..Len(diff)
  /\ functions \in Seq(Functions)
  /\ \A k \in 1..extracted : Attributed(k, functions)
  /\ \A f \in Elems(functions) : From(f, extracted)
  /\ \A f, g \in Elems(functions) : f.file = g.file => f.trusted = g.trusted

\* What is in two sequences, one after the other.
LEMMA ElemsBoth ==
  ASSUME NEW S, NEW a \in Seq(S), NEW b \in Seq(S)
  PROVE  a \o b \in Seq(S) /\ Elems(a \o b) = Elems(a) \cup Elems(b)
<1>1. /\ a \o b \in Seq(S) /\ Len(a) \in Nat /\ Len(b) \in Nat
      /\ Len(a \o b) = Len(a) + Len(b)
      /\ \A i \in 1..Len(a) : (a \o b)[i] = a[i] /\ i \in 1..Len(a \o b)
      /\ \A i \in 1..Len(b) : (a \o b)[Len(a) + i] = b[i] /\ Len(a) + i \in 1..Len(a \o b)
      /\ \A i \in 1..Len(a \o b) :
           \/ i \in 1..Len(a)
           \/ i - Len(a) \in 1..Len(b) /\ (a \o b)[i] = b[i - Len(a)]
  OBVIOUS
<1>2. ASSUME NEW x \in Elems(a \o b) PROVE x \in Elems(a) \cup Elems(b)
  BY <1>1 DEF Elems
<1>3. ASSUME NEW x \in Elems(a) PROVE x \in Elems(a \o b)
  BY <1>1 DEF Elems
<1>4. ASSUME NEW x \in Elems(b) PROVE x \in Elems(a \o b)
  <2>1. PICK i \in 1..Len(b) : x = b[i]
    BY DEF Elems
  <2> QED BY <1>1, <2>1 DEF Elems
<1> QED BY <1>1, <1>2, <1>3, <1>4

\* More functions attribute no fewer lines.
LEMMA AttributedMore ==
  ASSUME NEW k, NEW s, NEW u, Elems(s) \subseteq Elems(u), Attributed(k, s)
  PROVE  Attributed(k, u)
BY DEF Attributed

\* One file's functions.
LEMMA ExtractKeeps ==
  ASSUME ExtractInv, ExtractFile
  PROVE  ExtractInv'
<1> DEFINE n == extracted + 1
           d == diff[n]
<1>1. /\ diff \in Diffs /\ index \in Indexes /\ extracted \in 0..Len(diff)
      /\ diff \in Seq(Elems(diff)) /\ Len(diff) \in Nat
      /\ extracted < Len(diff) /\ extracted' = n /\ diff' = diff /\ index' = index
  BY DiffInputs DEF ExtractInv, ExtractFile, Extracting
<1>2. n \in 1..Len(diff) /\ d \in Elems(diff) /\ 1..n = (1..extracted) \cup {n}
  BY <1>1 DEF Elems
<1>3. PICK ranges \in functions_covering_lines(d.file, ChangedLines(d)) :
        functions' = functions \o
          [i \in 1..Len(ranges) |-> ChangedFunction(d, ranges[i], Trusted(d, ranges))]
  BY DEF ExtractFile
<1> DEFINE news == [i \in 1..Len(ranges) |-> ChangedFunction(d, ranges[i], Trusted(d, ranges))]
<1>4. /\ ranges \in Seq(index)
      /\ \A i \in 1..Len(ranges) : \E l \in ChangedLines(d) :
           Covering(d.file, l) # {} /\ ranges[i] = Innermost(Covering(d.file, l))
      /\ \A l \in ChangedLines(d) : Covering(d.file, l) # {} =>
           \E i \in 1..Len(ranges) :
             /\ ranges[i].qname = Innermost(Covering(d.file, l)).qname
             /\ ranges[i].start = Innermost(Covering(d.file, l)).start
  BY <1>1, <1>2, RangesFound
<1> HIDE DEF n
<1>5. /\ news \in Seq(Functions) /\ Len(news) = Len(ranges)
      /\ \A i \in 1..Len(ranges) :
           news[i] = ChangedFunction(d, ranges[i], Trusted(d, ranges)) /\ news[i] \in Elems(news)
      /\ \A f \in Elems(news) : \E i \in 1..Len(ranges) :
           f = ChangedFunction(d, ranges[i], Trusted(d, ranges))
  <2>1. Trusted(d, ranges) \in BOOLEAN
    BY DEF Trusted
  <2>2. \A i \in 1..Len(ranges) : ChangedFunction(d, ranges[i], Trusted(d, ranges)) \in Functions
    BY <1>2, <1>4, <2>1 DEF Functions
  <2>3. Len(ranges) \in Nat
    BY <1>4
  <2>4. news \in [1..Len(ranges) -> Functions]
    BY <2>2
  <2>5. news \in Seq(Functions) /\ Len(news) = Len(ranges)
    BY <2>3, <2>4
  <2> QED BY <2>5 DEF Elems
<1>6. \A f \in Elems(news) : f.file = d.file /\ f.trusted = Trusted(d, ranges)
  BY <1>5 DEF ChangedFunction
<1>7. functions' = functions \o news /\ functions \in Seq(Functions)
  BY <1>3 DEF ExtractInv
<1> HIDE DEF news
<1>8. functions' \in Seq(Functions) /\ Elems(functions') = Elems(functions) \cup Elems(news)
  BY <1>5, <1>7, ElemsBoth
<1>9. \A l \in ChangedLines(d) : l \in Nat
  BY <1>1, <1>2, LinesFinite
<1>10. Attributed(n, news)
  <2> SUFFICES ASSUME NEW l \in ChangedLines(d), Covering(d.file, l) # {}
               PROVE  \E r \in Owners(d.file, l), f \in Elems(news) : Takes(f, d, r, l)
    BY DEF Attributed
  <2> DEFINE r == Innermost(Covering(d.file, l))
  <2>1. r \in Owners(d.file, l) /\ r \in Covering(d.file, l)
    BY <1>1, <1>9, InnermostOwns, InnermostIs
  <2>2. PICK i \in 1..Len(ranges) : ranges[i].qname = r.qname /\ ranges[i].start = r.start
    BY <1>4
  <2>3. /\ news[i] \in Elems(news) /\ news[i].file = d.file /\ news[i].qname = r.qname
        /\ news[i].lines = ChangedLines(d) \cap (ranges[i].start..ranges[i].end)
    <3>1. /\ news[i] \in Elems(news)
          /\ news[i] = ChangedFunction(d, ranges[i], Trusted(d, ranges))
      BY <1>5
    <3>2. /\ news[i].file = d.file /\ news[i].qname = ranges[i].qname
          /\ news[i].lines = ChangedLines(d) \cap (ranges[i].start..ranges[i].end)
      BY <3>1 DEF ChangedFunction
    <3> QED BY <2>2, <3>1, <3>2
  <2>4. ASSUME NEW q \in index, q.file = d.file PROVE l \in news[i].lines
    <3>1. \A x \in Ranges(d.file) : x.file = d.file /\ x \in index
      BY <2>4 DEF Ranges
    <3>2. r \in Ranges(d.file) /\ l \in r.start..r.end
      BY <2>1 DEF Covering
    <3>3. ranges[i] \in Ranges(d.file)
      <4>1. PICK m \in ChangedLines(d) :
              Covering(d.file, m) # {} /\ ranges[i] = Innermost(Covering(d.file, m))
        BY <1>4
      <4>2. ranges[i] \in Covering(d.file, m)
        BY <1>1, <1>9, <4>1, InnermostIs
      <4> QED BY <4>2 DEF Covering
    <3>4. ranges[i] = r
      <4>1. /\ ranges[i] \in index /\ r \in index /\ ranges[i].file = r.file
            /\ ranges[i].qname = r.qname /\ ranges[i].start = r.start
        BY <2>2, <3>1, <3>2, <3>3
      <4>2. \A x, y \in index :
              x.file = y.file /\ x.qname = y.qname /\ x.start = y.start => x = y
        BY <1>1, DiffInputs
      <4> HIDE DEF r
      <4> QED BY <4>1, <4>2
    <3> QED BY <2>3, <3>2, <3>4
  <2>5. Takes(news[i], d, r, l)
    BY <2>3, <2>4 DEF Takes
  <2> HIDE DEF r
  <2> QED BY <2>1, <2>3, <2>5
<1>11. \A k \in 1..n : Attributed(k, functions')
  <2>1. Attributed(n, functions')
    BY <1>8, <1>10, AttributedMore
  <2>2. ASSUME NEW k \in 1..extracted PROVE Attributed(k, functions')
    <3>1. Attributed(k, functions)
      BY DEF ExtractInv
    <3> QED BY <1>8, <3>1, AttributedMore
  <2> QED BY <1>2, <2>1, <2>2
<1>12. \A f \in Elems(functions') : From(f, n)
  <2>1. ASSUME NEW f \in Elems(functions) PROVE From(f, n)
    <3>1. From(f, extracted)
      BY DEF ExtractInv
    <3> QED BY <1>2, <3>1 DEF From
  <2>2. ASSUME NEW f \in Elems(news) PROVE From(f, n)
    <3>1. PICK i \in 1..Len(ranges) : f = ChangedFunction(d, ranges[i], Trusted(d, ranges))
      BY <1>5
    <3>2. PICK l \in ChangedLines(d) :
            Covering(d.file, l) # {} /\ ranges[i] = Innermost(Covering(d.file, l))
      BY <1>4
    <3>3. ranges[i] \in Owners(d.file, l)
      BY <1>1, <1>9, <3>2, InnermostOwns
    <3>4. f.file = d.file /\ f.name = ranges[i].name
      BY <3>1 DEF ChangedFunction
    <3>5. ChangedIn(d, f.name)
      BY <3>3, <3>4 DEF ChangedIn
    <3> QED BY <1>2, <3>4, <3>5 DEF From
  <2> QED BY <1>8, <2>1, <2>2
<1>13. ASSUME NEW f \in Elems(functions'), NEW g \in Elems(functions'), f.file = g.file
       PROVE  f.trusted = g.trusted
  <2>1. \A h \in Elems(functions) : h.file # d.file
    <3> SUFFICES ASSUME NEW h \in Elems(functions), h.file = d.file PROVE FALSE
      OBVIOUS
    <3>1. PICK k \in 1..extracted : diff[k].file = h.file
      BY DEF ExtractInv, From
    <3>2. k \in 1..Len(diff) /\ k # n
      BY <1>1, <3>1 DEF n
    <3> QED BY <1>1, <1>2, <3>1, <3>2, DiffInputs
  <2>2. CASE f \in Elems(functions) /\ g \in Elems(functions)
    BY <1>13, <2>2 DEF ExtractInv
  <2>3. CASE f \in Elems(news) /\ g \in Elems(news)
    BY <1>6, <2>3
  <2> QED BY <1>6, <1>8, <1>13, <2>1, <2>2, <2>3
<1>14. extracted' \in 0..Len(diff)
  BY <1>1, <1>2
<1>15. /\ Functions' = Functions
       /\ \A k, s : Attributed(k, s)' <=> Attributed(k, s)
       /\ \A f, m : From(f, m)' <=> From(f, m)
  <2>1. Functions' = Functions
    BY <1>1 DEF Functions
  <2>2. \A k, s : Attributed(k, s)' <=> Attributed(k, s)
    BY <1>1 DEF Attributed, Takes, Owners, Covering, Ranges
  <2>3. \A f, m : From(f, m)' <=> From(f, m)
    BY <1>1 DEF From, ChangedIn, Owners, Covering, Ranges
  <2> QED BY <2>1, <2>2, <2>3
<1> QED BY <1>1, <1>8, <1>11, <1>12, <1>13, <1>14, <1>15 DEF ExtractInv

-----------------------------------------------------------------------------
(* From the functions to the batches *)

\* what functions of one batch have in common, where it is not the size
Tag(x) == IF strategy = "file" THEN x[1] ELSE Route(x)

Grouping ==
  /\ \A i \in 1..grouped :
       IF Unreachable(changed[i]) THEN changed[i] \in Elems(unreachable)
       ELSE \E k \in 1..Len(batches) : changed[i] \in Elems(batches[k])
  /\ \A x \in Elems(unreachable) : Unreachable(x) /\ x \in Elems(changed)
  /\ \A k \in 1..Len(batches) :
       /\ batches[k] # <<>>
       /\ \A x \in Elems(batches[k]) :
            /\ ~Unreachable(x) /\ x \in Elems(changed)
            /\ strategy # "size" => Tag(x) = Tag(batches[k][1])
  /\ strategy # "size" => \A j, k \in 1..Len(batches) :
       Tag(batches[j][1]) = Tag(batches[k][1]) => j = k

HoldersIn(bs, x) == {k \in 1..Len(bs) : x \in Elems(bs[k])}

\* every changed function has its batch, and the batches have nothing else
Made(bs) ==
  /\ \A x \in Elems(changed) :
       IF strategy = "size" THEN HoldersIn(bs, x) # {} ELSE \E k : HoldersIn(bs, x) = {k}
  /\ \A k \in 1..Len(bs) : Elems(bs[k]) \subseteq Elems(changed)

GroupTyped(T) ==
  /\ changed \in Seq(T) /\ grouped \in 0..Len(changed)
  /\ batches \in Seq(Seq(T)) /\ unreachable \in Seq(T)

\* A sequence with one element more.
LEMMA ElemsAppend ==
  ASSUME NEW S, NEW s \in Seq(S), NEW e \in S
  PROVE  /\ Append(s, e) \in Seq(S) /\ Append(s, e) # <<>> /\ Len(Append(s, e)) = Len(s) + 1
         /\ Elems(Append(s, e)) = Elems(s) \cup {e}
         /\ s # <<>> => Append(s, e)[1] = s[1]
<1>1. /\ Append(s, e) \in Seq(S) /\ Len(Append(s, e)) = Len(s) + 1 /\ Len(s) \in Nat
      /\ \A i \in 1..Len(s) : Append(s, e)[i] = s[i] /\ i \in 1..Len(Append(s, e))
      /\ Append(s, e)[Len(s) + 1] = e /\ Len(s) + 1 \in 1..Len(Append(s, e))
      /\ \A i \in 1..Len(Append(s, e)) : i \in 1..Len(s) \/ i = Len(s) + 1
  OBVIOUS
<1>2. Elems(Append(s, e)) = Elems(s) \cup {e}
  <2>1. ASSUME NEW x \in Elems(Append(s, e)) PROVE x \in Elems(s) \cup {e}
    BY <1>1 DEF Elems
  <2>2. ASSUME NEW x \in Elems(s) PROVE x \in Elems(Append(s, e))
    BY <1>1 DEF Elems
  <2>3. e \in Elems(Append(s, e))
    <3>1. e = Append(s, e)[Len(s) + 1]
      BY <1>1
    <3> QED BY <1>1, <3>1 DEF Elems
  <2> QED BY <2>1, <2>2, <2>3
<1>3. s # <<>> => 1 \in 1..Len(s)
  BY <1>1
<1> QED BY <1>1, <1>2, <1>3

\* Which batch a function joins: the one of its tag, but for batches cut by size.
LEMMA JoinsTag ==
  ASSUME strategy \in {"chain", "file"}, NEW x, NEW k
  PROVE  Joins(x, k) <=> Tag(batches[k][1]) = Tag(x)
BY DEF Joins, Tag

\* One function more is in a batch.
LEMMA GroupKeeps ==
  ASSUME NEW T, GroupTyped(T), Grouping, strategy \in {"chain", "file", "size"}, GroupFunction
  PROVE  GroupTyped(T)' /\ Grouping'
<1> DEFINE x == changed[grouped + 1]
<1>1. /\ grouped < Len(changed) /\ grouped' = grouped + 1
      /\ strategy' = strategy /\ changed' = changed /\ traced' = traced
      /\ changed \in Seq(T) /\ grouped \in 0..Len(changed) /\ Len(changed) \in Nat
      /\ batches \in Seq(Seq(T)) /\ unreachable \in Seq(T) /\ Len(batches) \in Nat
  BY DEF GroupFunction, GroupTyped
<1>2. /\ x \in T /\ x \in Elems(changed) /\ Grouped = x /\ grouped' \in 0..Len(changed)
      /\ \A i \in 1..grouped' : i \in 1..grouped \/ i = grouped + 1
  BY <1>1 DEF Grouped, Elems
<1>3. \A y : (Unreachable(y)' <=> Unreachable(y)) /\ Tag(y)' = Tag(y)
  BY <1>1 DEF Unreachable, Tag, Route
<1>4. \A i \in 1..grouped : IF Unreachable(changed[i]) THEN changed[i] \in Elems(unreachable)
                            ELSE \E k \in 1..Len(batches) : changed[i] \in Elems(batches[k])
  BY DEF Grouping
<1>5. \A y \in Elems(unreachable) : Unreachable(y) /\ y \in Elems(changed)
  BY DEF Grouping
<1>6. \A k \in 1..Len(batches) :
        /\ batches[k] # <<>> /\ batches[k] \in Seq(T)
        /\ \A y \in Elems(batches[k]) :
             /\ ~Unreachable(y) /\ y \in Elems(changed)
             /\ strategy # "size" => Tag(y) = Tag(batches[k][1])
  BY <1>1 DEF Grouping
<1>7. strategy # "size" => \A j, k \in 1..Len(batches) :
        Tag(batches[j][1]) = Tag(batches[k][1]) => j = k
  BY DEF Grouping
<1>8. CASE Unreachable(x) /\ unreachable' = Append(unreachable, x) /\ batches' = batches
  <2>1. unreachable' \in Seq(T) /\ Elems(unreachable') = Elems(unreachable) \cup {x}
    BY <1>1, <1>2, <1>8, ElemsAppend
  <2>2. GroupTyped(T)'
    BY <1>1, <1>2, <1>8, <2>1 DEF GroupTyped
  <2>3. \A i \in 1..grouped' :
          IF Unreachable(changed[i]) THEN changed[i] \in Elems(unreachable')
          ELSE \E k \in 1..Len(batches) : changed[i] \in Elems(batches[k])
    BY <1>2, <1>4, <1>8, <2>1
  <2>4. \A y \in Elems(unreachable') : Unreachable(y) /\ y \in Elems(changed)
    BY <1>2, <1>5, <1>8, <2>1
  <2> QED BY <1>1, <1>3, <1>6, <1>7, <1>8, <2>2, <2>3, <2>4 DEF Grouping
<1>9. CASE /\ ~Unreachable(x) /\ unreachable' = unreachable
           /\ \E k \in 1..Len(batches) :
                Joins(x, k) /\ batches' = [batches EXCEPT ![k] = Append(@, x)]
  <2>1. PICK k \in 1..Len(batches) :
          Joins(x, k) /\ batches' = [batches EXCEPT ![k] = Append(@, x)]
    BY <1>9
  <2>2. /\ Len(batches') = Len(batches)
        /\ batches'[k] = Append(batches[k], x)
        /\ \A j \in 1..Len(batches) : j # k => batches'[j] = batches[j]
    BY <1>1, <2>1
  <2>3. /\ batches'[k] \in Seq(T) /\ batches'[k] # <<>> /\ batches'[k][1] = batches[k][1]
        /\ Elems(batches'[k]) = Elems(batches[k]) \cup {x}
    BY <1>2, <1>6, <2>2, ElemsAppend
  <2>4. /\ batches' \in Seq(Seq(T))
        /\ \A j \in 1..Len(batches) : /\ batches'[j][1] = batches[j][1]
                                      /\ Elems(batches[j]) \subseteq Elems(batches'[j])
    <3>1. batches' \in [1..Len(batches) -> Seq(T)]
      BY <1>1, <1>6, <2>1, <2>2, <2>3
    <3>2. batches' \in Seq(Seq(T))
      <4> DEFINE U == Seq(T)
                 n == Len(batches)
      <4>1. n \in Nat /\ batches' \in [1..n -> U]
        BY <1>1, <3>1
      <4> HIDE DEF U, n
      <4>2. batches' \in Seq(U)
        BY <4>1
      <4> QED BY <4>2 DEF U
    <3>3. ASSUME NEW j \in 1..Len(batches)
          PROVE  batches'[j][1] = batches[j][1] /\ Elems(batches[j]) \subseteq Elems(batches'[j])
      <4>1. CASE j = k
        BY <2>3, <4>1
      <4>2. CASE j # k
        BY <2>2, <4>2
      <4> QED BY <4>1, <4>2
    <3> QED BY <3>2, <3>3
  <2>5. GroupTyped(T)'
    BY <1>1, <1>2, <1>9, <2>4 DEF GroupTyped
  <2>6. \A i \in 1..grouped' :
          IF Unreachable(changed[i]) THEN changed[i] \in Elems(unreachable')
          ELSE \E j \in 1..Len(batches') : changed[i] \in Elems(batches'[j])
    <3>1. ~Unreachable(x) /\ k \in 1..Len(batches') /\ x \in Elems(batches'[k])
      BY <1>9, <2>2, <2>3
    <3>2. \A i \in 1..grouped :
            IF Unreachable(changed[i]) THEN changed[i] \in Elems(unreachable')
            ELSE \E j \in 1..Len(batches') : changed[i] \in Elems(batches'[j])
      BY <1>4, <1>9, <2>2, <2>4
    <3> QED BY <1>2, <3>1, <3>2
  <2>7. strategy # "size" => Tag(batches[k][1]) = Tag(x)
    BY <2>1, JoinsTag
  <2>8. \A j \in 1..Len(batches') :
          /\ batches'[j] # <<>>
          /\ \A y \in Elems(batches'[j]) :
               /\ ~Unreachable(y) /\ y \in Elems(changed)
               /\ strategy # "size" => Tag(y) = Tag(batches'[j][1])
    <3> SUFFICES ASSUME NEW j \in 1..Len(batches)
                 PROVE  /\ batches'[j] # <<>>
                        /\ \A y \in Elems(batches'[j]) :
                             /\ ~Unreachable(y) /\ y \in Elems(changed)
                             /\ strategy # "size" => Tag(y) = Tag(batches'[j][1])
      BY <2>2
    <3>1. CASE j = k
      BY <1>2, <1>6, <1>9, <2>3, <2>7, <3>1
    <3>2. CASE j # k
      BY <1>6, <2>2, <3>2
    <3> QED BY <3>1, <3>2
  <2>9. strategy # "size" => \A i, j \in 1..Len(batches') :
          Tag(batches'[i][1]) = Tag(batches'[j][1]) => i = j
    BY <1>7, <2>2, <2>4
  <2>10. \A j \in 1..Len(batches') : Tag(batches'[j][1]) = Tag(batches[j][1])'
    BY <1>3
  <2>11. Grouping'
    BY <1>1, <1>3, <1>5, <1>9, <2>6, <2>8, <2>9, <2>10 DEF Grouping
  <2> QED BY <2>5, <2>11
<1>10. CASE /\ ~Unreachable(x) /\ unreachable' = unreachable
            /\ \A k \in 1..Len(batches) : ~Joins(x, k)
            /\ batches' = Append(batches, <<x>>)
  <2> DEFINE n == Len(batches) + 1
             b == <<x>>
  <2>1. b \in Seq(T) /\ b # <<>> /\ b[1] = x /\ Elems(b) = {x}
    BY <1>2 DEF Elems
  <2>2. batches' = Append(batches, b)
    BY <1>10
  <2> HIDE DEF b
  <2>3. /\ batches' \in Seq(Seq(T)) /\ Len(batches') = n /\ batches'[n] = b
        /\ \A j \in 1..Len(batches) : batches'[j] = batches[j] /\ j \in 1..Len(batches')
        /\ n \in 1..Len(batches') /\ \A j \in 1..Len(batches') : j \in 1..Len(batches) \/ j = n
    BY <1>1, <2>1, <2>2
  <2>4. GroupTyped(T)'
    BY <1>1, <1>2, <1>10, <2>3 DEF GroupTyped
  <2>5. \A i \in 1..grouped' :
          IF Unreachable(changed[i]) THEN changed[i] \in Elems(unreachable')
          ELSE \E j \in 1..Len(batches') : changed[i] \in Elems(batches'[j])
    <3>1. ~Unreachable(x) /\ n \in 1..Len(batches') /\ x \in Elems(batches'[n])
      BY <1>10, <2>1, <2>3
    <3>2. \A i \in 1..grouped :
            IF Unreachable(changed[i]) THEN changed[i] \in Elems(unreachable')
            ELSE \E j \in 1..Len(batches') : changed[i] \in Elems(batches'[j])
      BY <1>4, <1>10, <2>3
    <3> QED BY <1>2, <3>1, <3>2
  <2>6. \A j \in 1..Len(batches') :
          /\ batches'[j] # <<>>
          /\ \A y \in Elems(batches'[j]) :
               /\ ~Unreachable(y) /\ y \in Elems(changed)
               /\ strategy # "size" => Tag(y) = Tag(batches'[j][1])
    BY <1>2, <1>6, <1>10, <2>1, <2>3
  <2>7. strategy # "size" => \A j \in 1..Len(batches) : Tag(batches[j][1]) # Tag(x)
    BY <1>10, JoinsTag
  <2>8. strategy # "size" => \A i, j \in 1..Len(batches') :
          Tag(batches'[i][1]) = Tag(batches'[j][1]) => i = j
    BY <1>7, <2>1, <2>3, <2>7
  <2>9. Grouping'
    BY <1>1, <1>3, <1>5, <1>10, <2>5, <2>6, <2>8 DEF Grouping
  <2> QED BY <2>4, <2>9
<1> QED BY <1>2, <1>8, <1>9, <1>10 DEF GroupFunction

\* The functions nothing reaches make the last batch.
LEMMA MadeOf ==
  ASSUME NEW T, GroupTyped(T), Grouping, grouped = Len(changed), NEW bs,
         bs = batches \o LastBatch
  PROVE  bs \in Seq(Seq(T)) /\ Made(bs)
<1>1. /\ changed \in Seq(T) /\ Len(changed) \in Nat /\ batches \in Seq(Seq(T))
      /\ unreachable \in Seq(T) /\ Len(batches) \in Nat
  BY DEF GroupTyped
<1>2. LastBatch \in Seq(Seq(T))
  BY <1>1 DEF LastBatch
<1>3. /\ bs \in Seq(Seq(T))
      /\ \A k \in 1..Len(batches) : bs[k] = batches[k] /\ k \in 1..Len(bs)
  BY <1>1, <1>2
<1>4. \A k \in 1..Len(bs) :
        k \in 1..Len(batches) \/ (k = Len(batches) + 1 /\ bs[k] = unreachable)
  BY <1>1, <1>2 DEF LastBatch
<1>5. unreachable # <<>> => Len(batches) + 1 \in 1..Len(bs) /\ bs[Len(batches) + 1] = unreachable
  BY <1>1, <1>2 DEF LastBatch
<1>6. \A k \in 1..Len(batches) : \A y \in Elems(batches[k]) :
        /\ ~Unreachable(y) /\ y \in Elems(changed)
        /\ strategy # "size" => Tag(y) = Tag(batches[k][1])
  BY DEF Grouping
<1>7. \A y \in Elems(unreachable) : Unreachable(y) /\ y \in Elems(changed)
  BY DEF Grouping
<1>8. ASSUME NEW x \in Elems(changed)
      PROVE  IF strategy = "size" THEN HoldersIn(bs, x) # {} ELSE \E k : HoldersIn(bs, x) = {k}
  <2>1. IF Unreachable(x) THEN x \in Elems(unreachable)
        ELSE \E k \in 1..Len(batches) : x \in Elems(batches[k])
    BY DEF Grouping, Elems
  <2>2. CASE Unreachable(x)
    <3> DEFINE n == Len(batches) + 1
    <3>1. x \in Elems(unreachable) /\ unreachable # <<>>
      BY <2>1, <2>2 DEF Elems
    <3>2. n \in HoldersIn(bs, x)
      BY <1>5, <3>1 DEF HoldersIn
    <3>3. \A k \in HoldersIn(bs, x) : k = n
      BY <1>3, <1>4, <1>6, <2>2 DEF HoldersIn
    <3>4. HoldersIn(bs, x) = {n}
      BY <3>2, <3>3
    <3> QED BY <3>4
  <2>3. CASE ~Unreachable(x)
    <3>1. PICK k \in 1..Len(batches) : x \in Elems(batches[k])
      BY <2>1, <2>3
    <3>2. k \in HoldersIn(bs, x)
      BY <1>3, <3>1 DEF HoldersIn
    <3>3. \A j \in HoldersIn(bs, x) : j \in 1..Len(batches) /\ x \in Elems(batches[j])
      BY <1>3, <1>4, <1>7, <2>3 DEF HoldersIn
    <3>4. CASE strategy = "size"
      BY <3>2, <3>4
    <3>5. CASE strategy # "size"
      <4>1. ASSUME NEW j \in HoldersIn(bs, x) PROVE j = k
        <5>1. j \in 1..Len(batches) /\ x \in Elems(batches[j])
          BY <3>3
        <5>2. Tag(batches[j][1]) = Tag(x) /\ Tag(batches[k][1]) = Tag(x)
          BY <1>6, <3>1, <3>5, <5>1
        <5> QED BY <3>1, <3>5, <5>1, <5>2 DEF Grouping
      <4>2. HoldersIn(bs, x) = {k}
        BY <3>2, <4>1
      <4> QED BY <3>5, <4>2
    <3> QED BY <3>4, <3>5
  <2> QED BY <2>2, <2>3
<1>9. ASSUME NEW k \in 1..Len(bs) PROVE Elems(bs[k]) \subseteq Elems(changed)
  BY <1>3, <1>4, <1>6, <1>7
<1> QED BY <1>3, <1>8, <1>9 DEF Made

-----------------------------------------------------------------------------
(* From the diff to the batches *)

ChangedTargets == {as_target(f) : f \in Functions}

\* the targets of the functions that are trusted
Wanted == {as_target(f) : f \in {f \in Elems(functions) : f.trusted}}

BatchInv ==
  /\ strategy \in {"chain", "file", "size"} /\ step \in {"wait", "trace", "group", "done"}
  /\ fellBack \in BOOLEAN /\ (fellBack => strategy = "file" /\ step \in {"group", "done"})
  /\ step # "done" => GroupTyped(ChangedTargets)
  /\ step \in {"wait", "trace"} => grouped = 0 /\ batches = <<>> /\ unreachable = <<>>
  /\ step # "wait" => ~Extracting /\ Elems(changed) = Wanted
  /\ step = "group" => Grouping
  /\ step = "done" => Lists \in Seq(Seq(ChangedTargets)) /\ Made(Lists)

ChangeInv == ExtractInv /\ BatchInv

\* Nothing is there in the beginning.
LEMMA ChangeInit == Init => ChangeInv
<1> SUFFICES ASSUME Init PROVE ChangeInv
  OBVIOUS
<1>1. ExtractInv
  <2>1. /\ diff \in Diffs /\ index \in Indexes /\ extracted = 0 /\ functions = <<>>
        /\ diff \in Seq(Elems(diff))
    BY DiffInputs DEF Init, InitExtract
  <2>2. Elems(functions) = {} /\ 1..extracted = {} /\ extracted \in 0..Len(diff)
        /\ functions \in Seq(Functions)
    BY <2>1 DEF Elems
  <2> QED BY <2>1, <2>2 DEF ExtractInv
<1>2. BatchInv
  <2>1. /\ strategy \in {"chain", "file", "size"} /\ step = "wait" /\ fellBack = FALSE
        /\ changed = <<>> /\ grouped = 0 /\ batches = <<>> /\ unreachable = <<>>
    BY DEF Init, InitTrace
  <2>2. GroupTyped(ChangedTargets)
    BY <2>1 DEF GroupTyped
  <2> QED BY <2>1, <2>2 DEF BatchInv
<1> QED BY <1>1, <1>2 DEF ChangeInv

\* The search and the grouping leave the diff and its functions alone.
LEMMA ExtractSame ==
  ASSUME ExtractInv, UNCHANGED extractVars
  PROVE  /\ ExtractInv' /\ Wanted' = Wanted /\ ChangedTargets' = ChangedTargets
         /\ Extracting' = Extracting
<1>1. UNCHANGED <<diff, index, extracted, functions>>
  BY DEF extractVars
<1>2. Functions' = Functions
  BY <1>1 DEF Functions
<1>3. \A k, s : Attributed(k, s)' <=> Attributed(k, s)
  BY <1>1 DEF Attributed, Takes, Owners, Covering, Ranges
<1>4. \A f, m : From(f, m)' <=> From(f, m)
  BY <1>1 DEF From, ChangedIn, Owners, Covering, Ranges
<1>5. ExtractInv'
  BY <1>1, <1>2, <1>3, <1>4 DEF ExtractInv
<1> QED BY <1>1, <1>2, <1>5 DEF Wanted, ChangedTargets, Extracting

\* The steps of the search group nothing.
LEMMA SearchBatches ==
  ASSUME BatchInv, UNCHANGED extractVars, ExtractInv,
         UNCHANGED <<strategy, fellBack, step, changed, groupVars>>,
         UNCHANGED traced \/ step = "trace"
  PROVE  BatchInv'
<1>1. /\ Wanted' = Wanted /\ ChangedTargets' = ChangedTargets /\ Extracting' = Extracting
      /\ UNCHANGED <<strategy, fellBack, step, changed, grouped, batches, unreachable>>
  BY ExtractSame DEF groupVars
<1>2. step' # "done" => GroupTyped(ChangedTargets)'
  BY <1>1 DEF BatchInv, GroupTyped
<1>3. step' = "group" => Grouping'
  <2> SUFFICES ASSUME step = "group" PROVE Grouping'
    BY <1>1
  <2>1. Grouping /\ UNCHANGED traced
    BY DEF BatchInv
  <2> QED BY <1>1, <2>1 DEF Grouping, Unreachable, Tag, Route
<1>4. step' = "done" => Lists' \in Seq(Seq(ChangedTargets')) /\ Made(Lists)'
  <2> SUFFICES ASSUME step = "done" PROVE Lists' \in Seq(Seq(ChangedTargets')) /\ Made(Lists)'
    BY <1>1
  <2>1. Lists \in Seq(Seq(ChangedTargets)) /\ Made(Lists) /\ Lists' = Lists
    BY <1>1 DEF BatchInv, Lists
  <2> QED BY <1>1, <2>1 DEF Made, HoldersIn
<1> QED BY <1>1, <1>2, <1>3, <1>4 DEF BatchInv

\* Functions are given to be batched: those to be trusted.
LEMMA SplitBatches ==
  ASSUME ChangeInv, Split
  PROVE  BatchInv'
<1> DEFINE fs == [i \in 1..Len(TrustedFunctions) |-> as_target(TrustedFunctions[i])]
<1>1. /\ step = "wait" /\ changed' = fs /\ UNCHANGED extractVars /\ ~Extracting
      /\ step' \in {"trace", "group"}
      /\ UNCHANGED <<strategy, fellBack, grouped, batches, unreachable>>
  BY DEF Split, split_batches, groupVars
<1>2. /\ TrustedFunctions \in Seq(Functions)
      /\ Elems(TrustedFunctions) = {f \in Elems(functions) : f.trusted}
  BY KeptAre DEF ChangeInv, ExtractInv
<1>3. /\ fs \in Seq(ChangedTargets) /\ Len(fs) = Len(TrustedFunctions) /\ Len(fs) \in Nat
      /\ \A i \in 1..Len(fs) : fs[i] = as_target(TrustedFunctions[i])
  BY <1>2 DEF ChangedTargets
<1>4. Elems(fs) = Wanted
  <2>1. ASSUME NEW i \in 1..Len(fs) PROVE fs[i] \in Wanted
    <3>1. TrustedFunctions[i] \in {f \in Elems(functions) : f.trusted}
      BY <1>2, <1>3 DEF Elems
    <3> QED BY <1>3, <3>1 DEF Wanted
  <2>2. ASSUME NEW x \in Wanted PROVE x \in Elems(fs)
    <3>1. PICK f \in {f \in Elems(functions) : f.trusted} : x = as_target(f)
      BY DEF Wanted
    <3>2. PICK i \in 1..Len(TrustedFunctions) : f = TrustedFunctions[i]
      BY <1>2, <3>1 DEF Elems
    <3>3. i \in 1..Len(fs) /\ fs[i] = x
      BY <1>3, <3>1, <3>2
    <3> QED BY <3>3 DEF Elems
  <2> QED BY <2>1, <2>2 DEF Elems
<1> HIDE DEF fs
<1>5. /\ Wanted' = Wanted /\ ChangedTargets' = ChangedTargets /\ Extracting' = Extracting
  BY <1>1, ExtractSame DEF ChangeInv
<1>6. /\ grouped = 0 /\ batches = <<>> /\ unreachable = <<>> /\ fellBack = FALSE
      /\ strategy \in {"chain", "file", "size"}
  BY <1>1 DEF ChangeInv, BatchInv
<1>7. GroupTyped(ChangedTargets)'
  BY <1>1, <1>3, <1>5, <1>6 DEF GroupTyped
<1>8. Grouping'
  BY <1>1, <1>6 DEF Grouping, Elems
<1>9. Elems(changed') = Wanted'
  BY <1>1, <1>4, <1>5
<1> QED BY <1>1, <1>5, <1>6, <1>7, <1>8, <1>9 DEF BatchInv

\* Tracing ends, with all functions traced or with none.
LEMMA TracingEnds ==
  ASSUME ChangeInv, FallBack \/ TracesDone, UNCHANGED extractVars
  PROVE  BatchInv'
<1>1. /\ step = "trace" /\ step' = "group" /\ strategy' \in {"chain", "file", "size"}
      /\ UNCHANGED <<changed, grouped, batches, unreachable>>
      /\ grouped = 0 /\ batches = <<>> /\ unreachable = <<>>
      /\ fellBack' \in BOOLEAN /\ (fellBack' => strategy' = "file")
  <2>1. /\ strategy \in {"chain", "file", "size"} /\ ~fellBack /\ fellBack \in BOOLEAN
        /\ grouped = 0 /\ batches = <<>> /\ unreachable = <<>>
    BY DEF FallBack, TracesDone, ChangeInv, BatchInv
  <2>2. CASE FallBack
    BY <2>1, <2>2 DEF FallBack, groupVars
  <2>3. CASE TracesDone
    BY <2>1, <2>3 DEF TracesDone, groupVars
  <2> QED BY <2>2, <2>3
<1>2. /\ Wanted' = Wanted /\ ChangedTargets' = ChangedTargets /\ Extracting' = Extracting
  BY ExtractSame DEF ChangeInv
<1>3. GroupTyped(ChangedTargets)'
  BY <1>1, <1>2 DEF ChangeInv, BatchInv, GroupTyped
<1>4. Grouping'
  BY <1>1 DEF Grouping, Elems
<1> QED BY <1>1, <1>2, <1>3, <1>4 DEF ChangeInv, BatchInv

\* Every step of the batching.
LEMMA BatchKeeps ==
  ASSUME ChangeInv, Batching, UNCHANGED extractVars
  PROVE  BatchInv'
<1>1. /\ ExtractInv /\ BatchInv /\ Wanted' = Wanted /\ ChangedTargets' = ChangedTargets
      /\ Extracting' = Extracting
  BY ExtractSame DEF ChangeInv
<1>2. CASE TraceTrivial \/ BeginSearch \/ ExtendPath \/ VisitCaller \/ GiveUpSearch
  <2>1. UNCHANGED <<strategy, fellBack, step, changed, groupVars>> /\ step = "trace"
    BY <1>2 DEF TraceTrivial, BeginSearch, ExtendPath, VisitCaller, GiveUpSearch,
                BetweenSearches, Searching
  <2> QED BY <1>1, <2>1, SearchBatches
<1>3. CASE FallBack \/ TracesDone
  BY <1>3, TracingEnds
<1>4. CASE GroupFunction
  <2>1. /\ step = "group" /\ UNCHANGED <<strategy, fellBack, step, changed>>
        /\ GroupTyped(ChangedTargets) /\ Grouping /\ strategy \in {"chain", "file", "size"}
    BY <1>1, <1>4 DEF GroupFunction, BatchInv
  <2> DEFINE T == ChangedTargets
  <2>2. GroupTyped(T)
    BY <2>1
  <2>3. Grouping' /\ GroupTyped(ChangedTargets)'
    BY <1>1, <1>4, <2>1, <2>2, GroupKeeps DEF GroupTyped
  <2> QED BY <1>1, <2>1, <2>3 DEF BatchInv
<1>5. CASE BatchesMade
  <2>1. /\ step = "group" /\ grouped = Len(changed) /\ step' = "done"
        /\ batches' = IF fellBack THEN <<batches, <<>> >> ELSE batches \o LastBatch
        /\ UNCHANGED <<strategy, fellBack, changed, grouped, unreachable>>
        /\ GroupTyped(ChangedTargets) /\ Grouping /\ strategy \in {"chain", "file", "size"}
    BY <1>1, <1>5 DEF BatchesMade, BatchInv
  <2>2. Lists' = batches \o LastBatch
    <3>1. CASE fellBack
      <4>1. strategy = "file"
        BY <1>1, <3>1 DEF BatchInv
      <4>2. Elems(unreachable) = {}
        BY <2>1, <4>1 DEF Grouping, Unreachable
      <4>3. unreachable \in Seq(ChangedTargets) /\ batches \in Seq(Seq(ChangedTargets))
        BY <2>1 DEF GroupTyped
      <4>4. unreachable = <<>>
        <5> SUFFICES ASSUME unreachable # <<>> PROVE FALSE
          OBVIOUS
        <5>1. 1 \in 1..Len(unreachable)
          BY <4>3
        <5>2. unreachable[1] \in Elems(unreachable)
          BY <5>1 DEF Elems
        <5> QED BY <4>2, <5>2
      <4>5. batches \o LastBatch = batches
        BY <4>3, <4>4 DEF LastBatch
      <4> QED BY <2>1, <3>1, <4>5 DEF Lists
    <3>2. CASE ~fellBack
      BY <2>1, <3>2 DEF Lists
    <3> QED BY <3>1, <3>2
  <2>3. Lists' \in Seq(Seq(ChangedTargets)) /\ Made(Lists')
    BY <2>1, <2>2, MadeOf
  <2>4. Made(Lists)'
    BY <2>1, <2>3 DEF Made, HoldersIn
  <2> QED BY <1>1, <2>1, <2>3, <2>4 DEF BatchInv
<1> QED BY <1>2, <1>3, <1>4, <1>5 DEF Batching

\* Every step keeps the invariant.
LEMMA ChangeStep == ChangeInv /\ [Next]_vars => ChangeInv'
<1> SUFFICES ASSUME ChangeInv, [Next]_vars PROVE ChangeInv'
  OBVIOUS
<1>1. CASE Extract
  <2>1. ExtractInv' /\ Extracting /\ UNCHANGED traceVars /\ UNCHANGED <<diff, index>>
    BY <1>1, ExtractKeeps DEF Extract, ChangeInv, ExtractFile
  <2>2. /\ UNCHANGED <<strategy, fellBack, step, changed, grouped, batches, unreachable>>
        /\ step = "wait"
    BY <2>1 DEF traceVars, groupVars, ChangeInv, BatchInv
  <2>3. ChangedTargets' = ChangedTargets
    BY <2>1 DEF ChangedTargets, Functions
  <2>4. GroupTyped(ChangedTargets)'
    BY <2>2, <2>3 DEF ChangeInv, BatchInv, GroupTyped
  <2>5. BatchInv'
    BY <2>2, <2>4 DEF ChangeInv, BatchInv
  <2> QED BY <2>1, <2>5 DEF ChangeInv
<1>2. CASE Split
  BY <1>2, SplitBatches, ExtractSame DEF ChangeInv, Split
<1>3. CASE Batch
  BY <1>3, BatchKeeps, ExtractSame DEF ChangeInv, Batch
<1>4. CASE UNCHANGED vars
  <2>1. UNCHANGED extractVars /\ UNCHANGED <<strategy, fellBack, step, changed, groupVars, traced>>
    BY <1>4 DEF vars, traceVars
  <2> QED BY <2>1, SearchBatches, ExtractSame DEF ChangeInv
<1> QED BY <1>1, <1>2, <1>3, <1>4 DEF Next, Rest

\* What the invariant says when the batches are made.
LEMMA ChangeImplies == ChangeInv => BatchesAreTheChange
<1> SUFFICES ASSUME ChangeInv, step = "done" PROVE BatchesAreTheChange
  BY DEF BatchesAreTheChange
<1>1. /\ ExtractInv /\ diff \in Diffs /\ diff \in Seq(Elems(diff)) /\ extracted = Len(diff)
      /\ Len(diff) \in Nat
      /\ Elems(changed) = Wanted /\ Made(Lists) /\ Lists \in Seq(Seq(ChangedTargets))
  BY DiffInputs DEF ChangeInv, ExtractInv, BatchInv, Extracting, GroupTyped
<1>2. \A x : BatchesOf(x) = HoldersIn(Lists, x)
  BY DEF BatchesOf, HoldersIn
<1>3. ASSUME NEW f \in Elems(functions)
      PROVE  IF ~f.trusted THEN Cardinality(BatchesOf(as_target(f))) = 0
             ELSE IF strategy = "size" THEN Cardinality(BatchesOf(as_target(f))) >= 1
             ELSE Cardinality(BatchesOf(as_target(f))) = 1
  <2> DEFINE x == as_target(f)
             B == BatchesOf(x)
  <2>1. CASE ~f.trusted
    <3>1. x \notin Wanted
      <4> SUFFICES ASSUME NEW g \in Elems(functions), g.trusted, as_target(g) = x PROVE FALSE
        BY DEF Wanted
      <4>1. g.file = f.file
        BY DEF as_target
      <4>2. g.trusted = f.trusted
        BY <1>1, <4>1 DEF ExtractInv
      <4> QED BY <2>1, <4>2
    <3>2. B = {}
      BY <1>1, <1>2, <3>1 DEF Made, HoldersIn
    <3> QED BY <2>1, <3>2, FS_EmptySet
  <2>2. CASE f.trusted
    <3>1. x \in Elems(changed)
      BY <1>1, <2>2 DEF Wanted
    <3>2. CASE strategy = "size"
      <4>1. B # {} /\ B \in SUBSET (1..Len(Lists))
        BY <1>1, <1>2, <3>1, <3>2 DEF Made, HoldersIn
      <4> DEFINE n == Len(Lists)
      <4>2. n \in Int /\ 1 \in Int
        BY <1>1
      <4> HIDE DEF B, n
      <4>3. IsFiniteSet(1..n)
        BY <4>2, FS_Interval
      <4>4. IsFiniteSet(B)
        BY <4>1, <4>3, FS_Subset DEF n
      <4>5. Cardinality(B) \in Nat /\ Cardinality(B) # 0
        BY <4>1, <4>4, FS_EmptySet, FS_CardinalityType
      <4>6. Cardinality(B) >= 1
        BY <4>5
      <4> QED BY <2>2, <3>2, <4>6 DEF B
    <3>3. CASE strategy # "size"
      <4>1. \E k : B = {k}
        BY <1>1, <1>2, <3>1, <3>3 DEF Made
      <4>2. Cardinality(B) = 1
        BY <4>1, FS_Singleton
      <4> QED BY <2>2, <3>3, <4>2
    <3> QED BY <3>2, <3>3
  <2> QED BY <2>1, <2>2
<1>4. ASSUME NEW d \in Elems(diff), NEW l \in ChangedLines(d), Covering(d.file, l) # {}
      PROVE  \E r \in Owners(d.file, l), f \in Elems(functions) : Takes(f, d, r, l)
  <2>1. PICK k \in 1..Len(diff) : d = diff[k]
    BY DEF Elems
  <2>2. Attributed(k, functions)
    BY <1>1, <2>1 DEF ExtractInv
  <2> QED BY <1>4, <2>1, <2>2 DEF Attributed
<1>5. ASSUME NEW k \in 1..Len(Lists), NEW target \in Elems(Lists[k])
      PROVE  \E d \in Elems(diff) : d.file = target[1] /\ ChangedIn(d, target[2])
  <2>1. target \in Wanted
    BY <1>1 DEF Made
  <2>2. PICK f \in Elems(functions) : target = as_target(f)
    BY <2>1 DEF Wanted
  <2>3. target[1] = f.file /\ target[2] = f.name
    BY <2>2 DEF as_target
  <2>4. PICK m \in 1..Len(diff) : diff[m].file = f.file /\ ChangedIn(diff[m], f.name)
    BY <1>1 DEF ExtractInv, From
  <2>5. diff[m] \in Elems(diff)
    BY DEF Elems
  <2> QED BY <2>3, <2>4, <2>5
<1> QED BY <1>3, <1>4, <1>5 DEF BatchesAreTheChange, Takes

\* From the diff to the batches nothing is lost and nothing added, for every diff, index,
\* call graph, strategy and limit, whatever ranges nest in or equal each other; when the
\* strategy failed, to the lists by file that make up the first of two batches then.
THEOREM NothingLostOrAdded == Spec => []BatchesAreTheChange
<1>1. Spec => []ChangeInv
  BY ChangeInit, ChangeStep, PTL DEF Spec
<1> QED BY <1>1, ChangeImplies, PTL

=============================================================================
