--------------------------- MODULE SandboxRuntime ---------------------------
(***************************************************************************)
(* Which container runtime a process uses, and where a command of an agent *)
(* runs: runtime_available and get_sandbox of src/aicoverage/sandbox.py,   *)
(* with the forwarding of sandbox_shim.py.                                 *)
(*                                                                         *)
(* The answers are kept in each process for ever and in one file of the    *)
(* workspace for some time; the file is written without a lock.  The       *)
(* runtimes themselves are inputs.  A container sees the workspace and has *)
(* no runtime of its own.                                                  *)
(***************************************************************************)
EXTENDS Integers, Sequences, FiniteSets

CONSTANTS
  Loops,      \* processes that build and test
  Shims,      \* commands of agents, each a process of sandbox_shim
  Runtimes,   \* in the order they are tried
  TTL,        \* _RUNTIME_CACHE_TTL_S
  MaxTime     \* a bound of the model

ASSUME RuntimeConstants ==
  /\ Loops \cap Shims = {} /\ TTL \in Nat \ {0} /\ MaxTime \in Nat
  /\ Runtimes \in Seq({Runtimes[i] : i \in 1..Len(Runtimes)}) \ {<<>>}

VARIABLES
  time,
  disk,     \* sandbox_runtime_cache.json
  proc,     \* per process
  probed    \* history: when a runtime was last found to be there, or not

runtimeVars == <<time, disk, proc, probed>>

Procs == Loops \cup Shims
RuntimeSet == {Runtimes[i] : i \in 1..Len(Runtimes)}
Unasked == [rt \in RuntimeSet |-> "unknown"]     \* an empty _runtime_cache
NoEntries == [rt \in RuntimeSet |-> [ok |-> "unknown", ts |-> 0]]

\* step: "idle", "ask", "probe", "merge", "write", "fill", "chosen", "ran" or "failed";
\* shimmed: the shims come first in PATH, there and in any container
Fresh == [step |-> "idle", inside |-> FALSE, shimmed |-> FALSE, left |-> <<>>,
          known |-> Unasked, merged |-> NoEntries, chosen |-> "host"]

InitRuntime ==
  /\ time = 0 /\ disk = [torn |-> FALSE, entries |-> NoEntries]
  /\ proc = [p \in Procs |-> Fresh]
  /\ probed = [rt \in RuntimeSet |-> [ok \in {"yes", "no"} |-> -TTL]]

\* the moment between a probe and its time stamp takes no time that counts
Tick ==
  /\ time < MaxTime /\ \A p \in Procs : proc[p].step # "merge"
  /\ time' = time + 1 /\ UNCHANGED <<disk, proc, probed>>

\* get_sandbox, once for every build and test; by an agent or by hand for a command
GetSandbox(p) ==
  /\ proc[p].step \in IF p \in Loops THEN {"idle", "chosen"} ELSE {"idle"}
  /\ \E shimmed \in IF p \in Loops THEN {FALSE} ELSE BOOLEAN :
       proc' = [proc EXCEPT ![p].step = "ask", ![p].left = Runtimes, ![p].shimmed = shimmed]
  /\ UNCHANGED <<time, disk, probed>>

-----------------------------------------------------------------------------
(* runtime_available *)

Asked(p) == Head(proc[p].left)

\* q, a process, with its answer of the runtime it asked for
Answered(q, ok) ==
  LET more == Tail(q.left)
      with == [q EXCEPT !.known[Head(q.left)] = ok]
  IN CASE ok = "yes"               -> [with EXCEPT !.step = "chosen", !.chosen = Head(q.left)]
       [] ok = "no" /\ more # <<>> -> [with EXCEPT !.step = "ask", !.left = more]
       [] ok = "no" /\ more = <<>> -> [with EXCEPT !.step = "chosen", !.chosen = "host"]

AskMemory(p) ==
  /\ proc[p].step = "ask" /\ proc[p].known[Asked(p)] # "unknown"
  /\ proc' = [proc EXCEPT ![p] = Answered(@, @.known[Asked(p)])]
  /\ UNCHANGED <<time, disk, probed>>

\* a file that is torn or lacks an entry holds no answer
OnDisk(rt) ==
  ~disk.torn /\ disk.entries[rt].ok # "unknown" /\ time - disk.entries[rt].ts < TTL

AskDisk(p) ==
  /\ proc[p].step = "ask" /\ proc[p].known[Asked(p)] = "unknown"
  /\ IF OnDisk(Asked(p))
     THEN proc' = [proc EXCEPT ![p] = Answered(@, disk.entries[Asked(p)].ok)]
     ELSE proc' = [proc EXCEPT ![p].step = "probe"]
  /\ UNCHANGED <<time, disk, probed>>

\* no CLI, no daemon and no answer in time are all a no
Probe(p) ==
  /\ proc[p].step = "probe"
  /\ \E ok \in IF proc[p].inside THEN {"no"} ELSE {"yes", "no"} :
       /\ proc' = [proc EXCEPT ![p].step = "merge", ![p].known[Asked(p)] = ok]
       /\ probed' = [probed EXCEPT ![Asked(p)][ok] = time]
  /\ UNCHANGED <<time, disk>>

ReadBack == IF disk.torn THEN NoEntries ELSE disk.entries

\* (mutant) what is read back is stamped anew
MergedBackRestamped(p) ==
  [rt \in RuntimeSet |-> [ok |-> IF rt = Asked(p) THEN proc[p].known[rt] ELSE ReadBack[rt].ok,
                          ts |-> time]]

MergedBack(p) == [ReadBack EXCEPT ![Asked(p)] = [ok |-> proc[p].known[Asked(p)], ts |-> time]]

MergeEntries(p) ==
  /\ proc[p].step = "merge"
  /\ proc' = [proc EXCEPT ![p].step = "write", ![p].merged = MergedBack(p)]
  /\ UNCHANGED <<time, disk, probed>>

Truncate(p) ==
  /\ proc[p].step = "write"
  /\ proc' = [proc EXCEPT ![p].step = "fill"] /\ disk' = [torn |-> TRUE, entries |-> NoEntries]
  /\ UNCHANGED <<time, probed>>

Done(p) == proc' = [proc EXCEPT ![p] = Answered([@ EXCEPT !.merged = NoEntries],
                                                @.known[Asked(p)])]

\* over what another process has written since it may leave a mixture
Fill(p) ==
  /\ proc[p].step = "fill" /\ Done(p)
  /\ \/ disk' = [torn |-> FALSE, entries |-> proc[p].merged]
     \/ ~disk.torn /\ disk' = [torn |-> TRUE, entries |-> NoEntries]
  /\ UNCHANGED <<time, probed>>

\* an OSError: the answer stands, the file is as far as it got
CannotWrite(p) ==
  /\ proc[p].step \in {"merge", "write", "fill"} /\ Done(p)
  /\ UNCHANGED <<time, disk, probed>>

-----------------------------------------------------------------------------
(* sandbox_shim *)

\* a new process image, which knows nothing, in p's place
Image(p, inside) ==
  [Fresh EXCEPT !.step = "ask", !.left = Runtimes, !.shimmed = TRUE, !.inside = inside]

\* execvp looks the name up in PATH
ExecHost(p) ==
  /\ p \in Shims /\ proc[p].step = "chosen" /\ proc[p].chosen = "host"
  /\ proc' = [proc EXCEPT ![p] = IF @.shimmed THEN Image(p, @.inside)
                                 ELSE [@ EXCEPT !.step = "ran"]]
  /\ UNCHANGED <<time, disk, probed>>

\* PATH goes with the command into the container, where the shims are mounted too.
\* The runtime, the container or in it the interpreter of the shim may be missing.
RunPipe(p) ==
  /\ p \in Shims /\ proc[p].step = "chosen" /\ proc[p].chosen # "host"
  /\ \/ proc' = [proc EXCEPT ![p].step = "failed"]
     \/ ~proc[p].inside /\ proc' = [proc EXCEPT ![p] = IF @.shimmed THEN Image(p, TRUE)
                                                       ELSE [@ EXCEPT !.step = "ran"]]
  /\ UNCHANGED <<time, disk, probed>>

ProcessStep(p) ==
  \/ GetSandbox(p) \/ AskMemory(p) \/ AskDisk(p) \/ Probe(p)
  \/ MergeEntries(p) \/ Truncate(p) \/ Fill(p) \/ CannotWrite(p)
  \/ ExecHost(p) \/ RunPipe(p)

NextRuntime == Tick \/ \E p \in Procs : ProcessStep(p)

SpecRuntime == InitRuntime /\ [][NextRuntime]_runtimeVars

\* a process that can run does
FairRuntime == SpecRuntime /\ \A p \in Procs : WF_runtimeVars(ProcessStep(p))

-----------------------------------------------------------------------------
(* Correctness *)

\* Whatever a process takes for the answer of a runtime, from the file or from a
\* probe, is what a probe found less than the time to live ago: neither merging the
\* file with a new answer nor writing it at the same time nor a torn file makes an
\* old answer new.  (sandbox.py: runtime_available.)
AnswersRecent ==
  [][\A p \in Procs, rt \in RuntimeSet :
       proc[p].known[rt] = "unknown" /\ proc'[p].known[rt] # "unknown"
         => time - probed'[rt][proc'[p].known[rt]] < TTL]_runtimeVars

\* What sandbox_shim.py says of a command whose sandbox is not available: it is run
\* on the host as if there were no sandbox.  So a command ends, one way or another.
CommandEnds == \A p \in Shims : proc[p].step # "idle" ~> proc[p].step \in {"ran", "failed"}

=============================================================================
