------------------------------ MODULE AgentCall ------------------------------
(***************************************************************************)
(* One call of a sub-agent: call_agent of src/aicoverage/agent_call.py,    *)
(* made by _call of run_loop, which charges the run for it.                *)
(*                                                                         *)
(* An attempt may fail for several reasons at once (an HTML error page     *)
(* holds "504" and "not found"); the words found in its summary decide how *)
(* it is classified, and the class whether and when it is tried again.     *)
(* Time is counted in whole seconds.                                       *)
(***************************************************************************)
EXTENDS Integers

CONSTANTS
  RetryLimits,    \* values of max_retries the callers pass
  HasHook,        \* is a compact_hook given?
  BaseDelay,      \* AICOV_RETRY_BASE_DELAY
  MaxDelay,       \* AICOV_RETRY_MAX_DELAY
  TotalTimeout,   \* AICOV_RETRY_TOTAL_TIMEOUT
  Tokens,         \* what one attempt may consume
  Pressure        \* AICOV_CTX_PRESSURE_TOKENS

ASSUME CallConstants ==
  /\ RetryLimits \subseteq Nat /\ HasHook \in BOOLEAN
  /\ BaseDelay \in Nat /\ MaxDelay \in Nat /\ TotalTimeout \in Nat
  /\ Tokens \subseteq Nat /\ Pressure \in Nat

CompactMaxPerCall == 2

VARIABLES
  cstep,            \* "run", "judge", "charge" or "done"
  max_retries, attempt, compact_used, backoff_elapsed,
  result,           \* of the latest attempt
  usage,            \* what the run was charged for this call
  \* history: attempts made, what they consumed, the last wait per class
  ran, consumed, last_delay

made       == <<ran, consumed>>
callCounts == <<attempt, compact_used, backoff_elapsed, last_delay>>
callVars   == <<cstep, max_retries, callCounts, result, usage, made>>

-----------------------------------------------------------------------------
(* Classification of a failed attempt *)

Words == {"rate_limit", "non_retryable", "transient", "timeout", "server_5xx",
          "context_overflow"}

\* the words for a timeout are among those for a transient failure
Summaries == {w \in SUBSET Words : "timeout" \in w => "transient" \in w}

Classes == {"CONTEXT_OVERFLOW", "TRANSIENT", "HALLUCINATION", "RATE_LIMIT",
            "NON_RETRYABLE"}

\* words: in the summary; tools: the attempt used at least one tool
Hallucinated(words, tools) == ~tools /\ words = {}

\* the first class that fits
\* (mutant) other words beside a 5xx count
ClassifyByWords(words, tools) ==
  IF "context_overflow" \in words THEN "CONTEXT_OVERFLOW"
  ELSE IF "timeout" \in words THEN "TRANSIENT"
  ELSE IF Hallucinated(words, tools) THEN "HALLUCINATION"
  ELSE IF "rate_limit" \in words THEN "RATE_LIMIT"
  ELSE IF "non_retryable" \in words THEN "NON_RETRYABLE"
  ELSE "TRANSIENT"

Classify(words, tools) ==
  IF "context_overflow" \in words THEN "CONTEXT_OVERFLOW"
  ELSE IF "timeout" \in words \/ "server_5xx" \in words THEN "TRANSIENT"
  ELSE IF Hallucinated(words, tools) THEN "HALLUCINATION"
  ELSE IF "rate_limit" \in words THEN "RATE_LIMIT"
  ELSE IF "non_retryable" \in words THEN "NON_RETRYABLE"
  ELSE "TRANSIENT"

Class == Classify(result.words, result.tools)

-----------------------------------------------------------------------------
(* Backoff *)

Waiting == {"RATE_LIMIT", "TRANSIENT"}

Least(a, b) == IF a < b THEN a ELSE b

ClassDelay(class) == IF class = "RATE_LIMIT" THEN BaseDelay
               ELSE IF BaseDelay \div 3 > 2 THEN BaseDelay \div 3 ELSE 2

\* (mutant) the jitter may shorten the delay to nothing
NextDelayFullJitter(n, class) == 0..Least(ClassDelay(class) * 2 ^ (n - 1), MaxDelay)

\* the exponential delay, and up to a fifth more
NextDelay(n, class) ==
  LET exp == Least(ClassDelay(class) * 2 ^ (n - 1), MaxDelay)
  IN  {d \in 0..(2 * MaxDelay) : exp <= d /\ 5 * d <= 6 * exp}

-----------------------------------------------------------------------------
Result == [success : BOOLEAN, words : Summaries, tools : BOOLEAN, tokens : Tokens]
NoResult == [success |-> FALSE, words |-> {}, tools |-> FALSE, tokens |-> 0]

InitCall ==
  /\ cstep = "run"
  /\ max_retries \in RetryLimits
  /\ attempt = 1 /\ compact_used = 0 /\ backoff_elapsed = 0
  /\ result = NoResult /\ usage = 0
  /\ ran = 0 /\ consumed = 0
  /\ last_delay = [c \in Waiting |-> 0]

\* run_agent succeeds when the session ended and used tools; a session without
\* tools ends with a summary that holds none of the words; an idle timeout or an
\* exception may say anything, and may come after some work was done
RunAgent ==
  /\ cstep = "run" /\ cstep' = "judge"
  /\ result' \in Result
  /\ result'.success => result'.tools /\ result'.words = {}
  /\ ran' = ran + 1 /\ consumed' = consumed + result'.tokens
  /\ UNCHANGED <<max_retries, callCounts, usage>>

Return == cstep' = "charge" /\ UNCHANGED callCounts

Succeeds ==
  /\ cstep = "judge" /\ result.success
  /\ Return
  /\ UNCHANGED <<max_retries, result, usage, made>>

Failed == cstep = "judge" /\ ~result.success
Permanent == Class \in {"NON_RETRYABLE", "CONTEXT_OVERFLOW"}
\* (mutants) no fuse; one attempt too many; the wait at hand is left out
CompactableAlways == HasHook
AttemptsLeftInclusive == attempt <= max_retries
TooLongAlready(delay) == backoff_elapsed > TotalTimeout

Compactable == HasHook /\ compact_used < CompactMaxPerCall

AttemptsLeft == attempt < max_retries

TooLong(delay) == backoff_elapsed + delay > TotalTimeout

\* the session starts anew with the prompt the hook rebuilt, which does not count
\* as an attempt; a hook that returns nothing or raises leaves it to the class
Compact ==
  /\ Failed /\ Compactable
  /\ Class = "CONTEXT_OVERFLOW" \/ result.tokens >= Pressure
  /\ cstep' = "run" /\ compact_used' = compact_used + 1
  /\ UNCHANGED <<max_retries, attempt, backoff_elapsed, last_delay, result, usage, made>>

GiveUpAtOnce ==
  /\ Failed /\ Permanent
  /\ Return
  /\ UNCHANGED <<max_retries, result, usage, made>>

\* a wait that would go beyond the total is not begun
Backoff ==
  /\ Failed /\ ~Permanent /\ AttemptsLeft /\ Class \in Waiting
  /\ \E delay \in NextDelay(attempt, Class) :
       IF TooLong(delay)
       THEN Return
       ELSE /\ backoff_elapsed' = backoff_elapsed + delay
            /\ last_delay' = [last_delay EXCEPT ![Class] = delay]
            /\ cstep' = "run" /\ attempt' = attempt + 1
            /\ UNCHANGED compact_used
  /\ UNCHANGED <<max_retries, result, usage, made>>

\* a hallucinated answer is asked for again without waiting
AskAgain ==
  /\ Failed /\ ~Permanent /\ AttemptsLeft /\ Class \notin Waiting
  /\ cstep' = "run" /\ attempt' = attempt + 1
  /\ UNCHANGED <<max_retries, compact_used, backoff_elapsed, last_delay, result, usage, made>>

RetriesExhausted ==
  /\ Failed /\ ~Permanent /\ ~AttemptsLeft
  /\ Return
  /\ UNCHANGED <<max_retries, result, usage, made>>

\* _call adds what the returned result consumed
Charge ==
  /\ cstep = "charge" /\ cstep' = "done"
  /\ usage' = usage + result.tokens
  /\ UNCHANGED <<max_retries, callCounts, result, made>>

Attempt == RunAgent \/ Succeeds \/ Compact \/ GiveUpAtOnce \/ Backoff \/ AskAgain
           \/ RetriesExhausted \/ Charge

RestCall == cstep = "done" /\ UNCHANGED callVars

NextCall == Attempt \/ RestCall

SpecCall == InitCall /\ [][NextCall]_callVars

-----------------------------------------------------------------------------
(* Properties *)

CallTypeOK ==
  /\ cstep \in {"run", "judge", "charge", "done"}
  /\ max_retries \in RetryLimits
  /\ attempt \in Nat /\ compact_used \in 0..CompactMaxPerCall
  /\ backoff_elapsed \in Nat
  /\ result \in Result \cup {NoResult}
  /\ usage \in Nat /\ ran \in Nat /\ consumed \in Nat
  /\ last_delay \in [Waiting -> Nat]

\* Restarts with a rebuilt prompt and retries are counted apart, so a call makes
\* at most max_retries attempts and two restarts, in whatever order failures come.
AttemptsBounded ==
  /\ ran = attempt + compact_used - (IF cstep = "run" THEN 1 ELSE 0)
  /\ attempt <= IF max_retries > 1 THEN max_retries ELSE 1
  /\ compact_used <= CompactMaxPerCall

\* The waits of a call never add up to more than the total timeout, which a wait
\* that was begun cannot overrun.
WaitBounded == backoff_elapsed <= TotalTimeout

\* A failed result is only returned for cause: it says that the context overflowed,
\* which comes before all else (also before an explicit 5xx in the same summary, which
\* agent_call.py:111 says is always retried), or that the request can never work, and
\* nothing beside it speaks for a passing fault, or the attempts are used up, or the
\* next wait would be too long.  So the words of an
\* error page, "not found" for one, do not end a call that met a 5xx, a timeout or a
\* rate limit.
GivesUpForCause ==
  cstep \in {"charge", "done"} /\ ~result.success =>
    \/ "context_overflow" \in result.words
    \/ /\ "non_retryable" \in result.words
       /\ result.words \cap {"server_5xx", "timeout", "rate_limit"} = {}
    \/ attempt >= max_retries
    \/ /\ ~Hallucinated(result.words, result.tools)
       /\ \E d \in NextDelay(attempt, Class) : backoff_elapsed + d > TotalTimeout

\* From one retry to the next for the same kind of failure the wait grows, jitter
\* or not, until it is capped.
WaitsGrow ==
  [][\A c \in Waiting : last_delay'[c] # last_delay[c] =>
       last_delay'[c] > last_delay[c] \/ last_delay'[c] >= MaxDelay]_callVars

\* config.py: the cost of every agent call adds up in the run's usage.
ChargedInFull == cstep = "done" => usage = consumed

=============================================================================
