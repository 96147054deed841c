--------------------------- MODULE AgentCall_proofs ---------------------------
(***************************************************************************)
(* The bounds of AgentCall for every retry limit, delay and timeout, with  *)
(* or without a compact hook, why a call gives up, and how its waits grow. *)
(***************************************************************************)
EXTENDS AgentCall, NatLemmas

-----------------------------------------------------------------------------
(* Attempts and waits *)

Bounds == CallTypeOK /\ AttemptsBounded /\ WaitBounded

LEMMA DelayIsNat ==
  ASSUME NEW n, NEW class
  PROVE  NextDelay(n, class) \subseteq Nat
BY CallConstants DEF NextDelay

LEMMA BoundsInit == InitCall => Bounds
BY CallConstants DEF InitCall, Bounds, CallTypeOK, AttemptsBounded, WaitBounded, CompactMaxPerCall,
                     Waiting

LEMMA BoundsNext == Bounds /\ [NextCall]_callVars => Bounds'
<1> SUFFICES ASSUME Bounds, [NextCall]_callVars PROVE Bounds'
  OBVIOUS
<1> USE CallConstants DEF Bounds, CallTypeOK, AttemptsBounded, WaitBounded, CompactMaxPerCall
<1>1. CASE RunAgent
  <2>1. result'.tokens \in Nat
    BY <1>1 DEF RunAgent, Result
  <2> QED BY <1>1, <2>1 DEF RunAgent, callCounts
<1>2. CASE Succeeds
  BY <1>2 DEF Succeeds, Return, callCounts, made
<1>3. CASE Compact
  BY <1>3 DEF Compact, Compactable, Failed, made
<1>4. CASE GiveUpAtOnce
  BY <1>4 DEF GiveUpAtOnce, Failed, Return, callCounts, made
<1>5. CASE Backoff
  <2>1. PICK delay \in NextDelay(attempt, Class) :
          IF TooLong(delay)
          THEN Return
          ELSE /\ backoff_elapsed' = backoff_elapsed + delay
               /\ last_delay' = [last_delay EXCEPT ![Class] = delay]
               /\ cstep' = "run" /\ attempt' = attempt + 1
               /\ UNCHANGED compact_used
    BY <1>5 DEF Backoff
  <2>2. /\ cstep = "judge" /\ attempt < max_retries
        /\ UNCHANGED <<max_retries, result, usage, made>>
    BY <1>5 DEF Backoff, Failed, AttemptsLeft
  <2>3. delay \in Nat
    BY DelayIsNat
  <2>4. CASE TooLong(delay)
    BY <2>1, <2>2, <2>4 DEF Return, callCounts, made
  <2>5. CASE ~TooLong(delay)
    <3>1. last_delay' \in [Waiting -> Nat]
      BY <2>1, <2>3, <2>5
    <3>2. backoff_elapsed' \in Nat /\ backoff_elapsed' <= TotalTimeout
      BY <2>1, <2>3, <2>5 DEF TooLong
    <3> QED BY <2>1, <2>2, <2>5, <3>1, <3>2 DEF made
  <2> QED BY <2>4, <2>5
<1>6. CASE AskAgain
  BY <1>6 DEF AskAgain, Failed, AttemptsLeft, made
<1>7. CASE RetriesExhausted
  BY <1>7 DEF RetriesExhausted, Failed, Return, callCounts, made
<1>8. CASE Charge
  <2>1. \A r \in Result : r.tokens \in Nat
    BY DEF Result
  <2>2. NoResult.tokens \in Nat
    BY DEF NoResult
  <2>3. result.tokens \in Nat
    BY <2>1, <2>2
  <2> QED BY <1>8, <2>3 DEF Charge, callCounts, made
<1>9. CASE UNCHANGED callVars
  BY <1>9 DEF callVars, callCounts, made
<1> QED
  BY <1>1, <1>2, <1>3, <1>4, <1>5, <1>6, <1>7, <1>8, <1>9 DEF NextCall, Attempt, RestCall

LEMMA BoundsHold == SpecCall => []Bounds
BY BoundsInit, BoundsNext, PTL DEF SpecCall

\* The state of a call is well typed, whatever the delays, limits and results.
THEOREM CallTypeCorrect == SpecCall => []CallTypeOK
<1>1. Bounds => CallTypeOK
  BY DEF Bounds
<1> QED BY <1>1, BoundsHold, PTL

\* A call never makes more than max_retries attempts (one if that is 0) and two
\* restarts, whatever mixture of failures the agent answers with.
THEOREM CallAttemptsBounded == SpecCall => []AttemptsBounded
<1>1. Bounds => AttemptsBounded
  BY DEF Bounds
<1> QED BY <1>1, BoundsHold, PTL

\* A call never waits longer than the total timeout, jitter included.
THEOREM CallWaitBounded == SpecCall => []WaitBounded
<1>1. Bounds => WaitBounded
  BY DEF Bounds
<1> QED BY <1>1, BoundsHold, PTL

-----------------------------------------------------------------------------
(* Why a call gives up *)

\* GivesUpForCause speaks of the state after the decision; while the call is
\* still running it holds of nothing, so it is inductive beside CallTypeOK.
LEMMA CauseNext == CallTypeOK /\ GivesUpForCause /\ [NextCall]_callVars => GivesUpForCause'
<1> SUFFICES ASSUME CallTypeOK, GivesUpForCause, [NextCall]_callVars,
                    cstep' \in {"charge", "done"}, ~result'.success
             PROVE  GivesUpForCause'
  BY DEF GivesUpForCause
<1>1. CASE Succeeds
  BY <1>1 DEF Succeeds
<1>2. CASE GiveUpAtOnce
  <2>1. /\ Class \in {"NON_RETRYABLE", "CONTEXT_OVERFLOW"}
        /\ result' = result
    BY <1>2 DEF GiveUpAtOnce, Permanent
  <2>2. \/ "context_overflow" \in result.words
        \/ /\ "non_retryable" \in result.words
           /\ result.words \cap {"server_5xx", "timeout", "rate_limit"} = {}
    BY <2>1 DEF Class, Classify
  <2> QED BY <2>1, <2>2 DEF GivesUpForCause
<1>3. CASE Backoff
  <2>1. PICK delay \in NextDelay(attempt, Class) : TooLong(delay) /\ Return
    BY <1>3 DEF Backoff
  <2>2. Class \in Waiting /\ result' = result
    BY <1>3 DEF Backoff
  <2>3. ~Hallucinated(result.words, result.tools)
    BY <2>2 DEF Class, Classify, Hallucinated, Waiting
  <2>4. attempt' = attempt /\ backoff_elapsed' = backoff_elapsed /\ Class' = Class
    BY <2>1, <2>2 DEF Return, callCounts, Class
  <2> QED BY <2>1, <2>2, <2>3, <2>4 DEF GivesUpForCause, TooLong
<1>4. CASE RetriesExhausted
  <2>1. ~(attempt < max_retries) /\ attempt' = attempt /\ max_retries' = max_retries
    BY <1>4 DEF RetriesExhausted, AttemptsLeft, Return, callCounts
  <2>2. attempt \in Int /\ max_retries \in Int
    BY CallConstants DEF CallTypeOK
  <2>3. attempt' >= max_retries'
    BY <2>1, <2>2
  <2> QED BY <2>3 DEF GivesUpForCause
<1>5. CASE Charge
  <2>1. /\ cstep = "charge" /\ result' = result /\ Class' = Class
        /\ attempt' = attempt /\ max_retries' = max_retries
        /\ backoff_elapsed' = backoff_elapsed
    BY <1>5 DEF Charge, callCounts, Class
  <2> QED BY <2>1 DEF GivesUpForCause
<1>6. CASE UNCHANGED callVars
  <2>1. /\ cstep' = cstep /\ result' = result /\ Class' = Class
        /\ attempt' = attempt /\ max_retries' = max_retries
        /\ backoff_elapsed' = backoff_elapsed
    BY <1>6 DEF callVars, callCounts, Class
  <2> QED BY <2>1 DEF GivesUpForCause
<1>7. CASE RunAgent \/ Compact \/ AskAgain
  BY <1>7 DEF RunAgent, Compact, AskAgain
<1> QED
  BY <1>1, <1>2, <1>3, <1>4, <1>5, <1>6, <1>7 DEF NextCall, Attempt, RestCall

\* A failed result is only returned for cause, for all retry limits, delays and error
\* pages: an overflowed context, whatever stands beside it (a 5xx too),
\* a request that can never work with no sign of a passing fault, or attempts or time
\* used up.
THEOREM CallGivesUpForCause == SpecCall => []GivesUpForCause
<1>1. InitCall => GivesUpForCause
  BY DEF InitCall, GivesUpForCause
<1> QED BY <1>1, CauseNext, CallTypeCorrect, PTL DEF SpecCall

-----------------------------------------------------------------------------
(* The waits *)

\* An exponential delay before its cap.
Exp(n, class) == ClassDelay(class) * 2 ^ (n - 1)

\* A wait is at most a fifth above the delay of an earlier attempt: three fifths of
\* the delay that the attempt at hand has.
WaitsInv == /\ attempt \in Nat \ {0}
            /\ \A c \in Waiting : 5 * last_delay[c] <= 3 * Exp(attempt, c)

\* An attempt later, the delay is twice as long.
LEMMA ExpDoubles ==
  ASSUME NEW n \in Nat \ {0}, NEW class
  PROVE  Exp(n, class) \in Nat /\ Exp(n + 1, class) = 2 * Exp(n, class)
<1>1. n - 1 \in Nat /\ (n - 1) + 1 = n /\ (n + 1) - 1 = n
  OBVIOUS
<1>2. 2 ^ (n - 1) \in Nat /\ 2 ^ n = 2 * 2 ^ (n - 1)
  BY <1>1, PowerDoubles
<1>3. ClassDelay(class) \in Nat
  <2>1. BaseDelay \div 3 \in Nat
    BY CallConstants
  <2> QED BY <2>1, CallConstants DEF ClassDelay
<1>4. \A b, p \in Nat : b * p \in Nat /\ b * (2 * p) = 2 * (b * p)
  OBVIOUS
<1> QED BY <1>1, <1>2, <1>3, <1>4 DEF Exp

\* The delays that are not cut off by the cap, and those that are.
LEMMA DelayBetween ==
  ASSUME NEW n \in Nat \ {0}, NEW class, NEW d \in NextDelay(n, class)
  PROVE  /\ d \in Nat /\ 5 * d <= 6 * Exp(n, class)
         /\ d >= Exp(n, class) \/ d >= MaxDelay
<1>1. Exp(n, class) \in Nat /\ MaxDelay \in Nat
  BY ExpDoubles, CallConstants
<1>2. /\ d \in Nat /\ Least(Exp(n, class), MaxDelay) <= d
      /\ 5 * d <= 6 * Least(Exp(n, class), MaxDelay)
  BY CallConstants DEF NextDelay, Exp
<1> QED BY <1>1, <1>2 DEF Least

\* A wait that is begun is the next one's predecessor by one attempt at least.
LEMMA WaitsNext == CallTypeOK /\ WaitsInv /\ [NextCall]_callVars => WaitsInv'
<1> SUFFICES ASSUME CallTypeOK, WaitsInv, [NextCall]_callVars PROVE WaitsInv'
  OBVIOUS
<1>1. CASE UNCHANGED <<attempt, last_delay>>
  BY <1>1 DEF WaitsInv, Exp, ClassDelay
<1>2. CASE attempt' = attempt + 1 /\ UNCHANGED last_delay
  <2> SUFFICES ASSUME NEW c \in Waiting PROVE 5 * last_delay[c] <= 3 * Exp(attempt + 1, c)
    BY <1>2 DEF WaitsInv, Exp, ClassDelay
  <2>1. /\ Exp(attempt, c) \in Nat /\ Exp(attempt + 1, c) = 2 * Exp(attempt, c)
        /\ last_delay[c] \in Nat /\ 5 * last_delay[c] <= 3 * Exp(attempt, c)
    BY ExpDoubles DEF WaitsInv, CallTypeOK
  <2> QED BY <2>1
<1>3. ASSUME NEW delay \in NextDelay(attempt, Class), Class \in Waiting,
             last_delay' = [last_delay EXCEPT ![Class] = delay], attempt' = attempt + 1
      PROVE  WaitsInv'
  <2> SUFFICES ASSUME NEW c \in Waiting PROVE 5 * last_delay'[c] <= 3 * Exp(attempt + 1, c)
    BY <1>3 DEF WaitsInv, Exp, ClassDelay
  <2>1. /\ Exp(attempt, c) \in Nat /\ Exp(attempt + 1, c) = 2 * Exp(attempt, c)
        /\ last_delay[c] \in Nat /\ 5 * last_delay[c] <= 3 * Exp(attempt, c)
    BY ExpDoubles DEF WaitsInv, CallTypeOK
  <2>2. CASE c = Class
    <3>1. delay \in Nat /\ 5 * delay <= 6 * Exp(attempt, c)
      BY <2>2, DelayBetween DEF WaitsInv
    <3>2. last_delay'[c] = delay
      BY <1>3, <2>2 DEF CallTypeOK
    <3> QED BY <2>1, <3>1, <3>2
  <2>3. CASE c # Class
    <3>1. last_delay'[c] = last_delay[c]
      BY <1>3, <2>3 DEF CallTypeOK
    <3> QED BY <2>1, <3>1
  <2> QED BY <2>2, <2>3
<1>4. CASE Backoff
  <2>1. PICK delay \in NextDelay(attempt, Class) :
          IF TooLong(delay) THEN Return
          ELSE /\ last_delay' = [last_delay EXCEPT ![Class] = delay]
               /\ attempt' = attempt + 1
    BY <1>4 DEF Backoff
  <2>2. Class \in Waiting
    BY <1>4 DEF Backoff
  <2>3. CASE TooLong(delay)
    BY <1>1, <2>1, <2>3 DEF Return, callCounts
  <2>4. CASE ~TooLong(delay)
    BY <1>3, <2>1, <2>2, <2>4
  <2> QED BY <2>3, <2>4
<1>5. CASE AskAgain
  BY <1>2, <1>5 DEF AskAgain
<1>6. CASE RunAgent \/ Succeeds \/ Compact \/ GiveUpAtOnce \/ RetriesExhausted \/ Charge
           \/ UNCHANGED callVars
  BY <1>1, <1>6 DEF RunAgent, Succeeds, Compact, GiveUpAtOnce, RetriesExhausted, Charge, Return,
                    callVars, callCounts
<1> QED BY <1>4, <1>5, <1>6 DEF NextCall, Attempt, RestCall

\* A new wait is longer than the last of its kind, or at the cap.
LEMMA Grows ==
  ASSUME CallTypeOK, WaitsInv, [NextCall]_callVars, NEW c \in Waiting, last_delay'[c] # last_delay[c]
  PROVE  last_delay'[c] > last_delay[c] \/ last_delay'[c] >= MaxDelay
<1>1. CASE Backoff
  <2>1. PICK delay \in NextDelay(attempt, Class) :
          IF TooLong(delay) THEN Return
          ELSE last_delay' = [last_delay EXCEPT ![Class] = delay]
    BY <1>1 DEF Backoff
  <2>2. ~TooLong(delay) /\ c = Class /\ last_delay'[c] = delay
    BY <2>1 DEF Return, callCounts, CallTypeOK
  <2>3. /\ delay \in Nat
        /\ delay >= Exp(attempt, c) \/ delay >= MaxDelay
    BY <2>2, DelayBetween DEF WaitsInv
  <2>4. /\ Exp(attempt, c) \in Nat
        /\ last_delay[c] \in Nat /\ 5 * last_delay[c] <= 3 * Exp(attempt, c)
    BY ExpDoubles DEF WaitsInv, CallTypeOK
  <2> QED BY <2>2, <2>3, <2>4
<1>2. CASE ~Backoff
  BY <1>2 DEF NextCall, Attempt, RestCall, RunAgent, Succeeds, Compact, GiveUpAtOnce, AskAgain,
              RetriesExhausted, Charge, Return, callVars, callCounts
<1> QED BY <1>1, <1>2

\* Between two waits for the same kind of failure other attempts may lie; the later
\* wait is the longer one all the same, or at the cap, whatever the jitter.
THEOREM CallWaitsGrow == SpecCall => WaitsGrow
<1>1. InitCall => WaitsInv
  <2> SUFFICES ASSUME InitCall, NEW c \in Waiting PROVE 5 * last_delay[c] <= 3 * Exp(attempt, c)
    BY DEF InitCall, WaitsInv
  <2>1. attempt = 1 /\ last_delay[c] = 0 /\ Exp(1, c) \in Nat
    BY ExpDoubles DEF InitCall
  <2> QED BY <2>1
<1>2. CallTypeOK /\ WaitsInv /\ [NextCall]_callVars =>
        [\A c \in Waiting : last_delay'[c] # last_delay[c] =>
           last_delay'[c] > last_delay[c] \/ last_delay'[c] >= MaxDelay]_callVars
  BY Grows
<1> QED BY <1>1, <1>2, WaitsNext, CallTypeCorrect, PTL DEF SpecCall, WaitsGrow

=============================================================================
