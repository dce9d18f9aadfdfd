---------------------------- MODULE RetryBackoff ----------------------------
(***************************************************************************)
(* retry_with_backoff of src/src/utils.rs: run a future again and again    *)
(* until it succeeds or has failed often enough, sleeping in between for a *)
(* delay that doubles, more or less.                                       *)
(*                                                                         *)
(* Durations are numbers of ticks.  A Duration is finer than the           *)
(* milliseconds the next delay is computed in, PerMilli ticks each.  The   *)
(* saturation of that delay at 2^64 milliseconds is left out.              *)
(***************************************************************************)
EXTENDS Integers

CONSTANTS
    InitialDelays, \* values of initial_delay
    MaxDelays,     \* values of max_delay
    MaxRetries,    \* values of max_retries
    PerMilli       \* ticks in a millisecond

ASSUME RetryAssumption ==
    /\ InitialDelays \subseteq Nat
    /\ MaxDelays \subseteq Nat
    /\ MaxRetries \subseteq Nat
    /\ PerMilli \in Nat \ {0}

VARIABLES
    initial_delay, max_delay, max_retries,  \* the arguments
    retryPc,      \* "idle", "trying", "sleeping"; the outcome: "ok", "err"
    retry_count,  \* attempts that have failed
    delay,        \* the next sleep, or the one under way
    attempts,     \* history: how often f has been called
    slept         \* history: the time slept so far

args == <<initial_delay, max_delay, max_retries>>
retryVars == <<args, retryPc, retry_count, delay, attempts, slept>>

RetryInit ==
    /\ initial_delay = 0 /\ max_delay = 0 /\ max_retries = 0
    /\ retryPc = "idle"
    /\ retry_count = 0
    /\ delay = 0
    /\ attempts = 0
    /\ slept = 0

\* retry_with_backoff is called, and calls f.
Retry ==
    /\ retryPc = "idle"
    /\ initial_delay' \in InitialDelays
    /\ max_delay' \in MaxDelays
    /\ max_retries' \in MaxRetries
    /\ delay' = initial_delay'
    /\ retryPc' = "trying"
    /\ attempts' = 1
    /\ UNCHANGED <<retry_count, slept>>

Lesser(a, b) == IF a <= b THEN a ELSE b

\* Mutants of NextDelays: there is no cap; the delay is not doubled.
NextDelaysUncapped(d) ==
    LET millis == d \div PerMilli
    IN  {PerMilli * k : k \in (16 * millis) \div 10 .. (24 * millis) \div 10}

NextDelaysNotDoubled(d) ==
    LET millis == d \div PerMilli
    IN  {Lesser(max_delay, PerMilli * k) :
            k \in (8 * millis) \div 10 .. (12 * millis) \div 10}

\* The delays that may follow d: the milliseconds of d, doubled, with a
\* jitter of 80 to 120 percent, rounded down and capped.
NextDelays(d) ==
    LET millis == d \div PerMilli
    IN  {Lesser(max_delay, PerMilli * k) :
            k \in (16 * millis) \div 10 .. (24 * millis) \div 10}

-----------------------------------------------------------------------------

Succeed ==
    /\ retryPc = "trying"
    /\ retryPc' = "ok"
    /\ UNCHANGED <<args, retry_count, delay, attempts, slept>>

\* Mutant of Fail: the failure before is counted.
FailOnceMore ==
    /\ retryPc = "trying"
    /\ retry_count' = retry_count + 1
    /\ retryPc' = IF retry_count >= max_retries THEN "err" ELSE "sleeping"
    /\ UNCHANGED <<args, delay, attempts, slept>>

\* f fails: give up, or sleep.
Fail ==
    /\ retryPc = "trying"
    /\ retry_count' = retry_count + 1
    /\ retryPc' = IF retry_count' >= max_retries THEN "err" ELSE "sleeping"
    /\ UNCHANGED <<args, delay, attempts, slept>>

\* The sleep ends: compute the next delay and call f.
Wake ==
    /\ retryPc = "sleeping"
    /\ delay' \in NextDelays(delay)
    /\ slept' = slept + delay
    /\ retryPc' = "trying"
    /\ attempts' = attempts + 1
    /\ UNCHANGED <<args, retry_count>>

RetryNext == Retry \/ Succeed \/ Fail \/ Wake

RetrySpec == RetryInit /\ [][RetryNext]_retryVars

-----------------------------------------------------------------------------
(* Properties.                                                             *)

RetryTypeOK ==
    /\ initial_delay \in Nat /\ max_delay \in Nat /\ max_retries \in Nat
    /\ retryPc \in {"idle", "trying", "sleeping", "ok", "err"}
    /\ retry_count \in Nat
    /\ delay \in Nat
    /\ attempts \in Nat
    /\ slept \in Nat

\* An error is returned after max_retries attempts and not before; with no
\* retries allowed there is one attempt all the same.
GivesUpInTime ==
    /\ attempts <= IF max_retries = 0 THEN 1 ELSE max_retries
    /\ retryPc = "err" => attempts >= max_retries

\* The time slept is bounded by one initial delay, which is not capped, and
\* the cap for each further attempt: a caller can tell how long it may take.
SleepIsBounded ==
    slept <= IF attempts < 2 THEN 0
             ELSE initial_delay + (attempts - 2) * max_delay

\* A delay of whole milliseconds never becomes shorter than the one before,
\* unless it is capped.
BacksOff ==
    [][\/ delay' >= delay
       \/ delay' = max_delay
       \/ delay % PerMilli # 0]_retryVars

=============================================================================
