---------------------------- MODULE RetryProofs ----------------------------
(* Theorems about RetryBackoff, for every set of arguments. *)
EXTENDS RetryBackoff, TLAPS

-----------------------------------------------------------------------------
(* The inductive invariant.                                                *)

\* Failures and attempts go together; who sleeps has a retry left.
Counted ==
    /\ retryPc = "idle" => attempts = 0 /\ retry_count = 0
    /\ retryPc \in {"trying", "ok"} =>
            /\ attempts = retry_count + 1
            /\ retry_count = 0 \/ retry_count < max_retries
    /\ retryPc = "sleeping" =>
            attempts = retry_count /\ retry_count < max_retries
    /\ retryPc = "err" =>
            /\ attempts = retry_count
            /\ retry_count = 1 \/ retry_count <= max_retries
            /\ retry_count >= max_retries

\* The first delay is the initial one, later ones are capped.
Delays ==
    /\ attempts = 0 => retryPc = "idle" /\ delay = 0 /\ slept = 0
    /\ attempts = 1 => delay = initial_delay
    /\ attempts > 1 => delay <= max_delay

Inv == RetryTypeOK /\ Counted /\ Delays /\ SleepIsBounded

-----------------------------------------------------------------------------
(* Arithmetic.                                                             *)

\* A division by a positive number and its product.
LEMMA WholeMillis ==
    ASSUME NEW d \in Nat, NEW p \in Nat \ {0}
    PROVE  /\ d \div p \in Nat
           /\ d % p = 0 => d = p * (d \div p)
  OBVIOUS

\* A product grows with its factor.
LEMMA ProductGrows ==
    ASSUME NEW p \in Nat, NEW a \in Nat, NEW b \in Nat, a <= b
    PROVE  p * a <= p * b /\ p * a \in Nat /\ p * b \in Nat
  OBVIOUS

\* One step more.
LEMMA OneMore ==
    ASSUME NEW n \in Int, NEW m \in Nat
    PROVE  (n + 1) * m = n * m + m
  OBVIOUS

\* A next delay is at most the cap; it is not less than a delay of whole
\* milliseconds unless it is the cap.
LEMMA NextDelayBounds ==
    ASSUME NEW d \in Nat, max_delay \in Nat, NEW e \in NextDelays(d)
    PROVE  /\ e \in Nat
           /\ e <= max_delay
           /\ d % PerMilli = 0 => e >= d \/ e = max_delay
  <1> DEFINE millis == d \div PerMilli
  <1>1. PerMilli \in Nat \ {0}
    BY RetryAssumption
  <1>2. /\ millis \in Nat
        /\ d % PerMilli = 0 => d = PerMilli * millis
    BY <1>1, WholeMillis
  <1>3. PICK k \in (16 * millis) \div 10 .. (24 * millis) \div 10 :
            e = Lesser(max_delay, PerMilli * k)
    BY DEF NextDelays
  <1> HIDE DEF millis
  <1>4. k \in Nat /\ millis <= k
    BY <1>2, <1>3
  <1>5. PerMilli * millis <= PerMilli * k /\ PerMilli * k \in Nat
    BY <1>1, <1>2, <1>4, ProductGrows
  <1> QED
    BY <1>2, <1>3, <1>5 DEF Lesser

-----------------------------------------------------------------------------

LEMMA InitInv == RetryInit => Inv
  BY RetryAssumption
     DEF RetryInit, Inv, RetryTypeOK, Counted, Delays, SleepIsBounded

LEMMA StepInv == Inv /\ [RetryNext]_retryVars => Inv'
  <1> SUFFICES ASSUME Inv, [RetryNext]_retryVars PROVE Inv'
    OBVIOUS
  <1> USE DEF Inv
  <1>0. CASE Retry
    BY <1>0, RetryAssumption
       DEF Retry, RetryTypeOK, Counted, Delays, SleepIsBounded
  <1>1. CASE Succeed
    BY <1>1 DEF Succeed, args, RetryTypeOK, Counted, Delays, SleepIsBounded
  <1>2. CASE Fail
    BY <1>2, RetryAssumption
       DEF Fail, args, RetryTypeOK, Counted, Delays, SleepIsBounded
  <1>3. CASE Wake
    <2>1. /\ delay \in Nat /\ max_delay \in Nat /\ initial_delay \in Nat
          /\ max_retries \in Nat
      BY RetryAssumption DEF RetryTypeOK
    <2>2. delay' \in Nat /\ delay' <= max_delay
      BY <1>3, <2>1, NextDelayBounds DEF Wake
    <2>3. RetryTypeOK'
      BY <1>3, <2>1, <2>2 DEF Wake, args, RetryTypeOK
    <2>4. Counted'
      BY <1>3, <2>1 DEF Wake, args, RetryTypeOK, Counted
    <2>5. Delays'
      BY <1>3, <2>1, <2>2 DEF Wake, args, RetryTypeOK, Delays
    <2>6. SleepIsBounded'
      <3>1. /\ slept' = slept + delay
            /\ attempts' = attempts + 1
            /\ initial_delay' = initial_delay /\ max_delay' = max_delay
        BY <1>3 DEF Wake, args
      <3>2. CASE attempts = 1
        <4>1. slept = 0 /\ delay = initial_delay
          BY <3>2 DEF RetryTypeOK, Delays, SleepIsBounded
        <4>2. (attempts' - 2) * max_delay' = 0
          BY <2>1, <3>1, <3>2
        <4> QED
          BY <2>1, <3>1, <3>2, <4>1, <4>2 DEF SleepIsBounded
      <3>3. CASE attempts # 1
        <4>1. attempts \in Nat /\ attempts > 1 /\ slept \in Nat
          BY <1>3, <3>3 DEF Wake, RetryTypeOK, Delays
        <4>2. /\ delay <= max_delay
              /\ slept <= initial_delay + (attempts - 2) * max_delay
          BY <3>3, <4>1 DEF Delays, SleepIsBounded
        <4>3. ((attempts - 2) + 1) * max_delay
                = (attempts - 2) * max_delay + max_delay
          BY <2>1, <4>1, OneMore
        <4>4. (attempts - 2) + 1 = attempts' - 2
          BY <3>1, <4>1
        <4>5. (attempts - 2) * max_delay \in Int
          BY <2>1, <4>1
        <4>6. slept' <= initial_delay' + (attempts' - 2) * max_delay'
          BY <2>1, <3>1, <4>1, <4>2, <4>3, <4>4, <4>5
        <4> QED
          BY <3>1, <4>1, <4>6 DEF SleepIsBounded
      <3> QED
        BY <3>2, <3>3
    <2> QED
      BY <2>3, <2>4, <2>5, <2>6
  <1>4. CASE UNCHANGED retryVars
    BY <1>4 DEF retryVars, args, RetryTypeOK, Counted, Delays, SleepIsBounded
  <1> QED
    BY <1>0, <1>1, <1>2, <1>3, <1>4 DEF RetryNext

LEMMA Invariance == RetrySpec => []Inv
  BY InitInv, StepInv, PTL DEF RetrySpec

-----------------------------------------------------------------------------

\* The state of retry_with_backoff has its types: the count of failures does
\* not wrap below zero, and no delay becomes negative.
THEOREM TypeCorrect == RetrySpec => []RetryTypeOK
  <1>1. Inv => RetryTypeOK
    BY DEF Inv
  <1> QED
    BY <1>1, Invariance, PTL

\* f is called as often as max_retries says, and once if it says zero.
THEOREM GivesUpInTimeCorrect == RetrySpec => []GivesUpInTime
  <1>1. Inv => GivesUpInTime
    BY RetryAssumption DEF Inv, RetryTypeOK, Counted, GivesUpInTime
  <1> QED
    BY <1>1, Invariance, PTL

\* All the sleeps together take no longer than one initial delay and the cap
\* for each further attempt, whatever the jitter.
THEOREM SleepIsBoundedCorrect == RetrySpec => []SleepIsBounded
  <1>1. Inv => SleepIsBounded
    BY DEF Inv
  <1> QED
    BY <1>1, Invariance, PTL

\* From a delay of whole milliseconds the next is not shorter, or is the cap.
THEOREM BacksOffCorrect == RetrySpec => BacksOff
  <1> DEFINE Grows == \/ delay' >= delay
                      \/ delay' = max_delay
                      \/ delay % PerMilli # 0
  <1>1. Inv /\ [RetryNext]_retryVars => [Grows]_retryVars
    <2> SUFFICES ASSUME Inv, RetryNext PROVE Grows
      BY DEF retryVars
    <2>1. delay \in Nat /\ max_delay \in Nat
      BY RetryAssumption DEF Inv, RetryTypeOK
    <2>2. CASE Wake
      BY <2>1, <2>2, NextDelayBounds DEF Wake
    <2>3. CASE Succeed \/ Fail
      BY <2>1, <2>3 DEF Succeed, Fail
    <2>4. CASE Retry
      <3>1. delay = 0 /\ delay' \in Nat
        BY <2>4, RetryAssumption
           DEF Retry, Inv, RetryTypeOK, Counted, Delays
      <3> QED
        BY <3>1
    <2> QED
      BY <2>2, <2>3, <2>4 DEF RetryNext
  <1> QED
    BY <1>1, Invariance, PTL DEF RetrySpec, BacksOff

=============================================================================
