------------------------------ MODULE Backoff -------------------------------
(***************************************************************************)
(* The wait between two attempts at a pipeline step (internal/retry):      *)
(* Exponential doubles retry.delay once for every failure and caps it,     *)
(* fullJitter draws the wait from what it returns.  Durations are signed   *)
(* integers of a fixed width, and nothing bounds what retry.delay is set   *)
(* to.                                                                     *)
(***************************************************************************)
EXTENDS Integers

CONSTANTS
  MaxInt,      (* the largest duration, 2^63 - 1 nanoseconds *)
  MaxBackoff,  (* maxBackoff, 2m *)
  DefaultDelay,(* 5s *)
  Delays,      (* values of retry.delay *)
  MaxTry       (* retry.attempts - 1: the failures that are waited after *)

Duration == -(MaxInt + 1)..MaxInt

ASSUME WidthAssumption   == MaxInt \in Nat /\ MaxBackoff \in Nat \ {0} /\ 2 * MaxBackoff <= MaxInt
ASSUME DefaultAssumption == DefaultDelay \in Nat \ {0} /\ DefaultDelay <= MaxBackoff
ASSUME DelaysAssumption  == Delays \subseteq Duration
ASSUME MaxTryAssumption  == MaxTry \in Nat

VARIABLES
  delay,      \* retry.delay
  failedTry,  \* the number of the failure
  pc,         \* "normalise", "loop", "jitter", "sleep", "panic"
  i, d,       \* the loop of Exponential; d is what it returns
  wait        \* what Backoff returns

vars == <<delay, failedTry, pc, i, d, wait>>

(* Two's complement, for sums that leave the width by one bit.             *)
Wrap(x) ==
  IF x > MaxInt THEN x - 2 * (MaxInt + 1)
  ELSE IF x < -(MaxInt + 1) THEN x + 2 * (MaxInt + 1)
  ELSE x

Base == IF delay <= 0 THEN DefaultDelay ELSE delay

-----------------------------------------------------------------------------
(* Exponential.                                                            *)

Normalise ==
  /\ pc = "normalise"
  /\ d' = Base /\ i' = 1
  /\ pc' = "loop"
  /\ UNCHANGED <<delay, failedTry, wait>>

(* Faulty variant: doubles once more than there were failures before.      *)
LoopGoesOn == i <= failedTry

MoreDoublings == i < failedTry

Double ==
  /\ pc = "loop" /\ MoreDoublings
  /\ IF Wrap(2 * d) >= MaxBackoff
       THEN d' = MaxBackoff /\ pc' = "jitter" /\ UNCHANGED i
       ELSE d' = Wrap(2 * d) /\ i' = i + 1 /\ UNCHANGED pc
  /\ UNCHANGED <<delay, failedTry, wait>>

(* Faulty variant: the cap is only in the loop.                            *)
Uncapped == d

Capped == IF d > MaxBackoff THEN MaxBackoff ELSE d

LoopEnds ==
  /\ pc = "loop" /\ ~MoreDoublings
  /\ d' = Capped
  /\ pc' = "jitter"
  /\ UNCHANGED <<delay, failedTry, i, wait>>

(* Faulty variant: a ceiling that is not positive is the wait itself.      *)
CeilingItself == IF d <= 0 THEN {d} ELSE 0..d

Waits == IF d <= 0 THEN {0} ELSE 0..d

(* fullJitter: rand.Int64N panics unless its argument is positive.         *)
Jitter ==
  /\ pc = "jitter"
  /\ wait' \in Waits
  /\ pc' = IF d > 0 /\ Wrap(d + 1) <= 0 THEN "panic" ELSE "sleep"
  /\ UNCHANGED <<delay, failedTry, i, d>>

(* The attempt after the wait fails too.                                   *)
FailAgain ==
  /\ pc = "sleep" /\ failedTry < MaxTry
  /\ failedTry' = failedTry + 1
  /\ pc' = "normalise"
  /\ UNCHANGED <<delay, i, d, wait>>

Init ==
  /\ delay \in Delays
  /\ failedTry = 1 /\ pc = "normalise"
  /\ i = 1 /\ d = 0 /\ wait = 0

(* The step succeeds, or its attempts are used up.                         *)
Finished == pc = "sleep" /\ UNCHANGED vars

Next == Normalise \/ Double \/ LoopEnds \/ Jitter \/ FailAgain \/ Finished

Spec == Init /\ [][Next]_vars

-----------------------------------------------------------------------------
(* Properties.                                                             *)

TypeOK ==
  /\ delay \in Delays /\ failedTry \in Nat \ {0}
  /\ pc \in {"normalise", "loop", "jitter", "sleep", "panic"}
  /\ i \in Nat \ {0} /\ d \in Duration /\ wait \in Nat

(* rand.Int64N never panics, and no wait exceeds the cap: not even when    *)
(* retry.delay is so long that doubling it overflows.                      *)
WaitIsSafe == pc # "panic" /\ wait <= MaxBackoff

(* SPECIFICATIONS.md: the ceiling is delay * 2^(n-1), capped.  It holds    *)
(* while the delay can be doubled without overflow.                        *)
Doublable == Base <= MaxInt \div 2

Least(a, b) == IF a < b THEN a ELSE b

(* The powers of two, as a function: the provers know no exponentiation.   *)
Power[n \in Nat] == IF n = 0 THEN 1 ELSE 2 * Power[n - 1]

CeilingIsExponential ==
  Doublable /\ pc \in {"jitter", "sleep"} =>
    d = Least(MaxBackoff, Base * Power[failedTry - 1])
=============================================================================
