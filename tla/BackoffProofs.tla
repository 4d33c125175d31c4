--------------------------- MODULE BackoffProofs ----------------------------
(***************************************************************************)
(* What holds of Backoff for every width, every cap and every retry.delay. *)
(***************************************************************************)
EXTENDS Backoff, InductionLemmas, TLAPS

(* The base of the exponential is positive and fits the width.             *)
LEMMA BasePositive ==
  ASSUME delay \in Delays
  PROVE  Base \in 1..MaxInt
BY WidthAssumption, DefaultAssumption, DelaysAssumption DEF Base, Duration

(* Doubling a duration leaves it in its width.                             *)
LEMMA WrapFits ==
  ASSUME NEW x \in -2 * (MaxInt + 1)..2 * MaxInt
  PROVE  Wrap(x) \in Duration
BY WidthAssumption DEF Wrap, Duration

(* Doubling what is below half the width does not overflow.                *)
LEMMA WrapExact ==
  ASSUME NEW x \in 0..MaxInt
  PROVE  Wrap(x) = x
BY WidthAssumption DEF Wrap

(* Every variable keeps its type: the loop never leaves the width.         *)
THEOREM TypeCorrect == Spec => []TypeOK
<1> USE DEF TypeOK
<1>1. Init => TypeOK
  BY WidthAssumption DEF Init, Duration
<1>2. TypeOK /\ [Next]_vars => TypeOK'
  <2> SUFFICES ASSUME TypeOK, [Next]_vars
               PROVE  TypeOK'
    OBVIOUS
  <2>1. CASE Normalise
    BY <2>1, BasePositive, WidthAssumption DEF Normalise, Duration
  <2>2. CASE Double
    <3>1. 2 * d \in -2 * (MaxInt + 1)..2 * MaxInt
      BY WidthAssumption DEF Duration
    <3>2. Wrap(2 * d) \in Duration /\ MaxBackoff \in Duration
      BY <3>1, WrapFits, WidthAssumption DEF Duration
    <3> QED
      BY <2>2, <3>2 DEF Double
  <2>3. CASE LoopEnds
    BY <2>3, WidthAssumption DEF LoopEnds, Capped, Duration
  <2>4. CASE Jitter
    BY <2>4, WidthAssumption DEF Jitter, Waits, Duration
  <2>5. CASE FailAgain
    BY <2>5 DEF FailAgain
  <2>6. CASE UNCHANGED vars
    BY <2>6 DEF vars
  <2> QED
    BY <2>1, <2>2, <2>3, <2>4, <2>5, <2>6 DEF Next, Finished
<1> QED
  BY <1>1, <1>2, PTL DEF Spec

(* Past its first round the loop is below the cap, so no return exceeds    *)
(* it; and a delay that can be doubled stays positive throughout.          *)
CapInv ==
  /\ WaitIsSafe
  /\ pc = "loop" /\ i > 1 => d < MaxBackoff
  /\ pc \in {"jitter", "sleep"} => d <= MaxBackoff
  /\ Doublable /\ pc \in {"loop", "jitter", "sleep"} => d > 0
  /\ Doublable /\ pc = "loop" => 2 * d <= MaxInt

(* CapInv survives every step.                                             *)
LEMMA CapStep == TypeOK /\ CapInv /\ [Next]_vars => CapInv'
<1> SUFFICES ASSUME TypeOK, CapInv, [Next]_vars
             PROVE  CapInv'
  OBVIOUS
<1> USE DEF CapInv, WaitIsSafe
<1>1. d \in Int /\ i \in Nat /\ wait \in Nat /\ failedTry \in Nat /\ Base \in 1..MaxInt
  BY BasePositive, WidthAssumption DEF TypeOK, Duration
<1>2. (delay' = delay) => (Base' = Base /\ (Doublable' <=> Doublable))
  BY DEF Base, Doublable
<1>3. CASE Normalise
  <2>1. d' = Base /\ i' = 1 /\ pc' = "loop" /\ wait' = wait /\ delay' = delay
    BY <1>3 DEF Normalise
  <2>2. Doublable => 2 * Base <= MaxInt
    BY <1>1, WidthAssumption DEF Doublable
  <2> QED
    BY <1>1, <1>2, <1>3, <2>1, <2>2 DEF Normalise
<1>4. CASE Double
  <2>1. Doublable => 2 * d <= MaxInt /\ d > 0 /\ Wrap(2 * d) = 2 * d
    BY <1>1, <1>4, WrapExact DEF Double
  <2>2. Wrap(2 * d) \in Int
    <3>1. 2 * d \in -2 * (MaxInt + 1)..2 * MaxInt
      BY WidthAssumption DEF TypeOK, Duration
    <3> QED
      BY <3>1, WrapFits, WidthAssumption DEF Duration
  <2> QED
    BY <1>1, <1>2, <1>4, <2>1, <2>2, WidthAssumption DEF Double
<1>5. CASE LoopEnds
  BY <1>1, <1>2, <1>5, WidthAssumption DEF LoopEnds, Capped
<1>6. CASE Jitter
  <2>1. d > 0 => Wrap(d + 1) = d + 1
    BY <1>1, <1>6, WrapExact, WidthAssumption DEF Jitter, Waits
  <2>2. pc' = "sleep" /\ wait' <= MaxBackoff
    BY <1>1, <1>6, <2>1, WidthAssumption DEF Jitter, Waits
  <2> QED
    BY <1>1, <1>2, <1>6, <2>2 DEF Jitter, Waits
<1>7. CASE FailAgain
  BY <1>1, <1>2, <1>7 DEF FailAgain
<1>8. CASE UNCHANGED vars
  BY <1>1, <1>2, <1>8 DEF vars
<1> QED
  BY <1>3, <1>4, <1>5, <1>6, <1>7, <1>8 DEF Next, Finished

(* CapInv holds in every reachable state.                                  *)
LEMMA CapHolds == Spec => []CapInv
<1>1. Init => CapInv
  BY WidthAssumption DEF Init, CapInv, WaitIsSafe
<1> QED
  BY <1>1, CapStep, TypeCorrect, PTL DEF Spec

(* No retry.delay, however long, makes the jitter panic or a wait exceed   *)
(* the cap.                                                                *)
THEOREM EveryWaitIsSafe == Spec => []WaitIsSafe
BY CapHolds, PTL DEF CapInv

(* A delay that can be doubled never overflows: the ceiling of every wait  *)
(* is positive, so attempts are spread out, and within the cap.            *)
THEOREM CeilingInRange ==
  Spec => [](Doublable /\ pc \in {"jitter", "sleep"} => d > 0 /\ d <= MaxBackoff)
<1>1. CapInv => (Doublable /\ pc \in {"jitter", "sleep"} => d > 0 /\ d <= MaxBackoff)
  BY DEF CapInv
<1> QED
  BY <1>1, CapHolds, PTL

-----------------------------------------------------------------------------
(* The ceiling is a power of two times the delay.                          *)

(* The first values of the sequence, up to n.                              *)
Starts(n) ==
  {g \in [0..n -> Nat] : \A k \in 0..n : g[k] = IF k = 0 THEN 1 ELSE 2 * g[k - 1]}

(* There are first values, however many.                                  *)
LEMMA StartsExist == \A n \in Nat : Starts(n) # {}
<1>1. PICK S : S = {n \in Nat : Starts(n) # {}}
  OBVIOUS
<1>2. 0 \in S
  <2>1. [k \in 0..0 |-> 1] \in Starts(0)
    BY DEF Starts
  <2> QED
    BY <1>1, <2>1
<1>3. ASSUME NEW n \in S
      PROVE  n + 1 \in S
  <2>1. PICK g : g \in Starts(n)
    BY <1>1
  <2>2. n \in Nat /\ g \in [0..n -> Nat] /\ \A k \in 0..n : g[k] = IF k = 0 THEN 1 ELSE 2 * g[k - 1]
    BY <1>1, <2>1 DEF Starts
  <2>3. PICK h : h = [k \in 0..(n + 1) |-> IF k = n + 1 THEN 2 * g[n] ELSE g[k]]
    OBVIOUS
  <2>4. h \in [0..(n + 1) -> Nat]
    BY <2>2, <2>3
  <2>5. ASSUME NEW k \in 0..(n + 1)
        PROVE  h[k] = IF k = 0 THEN 1 ELSE 2 * h[k - 1]
    <3>1. CASE k = n + 1
      BY <2>2, <2>3, <3>1
    <3>2. CASE k # n + 1
      BY <2>2, <2>3, <3>2
    <3> QED
      BY <3>1, <3>2
  <2>6. h \in Starts(n + 1)
    BY <2>4, <2>5 DEF Starts
  <2> QED
    BY <1>1, <2>2, <2>6
<1>4. \A n \in Nat : n \in S
  BY <1>1, <1>2, <1>3, SetInduction
<1> QED
  BY <1>1, <1>4

(* First values agree as far as they both go.                              *)
LEMMA StartsAgree ==
  \A k, m, n \in Nat : \A g \in Starts(m), h \in Starts(n) :
    k <= m /\ k <= n => g[k] = h[k]
<1>1. PICK S : S = {k \in Nat : \A m, n \in Nat : \A g \in Starts(m), h \in Starts(n) :
                                   k <= m /\ k <= n => g[k] = h[k]}
  OBVIOUS
<1>2. 0 \in S
  BY <1>1 DEF Starts
<1>3. ASSUME NEW k \in S
      PROVE  k + 1 \in S
  <2> SUFFICES ASSUME NEW m \in Nat, NEW n \in Nat, NEW g \in Starts(m), NEW h \in Starts(n),
                      k + 1 <= m, k + 1 <= n
               PROVE  g[k + 1] = h[k + 1]
    BY <1>1
  <2>1. k \in Nat /\ g[k] = h[k]
    BY <1>1
  <2>2. g[k + 1] = 2 * g[k] /\ h[k + 1] = 2 * h[k]
    <3>1. k + 1 \in 0..m /\ k + 1 \in 0..n /\ k + 1 # 0 /\ (k + 1) - 1 = k
      BY <2>1
    <3> QED
      BY <3>1 DEF Starts
  <2> QED
    BY <2>1, <2>2
<1>4. \A n \in Nat : n \in S
  BY <1>1, <1>2, <1>3, SetInduction
<1> QED
  BY <1>1, <1>4

(* There is a function that its equation defines, so Power is one.         *)
LEMMA PowerUnfolds == Power = [n \in Nat |-> IF n = 0 THEN 1 ELSE 2 * Power[n - 1]]
<1>1. PICK c : c = [n \in Nat |-> CHOOSE g : g \in Starts(n)]
  OBVIOUS
<1>2. \A n \in Nat : c[n] \in Starts(n)
  BY <1>1, StartsExist
<1>3. PICK f : f = [n \in Nat |-> c[n][n]]
  OBVIOUS
<1>4. ASSUME NEW n \in Nat
      PROVE  f[n] = IF n = 0 THEN 1 ELSE 2 * f[n - 1]
  <2>1. c[n][n] = IF n = 0 THEN 1 ELSE 2 * c[n][n - 1]
    BY <1>2 DEF Starts
  <2>2. CASE n = 0
    BY <1>3, <2>1, <2>2
  <2>3. CASE n # 0
    <3>1. n - 1 \in Nat /\ n - 1 <= n /\ n - 1 <= n - 1
      BY <2>3
    <3>2. c[n][n - 1] = c[n - 1][n - 1]
      BY <1>2, <3>1, StartsAgree
    <3> QED
      BY <1>3, <2>1, <2>3, <3>1, <3>2
  <2> QED
    BY <2>2, <2>3
<1>5. f = [n \in Nat |-> IF n = 0 THEN 1 ELSE 2 * f[n - 1]]
  BY <1>3, <1>4
<1> QED
  BY <1>5, Zenon DEF Power

(* The equation, argument by argument.                                     *)
LEMMA PowerDoubles ==
  /\ Power[0] = 1
  /\ \A n \in Nat : Power[n + 1] = 2 * Power[n]
<1>1. \A n \in Nat : Power[n] = IF n = 0 THEN 1 ELSE 2 * Power[n - 1]
  BY PowerUnfolds
<1> QED
  BY <1>1

(* A power of two is positive.                                            *)
LEMMA PowerType == \A n \in Nat : Power[n] \in Nat \ {0}
<1>1. PICK S : S = {n \in Nat : Power[n] \in Nat \ {0}}
  OBVIOUS
<1>2. 0 \in S
  BY <1>1, PowerDoubles
<1>3. \A n \in S : n + 1 \in S
  BY <1>1, PowerDoubles
<1> QED
  BY <1>1, <1>2, <1>3, SetInduction

(* Powers of two grow.                                                     *)
LEMMA PowerGrows ==
  ASSUME NEW m \in Nat, NEW n \in Nat, m <= n
  PROVE  Power[m] <= Power[n]
<1>1. PICK S : S = {k \in Nat : Power[m] <= Power[m + k]}
  OBVIOUS
<1>2. 0 \in S
  BY <1>1, PowerType
<1>3. ASSUME NEW k \in S
      PROVE  k + 1 \in S
  <2>1. Power[(m + k) + 1] = 2 * Power[m + k]
    BY <1>1, PowerDoubles
  <2>2. Power[m + (k + 1)] = 2 * Power[m + k]
    <3>1. m + (k + 1) = (m + k) + 1
      BY <1>1
    <3> QED
      BY <2>1, <3>1
  <2> QED
    BY <1>1, <2>2, PowerType
<1>4. \A k \in Nat : k \in S
  <2>1. S \in SUBSET Nat
    BY <1>1
  <2> QED
    BY <2>1, <1>2, <1>3, SetInduction
<1>5. n - m \in Nat /\ m + (n - m) = n
  OBVIOUS
<1> QED
  BY <1>1, <1>4, <1>5

(* A product grows with its second factor.                                 *)
LEMMA TimesGrows ==
  ASSUME NEW b \in Nat, NEW x \in Nat, NEW y \in Nat, x <= y
  PROVE  b * x <= b * y
OBVIOUS

(* Doubling a factor doubles the product.                                  *)
LEMMA TimesDoubles ==
  ASSUME NEW b \in Nat, NEW x \in Nat
  PROVE  b * (2 * x) = 2 * (b * x) /\ b * x \in Nat
OBVIOUS

(* A loop that has doubled i - 1 times holds the base times that power of  *)
(* two, and doubles no more often than there were failures before.         *)
PowerInv ==
  /\ Doublable /\ pc = "loop" => i <= failedTry /\ d = Base * Power[i - 1]
  /\ CeilingIsExponential

(* PowerInv survives every step.                                           *)
LEMMA PowerStep == TypeOK /\ CapInv /\ PowerInv /\ [Next]_vars => PowerInv'
<1> SUFFICES ASSUME TypeOK, CapInv, PowerInv, [Next]_vars
             PROVE  PowerInv'
  OBVIOUS
<1> USE DEF PowerInv, CeilingIsExponential
<1>1. /\ d \in Int /\ i \in Nat \ {0} /\ failedTry \in Nat \ {0} /\ MaxBackoff \in Nat
      /\ Base \in Nat
  BY BasePositive, WidthAssumption DEF TypeOK, Duration
<1>2. (delay' = delay) => (Base' = Base /\ (Doublable' <=> Doublable))
  BY DEF Base, Doublable
<1>3. CASE Normalise
  <2>1. d' = Base /\ i' = 1 /\ pc' = "loop" /\ failedTry' = failedTry /\ delay' = delay
    BY <1>3 DEF Normalise
  <2>2. Base * Power[1 - 1] = Base
    BY <1>1, PowerDoubles
  <2> QED
    BY <1>1, <1>2, <2>1, <2>2
<1>4. CASE Double
  <2> SUFFICES ASSUME Doublable
               PROVE  PowerInv'
    BY <1>2, <1>4 DEF Double
  <2>1. pc = "loop" /\ i < failedTry /\ failedTry' = failedTry /\ delay' = delay
    BY <1>4 DEF Double, MoreDoublings
  <2>2. Wrap(2 * d) = 2 * d
    BY <1>1, <2>1, WrapExact DEF CapInv
  <2>3. d = Base * Power[i - 1]
    BY <2>1
  <2>4. 2 * d = Base * Power[i]
    <3>1. i - 1 \in Nat /\ (i - 1) + 1 = i
      BY <1>1
    <3>2. Power[i] = 2 * Power[i - 1] /\ Power[i - 1] \in Nat
      BY <3>1, PowerDoubles, PowerType
    <3> QED
      BY <1>1, <2>3, <3>2, TimesDoubles
  <2>5. CASE 2 * d >= MaxBackoff
    <3>1. d' = MaxBackoff /\ pc' = "jitter"
      BY <1>4, <2>2, <2>5 DEF Double
    <3>2. failedTry - 1 \in Nat /\ i \in Nat /\ i <= failedTry - 1
      BY <1>1, <2>1
    <3>3. /\ Power[i] <= Power[failedTry - 1]
          /\ Power[i] \in Nat /\ Power[failedTry - 1] \in Nat
      BY <3>2, PowerGrows, PowerType
    <3>4. Base * Power[i] <= Base * Power[failedTry - 1]
      BY <1>1, <3>3, TimesGrows
    <3>5. Base * Power[failedTry - 1] \in Nat
      BY <1>1, <3>3, TimesDoubles
    <3>6. MaxBackoff = Least(MaxBackoff, Base * Power[failedTry - 1])
      BY <1>1, <2>4, <2>5, <3>4, <3>5 DEF Least
    <3> QED
      BY <1>2, <2>1, <3>1, <3>6
  <2>6. CASE ~(2 * d >= MaxBackoff)
    <3>1. d' = 2 * d /\ i' = i + 1 /\ pc' = pc
      BY <1>4, <2>2, <2>6 DEF Double
    <3>2. (i + 1) - 1 = i /\ i + 1 <= failedTry
      BY <1>1, <2>1
    <3> QED
      BY <1>2, <2>1, <2>4, <3>1, <3>2
  <2> QED
    BY <2>5, <2>6
<1>5. CASE LoopEnds
  <2> SUFFICES ASSUME Doublable
               PROVE  PowerInv'
    BY <1>2, <1>5 DEF LoopEnds
  <2>1. /\ pc = "loop" /\ ~(i < failedTry) /\ i <= failedTry
        /\ failedTry' = failedTry /\ delay' = delay /\ pc' = "jitter"
        /\ d' = Capped
    BY <1>5 DEF LoopEnds, MoreDoublings
  <2>2. i = failedTry
    BY <1>1, <2>1
  <2>3. d = Base * Power[failedTry - 1]
    BY <2>1, <2>2
  <2>4. Capped = Least(MaxBackoff, d)
    BY <1>1 DEF Capped, Least
  <2> QED
    BY <1>2, <2>1, <2>3, <2>4
<1>6. CASE Jitter
  BY <1>2, <1>6 DEF Jitter
<1>7. CASE FailAgain
  BY <1>7 DEF FailAgain
<1>8. CASE UNCHANGED vars
  BY <1>2, <1>8 DEF vars
<1> QED
  BY <1>3, <1>4, <1>5, <1>6, <1>7, <1>8 DEF Next, Finished

(* A delay that can be doubled is waited exponentially: the ceiling after  *)
(* the n-th failure is delay * 2^(n-1), or the cap.                        *)
THEOREM CeilingsDouble == Spec => []CeilingIsExponential
<1>1. Init => PowerInv
  BY DEF Init, PowerInv, CeilingIsExponential
<1>2. PowerInv => CeilingIsExponential
  BY DEF PowerInv
<1> QED
  BY <1>1, <1>2, PowerStep, CapHolds, TypeCorrect, PTL DEF Spec
=============================================================================
