--------------------------- MODULE WatchdogProofs ---------------------------
(***************************************************************************)
(* What holds of Watchdog for every interval, every fail_after and every   *)
(* behaviour of the API.                                                   *)
(***************************************************************************)
EXTENDS Watchdog, TLAPS

-----------------------------------------------------------------------------
(* Types.                                                                  *)

(* Whatever is configured, the timings are positive.                       *)
LEMMA TimingsPositive ==
  ASSUME settings \in Settings
  PROVE  Interval \in Nat \ {0} /\ FailAfter \in Nat \ {0}
BY SettingsAssumption, DefaultsAssumption DEF Interval, FailAfter

Timings == <<Interval, FailAfter>>

Flags ==
  /\ tick \in BOOLEAN /\ failed \in BOOLEAN /\ tripped \in BOOLEAN
  /\ stalled \in BOOLEAN /\ apiUp \in BOOLEAN /\ disturbed \in BOOLEAN

Data ==
  /\ settings \in Settings /\ now \in Nat /\ nextTick \in Nat
  /\ pc \in {"select", "probing", "onTrip", "stepCancel", "exited"}
  /\ deadline \in Nat /\ firstFailure \in Nat
  /\ ctx \in {"live", "trip", "ended"}
  /\ since \in Nat /\ lastGood \in Nat /\ trips \in Nat

(* The settings never change.                                              *)
LEMMA SettingsFixed == [Next]_vars => settings' = settings /\ Timings' = Timings
<1>1. [Next]_vars => settings' = settings
  BY DEF Next, GoroutineStep, TakeTick, TakeDone, ProbeSucceeds, FirstFailure,
     FurtherFailure, OnTrip, StepCancel, Advance, ApiChanges, EndedByOthers, vars
<1> QED
  BY <1>1 DEF Timings, Interval, FailAfter

(* Every flag stays a Boolean.                                             *)
LEMMA FlagsStep == Flags /\ [Next]_vars => Flags'
<1> SUFFICES ASSUME Flags, [Next]_vars
             PROVE  Flags'
  OBVIOUS
<1> USE DEF Flags, timer, probe, shared, api, history
<1>1. CASE TakeTick \/ TakeDone \/ ProbeSucceeds
  BY <1>1, Zenon DEF TakeTick, TakeDone, ProbeSucceeds, Recover
<1>2. CASE FirstFailure \/ FurtherFailure \/ OnTrip \/ StepCancel
  BY <1>2, Zenon DEF FirstFailure, FurtherFailure, OnTrip, StepCancel
<1>3. CASE Advance \/ ApiChanges \/ EndedByOthers
  BY <1>3, Zenon DEF Advance, ApiChanges, EndedByOthers
<1>4. CASE UNCHANGED vars
  BY <1>4, Zenon DEF vars
<1> QED
  BY <1>1, <1>2, <1>3, <1>4 DEF Next, GoroutineStep

(* Every other variable keeps its type.                                    *)
LEMMA DataStep == Data /\ [Next]_vars => Data'
<1> SUFFICES ASSUME Data, [Next]_vars
             PROVE  Data'
  OBVIOUS
<1> USE TimingsPositive DEF Data, timer, probe, shared, api, history
<1>1. CASE TakeTick
  BY <1>1 DEF TakeTick
<1>2. CASE TakeDone
  BY <1>2 DEF TakeDone
<1>3. CASE ProbeSucceeds
  BY <1>3 DEF ProbeSucceeds, Recover
<1>4. CASE FirstFailure
  BY <1>4 DEF FirstFailure
<1>5. CASE FurtherFailure
  BY <1>5 DEF FurtherFailure
<1>6. CASE OnTrip
  BY <1>6 DEF OnTrip
<1>7. CASE StepCancel
  BY <1>7 DEF StepCancel
<1>8. CASE Advance
  BY <1>8 DEF Advance
<1>9. CASE ApiChanges
  BY <1>9 DEF ApiChanges
<1>10. CASE EndedByOthers
  BY <1>10 DEF EndedByOthers
<1>11. CASE UNCHANGED vars
  BY <1>11 DEF vars
<1> QED
  BY <1>1, <1>2, <1>3, <1>4, <1>5, <1>6, <1>7, <1>8, <1>9, <1>10, <1>11
     DEF Next, GoroutineStep

(* Every variable keeps its type.                                          *)
THEOREM TypeCorrect == Spec => []TypeOK
<1>1. TypeOK <=> Flags /\ Data
  BY Zenon DEF TypeOK, Flags, Data
<1>2. Init => Flags
  BY Zenon DEF Init, Flags
<1>3. Init => Data
  BY TimingsPositive DEF Init, Data
<1> QED
  BY <1>1, <1>2, <1>3, FlagsStep, DataStep, PTL DEF Spec

-----------------------------------------------------------------------------
(* One trip, and only after fail_after without a good probe.               *)

(* The flag tripped guards the calls of OnTrip; the first failure of an    *)
(* outage comes after the last good probe.                                 *)
TripInv ==
  /\ lastGood <= now
  /\ failed => lastGood <= firstFailure /\ firstFailure <= now
  /\ pc = "onTrip" => now - lastGood >= FailAfter
  /\ ~tripped => trips = 0 /\ pc # "onTrip"
  /\ pc = "onTrip" => trips = 0
  /\ trips <= 1

(* TripInv survives every step, and a step that calls OnTrip calls it      *)
(* after fail_after without a good probe.                                  *)
LEMMA TripStep ==
  ASSUME Data, TripInv, [Next]_vars
  PROVE  TripInv' /\ (trips' # trips => now - lastGood >= FailAfter)
<1> USE DEF TripInv, timer, probe, shared, api, history
<1>1. /\ now \in Nat /\ lastGood \in Nat /\ firstFailure \in Nat /\ trips \in Nat
      /\ FailAfter \in Nat /\ FailAfter' = FailAfter
  BY TimingsPositive, SettingsFixed DEF Data, Timings
<1>2. CASE TakeTick \/ TakeDone
  BY <1>1, <1>2 DEF TakeTick, TakeDone
<1>3. CASE ProbeSucceeds
  BY <1>1, <1>3 DEF ProbeSucceeds, Recover
<1>4. CASE FirstFailure
  BY <1>1, <1>4 DEF FirstFailure, MayFail
<1>5. CASE FurtherFailure
  BY <1>1, <1>5 DEF FurtherFailure, MayFail, Due
<1>6. CASE OnTrip
  BY <1>1, <1>6 DEF OnTrip
<1>7. CASE StepCancel
  BY <1>1, <1>7 DEF StepCancel
<1>8. CASE Advance
  BY <1>1, <1>8 DEF Advance, Busy
<1>9. CASE ApiChanges \/ EndedByOthers
  BY <1>1, <1>9 DEF ApiChanges, EndedByOthers
<1>10. CASE UNCHANGED vars
  BY <1>1, <1>10 DEF vars
<1> QED
  BY <1>2, <1>3, <1>4, <1>5, <1>6, <1>7, <1>8, <1>9, <1>10 DEF Next, GoroutineStep

(* TripInv holds in every reachable state.                                 *)
LEMMA TripHolds == Spec => []TripInv
<1>1. Init => TripInv
  BY DEF Init, TripInv
<1>2. TypeOK => Data
  BY DEF TypeOK, Data
<1>3. Data /\ TripInv /\ [Next]_vars => TripInv'
  BY TripStep
<1> QED
  BY <1>1, <1>2, <1>3, TypeCorrect, PTL DEF Spec

(* OnTrip is called at most once in a run.                                 *)
THEOREM TripsOnce == Spec => []OneTrip
<1>1. TripInv => OneTrip
  BY DEF TripInv, OneTrip
<1> QED
  BY <1>1, TripHolds, PTL

(* OnTrip is called only when no probe has succeeded for fail_after.       *)
THEOREM TripsAfterOutage == Spec => TripMeansOutage
<1>1. TypeOK => Data
  BY DEF TypeOK, Data
<1>2. Data /\ TripInv /\ [Next]_vars => [trips' # trips => now - lastGood >= FailAfter]_vars
  BY TripStep
<1> QED
  BY <1>1, <1>2, TripHolds, TypeCorrect, PTL DEF Spec, TripMeansOutage

-----------------------------------------------------------------------------
(* How long an outage or a recovery may go unnoticed.                      *)

(* The ticker is at most an interval away, and so is the end of a probe.   *)
ClockInv ==
  /\ since <= now /\ now < nextTick /\ nextTick <= now + Interval
  /\ pc = "probing" =>
       /\ now <= deadline /\ deadline <= now + Interval
       /\ ~tick => nextTick <= deadline

(* By when the goroutine comes to its next probe, or ends the one it is in.*)
By(probeBy, endBy) ==
  /\ pc = "select" /\ ~tick => nextTick <= probeBy
  /\ pc = "select" /\ tick  => now <= probeBy
  /\ pc = "probing" => deadline <= endBy
  /\ pc \in {"onTrip", "stepCancel"} => now <= endBy

(* The first failed probe of an outage ends within two intervals of its    *)
(* beginning; the one that trips, within two of fail_after.                *)
OutageInv ==
  ctx = "live" =>
    /\ pc # "exited" /\ (tripped <=> pc \in {"onTrip", "stepCancel"})
    /\ failed => firstFailure <= now
    /\ tripped => failed
    /\ ~failed /\ ~apiUp => By(since + Interval, since + 2 * Interval)
    /\ failed /\ ~apiUp => firstFailure <= since + 2 * Interval
    /\ failed => By(firstFailure + FailAfter + Interval - 1,
                    firstFailure + FailAfter + 2 * Interval - 1)

(* After a recovery a probe that it found in flight may fail, the next one *)
(* does not.                                                               *)
RecoveryInv ==
  ctx = "live" /\ apiUp =>
    /\ pc = "probing" /\ disturbed => deadline <= since + Interval
    /\ failed => By(since + Interval, since + 2 * Interval)

TimeInv == ClockInv /\ OutageInv /\ RecoveryInv

(* TimeInv survives every step.                                            *)
LEMMA TimeStep ==
  ASSUME Flags, Data, TimeInv, [Next]_vars
  PROVE  TimeInv'
<1> USE DEF TimeInv, ClockInv, OutageInv, RecoveryInv, By,
            timer, probe, shared, api, history
<1>1. /\ now \in Nat /\ nextTick \in Nat /\ deadline \in Nat /\ firstFailure \in Nat
      /\ since \in Nat /\ Interval \in Nat \ {0} /\ FailAfter \in Nat \ {0}
      /\ Interval' = Interval /\ FailAfter' = FailAfter
  BY TimingsPositive, SettingsFixed DEF Data, Timings
<1>2. CASE TakeTick
  <2>1. /\ pc = "select" /\ tick /\ pc' = "probing" /\ deadline' = now + Interval
        /\ UNCHANGED <<now, nextTick, failed, firstFailure, tripped, ctx, apiUp, since>>
    BY <1>2 DEF TakeTick
  <2>2. disturbed' => ~apiUp
    BY <1>2, Zenon DEF TakeTick
  <2>3. ClockInv'
    BY <1>1, <2>1
  <2>4. OutageInv'
    BY <1>1, <2>1
  <2>5. RecoveryInv'
    BY <1>1, <2>1, <2>2
  <2> QED
    BY <2>3, <2>4, <2>5
<1>3. CASE TakeDone
  BY <1>1, <1>3 DEF TakeDone
<1>4. CASE ProbeSucceeds
  BY <1>1, <1>4 DEF ProbeSucceeds, Recover
<1>5. CASE FirstFailure
  BY <1>1, <1>5 DEF FirstFailure, MayFail
<1>6. CASE FurtherFailure
  BY <1>1, <1>6 DEF FurtherFailure, MayFail, Due
<1>7. CASE OnTrip
  BY <1>1, <1>7 DEF OnTrip
<1>8. CASE StepCancel
  BY <1>1, <1>8 DEF StepCancel
<1>9. CASE Advance
  BY <1>1, <1>9 DEF Advance, Busy, Overdue
<1>10. CASE ApiChanges
  BY <1>1, <1>10 DEF ApiChanges
<1>11. CASE EndedByOthers
  BY <1>1, <1>11 DEF EndedByOthers
<1>12. CASE UNCHANGED vars
  BY <1>1, <1>12 DEF vars
<1> QED
  BY <1>2, <1>3, <1>4, <1>5, <1>6, <1>7, <1>8, <1>9, <1>10, <1>11, <1>12
     DEF Next, GoroutineStep

(* TimeInv holds in every reachable state.                                 *)
LEMMA TimeHolds == Spec => []TimeInv
<1>1. Init => TimeInv
  BY TimingsPositive DEF Init, TimeInv, ClockInv, OutageInv, RecoveryInv, By
<1>2. TypeOK => Flags /\ Data
  BY Zenon DEF TypeOK, Flags, Data
<1>3. Flags /\ Data /\ TimeInv /\ [Next]_vars => TimeInv'
  BY TimeStep
<1> QED
  BY <1>1, <1>2, <1>3, TypeCorrect, PTL DEF Spec

(* An outage cancels the engine before fail_after and four intervals of it *)
(* have passed.                                                            *)
THEOREM OutagesAreNoticed == Spec => []OutageIsNoticed
<1>1. Data /\ TimeInv => OutageIsNoticed
  BY TimingsPositive DEF Data, TimeInv, ClockInv, OutageInv, By, OutageIsNoticed
<1>2. TypeOK => Data
  BY DEF TypeOK, Data
<1> QED
  BY <1>1, <1>2, TimeHolds, TypeCorrect, PTL

(* The failure clock is reset within two intervals of a recovery.          *)
THEOREM RecoveriesAreNoticed == Spec => []RecoveryIsNoticed
<1>1. Data /\ TimeInv => RecoveryIsNoticed
  BY TimingsPositive DEF Data, TimeInv, ClockInv, RecoveryInv, OutageInv, By,
     RecoveryIsNoticed
<1>2. TypeOK => Data
  BY DEF TypeOK, Data
<1> QED
  BY <1>1, <1>2, TimeHolds, TypeCorrect, PTL

-----------------------------------------------------------------------------
(* The contract.                                                           *)

(* The stall is marked from OnTrip on.                                     *)
MarkInv ==
  /\ trips = 0 => ~stalled
  /\ pc = "stepCancel" => stalled

(* MarkInv is kept by every step.                                          *)
LEMMA MarkStep == TypeOK /\ TripInv /\ MarkInv /\ [Next]_vars => MarkInv'
<1> SUFFICES ASSUME TypeOK, TripInv, MarkInv, [Next]_vars
             PROVE  MarkInv'
  OBVIOUS
<1> USE DEF MarkInv, timer, probe, shared, api, history
<1>1. CASE TakeTick \/ TakeDone \/ ProbeSucceeds \/ FirstFailure \/ FurtherFailure
  BY <1>1 DEF TakeTick, TakeDone, ProbeSucceeds, FirstFailure, FurtherFailure
<1>2. CASE OnTrip
  BY <1>2 DEF OnTrip, TripInv, TypeOK
<1>3. CASE StepCancel
  BY <1>3 DEF StepCancel
<1>4. CASE Advance \/ ApiChanges \/ EndedByOthers
  BY <1>4 DEF Advance, ApiChanges, EndedByOthers
<1>5. CASE UNCHANGED vars
  BY <1>5 DEF vars
<1> QED
  BY <1>1, <1>2, <1>3, <1>4, <1>5 DEF Next, GoroutineStep

(* Each step is one of the contract or changes nothing it speaks of: the   *)
(* two writes of OnTrip, the exit, the end of the context.                 *)
LEMMA ContractStep ==
  TypeOK /\ TripInv /\ MarkInv /\ [Next]_vars => [Contract!Next]_(Contract!vars)
<1> SUFFICES ASSUME TypeOK, TripInv, MarkInv, [Next]_vars
             PROVE  Contract!Next \/ UNCHANGED <<Guard, stalled, Context>>
  BY DEF Contract!vars
<1> USE DEF MarkInv, Guard, Context, timer, probe, shared, api, history
<1>1. CASE TakeTick \/ ProbeSucceeds \/ FirstFailure \/ FurtherFailure
  BY <1>1 DEF TakeTick, ProbeSucceeds, FirstFailure, FurtherFailure, MayFail
<1>2. CASE TakeDone
  <2>1. Contract!Leave
    BY <1>2 DEF TakeDone, Contract!Leave
  <2> QED
    BY <2>1 DEF Contract!Next
<1>3. CASE OnTrip
  <2>1. ~stalled
    BY <1>3 DEF OnTrip, TripInv
  <2>2. Contract!Mark
    BY <1>3, <2>1 DEF OnTrip, Contract!Mark
  <2> QED
    BY <2>2 DEF Contract!Next
<1>4. CASE StepCancel
  <2>1. Contract!CancelContext
    BY <1>4 DEF StepCancel, Contract!CancelContext
  <2> QED
    BY <2>1 DEF Contract!Next
<1>5. CASE Advance \/ ApiChanges
  BY <1>5 DEF Advance, ApiChanges
<1>6. CASE EndedByOthers
  <2>1. Contract!EndContext
    BY <1>6 DEF EndedByOthers, Contract!EndContext
  <2> QED
    BY <2>1 DEF Contract!Next
<1>7. CASE UNCHANGED vars
  BY <1>7 DEF vars
<1> QED
  BY <1>1, <1>2, <1>3, <1>4, <1>5, <1>6, <1>7 DEF Next, GoroutineStep

(* The watchdog keeps its contract with the engine: one trip, marked       *)
(* before it cancels, and no exit in the middle of it.                     *)
THEOREM WatchdogImplementsTripwire == Spec => TripsAsPromised
<1>1. Init => MarkInv /\ Contract!Init
  BY DEF Init, MarkInv, Contract!Init, Guard, Context
<1> QED
  BY <1>1, TypeCorrect, TripHolds, MarkStep, ContractStep, PTL
     DEF Spec, TripsAsPromised, Contract!Spec
=============================================================================
