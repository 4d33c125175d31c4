---------------------------- MODULE EngineProofs ----------------------------
(***************************************************************************)
(* What holds of Engine for every set of configurations.                   *)
(***************************************************************************)
EXTENDS Engine, TLAPS

-----------------------------------------------------------------------------
(* Types.                                                                  *)

(* The list of enabled channels is a finite sequence of channels.          *)
LEMMA ChannelsType ==
  ASSUME NEW c \in Configs
  PROVE  c.channels \in Seq(Channels) /\ Len(c.channels) \in Nat
<1>1. c.channels \in Seq(Channels)
  BY ConfigsAssumption DEF Config
<1> QED
  BY <1>1

(* No step leaves a flag that is not a Boolean.                            *)
LEMMA FlagsStep == FlagsOK /\ [Next]_vars => FlagsOK'
<1> SUFFICES ASSUME FlagsOK, [Next]_vars
             PROVE  FlagsOK'
  OBVIOUS
<1> USE DEF FlagsOK, static, control, context, report, history
<1>1. CASE BeginCall
  BY <1>1, Zenon DEF BeginCall
<1>2. CASE PhaseStep
  BY <1>2, Zenon DEF PhaseStep, PreflightPasses, PreHookPasses, PostHookPasses,
     BoundaryPasses, PreflightOrHookFails, BoundaryFails, Returns
<1>3. CASE PipelineStep
  BY <1>3, Zenon DEF PipelineStep, PartPasses, StepPasses, StepFails, AttemptFails,
     BackoffExpires, BackoffCancelled, Returns
<1>4. CASE FinishStep
  BY <1>4, Zenon DEF FinishStep, LogInterrupt, IsUserInterrupt, ChooseEvent,
     PostChannel, DispatchReturns, OnErrorReturns, Return, Returns
<1>5. CASE WatchdogStep
  BY <1>5, Zenon DEF WatchdogStep, OnTrip, OnTripWrites, SetStalled, CancelStep,
     WatchdogExits
<1>6. CASE Signal \/ RunTimeout
  BY <1>6, Zenon DEF Signal, RunTimeout
<1>7. CASE UNCHANGED vars
  BY <1>7, Zenon DEF vars
<1> QED
  BY <1>1, <1>2, <1>3, <1>4, <1>5, <1>6, <1>7 DEF Next, EngineStep, Terminated

(* Whatever a failed command exits with, it is a code and not 0.           *)
LEMMA FailureCode ==
  ASSUME NEW e, NEW c \in ExitCodes(e)
  PROVE  c \in 1..255
BY CodesAssumption DEF ExitCodes

(* Every other variable keeps its type through every step of the engine,   *)
(* of the watchdog, of the operator and of the clock.                      *)
LEMMA DataStep == DataOK /\ [Next]_vars => DataOK'
<1> SUFFICES ASSUME DataOK, [Next]_vars
             PROVE  DataOK'
  OBVIOUS
<1> USE DEF DataOK, static, control, context, report, history,
            Calls, Phases, Commands, Parts, Errors, Exited
<1>1. CASE BeginCall
  BY <1>1 DEF BeginCall
<1>2. CASE PreflightPasses
  BY <1>2 DEF PreflightPasses, Returns, Complete, UnitAt, Unit, Kinds
<1>3. CASE PreHookPasses
  BY <1>3 DEF PreHookPasses, Returns, Complete, GoToStep, StartAttempt,
              UnitAt, Unit, Kinds
<1>4. CASE PostHookPasses
  BY <1>4 DEF PostHookPasses, Returns, Complete, AfterPhase, UnitAt, Unit, Kinds
<1>5. CASE BoundaryPasses
  BY <1>5 DEF BoundaryPasses, Returns, Complete, UnitAt, Unit, Kinds
<1>6. ASSUME NEW e \in Errors, PreflightOrHookFails(e)
      PROVE  DataOK'
  BY <1>6 DEF PreflightOrHookFails, Returns, Abort
<1>7. ASSUME NEW e \in Errors, BoundaryFails(e)
      PROVE  DataOK'
  <2>1. exitCode' \in 1..255
    BY <1>7, FailureCode DEF BoundaryFails
  <2> QED
    BY <1>7, <2>1 DEF BoundaryFails, Returns
<1>8. CASE PartPasses
  BY <1>8 DEF PartPasses, Returns
<1>9. CASE StepPasses
  BY <1>9 DEF StepPasses, Returns, Complete, GoToStep, StartAttempt,
              UnitAt, Unit, Kinds
<1>10. ASSUME NEW e \in Errors, StepFails(e)
       PROVE  DataOK'
  BY <1>10 DEF StepFails, Returns, Abort
<1>11. ASSUME NEW e \in Errors, AttemptFails(e)
       PROVE  DataOK'
  BY <1>11 DEF AttemptFails, Returns
<1>12. CASE BackoffExpires
  BY <1>12 DEF BackoffExpires, NextTry, StartAttempt
<1>13. CASE BackoffCancelled
  BY <1>13 DEF BackoffCancelled, Abort
<1>14. CASE LogInterrupt
  BY <1>14 DEF LogInterrupt
<1>15. CASE ChooseEvent
  BY <1>15 DEF ChooseEvent
<1>16. CASE PostChannel
  <2>1. posted' \in 0..Len(cfg'.channels)
    BY <1>16, ChannelsType DEF PostChannel
  <2>2. cfg.channels[posted + 1] \in Channels
    BY <1>16, ChannelsType DEF PostChannel
  <2>3. delivered' \subseteq Channels
    BY <1>16, <2>2 DEF PostChannel
  <2> QED
    BY <1>16, <2>1, <2>3 DEF PostChannel
<1>17. CASE DispatchReturns
  <2>1. \/ pc' = "return" /\ exitCode' = 4
        \/ pc' = "onError" /\ exitCode' = exitCode
    BY <1>17 DEF DispatchReturns
  <2>2. /\ UNCHANGED <<static, phase, index, try, part, err, context, history>>
        /\ UNCHANGED <<event, posted, delivered, onErrorRuns>>
    BY <1>17 DEF DispatchReturns
  <2>3. exitCode' \in 0..255
    <3>1. exitCode \in 0..255 /\ 4 \in 0..255
      OBVIOUS
    <3> QED
      BY <2>1, <3>1, Zenon
  <2>4. pc' \in Calls \cup {"return"}
    BY <2>1
  <2> QED
    BY <2>2, <2>3, <2>4
<1>18. ASSUME NEW e \in Errors \cup {"nil"}, OnErrorReturns(e)
       PROVE  DataOK'
  <2>1. exitCode' \in 1..255
    BY <1>18, FailureCode DEF OnErrorReturns
  <2> QED
    BY <1>18, <2>1 DEF OnErrorReturns, Returns
<1>19. CASE Return
  BY <1>19 DEF Return
<1>20. CASE OnTrip
  BY <1>20 DEF OnTrip, OnTripWrites, SetStalled, CancelStep, Cancel
<1>21. CASE WatchdogExits
  BY <1>21 DEF WatchdogExits
<1>22. CASE Signal
  BY <1>22 DEF Signal, Cancel
<1>23. CASE RunTimeout
  BY <1>23 DEF RunTimeout, Cancel
<1>24. CASE UNCHANGED vars
  BY <1>24 DEF vars
<1> QED
  BY <1>1, <1>2, <1>3, <1>4, <1>5, <1>6, <1>7, <1>8, <1>9, <1>10, <1>11, <1>12,
     <1>13, <1>14, <1>15, <1>16, <1>17, <1>18, <1>19, <1>20, <1>21, <1>22,
     <1>23, <1>24
     DEF Next, EngineStep, PhaseStep, PipelineStep, FinishStep, WatchdogStep,
         Terminated

(* Every variable keeps its type.                                          *)
THEOREM TypeCorrect == Spec => []TypeOK
<1>1. Init => TypeOK
  <2>1. Init => FlagsOK
    BY Zenon DEF Init, FlagsOK
  <2>2. ASSUME Init
        PROVE  DataOK
    BY <2>2, ChannelsType DEF Init, DataOK, Calls, Phases, Commands, Parts, Errors, Exited
  <2> QED
    BY <2>1, <2>2 DEF TypeOK
<1>2. TypeOK /\ [Next]_vars => TypeOK'
  BY FlagsStep, DataStep DEF TypeOK
<1> QED
  BY <1>1, <1>2, PTL DEF Spec

-----------------------------------------------------------------------------
(* Who ended the run.                                                      *)

(* A call reports a cancellation only when the operator or the watchdog    *)
(* cancelled the context.                                                  *)
LEMMA CanceledHasCause ==
  ASSUME DataOK, Returns("canceled")
  PROVE  ctx \in {"signal", "trip"}
BY DEF DataOK, Returns, CtxErr, Results, Impossible, Errors, Exited

(* The trip's two writes in their order; every error that may be read as a *)
(* cancellation has its cause in the context; the event is chosen last.    *)
CauseInv ==
  /\ ctx = "trip" \/ watchdog \in {"tripping", "tripped"} => stalled
  /\ err = "canceled" => ctx \in {"signal", "trip"}
  /\ event # "none" => pc \in {"post", "onError", "return", "done"}
  /\ InterruptMeansSignal
  /\ TripIsReportedAsStall

(* CauseInv survives every step.                                           *)
LEMMA CauseStep == TypeOK /\ CauseInv /\ [Next]_vars => CauseInv'
<1> SUFFICES ASSUME FlagsOK, DataOK, CauseInv, [Next]_vars
             PROVE  CauseInv'
  BY DEF TypeOK
<1> USE DEF CauseInv, InterruptMeansSignal, TripIsReportedAsStall,
            static, control, context, report, history
<1>1. CASE BeginCall
  BY <1>1 DEF BeginCall, Calls
<1>2. CASE PreflightPasses
  BY <1>2 DEF PreflightPasses
<1>3. CASE PreHookPasses
  BY <1>3 DEF PreHookPasses, GoToStep
<1>4. CASE PostHookPasses
  BY <1>4 DEF PostHookPasses
<1>5. CASE BoundaryPasses
  BY <1>5 DEF BoundaryPasses
<1>6. ASSUME NEW e \in Errors, PreflightOrHookFails(e)
      PROVE  CauseInv'
  BY <1>6, CanceledHasCause DEF PreflightOrHookFails, Abort
<1>7. ASSUME NEW e \in Errors, BoundaryFails(e)
      PROVE  CauseInv'
  BY <1>7, CanceledHasCause DEF BoundaryFails
<1>8. CASE PartPasses
  BY <1>8 DEF PartPasses
<1>9. CASE StepPasses
  BY <1>9 DEF StepPasses, GoToStep
<1>10. ASSUME NEW e \in Errors, StepFails(e)
       PROVE  CauseInv'
  BY <1>10, CanceledHasCause DEF StepFails, Abort
<1>11. ASSUME NEW e \in Errors, AttemptFails(e)
       PROVE  CauseInv'
  BY <1>11, CanceledHasCause DEF AttemptFails
<1>12. CASE BackoffExpires
  BY <1>12 DEF BackoffExpires
<1>13. CASE BackoffCancelled
  BY <1>13 DEF BackoffCancelled, Abort
<1>14. CASE LogInterrupt
  BY <1>14 DEF LogInterrupt, IsUserInterrupt
<1>15. CASE ChooseEvent
  BY <1>15 DEF ChooseEvent
<1>16. CASE PostChannel
  BY <1>16 DEF PostChannel
<1>17. CASE DispatchReturns
  BY <1>17 DEF DispatchReturns
<1>18. ASSUME NEW e \in Errors \cup {"nil"}, OnErrorReturns(e)
       PROVE  CauseInv'
  BY <1>18 DEF OnErrorReturns
<1>19. CASE Return
  BY <1>19 DEF Return
<1>20. CASE OnTrip
  BY <1>20 DEF OnTrip, OnTripWrites, SetStalled, CancelStep, Cancel
<1>21. CASE WatchdogExits
  BY <1>21 DEF WatchdogExits
<1>22. CASE Signal \/ RunTimeout
  BY <1>22 DEF Signal, RunTimeout, Cancel
<1>23. CASE UNCHANGED vars
  BY <1>23 DEF vars
<1> QED
  BY <1>1, <1>2, <1>3, <1>4, <1>5, <1>6, <1>7, <1>8, <1>9, <1>10, <1>11, <1>12,
     <1>13, <1>14, <1>15, <1>16, <1>17, <1>18, <1>19, <1>20, <1>21, <1>22, <1>23
     DEF Next, EngineStep, PhaseStep, PipelineStep, FinishStep, WatchdogStep,
         Terminated

(* CauseInv holds in every reachable state.                                *)
LEMMA CauseHolds == Spec => []CauseInv
<1>1. Init => CauseInv
  BY Zenon DEF Init, CauseInv, InterruptMeansSignal, TripIsReportedAsStall
<1> QED
  BY <1>1, CauseStep, TypeCorrect, PTL DEF Spec

(* "Pipeline interrupted" is logged only for the operator's signal.        *)
THEOREM OnlySignalsInterrupt == Spec => []InterruptMeansSignal
BY CauseHolds, PTL DEF CauseInv

(* A run the watchdog cancelled is never reported as pipeline.error.       *)
THEOREM TripsAreStalls == Spec => []TripIsReportedAsStall
BY CauseHolds, PTL DEF CauseInv

-----------------------------------------------------------------------------
(* Retries.                                                                *)

(* The engine waits only for an attempt it may make.                       *)
BackoffInv ==
  pc = "backoff" => cfg.mode = "live" /\ IsRetriable(err) /\ try < Attempts

(* A step makes a new attempt only as RetryDiscipline allows, and keeps    *)
(* BackoffInv.                                                             *)
LEMMA RetryStep ==
  ASSUME DataOK, BackoffInv, [Next]_vars
  PROVE  /\ BackoffInv'
         /\ try' = try + 1 =>
              /\ cfg.mode = "live" /\ IsRetriable(err)
              /\ try' <= cfg.attempts
              /\ index' = index /\ phase' = phase
<1> USE DEF static, control, context, report, history
<1>1. try \in Nat /\ try > 0
  BY DEF DataOK
<1>2. CASE BackoffExpires
  <2>1. cfg.mode = "live" /\ IsRetriable(err) /\ try < Attempts
    BY <1>2 DEF BackoffInv, BackoffExpires
  <2>2. try + 1 <= cfg.attempts
    <3>1. cfg.attempts \in Nat
      BY ConfigsAssumption DEF DataOK, Config
    <3> QED
      BY <1>1, <2>1, <3>1 DEF Attempts
  <2> QED
    BY <1>2, <2>1, <2>2 DEF BackoffInv, BackoffExpires, NextTry
<1>3. ASSUME NEW e \in Errors, AttemptFails(e)
      PROVE  try' = try /\ BackoffInv'
  BY <1>3 DEF AttemptFails, MayRetry, BackoffInv, Attempts, IsRetriable
<1>4. CASE PreHookPasses \/ StepPasses
  BY <1>1, <1>4 DEF PreHookPasses, StepPasses, GoToStep, BackoffInv
<1>5. CASE BeginCall \/ OnTrip \/ WatchdogExits \/ Signal \/ RunTimeout \/ UNCHANGED vars
  <2>1. UNCHANGED <<cfg, pc, err, try>>
    BY <1>5 DEF BeginCall, OnTrip, WatchdogExits, Signal, RunTimeout, vars
  <2> QED
    BY <1>1, <2>1 DEF BackoffInv, Attempts, IsRetriable
<1>6. CASE \/ PreflightPasses \/ PostHookPasses \/ BoundaryPasses \/ PartPasses
           \/ \E e \in Errors : PreflightOrHookFails(e) \/ BoundaryFails(e) \/ StepFails(e)
           \/ BackoffCancelled \/ LogInterrupt \/ ChooseEvent \/ PostChannel
           \/ DispatchReturns \/ Return
           \/ \E e \in Errors \cup {"nil"} : OnErrorReturns(e)
  <2>1. try' = try /\ pc' # "backoff"
    BY <1>6 DEF PreflightPasses, PostHookPasses, AfterPhase, BoundaryPasses, PartPasses,
       PreflightOrHookFails, BoundaryFails, StepFails, BackoffCancelled, Abort,
       LogInterrupt, ChooseEvent, PostChannel, DispatchReturns, Return, OnErrorReturns
  <2> QED
    BY <1>1, <2>1 DEF BackoffInv
<1> QED
  BY <1>1, <1>2, <1>3, <1>4, <1>5, <1>6
     DEF Next, EngineStep, PhaseStep, PipelineStep, FinishStep, WatchdogStep,
         Terminated

(* A new attempt only in live mode, after a retriable error, and never     *)
(* more than retry.attempts of them.                                       *)
THEOREM RetriesAreBounded == Spec => RetryDiscipline
<1>1. Init => BackoffInv
  BY DEF Init, BackoffInv
<1>2. TypeOK => DataOK
  BY DEF TypeOK
<1>3. DataOK /\ BackoffInv /\ [Next]_vars => BackoffInv'
  BY RetryStep
<1>4. DataOK /\ BackoffInv /\ [Next]_vars =>
        [try' = try + 1 =>
           /\ cfg.mode = "live" /\ IsRetriable(err)
           /\ try' <= cfg.attempts
           /\ index' = index /\ phase' = phase]_vars
  BY RetryStep
<1> QED
  BY <1>1, <1>2, <1>3, <1>4, TypeCorrect, PTL DEF Spec, RetryDiscipline

-----------------------------------------------------------------------------
(* The failure report.                                                     *)

(* Where in the report the engine is bounds what has been sent and run.    *)
ReportInv ==
  /\ pc \notin {"return", "done"} => exitCode = 0
  /\ pc = "post" => event # "none"
  /\ pc = "onError" /\ ~busy => onErrorRuns = 0
  /\ onErrorRuns > 0 =>
       onErrorRuns = 1 /\ pc \in {"onError", "return", "done"}
  /\ pc = "onError" \/ onErrorRuns > 0 =>
       /\ event # "none" /\ (Sends(event) => posted = Len(cfg.channels))
       /\ cfg.require /\ Sends(event) => Undelivered = {}

(* ReportInv survives every step.                                          *)
LEMMA ReportStep ==
  ASSUME DataOK, ReportInv, [Next]_vars
  PROVE  ReportInv'
<1> USE DEF ReportInv, static, control, context, report, history
<1>1. onErrorRuns \in Nat
  BY DEF DataOK
<1>2. CASE BeginCall
  <2>1. /\ UNCHANGED <<cfg, pc, event, posted, delivered, exitCode>>
        /\ busy' = TRUE /\ ~busy
        /\ onErrorRuns' = IF pc = "onError" THEN onErrorRuns + 1 ELSE onErrorRuns
    BY <1>2 DEF BeginCall
  <2>2. onErrorRuns' > 0 => onErrorRuns > 0 \/ (pc = "onError" /\ onErrorRuns = 0)
    BY <1>1, <2>1
  <2> QED
    BY <1>1, <2>1, <2>2 DEF Sends, Undelivered
<1>3. CASE PhaseStep \/ PipelineStep
  <2>1. pc \notin {"post", "onError", "return", "done"}
        /\ pc' \notin {"post", "onError", "done"}
        /\ UNCHANGED onErrorRuns /\ (pc' # "return" => UNCHANGED exitCode)
    BY <1>3 DEF PhaseStep, PipelineStep, PreflightPasses, PreHookPasses,
       PostHookPasses, BoundaryPasses, PreflightOrHookFails, BoundaryFails, PartPasses,
       StepPasses, StepFails, AttemptFails, BackoffExpires, BackoffCancelled, Abort,
       GoToStep, AfterPhase
  <2> QED
    BY <1>1, <2>1
<1>4. CASE LogInterrupt
  BY <1>1, <1>4 DEF LogInterrupt
<1>5. CASE ChooseEvent
  <2>1. /\ pc = "dispatch" /\ event' # "none" /\ cfg' = cfg
        /\ pc' = IF Sends(event') THEN "post" ELSE "onError"
        /\ UNCHANGED <<onErrorRuns, exitCode>>
    BY <1>5 DEF ChooseEvent
  <2>2. Sends(event)' <=> Sends(event')
    BY <2>1 DEF Sends
  <2> QED
    BY <1>1, <2>1, <2>2
<1>6. CASE PostChannel
  BY <1>1, <1>6 DEF PostChannel
<1>7. CASE DispatchReturns
  BY <1>1, <1>7 DEF DispatchReturns, MustDeliver, Sends, Undelivered
<1>8. ASSUME NEW e \in Errors \cup {"nil"}, OnErrorReturns(e)
      PROVE  ReportInv'
  BY <1>1, <1>8 DEF OnErrorReturns, Sends, Undelivered
<1>9. CASE Return
  BY <1>1, <1>9 DEF Return, Sends, Undelivered
<1>10. CASE WatchdogStep \/ Signal \/ RunTimeout \/ UNCHANGED vars
  <2>1. UNCHANGED <<cfg, pc, busy, event, posted, delivered, onErrorRuns, exitCode>>
    BY <1>10 DEF WatchdogStep, OnTrip, WatchdogExits, Signal, RunTimeout, vars
  <2> QED
    BY <2>1 DEF Sends, Undelivered
<1> QED
  BY <1>2, <1>3, <1>4, <1>5, <1>6, <1>7, <1>8, <1>9, <1>10
     DEF Next, EngineStep, FinishStep, Terminated

(* ReportInv holds in every reachable state.                               *)
LEMMA ReportHolds == Spec => []ReportInv
<1>1. Init => ReportInv
  BY DEF Init, ReportInv
<1>2. TypeOK => DataOK
  BY DEF TypeOK
<1>3. DataOK /\ ReportInv /\ [Next]_vars => ReportInv'
  BY ReportStep
<1> QED
  BY <1>1, <1>2, <1>3, TypeCorrect, PTL DEF Spec

(* on-error runs at most once, after the alerts, and never after a         *)
(* delivery that was required and failed.                                  *)
THEOREM OnErrorIsLast == Spec => []OnErrorDiscipline
<1>1. ReportInv => OnErrorDiscipline
  BY DEF ReportInv, OnErrorDiscipline
<1> QED
  BY <1>1, ReportHolds, PTL

-----------------------------------------------------------------------------
(* Attempts.                                                               *)

(* What an attempt at a step has done is what comes before its part.       *)
AttemptInv ==
  pc = "step" =>
    /\ part = "pre"  => succeeded = {}
    /\ part = "main" => succeeded = {"pre"}
    /\ part = "post" => succeeded = {"pre", "main"}

(* The steps that complete a unit of another kind.                         *)
Others == PreflightPasses \/ PreHookPasses \/ PostHookPasses \/ BoundaryPasses

(* AttemptInv is kept by every step, and a step is completed by its post   *)
(* script after pre script and action.                                     *)
LEMMA AttemptStep ==
  ASSUME DataOK, AttemptInv, [Next]_vars
  PROVE  /\ AttemptInv'
         /\ \A u \in completed' \ completed : u.kind = "step" =>
              part = "post" /\ succeeded = {"pre", "main"}
<1> USE DEF static, control, context, report, history
<1>1. CASE StepPasses
  <2>1. part = "post" /\ succeeded = {"pre", "main"}
    BY <1>1 DEF StepPasses, AttemptInv
  <2>2. AttemptInv'
    BY <1>1 DEF StepPasses, GoToStep, StartAttempt, AttemptInv
  <2> QED
    BY <2>1, <2>2
<1>2. CASE Others
  <2>1. \A u \in completed' \ completed : u.kind # "step"
    BY <1>2 DEF Others, PreflightPasses, PreHookPasses, PostHookPasses, BoundaryPasses, Complete,
                UnitAt
  <2>2. AttemptInv'
    BY <1>2 DEF Others, PreflightPasses, PreHookPasses, PostHookPasses, BoundaryPasses, AfterPhase,
                GoToStep, StartAttempt, AttemptInv
  <2> QED
    BY <2>1, <2>2
<1>3. CASE PartPasses
  BY <1>3 DEF PartPasses, AttemptInv, DataOK, Parts
<1>4. CASE BackoffExpires
  BY <1>4 DEF BackoffExpires, StartAttempt, AttemptInv
<1>5. CASE \/ \E e \in Errors : \/ PreflightOrHookFails(e) \/ BoundaryFails(e)
                                \/ StepFails(e) \/ AttemptFails(e)
           \/ BackoffCancelled \/ FinishStep
  <2>1. completed' = completed /\ pc' # "step"
    BY <1>5 DEF PreflightOrHookFails, BoundaryFails, StepFails, AttemptFails, BackoffCancelled,
       Abort, FinishStep, LogInterrupt, ChooseEvent, PostChannel, DispatchReturns,
       OnErrorReturns, Return
  <2> QED
    BY <2>1 DEF AttemptInv
<1>6. CASE BeginCall \/ WatchdogStep \/ Signal \/ RunTimeout \/ UNCHANGED vars
  <2>1. UNCHANGED <<completed, succeeded, pc, part>>
    BY <1>6 DEF BeginCall, WatchdogStep, OnTrip, WatchdogExits, Signal, RunTimeout, vars
  <2> QED
    BY <2>1 DEF AttemptInv
<1> QED
  BY <1>1, <1>2, <1>3, <1>4, <1>5, <1>6
     DEF Next, EngineStep, PhaseStep, PipelineStep, Others, Terminated

(* A step is complete only by an attempt that has run its pre script, its  *)
(* main action and its post script: no attempt builds on an earlier one.   *)
THEOREM AttemptsAreWhole == Spec => WholeAttempt
<1>1. Init => AttemptInv
  BY DEF Init, AttemptInv
<1>2. TypeOK => DataOK
  BY DEF TypeOK
<1>3. DataOK /\ AttemptInv /\ [Next]_vars => AttemptInv'
  BY AttemptStep
<1>4. DataOK /\ AttemptInv /\ [Next]_vars =>
        [\A u \in completed' \ completed : u.kind = "step" =>
           part = "post" /\ succeeded = {"pre", "main"}]_vars
  BY AttemptStep
<1> QED
  BY <1>1, <1>2, <1>3, <1>4, TypeCorrect, PTL DEF Spec, WholeAttempt

-----------------------------------------------------------------------------
(* Engine implements Pipeline, for every set of configurations: each step  *)
(* of the engine either completes the next unit of the plan, or fails the  *)
(* command for good, or changes nothing the contract speaks of.            *)

(* The engine is still working through its plan, and at this unit of it.   *)
Running == {"preflight", "preHook", "step", "backoff", "postHook", "boundary"}

Here ==
  UnitAt(phase,
         IF pc = "backoff" THEN "step" ELSE pc,
         IF pc \in {"step", "backoff"} THEN index ELSE 0)

Before(u) == {v \in Plan : Precedes(v, u)}

(* What has succeeded is exactly what the plan puts before the engine's    *)
(* position.                                                               *)
PositionInv ==
  /\ command # "reset" => phase = command
  /\ pc \in Running => exitCode = 0 /\ Here \in Plan /\ completed = Before(Here)

-----------------------------------------------------------------------------
(* The plan and its order.                                                 *)

(* A phase of a configuration has finitely many steps.                     *)
LEMMA StepsType ==
  ASSUME NEW c \in Configs, NEW p \in Phases
  PROVE  Len(c.steps[p]) \in Nat
BY ConfigsAssumption DEF Config

(* Membership of the plan, spelled out.                                    *)
LEMMA PlanMember ==
  ASSUME DataOK, NEW u
  PROVE  u \in Plan <=>
           /\ u \in Unit
           /\ command = "reset" \/ command = u.phase
           /\ \/ u.kind \in {"preflight", "preHook", "postHook"} /\ u.index = 0
              \/ u.kind = "step" /\ u.index \in 1..Len(cfg.steps[u.phase])
              \/ /\ u.kind = "boundary" /\ u.index = 0
                 /\ u.phase = "down" /\ command = "reset"
BY DEF DataOK, Plan, PhasePlan, Unit, UnitAt, Kinds, Phases, Commands

(* The number a kind is ordered by.                                        *)
LEMMA Ranks ==
  /\ KindRank["preflight"] = 1 /\ KindRank["preHook"] = 2 /\ KindRank["step"] = 3
  /\ KindRank["postHook"] = 4 /\ KindRank["boundary"] = 5
BY DEF KindRank, Kinds

(* No unit precedes itself.                                                *)
LEMMA Irreflexive == ASSUME NEW u \in Unit PROVE ~Precedes(u, u)
<1>1. KindRank[u.kind] \in Nat
  BY Ranks DEF Unit, Kinds
<1> QED
  BY <1>1 DEF Precedes, Unit, Phases

(* The contract orders units as the engine does.                           *)
LEMMA SameOrder ==
  /\ Contract!Unit = Unit
  /\ \A u, v : Contract!Precedes(u, v) <=> Precedes(u, v)
<1>1. Contract!KindRank = KindRank
  BY DEF Contract!KindRank, KindRank, Contract!Kinds, Kinds
<1> QED
  BY <1>1 DEF Contract!Precedes, Precedes, Contract!Unit, Unit, Contract!Kinds, Kinds,
              Contract!Phases, Phases

(* v comes right after u in the plan.                                      *)
Adjacent(u, v) == \A w \in Plan : Precedes(w, v) <=> Precedes(w, u) \/ w = u

(* The units the engine goes through are neighbours in the plan, one       *)
(* after the other.                                                        *)
LEMMA AdjacentUnits ==
  ASSUME DataOK, NEW p \in Phases, NEW i \in Nat \ {0}
  PROVE  /\ Adjacent(UnitAt(p, "preflight", 0), UnitAt(p, "preHook", 0))
         /\ Adjacent(UnitAt(p, "preHook", 0), UnitAt(p, "step", 1))
         /\ Len(cfg.steps[p]) = 0 =>
              Adjacent(UnitAt(p, "preHook", 0), UnitAt(p, "postHook", 0))
         /\ Adjacent(UnitAt(p, "step", i), UnitAt(p, "step", i + 1))
         /\ Len(cfg.steps[p]) = i =>
              Adjacent(UnitAt(p, "step", i), UnitAt(p, "postHook", 0))
         /\ Adjacent(UnitAt(p, "postHook", 0), UnitAt(p, "boundary", 0))
         /\ Adjacent(UnitAt("down", "boundary", 0), UnitAt("up", "preflight", 0))
<1> USE PlanMember, Ranks DEF Adjacent, Precedes, UnitAt, Unit, Kinds, Phases
<1>1. Adjacent(UnitAt(p, "preflight", 0), UnitAt(p, "preHook", 0))
  OBVIOUS
<1>2. Adjacent(UnitAt(p, "preHook", 0), UnitAt(p, "step", 1))
  OBVIOUS
<1>3. ASSUME Len(cfg.steps[p]) = 0
      PROVE  Adjacent(UnitAt(p, "preHook", 0), UnitAt(p, "postHook", 0))
  BY <1>3
<1>4. Adjacent(UnitAt(p, "step", i), UnitAt(p, "step", i + 1))
  OBVIOUS
<1>5. ASSUME Len(cfg.steps[p]) = i
      PROVE  Adjacent(UnitAt(p, "step", i), UnitAt(p, "postHook", 0))
  BY <1>5
<1>6. Adjacent(UnitAt(p, "postHook", 0), UnitAt(p, "boundary", 0))
  OBVIOUS
<1>7. Adjacent(UnitAt("down", "boundary", 0), UnitAt("up", "preflight", 0))
  OBVIOUS
<1> QED
  BY <1>1, <1>2, <1>3, <1>4, <1>5, <1>6, <1>7

(* A step that moves from a unit of the plan to the one right after it     *)
(* completes that unit, as Pipeline demands, and keeps the invariant.      *)
LEMMA Advance ==
  ASSUME TypeOK, PositionInv, pc \in Running,
         UNCHANGED <<cfg, command, exitCode>>,
         command' # "reset" => phase' = command',
         completed' = completed \cup {Here},
         pc' \in Running, Here' \in Plan,
         Adjacent(Here, Here')
  PROVE  PositionInv' /\ Contract!Succeed(Here)
<1>1. Plan' = Plan
  BY DEF Plan, PhasePlan
<1>2. Here \in Plan /\ completed = Before(Here) /\ exitCode = 0
  BY DEF PositionInv
<1>3. Here \in Unit /\ Here' \in Unit
  BY <1>1, <1>2, PlanMember DEF TypeOK
<1>4. Here \notin completed
  BY <1>2, <1>3, Irreflexive DEF Before
<1>5. completed' = {v \in Plan : Precedes(v, Here')}
  BY <1>2 DEF Before, Adjacent
<1>6. Here' \notin completed'
  BY <1>3, <1>5, Irreflexive
<1>7. Outcome = "running" /\ Outcome' = "running"
  BY DEF Outcome, Running
<1>8. Contract!Succeed(Here)
  BY <1>1, <1>2, <1>4, <1>6, <1>7, SameOrder DEF Contract!Succeed, Before
<1>9. PositionInv'
  BY <1>1, <1>2, <1>5 DEF PositionInv, Before
<1> QED
  BY <1>8, <1>9

-----------------------------------------------------------------------------
(* The steps that complete a unit.                                         *)

(* A passing step keeps the invariant and completes a unit of the plan.    *)
Progress == PositionInv' /\ \E u \in Plan : Contract!Succeed(u)

(* Preflight, then the pre hook.                                           *)
LEMMA PreflightProgress == TypeOK /\ PositionInv /\ PreflightPasses => Progress
<1> SUFFICES ASSUME TypeOK, PositionInv, PreflightPasses
             PROVE  Progress
  OBVIOUS
<1>1. pc = "preflight" /\ pc' = "preHook" /\ pc \in Running /\ pc' \in Running
  BY DEF PreflightPasses, Running
<1>2. /\ UNCHANGED <<cfg, command, exitCode, phase>>
      /\ completed' = completed \cup {Here}
  BY <1>1 DEF PreflightPasses, Complete, Here, static, report
<1>3. Here = UnitAt(phase, "preflight", 0) /\ Here' = UnitAt(phase, "preHook", 0)
  BY <1>1, <1>2 DEF Here
<1>4. Here \in Plan /\ (command # "reset" => phase = command) /\ phase \in Phases
  BY <1>1 DEF PositionInv, TypeOK, DataOK
<1>5. Here' \in Plan
  BY <1>3, <1>4, PlanMember DEF TypeOK, UnitAt, Unit, Kinds
<1>6. Adjacent(Here, Here')
  BY <1>3, <1>4, AdjacentUnits DEF TypeOK
<1> QED
  BY <1>1, <1>2, <1>4, <1>5, <1>6, Advance DEF Progress

(* The pre hook, then the first step, or the post hook if there is none.   *)
LEMMA PreHookProgress == TypeOK /\ PositionInv /\ PreHookPasses => Progress
<1> SUFFICES ASSUME TypeOK, PositionInv, PreHookPasses
             PROVE  Progress
  OBVIOUS
<1>1. /\ pc = "preHook" /\ pc \in Running /\ pc' \in Running
      /\ pc' = (IF 1 <= Len(cfg.steps[phase]) THEN "step" ELSE "postHook") /\ index' = 1
  BY DEF PreHookPasses, GoToStep, Running
<1>2. /\ UNCHANGED <<cfg, command, exitCode, phase>>
      /\ completed' = completed \cup {Here}
  BY <1>1 DEF PreHookPasses, Complete, Here, static, report
<1>3. Here = UnitAt(phase, "preHook", 0)
  BY <1>1 DEF Here
<1>4. Here \in Plan /\ (command # "reset" => phase = command) /\ phase \in Phases
  BY <1>1 DEF PositionInv, TypeOK, DataOK
<1>5. Len(cfg.steps[phase]) \in Nat
  BY <1>4, StepsType DEF TypeOK, DataOK
<1>6. Here' \in Plan /\ Adjacent(Here, Here')
  <2>1. CASE 1 <= Len(cfg.steps[phase])
    <3>1. Here' = UnitAt(phase, "step", 1)
      BY <1>1, <1>2, <2>1 DEF Here
    <3>2. Here' \in Plan
      BY <1>3, <1>4, <1>5, <2>1, <3>1, PlanMember DEF TypeOK, UnitAt, Unit, Kinds
    <3>3. Adjacent(Here, Here')
      BY <1>3, <1>4, <1>5, <3>1, AdjacentUnits DEF TypeOK
    <3> QED
      BY <3>2, <3>3
  <2>2. CASE ~(1 <= Len(cfg.steps[phase]))
    <3>1. Here' = UnitAt(phase, "postHook", 0) /\ Len(cfg.steps[phase]) = 0
      BY <1>1, <1>2, <1>5, <2>2 DEF Here
    <3>2. Here' \in Plan
      BY <1>3, <1>4, <3>1, PlanMember DEF TypeOK, UnitAt, Unit, Kinds
    <3>3. Adjacent(Here, Here')
      BY <1>3, <1>4, <3>1, AdjacentUnits DEF TypeOK
    <3> QED
      BY <3>2, <3>3
  <2> QED
    BY <2>1, <2>2
<1> QED
  BY <1>1, <1>2, <1>4, <1>6, Advance DEF Progress

(* A step, then the one after it, or the post hook if it was the last.     *)
LEMMA StepProgress == TypeOK /\ PositionInv /\ StepPasses => Progress
<1> SUFFICES ASSUME TypeOK, PositionInv, StepPasses
             PROVE  Progress
  OBVIOUS
<1>1. /\ pc = "step" /\ pc \in Running /\ pc' \in Running
      /\ pc' = (IF index + 1 <= Len(cfg.steps[phase]) THEN "step" ELSE "postHook")
      /\ index' = index + 1
  BY DEF StepPasses, GoToStep, Running
<1>2. /\ UNCHANGED <<cfg, command, exitCode, phase>>
      /\ completed' = completed \cup {Here}
  BY <1>1 DEF StepPasses, Complete, Here, static, report
<1>3. Here = UnitAt(phase, "step", index)
  BY <1>1 DEF Here
<1>4. Here \in Plan /\ (command # "reset" => phase = command) /\ phase \in Phases
  BY <1>1 DEF PositionInv, TypeOK, DataOK
<1>5. Len(cfg.steps[phase]) \in Nat /\ index \in 1..Len(cfg.steps[phase])
  BY <1>3, <1>4, StepsType, PlanMember DEF TypeOK, DataOK, UnitAt
<1>6. Here' \in Plan /\ Adjacent(Here, Here')
  <2>1. CASE index + 1 <= Len(cfg.steps[phase])
    <3>1. Here' = UnitAt(phase, "step", index + 1)
      BY <1>1, <1>2, <2>1 DEF Here
    <3>2. Here' \in Plan
      BY <1>3, <1>4, <1>5, <2>1, <3>1, PlanMember DEF TypeOK, UnitAt, Unit, Kinds
    <3>3. Adjacent(Here, Here')
      BY <1>3, <1>4, <1>5, <3>1, AdjacentUnits DEF TypeOK
    <3> QED
      BY <3>2, <3>3
  <2>2. CASE ~(index + 1 <= Len(cfg.steps[phase]))
    <3>1. Here' = UnitAt(phase, "postHook", 0) /\ Len(cfg.steps[phase]) = index
      BY <1>1, <1>2, <1>5, <2>2 DEF Here
    <3>2. Here' \in Plan
      BY <1>3, <1>4, <3>1, PlanMember DEF TypeOK, UnitAt, Unit, Kinds
    <3>3. Adjacent(Here, Here')
      BY <1>3, <1>4, <1>5, <3>1, AdjacentUnits DEF TypeOK
    <3> QED
      BY <3>2, <3>3
  <2> QED
    BY <2>1, <2>2
<1> QED
  BY <1>1, <1>2, <1>4, <1>6, Advance DEF Progress

(* The boundary preflight, then the preflight of up.                       *)
LEMMA BoundaryProgress == TypeOK /\ PositionInv /\ BoundaryPasses => Progress
<1> SUFFICES ASSUME TypeOK, PositionInv, BoundaryPasses
             PROVE  Progress
  OBVIOUS
<1>1. /\ pc = "boundary" /\ pc' = "preflight" /\ phase' = "up"
      /\ pc \in Running /\ pc' \in Running
  BY DEF BoundaryPasses, Running
<1>2. /\ UNCHANGED <<cfg, command, exitCode>>
      /\ completed' = completed \cup {Here}
  BY <1>1 DEF BoundaryPasses, Complete, Here, static, report
<1>3. Here = UnitAt(phase, "boundary", 0) /\ Here' = UnitAt("up", "preflight", 0)
  BY <1>1 DEF Here
<1>4. Here \in Plan /\ command = "reset" /\ phase = "down"
  BY <1>1, <1>3, PlanMember DEF PositionInv, TypeOK, UnitAt
<1>5. Here' \in Plan
  BY <1>3, <1>4, PlanMember DEF TypeOK, UnitAt, Unit, Kinds, Phases
<1>6. Adjacent(Here, Here')
  BY <1>3, <1>4, AdjacentUnits DEF TypeOK, Phases
<1> QED
  BY <1>1, <1>2, <1>4, <1>5, <1>6, Advance DEF Progress

(* The post hook, then the boundary of a reset; otherwise the plan is done.*)
LEMMA PostHookProgress == TypeOK /\ PositionInv /\ PostHookPasses => Progress
<1> SUFFICES ASSUME TypeOK, PositionInv, PostHookPasses
             PROVE  Progress
  OBVIOUS
<1>1. pc = "postHook" /\ pc \in Running /\ pc' = AfterPhase
  BY DEF PostHookPasses, Running
<1>2. /\ UNCHANGED <<cfg, command, exitCode, phase>>
      /\ completed' = completed \cup {Here}
  BY <1>1 DEF PostHookPasses, Complete, Here, static, report
<1>3. Here = UnitAt(phase, "postHook", 0)
  BY <1>1 DEF Here
<1>4. /\ Here \in Plan /\ completed = Before(Here) /\ exitCode = 0
      /\ command # "reset" => phase = command
      /\ phase \in Phases /\ command \in Commands
  BY <1>1 DEF PositionInv, TypeOK, DataOK
<1>5. CASE command = "reset" /\ phase = "down"
  <2>1. pc' = "boundary" /\ pc' \in Running /\ Here' = UnitAt(phase, "boundary", 0)
    BY <1>1, <1>2, <1>5 DEF AfterPhase, Running, Here
  <2>2. Here' \in Plan
    BY <1>5, <2>1, PlanMember DEF TypeOK, UnitAt, Unit, Kinds, Phases
  <2>3. Adjacent(Here, Here')
    BY <1>3, <1>4, <2>1, AdjacentUnits DEF TypeOK
  <2> QED
    BY <1>1, <1>2, <1>4, <2>1, <2>2, <2>3, Advance DEF Progress
<1>6. CASE ~(command = "reset" /\ phase = "down")
  <2>1. pc' = "return"
    BY <1>1, <1>6 DEF AfterPhase
  <2>2. Plan \ {Here} = Before(Here)
    <3>1. ASSUME NEW w \in Plan, w # Here
          PROVE  Precedes(w, Here)
      BY <1>3, <1>4, <1>6, <3>1, PlanMember, Ranks
         DEF TypeOK, Precedes, UnitAt, Unit, Kinds, Phases, Commands
    <3>2. ~Precedes(Here, Here)
      BY <1>4, Irreflexive, PlanMember DEF TypeOK
    <3> QED
      BY <3>1, <3>2 DEF Before
  <2>3. Plan' = Plan /\ completed' = Plan
    BY <1>2, <1>4, <2>2 DEF Plan, PhasePlan
  <2>4. Outcome = "running" /\ Outcome' = "succeeded"
    BY <1>1, <1>2, <1>4, <2>1 DEF Outcome, Running
  <2>5. Contract!Succeed(Here)
    BY <1>2, <1>4, <2>2, <2>3, <2>4, SameOrder DEF Contract!Succeed, Before
  <2>6. PositionInv'
    BY <1>2, <1>4, <2>1 DEF PositionInv, Running
  <2> QED
    BY <1>4, <2>5, <2>6 DEF Progress
<1> QED
  BY <1>5, <1>6

-----------------------------------------------------------------------------
(* The steps that complete nothing.                                        *)

(* A step that leaves the position alone is a stutter of the contract.     *)
LEMMA Quiet ==
  ASSUME PositionInv,
         UNCHANGED <<cfg, command, exitCode, completed, phase, index>>,
         pc' = pc \/ (pc \in {"step", "backoff"} /\ pc' \in {"step", "backoff"})
  PROVE  PositionInv' /\ UNCHANGED Contract!vars
<1>1. Plan' = Plan
  BY DEF Plan, PhasePlan
<1>2. Here' = Here
  BY DEF Here
<1>3. (pc' \in Running <=> pc \in Running) /\ Outcome' = Outcome
  BY DEF Running, Outcome
<1> QED
  BY <1>1, <1>2, <1>3 DEF PositionInv, Before, Contract!vars

(* A step after which the command has failed is the contract's failure, or *)
(* comes after it.                                                         *)
LEMMA Failing ==
  ASSUME PositionInv,
         UNCHANGED <<cfg, command, completed, phase>>,
         pc' \notin Running, Outcome' = "failed", Outcome # "succeeded"
  PROVE  PositionInv' /\ [Contract!Next]_(Contract!vars)
<1>1. Plan' = Plan
  BY DEF Plan, PhasePlan
<1>2. PositionInv'
  BY DEF PositionInv
<1>3. CASE Outcome = "running"
  BY <1>1, <1>2, <1>3 DEF Contract!Next, Contract!Fail
<1>4. CASE Outcome = "failed"
  BY <1>1, <1>2, <1>4 DEF Contract!vars
<1> QED
  BY <1>3, <1>4 DEF Outcome

(* Every step of the engine is a step of the contract, and keeps the       *)
(* invariant that says which one.                                          *)
LEMMA ContractStep ==
  TypeOK /\ PositionInv /\ [Next]_vars => PositionInv' /\ [Contract!Next]_(Contract!vars)
<1> SUFFICES ASSUME TypeOK, PositionInv, [Next]_vars
             PROVE  PositionInv' /\ [Contract!Next]_(Contract!vars)
  OBVIOUS
<1> USE DEF static, control, context, report, history
<1>1. CASE PreflightPasses \/ PreHookPasses \/ StepPasses \/ BoundaryPasses
             \/ PostHookPasses
  BY <1>1, PreflightProgress, PreHookProgress, StepProgress, BoundaryProgress,
     PostHookProgress DEF Progress, Contract!Next
<1>2. CASE BeginCall
  BY <1>2, Quiet DEF BeginCall
<1>3. CASE PartPasses
  BY <1>3, Quiet DEF PartPasses
<1>4. ASSUME NEW e \in Errors, AttemptFails(e)
      PROVE  PositionInv' /\ UNCHANGED Contract!vars
  BY <1>4, Quiet DEF AttemptFails
<1>5. CASE BackoffExpires
  BY <1>5, Quiet DEF BackoffExpires
<1>6. CASE OnTrip \/ WatchdogExits \/ Signal \/ RunTimeout
  BY <1>6, Quiet DEF OnTrip, WatchdogExits, Signal, RunTimeout
<1>7. CASE UNCHANGED vars
  BY <1>7, Quiet DEF vars
<1>8. ASSUME NEW e \in Errors, PreflightOrHookFails(e) \/ StepFails(e)
      PROVE  PositionInv' /\ [Contract!Next]_(Contract!vars)
  BY <1>8, Failing DEF PreflightOrHookFails, StepFails, Abort, Running, Outcome
<1>9. CASE BackoffCancelled
  <2>1. /\ pc' = "finish" /\ pc = "backoff"
        /\ UNCHANGED <<cfg, command, completed, phase>>
    BY <1>9 DEF BackoffCancelled, Abort
  <2>2. pc' \notin Running /\ Outcome' = "failed" /\ Outcome # "succeeded"
    BY <2>1 DEF Running, Outcome
  <2> QED
    BY <2>1, <2>2, Failing
<1>10. ASSUME NEW e \in Errors, BoundaryFails(e)
       PROVE  PositionInv' /\ [Contract!Next]_(Contract!vars)
  <2>1. exitCode' # 0
    BY <1>10, FailureCode DEF BoundaryFails
  <2> QED
    BY <1>10, <2>1, Failing DEF BoundaryFails, Running, Outcome
<1>11. CASE LogInterrupt
  BY <1>11, Failing DEF LogInterrupt, Running, Outcome
<1>12. CASE ChooseEvent
  BY <1>12, Failing DEF ChooseEvent, Running, Outcome
<1>13. CASE PostChannel
  BY <1>13, Quiet DEF PostChannel
<1>14. CASE DispatchReturns
  BY <1>14, Failing DEF DispatchReturns, Running, Outcome
<1>15. ASSUME NEW e \in Errors \cup {"nil"}, OnErrorReturns(e)
       PROVE  PositionInv' /\ [Contract!Next]_(Contract!vars)
  <2>1. exitCode' # 0
    BY <1>15, FailureCode DEF OnErrorReturns
  <2> QED
    BY <1>15, <2>1, Failing DEF OnErrorReturns, Running, Outcome
<1>16. CASE Return
  <2>1. Plan' = Plan /\ Outcome' = Outcome
    BY <1>16 DEF Return, Outcome, Plan, PhasePlan
  <2> QED
    BY <1>16, <2>1 DEF Return, PositionInv, Running, Contract!vars
<1> QED
  BY <1>1, <1>2, <1>3, <1>4, <1>5, <1>6, <1>7, <1>8, <1>9, <1>10, <1>11, <1>12,
     <1>13, <1>14, <1>15, <1>16
     DEF Next, EngineStep, PhaseStep, PipelineStep, FinishStep, WatchdogStep,
         Terminated

(* A command starts before the first unit of its plan, with nothing done.  *)
LEMMA ContractInit == Init /\ TypeOK => PositionInv /\ Contract!Init
<1> SUFFICES ASSUME Init, TypeOK
             PROVE  PositionInv /\ Contract!Init
  OBVIOUS
<1>1. /\ pc = "preflight" /\ Here = UnitAt(phase, "preflight", 0)
      /\ command # "reset" => phase = command
      /\ command = "up" => phase = "up"
      /\ command # "up" => phase = "down"
      /\ phase \in Phases /\ command \in Commands
      /\ completed = {} /\ exitCode = 0
  BY DEF Init, Here, Phases, Commands
<1>2. Here \in Plan
  BY <1>1, PlanMember DEF TypeOK, UnitAt, Unit, Kinds, Phases, Commands
<1>3. Before(Here) = {}
  <2> SUFFICES ASSUME NEW w \in Plan
               PROVE  ~Precedes(w, Here)
    BY DEF Before
  <2> QED
    BY <1>1, PlanMember, Ranks
       DEF TypeOK, Precedes, UnitAt, Unit, Kinds, Phases, Commands
<1>4. Plan \subseteq Unit
  BY PlanMember DEF TypeOK
<1> QED
  BY <1>1, <1>2, <1>3, <1>4, SameOrder DEF PositionInv, Contract!Init, Outcome

(* The engine is where the units it has completed say it is.               *)
LEMMA PositionHolds == Spec => []PositionInv
<1> QED
  BY TypeCorrect, ContractInit, ContractStep, PTL DEF Spec

(* kzero keeps its contract: units one at a time and in order, nothing     *)
(* after a failure, exit code 0 exactly when the plan has succeeded.       *)
THEOREM EngineImplementsPipeline == Spec => FailFast
BY TypeCorrect, PositionHolds, ContractInit, ContractStep, PTL
   DEF Spec, FailFast, Contract!Spec

-----------------------------------------------------------------------------
(* The account of a failure.                                               *)

(* What the exit code of a failed command says of the alert and of the     *)
(* process that failed.                                                    *)
Accounted ==
  /\ Unheard => exitCode = 4 /\ onErrorRuns = 0
  /\ exitCode = 4 => Unheard \/ err \in Exited
  /\ exitCode = 3 \/ Unheard \/ err \in {"killed"} \cup Exited
  /\ event = "none" => command = "reset" /\ completed = PhasePlan("down")

(* What holds of a command that is over holds as soon as it returns; and   *)
(* only an event that is sent is posted.                                   *)
AccountInv ==
  /\ pc = "post" => Sends(event)
  /\ pc \in {"return", "done"} /\ exitCode # 0 => Accounted

(* Without an alert that was required and did not arrive, the code is 3 or *)
(* that of the process that failed.                                        *)
LEMMA CodeHasSource ==
  ASSUME NEW e, NEW c \in ExitCodes(e)
  PROVE  /\ c = 4 => e \in Exited
         /\ c = 3 \/ e \in {"killed"} \cup Exited
BY DEF ExitCodes

(* At the boundary of a reset all of the down phase is done.               *)
LEMMA BoundaryCompleted ==
  ASSUME TypeOK, PositionInv, pc = "boundary"
  PROVE  command = "reset" /\ completed = PhasePlan("down")
<1>1. /\ Here = UnitAt(phase, "boundary", 0) /\ Here \in Plan
      /\ completed = {v \in Plan : Precedes(v, Here)}
  BY DEF PositionInv, Running, Here, Before
<1>2. command = "reset" /\ phase = "down"
  BY <1>1, PlanMember DEF TypeOK, UnitAt
<1>3. ASSUME NEW v
      PROVE  v \in PhasePlan("down") <=> v \in Plan /\ Precedes(v, UnitAt("down", "boundary", 0))
  <2>1. v \in PhasePlan("down") <=>
          /\ v \in Unit /\ v.phase = "down"
          /\ \/ v.kind \in {"preflight", "preHook", "postHook"} /\ v.index = 0
             \/ v.kind = "step" /\ v.index \in 1..Len(cfg.steps["down"])
    BY DEF PhasePlan, Unit, UnitAt, Kinds, Phases
  <2>2. ASSUME v \in Unit
        PROVE  Precedes(v, UnitAt("down", "boundary", 0))
                 <=> v.phase = "down" /\ v.kind # "boundary"
    <3>1. v.kind \in Kinds /\ v.index \in Nat /\ v.phase \in Phases
      BY <2>2 DEF Unit
    <3>2. KindRank[v.kind] < 5 <=> v.kind # "boundary"
      BY <3>1, Ranks DEF Kinds
    <3>3. Precedes(v, UnitAt("down", "boundary", 0)) <=>
            /\ v.phase = "down"
            /\ KindRank[v.kind] < 5 \/ (v.kind = "boundary" /\ v.index < 0)
      BY <3>1, Ranks DEF Precedes, UnitAt, Phases
    <3> QED
      BY <3>1, <3>2, <3>3
  <2> QED
    BY <1>2, <2>1, <2>2, PlanMember DEF TypeOK
<1> QED
  BY <1>1, <1>2, <1>3

(* AccountInv is kept by every step.                                       *)
LEMMA AccountStep ==
  ASSUME TypeOK, PositionInv, CauseInv, ReportInv, AccountInv, [Next]_vars
  PROVE  AccountInv'
<1> USE DEF static, control, context, report, history
<1>1. CASE BeginCall
  BY <1>1 DEF BeginCall, AccountInv, Sends
<1>2. ASSUME NEW e \in Errors, BoundaryFails(e)
      PROVE  AccountInv'
  <2>1. pc = "boundary" /\ event = "none"
    BY <1>2 DEF BoundaryFails, CauseInv
  <2>2. command = "reset" /\ completed = PhasePlan("down")
    BY <2>1, BoundaryCompleted
  <2>3. /\ pc' = "return" /\ err' = e
        /\ UNCHANGED <<cfg, command, completed, event>>
        /\ (exitCode' = 4 => err' \in Exited)
        /\ (exitCode' = 3 \/ err' \in {"killed"} \cup Exited)
    BY <1>2, CodeHasSource DEF BoundaryFails
  <2> QED
    BY <2>1, <2>2, <2>3 DEF AccountInv, Accounted, Unheard, PhasePlan
<1>3. CASE \/ PreflightPasses \/ PreHookPasses \/ PostHookPasses \/ BoundaryPasses
           \/ \E e \in Errors : PreflightOrHookFails(e) \/ StepFails(e) \/ AttemptFails(e)
           \/ PartPasses \/ StepPasses \/ BackoffExpires \/ BackoffCancelled \/ LogInterrupt
  <2>1. pc \notin {"return", "done"} /\ pc' \notin {"post", "done"} /\ UNCHANGED exitCode
    BY <1>3 DEF PreflightPasses, PreHookPasses, PostHookPasses, BoundaryPasses,
       PreflightOrHookFails, StepFails, AttemptFails, PartPasses, StepPasses, BackoffExpires,
       BackoffCancelled, LogInterrupt, Abort, GoToStep, AfterPhase
  <2>2. exitCode' = 0
    BY <2>1 DEF ReportInv
  <2> QED
    BY <2>1, <2>2 DEF AccountInv, Accounted
<1>4. CASE ChooseEvent
  BY <1>4 DEF ChooseEvent, AccountInv, Sends
<1>5. CASE PostChannel
  BY <1>5 DEF PostChannel, AccountInv, Sends
<1>6. CASE DispatchReturns
  <2>1. /\ pc = "post" /\ Sends(event) /\ event # "none"
        /\ exitCode = 0 /\ onErrorRuns = 0
    BY <1>6 DEF DispatchReturns, AccountInv, ReportInv, TypeOK, DataOK
  <2>2. /\ UNCHANGED <<cfg, event, posted, delivered, onErrorRuns>>
        /\ \/ pc' = "onError"
           \/ cfg.require /\ Undelivered # {} /\ exitCode' = 4
    BY <1>6 DEF DispatchReturns, MustDeliver
  <2> QED
    BY <2>1, <2>2 DEF AccountInv, Accounted, Unheard, Sends, Undelivered
<1>7. ASSUME NEW e \in Errors \cup {"nil"}, OnErrorReturns(e)
      PROVE  AccountInv'
  <2>1. event # "none" /\ ~Unheard
    BY <1>7 DEF OnErrorReturns, ReportInv, Unheard
  <2>2. /\ UNCHANGED <<cfg, event, posted, delivered>>
        /\ pc' = "return" /\ err' = err
        /\ (exitCode' = 4 => err' \in Exited)
        /\ (exitCode' = 3 \/ err' \in {"killed"} \cup Exited)
    BY <1>7, CodeHasSource DEF OnErrorReturns
  <2> QED
    BY <2>1, <2>2 DEF AccountInv, Accounted, Unheard, Sends, Undelivered
<1>8. CASE Return \/ WatchdogStep \/ Signal \/ RunTimeout \/ UNCHANGED vars
  <2>1. /\ UNCHANGED <<cfg, command, err, event, posted, delivered, onErrorRuns,
                       exitCode, completed>>
        /\ \/ pc' = pc
           \/ pc = "return" /\ pc' = "done"
    BY <1>8 DEF Return, WatchdogStep, OnTrip, WatchdogExits, Signal, RunTimeout, vars
  <2> QED
    BY <2>1 DEF AccountInv, Accounted, Unheard, Sends, Undelivered, PhasePlan
<1> QED
  BY <1>1, <1>2, <1>3, <1>4, <1>5, <1>6, <1>7, <1>8
     DEF Next, EngineStep, PhaseStep, PipelineStep, FinishStep, Terminated

(* Every failed command but one stopped at the boundary of a reset has     *)
(* chosen its event.  Its exit code is 4, with no on-error hook, whenever  *)
(* an alert that had to arrive has not; otherwise it is the code of the    *)
(* process that failed, or 3.                                              *)
THEOREM FailuresAreAccountedFor == Spec => []FailureIsAccountedFor
<1>1. Init => AccountInv
  BY DEF Init, AccountInv
<1>2. TypeOK /\ PositionInv /\ CauseInv /\ ReportInv /\ AccountInv /\ [Next]_vars => AccountInv'
  BY AccountStep
<1>3. AccountInv => FailureIsAccountedFor
  BY DEF AccountInv, Accounted, FailureIsAccountedFor
<1> QED
  BY <1>1, <1>2, <1>3, TypeCorrect, PositionHolds, CauseHolds, ReportHolds, PTL DEF Spec

-----------------------------------------------------------------------------
(* The engine and its watchdog.                                            *)

(* Nothing of the engine's own touches the watchdog; once a command        *)
(* returns it does not go on, and it is over only by returning.            *)
LEMMA EngineLeavesWatchdog ==
  ASSUME EngineStep
  PROVE  /\ UNCHANGED <<stalled, watchdog, ctx>>
         /\ pc \in {"return", "done"} => pc' \in {"return", "done"}
         /\ pc' = "done" => pc = "done" \/ Return
<1> USE DEF static, control, context, report, history
<1>1. CASE BeginCall
  BY <1>1 DEF BeginCall, Calls
<1>2. CASE PhaseStep
  <2>1. CASE PreflightPasses \/ PreHookPasses
    BY <2>1 DEF PreflightPasses, PreHookPasses, GoToStep
  <2>2. CASE PostHookPasses \/ BoundaryPasses
    BY <2>2 DEF PostHookPasses, BoundaryPasses, AfterPhase
  <2>3. ASSUME NEW e, PreflightOrHookFails(e)
        PROVE  UNCHANGED <<stalled, watchdog, ctx>> /\ pc \notin {"return", "done"} /\ pc' # "done"
    BY <2>3 DEF PreflightOrHookFails, Abort
  <2>4. ASSUME NEW e, BoundaryFails(e)
        PROVE  UNCHANGED <<stalled, watchdog, ctx>> /\ pc \notin {"return", "done"} /\ pc' # "done"
    BY <2>4 DEF BoundaryFails
  <2> QED
    BY <1>2, <2>1, <2>2, <2>3, <2>4 DEF PhaseStep
<1>3. CASE PipelineStep
  BY <1>3 DEF PipelineStep, PartPasses, StepPasses, StepFails, AttemptFails, BackoffExpires,
     BackoffCancelled, Returns, Abort, GoToStep
<1>4. CASE FinishStep
  BY <1>4 DEF FinishStep, LogInterrupt, ChooseEvent, PostChannel, DispatchReturns,
     OnErrorReturns, Return, Returns
<1> QED
  BY <1>1, <1>2, <1>3, <1>4 DEF EngineStep

(* Each step is one of the contract or changes nothing it speaks of.       *)
LEMMA WireStep == TypeOK /\ [Next]_vars => [Wire!Next]_(Wire!vars)
<1> SUFFICES ASSUME TypeOK, [Next]_vars
             PROVE  Wire!Next \/ UNCHANGED <<Guard, stalled, Watched>>
  BY DEF Wire!vars
<1> USE DEF Guard, Watched, static, control, context, report, history
<1>1. CASE EngineStep
  <2>1. /\ UNCHANGED <<stalled, watchdog, ctx>>
        /\ pc \in {"return", "done"} => pc' \in {"return", "done"}
    BY <1>1, EngineLeavesWatchdog
  <2>2. UNCHANGED Watched \/ (Watched = "live" /\ Watched' = "over")
    BY <2>1
  <2>3. Watched = "live" /\ Watched' = "over" => Wire!EndContext
    BY <2>1 DEF Wire!EndContext
  <2> QED
    BY <2>1, <2>2, <2>3 DEF Wire!Next
<1>2. CASE OnTrip
  <2>1. SetStalled("armed", "tripping") => Wire!Mark
    BY <1>2 DEF OnTrip, SetStalled, Wire!Mark
  <2>2. CancelStep("tripping", "tripped") => Wire!CancelContext
    BY <1>2 DEF OnTrip, CancelStep, Cancel, Wire!CancelContext
  <2> QED
    BY <1>2, <2>1, <2>2 DEF OnTrip, OnTripWrites, Wire!Next
<1>3. CASE WatchdogExits
  <2>1. Wire!Leave
    BY <1>3 DEF WatchdogExits, WatchdogMayExit, Wire!Leave
  <2> QED
    BY <2>1 DEF Wire!Next
<1>4. CASE Signal \/ RunTimeout
  <2>1. /\ UNCHANGED <<stalled, watchdog, pc>> /\ ctx = "live" /\ ctx' # "live"
    BY <1>4 DEF Signal, RunTimeout, Cancel
  <2>2. UNCHANGED Watched \/ Wire!EndContext
    BY <2>1 DEF Wire!EndContext
  <2> QED
    BY <2>1, <2>2 DEF Wire!Next
<1>5. CASE Terminated \/ UNCHANGED vars
  BY <1>5 DEF Terminated, vars
<1> QED
  BY <1>1, <1>2, <1>3, <1>4, <1>5 DEF Next, WatchdogStep

(* The watchdog inside of Engine keeps the contract of Tripwire, as the    *)
(* one of Watchdog does.                                                   *)
THEOREM EngineSeesTripwire == Spec => WatchdogContract
<1>1. Init => Wire!Init
  BY DEF Init, Wire!Init, Guard, Watched
<1> QED
  BY <1>1, TypeCorrect, WireStep, PTL DEF Spec, WatchdogContract, Wire!Spec

(* Stop has waited for the goroutine.                                      *)
StopInv == pc = "done" => watchdog \in {"off", "stopped"}

(* StopInv is kept by every step.                                          *)
LEMMA StopStep == TypeOK /\ StopInv /\ [Next]_vars => StopInv'
<1> SUFFICES ASSUME TypeOK, StopInv, [Next]_vars
             PROVE  StopInv'
  OBVIOUS
<1> USE DEF StopInv, static, control, context, report, history
<1>1. CASE EngineStep
  <2>1. UNCHANGED watchdog /\ (pc' = "done" => pc = "done" \/ Return)
    BY <1>1, EngineLeavesWatchdog
  <2> QED
    BY <2>1 DEF Return
<1>2. CASE WatchdogStep
  BY <1>2 DEF WatchdogStep, OnTrip, OnTripWrites, SetStalled, CancelStep, WatchdogExits
<1>3. CASE Signal \/ RunTimeout
  BY <1>3 DEF Signal, RunTimeout
<1>4. CASE Terminated \/ UNCHANGED vars
  BY <1>4 DEF Terminated, vars
<1> QED
  BY <1>1, <1>2, <1>3, <1>4 DEF Next

(* What a watchdog that keeps the contract may do to the context, Engine   *)
(* allows in every reachable state: so what is shown of Engine holds with  *)
(* any such watchdog, that of Watchdog among them.                         *)
LEMMA EngineAllowsTripwire ==
  ASSUME TypeOK, StopInv, UNCHANGED <<static, control, report, history>>
  PROVE  /\ Wire!Mark /\ UNCHANGED ctx => OnTrip
         /\ Wire!CancelContext /\ Cancel("trip") => OnTrip
         /\ Wire!Leave /\ UNCHANGED ctx /\ watchdog' # "off" => WatchdogExits
<1>1. Wire!Mark /\ UNCHANGED ctx => OnTrip
  BY DEF Wire!Mark, Guard, OnTrip, OnTripWrites, SetStalled
<1>2. Wire!CancelContext /\ Cancel("trip") => OnTrip
  BY DEF Wire!CancelContext, Guard, OnTrip, OnTripWrites, CancelStep
<1>3. Wire!Leave /\ UNCHANGED ctx /\ watchdog' # "off" => WatchdogExits
  <2> SUFFICES ASSUME Wire!Leave, UNCHANGED ctx, watchdog' # "off"
               PROVE  WatchdogExits
    OBVIOUS
  <2>1. watchdog \in {"armed", "tripped"} /\ watchdog' = "stopped" /\ UNCHANGED stalled
    BY DEF Wire!Leave, Guard
  <2>2. ctx # "live" \/ pc = "return"
    BY <2>1 DEF Wire!Leave, Watched, StopInv
  <2> QED
    BY <2>1, <2>2 DEF WatchdogExits, WatchdogMayExit
<1> QED
  BY <1>1, <1>2, <1>3

(* The goroutine is gone when the command returns.                         *)
THEOREM WatchdogIsGone == Spec => []StopInv
<1>1. Init => StopInv
  BY DEF Init, StopInv
<1> QED
  BY <1>1, StopStep, TypeCorrect, PTL DEF Spec
=============================================================================
