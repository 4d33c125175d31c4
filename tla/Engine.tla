------------------------------- MODULE Engine -------------------------------
(***************************************************************************)
(* One `kzero down`, `kzero up` or `kzero reset` as internal/engine runs   *)
(* it: preflight, phase hooks, pipeline steps with their pre and post      *)
(* scripts, retries, the boundary preflight of reset, and finishWithError  *)
(* with its notifications and its on-error hook.  Beside the engine run    *)
(* the operator (SIGINT/SIGTERM), the clock of run.timeout and the API     *)
(* watchdog, all of which cancel the one context every call shares.        *)
(*                                                                         *)
(* A call (a script, an API request, a Helm operation) begins and returns  *)
(* in two steps, so that a cancellation can hit it in flight.  What it     *)
(* returns is a member of Errors, the classes that retry.IsRetriable and   *)
(* isUserInterrupt tell apart, or "nil".                                   *)
(***************************************************************************)
EXTENDS Units, Sequences

CONSTANTS
  Configs,     (* the configurations a command may be started with          *)
  Channels,    (* notify channels                                           *)
  Flaky,       (* the channels whose endpoint may refuse a POST             *)
  ScriptCodes  (* what scripts, kubectl and helm may exit with              *)

Commands == {"down", "up", "reset"}
Modes    == {"live", "dry-run"}

(* A pipeline step is the set of its scripts and its main action.          *)
Parts == {"pre", "main", "post"}
Steps == {s \in SUBSET Parts : "main" \in s}

(* An "exited" process failed by itself, for a reason WrapSubprocess does  *)
(* not recognise; if "exitedFlaky", what it wrote speaks of a timeout.  A  *)
(* "killed" one was ended by the context: exec reports the signal, not the *)
(* context's error.  "permanent" stands for NotFound, Forbidden and every  *)
(* other error no rule of IsRetriable matches.                             *)
Exited == {"exited", "exitedFlaky"}
Errors == {"canceled", "deadline", "transient", "permanent", "killed"} \cup Exited

Config == [mode        : Modes,
           attempts    : Nat,                      \* retry.attempts
           steps       : [Phases -> Seq(Steps)],   \* pipelines.down, .up
           hooks       : SUBSET (Phases \X {"pre", "post"}),
           onError     : BOOLEAN,                  \* hooks.on-error
           timeout     : BOOLEAN,                  \* run.timeout > 0
           opTimeout   : BOOLEAN,                  \* run.operation_timeout > 0
           watchdog    : BOOLEAN,                  \* run.api_watchdog.enabled
           channels    : Seq(Channels),            \* those enabled, in order
           notifyError : BOOLEAN,                  \* notify.on_error
           require     : BOOLEAN]                  \* notify.require_delivery

ASSUME ConfigsAssumption == Configs \subseteq Config
ASSUME FlakyAssumption   == Flaky \subseteq Channels

(* 137 and 143 are taken for transient.                                    *)
ASSUME CodesAssumption == ScriptCodes \subseteq (1..255) \ {137, 143}

VARIABLES
  cfg, command,       \* fixed when the process starts
  pc,                 \* where the engine is
  phase, index,       \* the phase, and the step in it (from 1)
  try, part,          \* the attempt at the step, and the part of the attempt
  busy,               \* a call is in flight
  err,                \* lastErr, then the error finishWithError unwinds with
  ctx,                \* "live", or what ended the context
  stalled,            \* Engine.stalled
  watchdog,           \* the goroutine startAPIObserver started
  event,              \* the failure event dispatchPipelineError chose
  posted, delivered,  \* channels tried, channels that accepted
  interrupted,        \* "pipeline interrupted" was logged
  onErrorRuns,        \* times the on-error script was started
  exitCode,
  completed,          \* history: the units that have succeeded
  succeeded           \* history: the parts this attempt has done

static  == <<cfg, command>>
control == <<pc, phase, index, try, part, busy, err>>
context == <<ctx, stalled, watchdog>>
report  == <<event, posted, delivered, interrupted, onErrorRuns, exitCode>>
history == <<completed, succeeded>>
vars    == <<static, control, context, report, history>>

-----------------------------------------------------------------------------
(* The plan of a command: the units Pipeline asks for, in their order.     *)

PhasePlan(p) ==
  {UnitAt(p, k, 0) : k \in {"preflight", "preHook", "postHook"}}
    \cup {UnitAt(p, "step", i) : i \in 1..Len(cfg.steps[p])}

Plan ==
  IF command = "reset"
    THEN PhasePlan("down") \cup PhasePlan("up") \cup {UnitAt("down", "boundary", 0)}
    ELSE PhasePlan(command)

-----------------------------------------------------------------------------
(* Calls and contexts.                                                     *)

CtxErr == IF ctx = "timeout" THEN "deadline" ELSE "canceled"

(* retry.Attempts, retry.IsRetriable                                       *)
Attempts       == IF cfg.attempts < 1 THEN 1 ELSE cfg.attempts
IsRetriable(e) == e \in {"deadline", "transient", "exitedFlaky"}

Configured ==
  \/ pc \in {"preflight", "boundary"} /\ cfg.mode = "live"
  \/ pc = "preHook"  /\ <<phase, "pre">>  \in cfg.hooks
  \/ pc = "postHook" /\ <<phase, "post">> \in cfg.hooks
  \/ pc = "step"     /\ part \in cfg.steps[phase][index]
  \/ pc = "onError"  /\ cfg.onError

(* preflight asks for ServerVersion, which takes no context.               *)
IgnoresContext == pc \in {"preflight", "boundary"}

IsScript == pc # "step" \/ part # "main"

(* Scripts are limited by run.operation_timeout; main actions also by the  *)
(* step's own timeout and the rollout's default.                           *)
HasOwnLimit == cfg.opTimeout \/ ~IsScript

(* No call invents a cancellation or a deadline, and a dry run starts no   *)
(* subprocess.                                                             *)
Impossible ==
  {e \in {"canceled"} : ctx \notin {"signal", "trip"}}
    \cup {e \in {"deadline"} : ctx # "timeout" /\ ~HasOwnLimit}
    \cup {e \in {"killed"} \cup Exited : cfg.mode = "dry-run"}
    \cup {e \in {"killed"} : ctx = "live" /\ ~HasOwnLimit}

Results ==
  IF IgnoresContext THEN {"nil", "permanent"}
  ELSE IF cfg.mode = "dry-run" /\ IsScript THEN {"nil"}
  ELSE {"nil"} \cup (Errors \ Impossible)

(* A script, request or release operation starts only under a live context.*)
BeginCall ==
  /\ pc \in {"preflight", "preHook", "step", "postHook", "boundary", "onError"}
  /\ ~busy /\ Configured
  /\ ctx = "live" \/ IgnoresContext
  /\ busy' = TRUE
  /\ onErrorRuns' = IF pc = "onError" THEN onErrorRuns + 1 ELSE onErrorRuns
  /\ UNCHANGED <<static, pc, phase, index, try, part, err, context, history,
                 event, posted, delivered, interrupted, exitCode>>

(* Nothing is configured, or the context is already over, or the call that *)
(* was in flight returns.                                                  *)
Returns(e) ==
  /\ \/ ~busy /\ ~Configured /\ e = "nil"
     \/ ~busy /\ Configured /\ ~IgnoresContext /\ ctx # "live" /\ e = CtxErr
     \/ busy /\ e \in Results
  /\ busy' = FALSE

-----------------------------------------------------------------------------
(* runDown, runUp and RunReset.                                            *)

(* Faulty variant: steps counted from 0.                                   *)
CompleteFromZero(k, i) == completed' = completed \cup {UnitAt(phase, k, i - 1)}

Complete(k, i) == completed' = completed \cup {UnitAt(phase, k, i)}

(* Faulty variant: a new attempt resumes where the last one failed.        *)
ResumeAttempt == part' = part /\ succeeded' = {}

StartAttempt == part' = "pre" /\ succeeded' = {}

(* The loop over the phase's steps, on its way to step i.                  *)
GoToStep(i) ==
  /\ pc' = IF i <= Len(cfg.steps[phase]) THEN "step" ELSE "postHook"
  /\ index' = i /\ try' = 1
  /\ StartAttempt

Abort(e) ==
  /\ pc' = "finish" /\ err' = e
  /\ UNCHANGED <<phase, index, try, part, history>>

PreflightPasses ==
  /\ pc = "preflight" /\ Returns("nil")
  /\ pc' = "preHook"
  /\ Complete("preflight", 0)
  /\ UNCHANGED <<static, phase, index, try, part, err, context, report, succeeded>>

PreHookPasses ==
  /\ pc = "preHook" /\ Returns("nil")
  /\ Complete("preHook", 0)
  /\ GoToStep(1)
  /\ UNCHANGED <<static, phase, err, context, report>>

(* Faulty variant: a reset that ends with its down phase.                  *)
AfterPhaseForgetsUp == "return"

AfterPhase == IF command = "reset" /\ phase = "down" THEN "boundary" ELSE "return"

PostHookPasses ==
  /\ pc = "postHook" /\ Returns("nil")
  /\ Complete("postHook", 0)
  /\ pc' = AfterPhase
  /\ UNCHANGED <<static, phase, index, try, part, err, context, report, succeeded>>

PreflightOrHookFails(e) ==
  /\ pc \in {"preflight", "preHook", "postHook"} /\ Returns(e)
  /\ e # "nil"
  /\ Abort(e)
  /\ UNCHANGED <<static, context, report>>

BoundaryPasses ==
  /\ pc = "boundary" /\ Returns("nil")
  /\ Complete("boundary", 0)
  /\ pc' = "preflight" /\ phase' = "up"
  /\ UNCHANGED <<static, index, try, part, err, context, report, succeeded>>

(* What the process exits with once the command has returned e: exec's     *)
(* error has an ExitCode, -1 for a signal, which Ensure and Of leave alone *)
(* wherever it is in the chain; any other error is given 3.                *)
ExitCodes(e) ==
  IF e \in Exited THEN ScriptCodes
  ELSE IF e = "killed" THEN {255} ELSE {3}

(* RunReset returns this error itself: no finishWithError.                 *)
BoundaryFails(e) ==
  /\ pc = "boundary" /\ Returns(e)
  /\ e # "nil"
  /\ pc' = "return" /\ err' = e
  /\ exitCode' \in ExitCodes(e)
  /\ UNCHANGED <<static, phase, index, try, part, context, history,
                 event, posted, delivered, interrupted, onErrorRuns>>

(* RunPipelineStep: pre, main, post.                                       *)
PartPasses ==
  /\ pc = "step" /\ part # "post" /\ Returns("nil")
  /\ part' = IF part = "pre" THEN "main" ELSE "post"
  /\ succeeded' = succeeded \cup {part}
  /\ UNCHANGED <<static, pc, phase, index, try, err, context, report, completed>>

StepPasses ==
  /\ pc = "step" /\ part = "post" /\ Returns("nil")
  /\ Complete("step", index)
  /\ err' = "nil"
  /\ GoToStep(index + 1)
  /\ UNCHANGED <<static, phase, context, report>>

(* Faulty variant: one attempt too many.                                   *)
MayRetryOnceMore(e) == cfg.mode = "live" /\ try <= Attempts /\ IsRetriable(e)

MayRetry(e) == cfg.mode = "live" /\ try < Attempts /\ IsRetriable(e)

StepFails(e) ==
  /\ pc = "step" /\ Returns(e)
  /\ e # "nil" /\ ~MayRetry(e)
  /\ Abort(e)
  /\ UNCHANGED <<static, context, report>>

AttemptFails(e) ==
  /\ pc = "step" /\ Returns(e)
  /\ e # "nil" /\ MayRetry(e)
  /\ pc' = "backoff" /\ err' = e
  /\ UNCHANGED <<static, phase, index, try, part, context, report, history>>

(* Faulty variant: the loop forgets to count.                              *)
SameTry == try

NextTry == try + 1

(* The timer may win the select against a context that is over as well.    *)
BackoffExpires ==
  /\ pc = "backoff"
  /\ pc' = "step" /\ try' = NextTry
  /\ StartAttempt
  /\ UNCHANGED <<static, phase, index, busy, err, context, report, completed>>

BackoffCancelled ==
  /\ pc = "backoff" /\ ctx # "live"
  /\ Abort(err)
  /\ UNCHANGED <<static, busy, context, report>>

-----------------------------------------------------------------------------
(* finishWithError.                                                        *)

(* Faulty variant: a trip is taken for the operator.                       *)
AnyCancellation == err = "canceled"

IsUserInterrupt == ~stalled /\ err = "canceled"

LogInterrupt ==
  /\ pc = "finish"
  /\ interrupted' = IsUserInterrupt
  /\ pc' = "dispatch"
  /\ UNCHANGED <<static, phase, index, try, part, busy, err, context, history,
                 event, posted, delivered, onErrorRuns, exitCode>>

(* Dispatch drops the event: no channel, a dry run, notify.on_error false. *)
Sends(ev) ==
  /\ cfg.channels # << >> /\ cfg.mode = "live"
  /\ ev = "error" => cfg.notifyError

ChooseEvent ==
  /\ pc = "dispatch"
  /\ event' = IF stalled THEN "stalled" ELSE "error"
  /\ pc' = IF Sends(event') THEN "post" ELSE "onError"
  /\ UNCHANGED <<static, phase, index, try, part, busy, err, context, history,
                 posted, delivered, interrupted, onErrorRuns, exitCode>>

(* dispatchChannels: every enabled channel is tried, under the run's       *)
(* context.                                                                *)
PostChannel ==
  /\ pc = "post" /\ posted < Len(cfg.channels)
  /\ posted' = posted + 1
  /\ LET c == cfg.channels[posted + 1] IN
       \/ ctx = "live" /\ delivered' = delivered \cup {c}
       \/ (ctx # "live" \/ c \in Flaky) /\ UNCHANGED delivered
  /\ UNCHANGED <<static, control, context, history,
                 event, interrupted, onErrorRuns, exitCode>>

Undelivered == {cfg.channels[i] : i \in 1..Len(cfg.channels)} \ delivered

(* Faulty variants: one channel is enough; delivery is always required.    *)
OneIsEnough   == cfg.require /\ delivered = {}
AlwaysDeliver == Undelivered # {}

MustDeliver == cfg.require /\ Undelivered # {}

DispatchReturns ==
  /\ pc = "post" /\ posted = Len(cfg.channels)
  /\ IF MustDeliver
       THEN pc' = "return" /\ exitCode' = 4
       ELSE pc' = "onError" /\ UNCHANGED exitCode
  /\ UNCHANGED <<static, phase, index, try, part, busy, err, context, history,
                 event, posted, delivered, interrupted, onErrorRuns>>

(* The hook's own error is only added to the message.                      *)
OnErrorReturns(e) ==
  /\ pc = "onError" /\ Returns(e)
  /\ pc' = "return" /\ exitCode' \in ExitCodes(err)
  /\ UNCHANGED <<static, phase, index, try, part, err, context, history,
                 event, posted, delivered, interrupted, onErrorRuns>>

(* The deferred wd.Stop waits for the goroutine.                           *)
Return ==
  /\ pc = "return" /\ watchdog \in {"off", "stopped"}
  /\ pc' = "done"
  /\ UNCHANGED <<static, phase, index, try, part, busy, err, context, report, history>>

-----------------------------------------------------------------------------
(* Whatever cancels the context.                                           *)

Cancel(cause) == ctx' = IF ctx = "live" THEN cause ELSE ctx

Signal ==
  /\ pc # "done" /\ ctx = "live"
  /\ Cancel("signal")
  /\ UNCHANGED <<static, control, stalled, watchdog, report, history>>

RunTimeout ==
  /\ pc # "done" /\ ctx = "live" /\ cfg.timeout
  /\ Cancel("timeout")
  /\ UNCHANGED <<static, control, stalled, watchdog, report, history>>

(* OnTrip sets the flag, then cancels: two steps the engine can run        *)
(* between.  A probe that was due when the context ended may still trip.   *)
SetStalled(from, to) ==
  /\ watchdog = from /\ watchdog' = to
  /\ stalled' = TRUE /\ UNCHANGED ctx

CancelStep(from, to) ==
  /\ watchdog = from /\ watchdog' = to
  /\ Cancel("trip") /\ UNCHANGED stalled

(* Faulty variant: cancels first.                                          *)
OnTripCancelsFirst ==
  CancelStep("armed", "tripping") \/ SetStalled("tripping", "tripped")

OnTripWrites == SetStalled("armed", "tripping") \/ CancelStep("tripping", "tripped")

OnTrip == OnTripWrites /\ UNCHANGED <<static, control, report, history>>

(* Stop cancels the goroutine's own context.  Faulty variant: it does not. *)
OnlyOnCancel == ctx # "live"

WatchdogMayExit == ctx # "live" \/ pc = "return"

WatchdogExits ==
  /\ watchdog \in {"armed", "tripped"}
  /\ WatchdogMayExit
  /\ watchdog' = "stopped"
  /\ UNCHANGED <<static, control, ctx, stalled, report, history>>

-----------------------------------------------------------------------------

Init ==
  /\ cfg \in Configs /\ command \in Commands
  /\ pc = "preflight"
  /\ phase = (IF command = "up" THEN "up" ELSE "down")
  /\ index = 0 /\ try = 1 /\ part = "pre" /\ busy = FALSE /\ err = "nil"
  /\ ctx = "live" /\ stalled = FALSE
  /\ watchdog \in {"off"} \cup (IF cfg.watchdog THEN {"armed"} ELSE {})
  /\ event = "none" /\ posted = 0 /\ delivered = {}
  /\ interrupted = FALSE /\ onErrorRuns = 0 /\ exitCode = 0
  /\ completed = {} /\ succeeded = {}

PhaseStep ==
  \/ PreflightPasses
  \/ PreHookPasses
  \/ PostHookPasses
  \/ BoundaryPasses
  \/ \E e \in Errors : PreflightOrHookFails(e)
  \/ \E e \in Errors : BoundaryFails(e)

PipelineStep ==
  \/ PartPasses
  \/ StepPasses
  \/ \E e \in Errors : StepFails(e)
  \/ \E e \in Errors : AttemptFails(e)
  \/ BackoffExpires
  \/ BackoffCancelled

FinishStep ==
  \/ LogInterrupt
  \/ ChooseEvent
  \/ PostChannel
  \/ DispatchReturns
  \/ \E e \in Errors \cup {"nil"} : OnErrorReturns(e)
  \/ Return

EngineStep == BeginCall \/ PhaseStep \/ PipelineStep \/ FinishStep

WatchdogStep == OnTrip \/ WatchdogExits

(* The process is over.                                                    *)
Terminated == pc = "done" /\ UNCHANGED vars

Next == EngineStep \/ WatchdogStep \/ Signal \/ RunTimeout \/ Terminated

Spec == Init /\ [][Next]_vars

-----------------------------------------------------------------------------
(* Fairness.  The engine's own steps are taken, but a call may hang for    *)
(* ever, unless the context it was given ends or it is a preflight, whose  *)
(* request gives up by itself.  The operator, the clock and the API        *)
(* promise nothing.                                                        *)

MayHang == busy /\ ~IgnoresContext /\ ctx = "live"

FairSpec ==
  /\ Spec
  /\ WF_vars(~MayHang /\ EngineStep)
  /\ WF_vars(watchdog = "tripping" /\ OnTrip) /\ WF_vars(WatchdogExits)

-----------------------------------------------------------------------------
(* Properties.                                                             *)

Calls == {"preflight", "preHook", "step", "postHook", "boundary", "onError"}

FlagsOK == busy \in BOOLEAN /\ stalled \in BOOLEAN /\ interrupted \in BOOLEAN

DataOK ==
  /\ cfg \in Configs /\ command \in Commands
  /\ pc \in Calls \cup {"backoff", "finish", "dispatch", "post", "return", "done"}
  /\ phase \in Phases /\ index \in Nat /\ try \in Nat \ {0} /\ part \in Parts
  /\ err \in Errors \cup {"nil"}
  /\ ctx \in {"live", "signal", "timeout", "trip"}
  /\ watchdog \in {"off", "armed", "tripping", "tripped", "stopped"}
  /\ event \in {"none", "error", "stalled"}
  /\ posted \in 0..Len(cfg.channels) /\ delivered \subseteq Channels
  /\ onErrorRuns \in Nat /\ exitCode \in 0..255
  /\ completed \subseteq Unit /\ succeeded \subseteq Parts

TypeOK == FlagsOK /\ DataOK

(* The engine implements Pipeline: strictly sequential, fail-fast, reset   *)
(* never reaching up unless all of down and the boundary preflight passed, *)
(* exit code 0 exactly when the whole plan has succeeded.                  *)
Outcome ==
  IF pc \in {"preflight", "preHook", "step", "backoff", "postHook", "boundary"}
    THEN "running"
    ELSE IF pc \in {"return", "done"} /\ exitCode = 0 THEN "succeeded" ELSE "failed"

Contract == INSTANCE Pipeline WITH plan <- Plan, done <- completed, outcome <- Outcome

FailFast == Contract!Spec

(* For the goroutine the context is over once the command returns: Stop.   *)
Guard == IF watchdog = "off" THEN "stopped" ELSE watchdog

Watched == IF ctx # "live" \/ pc \in {"return", "done"} THEN "over" ELSE "live"

Wire == INSTANCE Tripwire WITH guard <- Guard, mark <- stalled, context <- Watched

(* The watchdog of the engine keeps the contract of Tripwire up to the end *)
(* of the command: Engine.stalled before the cancellation, and never again *)
(* after Stop.                                                             *)
WatchdogContract == Wire!Spec

(* A new attempt at a step follows only a retriable error, in live mode,   *)
(* and never exceeds retry.attempts.                                       *)
RetryDiscipline ==
  [][(try' = try + 1) =>
       /\ cfg.mode = "live" /\ IsRetriable(err)
       /\ try' <= cfg.attempts
       /\ index' = index /\ phase' = phase]_vars

(* Pre, main and post of a step are one unit of retry: a step completes    *)
(* only in an attempt that has run all three.                              *)
WholeAttempt ==
  [][\A u \in completed' \ completed : u.kind = "step" =>
       part = "post" /\ succeeded = {"pre", "main"}]_vars

(* "Pipeline interrupted" is logged for nobody but the operator: the trip  *)
(* of the watchdog cancels the same context with the same error, and only  *)
(* the order of its two writes tells them apart.                           *)
InterruptMeansSignal == interrupted => ctx = "signal"

(* For the same reason a run the trip cancelled is not reported as         *)
(* pipeline.error.                                                         *)
TripIsReportedAsStall == (event = "error" /\ err = "canceled") => ctx = "signal"

(* on-error starts at most once, after the failure event has gone to every *)
(* channel it is meant for, and never after a delivery that was required   *)
(* and failed.                                                             *)
OnErrorDiscipline ==
  onErrorRuns > 0 =>
    /\ onErrorRuns = 1 /\ pc \in {"onError", "return", "done"}
    /\ event # "none" /\ (Sends(event) => posted = Len(cfg.channels))
    /\ cfg.require /\ Sends(event) => Undelivered = {}

(* A failed run has chosen its event, unless it stopped at the boundary of *)
(* a reset.  It exits with 4 if an alert that was required did not arrive, *)
(* without its on-error hook; otherwise with the code of the process that  *)
(* failed, or with 3 if none did.  A script that exits with 4 is the only  *)
(* other source of a 4.                                                    *)
Unheard == event # "none" /\ Sends(event) /\ cfg.require /\ Undelivered # {}

FailureIsAccountedFor ==
  pc = "done" /\ exitCode # 0 =>
    /\ Unheard => exitCode = 4 /\ onErrorRuns = 0
    /\ exitCode = 4 => Unheard \/ err \in Exited
    /\ exitCode = 3 \/ Unheard \/ err \in {"killed"} \cup Exited
    /\ event = "none" => command = "reset" /\ completed = PhasePlan("down")

(* If no call hangs for ever, every command ends.                          *)
Termination == []<>~MayHang => <>(pc = "done")

(* Even if calls hang, a command whose context ends, ends.                 *)
CancelTerminates == (ctx # "live") ~> (pc = "done")

-----------------------------------------------------------------------------
(* What the documents say and the code does not do.                        *)

(* pipeline.stalled of a run the trip ended reaches the channels that      *)
(* answer.                                                                 *)
StallAlertDelivered ==
  pc = "done" /\ ctx = "trip" /\ err = "canceled" /\ Sends(event)
    => Undelivered \subseteq Flaky
=============================================================================
