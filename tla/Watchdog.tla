------------------------------ MODULE Watchdog ------------------------------
(***************************************************************************)
(* The API watchdog of internal/watchdog as internal/engine starts it: a   *)
(* goroutine that probes /healthz at every tick and, once probes have      *)
(* failed for fail_after, marks the engine stalled and cancels its         *)
(* context.                                                                *)
(*                                                                         *)
(* Time is a count of units.  It does not pass while the goroutine has     *)
(* something to do: scheduling takes no time beside probe intervals of     *)
(* seconds.  The API goes down and comes back at any time.                 *)
(***************************************************************************)
EXTENDS Integers

CONSTANTS
  Settings,         (* the pairs of run.api_watchdog.interval and fail_after *)
  DefaultInterval,  (* 60s *)
  DefaultFailAfter, (* 5m *)
  MaxTime           (* bound of the model *)

ASSUME SettingsAssumption == Settings \subseteq [interval : Int, failAfter : Int]
ASSUME DefaultsAssumption == DefaultInterval \in Nat \ {0} /\ DefaultFailAfter \in Nat \ {0}
ASSUME MaxTimeAssumption  == MaxTime \in Nat

VARIABLES
  settings,      \* fixed when the engine starts
  now,
  nextTick,      \* when the ticker fires next
  tick,          \* its channel holds a tick
  pc,            \* "select", "probing", "onTrip", "stepCancel", "exited"
  deadline,      \* when the context of the probe in flight expires
  failed, firstFailure, tripped,
  ctx,           \* the engine's context: "live", "trip", or ended by others
  stalled,       \* Engine.stalled
  apiUp,         \* /healthz answers
  since,         \* history: when apiUp last changed
  disturbed,     \* history: the API was down at some time in this probe
  lastGood,      \* history: when a probe last succeeded
  trips          \* history: how often OnTrip was called

timer   == <<now, nextTick, tick>>
probe   == <<pc, deadline, failed, firstFailure, tripped>>
shared  == <<ctx, stalled>>
api     == <<apiUp, since>>
history == <<disturbed, lastGood, trips>>
vars    == <<settings, timer, probe, shared, api, history>>

(* Faulty variant: a duration that is not set is taken as it is.           *)
AsConfigured == settings.interval

(* apiWatchdogTimings                                                      *)
Interval  == IF settings.interval <= 0 THEN DefaultInterval ELSE settings.interval
FailAfter == IF settings.failAfter <= 0 THEN DefaultFailAfter ELSE settings.failAfter

-----------------------------------------------------------------------------
(* The goroutine.                                                          *)

(* select may take a tick although the context is over as well.            *)
TakeTick ==
  /\ pc = "select" /\ tick
  /\ pc' = "probing" /\ tick' = FALSE
  /\ deadline' = now + Interval
  /\ disturbed' = ~apiUp
  /\ UNCHANGED <<settings, now, nextTick, failed, firstFailure, tripped, shared, api,
                 lastGood, trips>>

(* Faulty variant: only the command's own context ends the goroutine.      *)
TakeDoneOfCommand ==
  /\ pc = "select" /\ ctx = "ended"
  /\ pc' = "exited"
  /\ UNCHANGED <<settings, timer, deadline, failed, firstFailure, tripped, shared, api,
                 history>>

TakeDone ==
  /\ pc = "select" /\ ctx # "live"
  /\ pc' = "exited"
  /\ UNCHANGED <<settings, timer, deadline, failed, firstFailure, tripped, shared, api,
                 history>>

(* Faulty variant: the clock of the outage is not reset.                   *)
KeepFirstFailure == UNCHANGED <<failed, firstFailure>>

Recover == failed' = FALSE /\ firstFailure' = 0

ProbeSucceeds ==
  /\ pc = "probing" /\ apiUp
  /\ Recover
  /\ lastGood' = now
  /\ pc' = "select"
  /\ UNCHANGED <<settings, timer, deadline, tripped, shared, api, disturbed, trips>>

(* A healthy API answers before the deadline; a context that is over ends  *)
(* the request.                                                            *)
MayFail == pc = "probing" /\ (disturbed \/ ctx # "live")

FirstFailure ==
  /\ MayFail /\ ~failed
  /\ failed' = TRUE /\ firstFailure' = now
  /\ pc' = "select"
  /\ UNCHANGED <<settings, timer, deadline, tripped, shared, api, history>>

(* Faulty variant: trips again and again.                                  *)
DueAgain == now - firstFailure >= FailAfter

Due == ~tripped /\ now - firstFailure >= FailAfter

FurtherFailure ==
  /\ MayFail /\ failed
  /\ IF Due
       THEN tripped' = TRUE /\ pc' = "onTrip"
       ELSE UNCHANGED tripped /\ pc' = "select"
  /\ UNCHANGED <<settings, timer, deadline, failed, firstFailure, shared, api, history>>

(* OnTrip: the flag, then the cancellation.                                *)
OnTrip ==
  /\ pc = "onTrip"
  /\ stalled' = TRUE
  /\ trips' = trips + 1
  /\ pc' = "stepCancel"
  /\ UNCHANGED <<settings, timer, deadline, failed, firstFailure, tripped, ctx, api,
                 disturbed, lastGood>>

StepCancel ==
  /\ pc = "stepCancel"
  /\ ctx' = IF ctx = "live" THEN "trip" ELSE ctx
  /\ pc' = "select"
  /\ UNCHANGED <<settings, timer, deadline, failed, firstFailure, tripped, stalled, api,
                 history>>

GoroutineStep ==
  \/ TakeTick \/ TakeDone \/ ProbeSucceeds \/ FirstFailure \/ FurtherFailure
  \/ OnTrip \/ StepCancel

-----------------------------------------------------------------------------
(* Time and the rest of the world.                                         *)

(* Faulty variant: a probe with no time limit.                             *)
OverdueNever == FALSE

Overdue == pc = "probing" /\ (now = deadline \/ ctx # "live")

Busy ==
  \/ pc = "select" /\ (tick \/ ctx # "live")
  \/ Overdue
  \/ pc \in {"onTrip", "stepCancel"}

(* time.Ticker holds one tick and drops what comes on top.                 *)
Advance ==
  /\ now < MaxTime /\ ~Busy
  /\ now' = now + 1
  /\ IF now' = nextTick
       THEN tick' = TRUE /\ nextTick' = nextTick + Interval
       ELSE UNCHANGED <<tick, nextTick>>
  /\ UNCHANGED <<settings, probe, shared, api, history>>

ApiChanges ==
  /\ apiUp' = ~apiUp /\ since' = now
  /\ disturbed' = TRUE
  /\ UNCHANGED <<settings, timer, probe, shared, lastGood, trips>>

(* A signal, run.timeout, or Stop at the end of the command.               *)
EndedByOthers ==
  /\ ctx = "live" /\ ctx' = "ended"
  /\ UNCHANGED <<settings, timer, probe, stalled, api, history>>

-----------------------------------------------------------------------------

Init ==
  /\ settings \in Settings
  /\ now = 0 /\ nextTick = Interval /\ tick = FALSE
  /\ pc = "select" /\ deadline = 0
  /\ failed = FALSE /\ firstFailure = 0 /\ tripped = FALSE
  /\ ctx = "live" /\ stalled = FALSE
  /\ apiUp \in BOOLEAN /\ since = 0
  /\ disturbed = FALSE /\ lastGood = 0 /\ trips = 0

Next == GoroutineStep \/ Advance \/ ApiChanges \/ EndedByOthers

Spec == Init /\ [][Next]_vars

FairSpec == Spec /\ WF_vars(GoroutineStep)

-----------------------------------------------------------------------------
(* Properties.                                                             *)

TypeOK ==
  /\ settings \in Settings
  /\ now \in Nat /\ nextTick \in Nat /\ tick \in BOOLEAN
  /\ pc \in {"select", "probing", "onTrip", "stepCancel", "exited"}
  /\ deadline \in Nat
  /\ failed \in BOOLEAN /\ firstFailure \in Nat /\ tripped \in BOOLEAN
  /\ ctx \in {"live", "trip", "ended"} /\ stalled \in BOOLEAN
  /\ apiUp \in BOOLEAN /\ since \in Nat
  /\ disturbed \in BOOLEAN /\ lastGood \in Nat /\ trips \in Nat

(* The engine is told of a stall only when no probe has succeeded for at   *)
(* least fail_after.                                                       *)
TripMeansOutage == [][trips' # trips => now - lastGood >= FailAfter]_vars

(* OnTrip is called once, however many ticks select takes afterwards.      *)
OneTrip == trips <= 1

(* An outage is noticed: probes may be slow and out of step with it, but   *)
(* the engine never waits through fail_after and four intervals of it.     *)
OutageIsNoticed ==
  ctx = "live" /\ ~apiUp => now - since < FailAfter + 4 * Interval

(* The goroutine as the engine sees it.                                    *)
Guard ==
  IF pc = "exited" THEN "stopped"
  ELSE IF pc = "stepCancel" THEN "tripping"
  ELSE IF stalled THEN "tripped" ELSE "armed"

Context == IF ctx = "live" THEN "live" ELSE "over"

Contract == INSTANCE Tripwire WITH guard <- Guard, mark <- stalled, context <- Context

(* The goroutine keeps the contract of Tripwire: it trips once, marks the  *)
(* stall before it cancels, and does not exit in between, nor before its  *)
(* context is over.                                                        *)
TripsAsPromised == Contract!Spec

(* A recovery resets the clock of the outage within two intervals.         *)
RecoveryIsNoticed ==
  ctx = "live" /\ apiUp /\ now - since > 2 * Interval => ~failed

(* Stop does not wait for ever: no tick keeps the goroutine from the end   *)
(* of its context.                                                         *)
Exits == (ctx # "live") ~> (pc = "exited")
=============================================================================
