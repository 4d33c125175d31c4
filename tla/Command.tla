------------------------------ MODULE Command -------------------------------
(***************************************************************************)
(* The processes of one host, one after the other: `kzero down`, `up`,     *)
(* `reset` and `probe` as internal/cli/commands.go and probe.go run them.  *)
(* A process prints its target, announces itself, passes the infra probe   *)
(* gate, runs the engine, verifies the cluster, announces its success and  *)
(* exits with a code.  The engine is the pipeline Engine is shown to       *)
(* implement; a signal can end the context of every step that takes it,    *)
(* and a process can be killed at any point.                               *)
(***************************************************************************)
EXTENDS Probe, Units, FiniteSets

CONSTANTS
  ScriptCodes,  (* what scripts, kubectl and helm may exit with             *)
  MaxClock,     (* bound of the model: how far the clock runs               *)
  MaxStarts     (* bound of the model: how many processes are started       *)

(* 255 stands also for a process that a signal ended; of 137 and 143 the   *)
(* error keeps no more than the text.                                      *)
ASSUME CodesAssumption  == ScriptCodes \subseteq (1..255) \ {137, 143}
ASSUME BoundsAssumption == MaxClock \in Nat /\ MaxStarts \in Nat

VARIABLES
  plan, done, outcome,  \* the engine: see Pipeline
  verified,             \* the post-up verification has passed
  sent,                 \* the events given to notify.Dispatch
  exit,                 \* the exit code
  author,               \* history: who chose it, kzero or a subprocess
  starts,
  found                 \* history: what remained when the process started

engine  == <<plan, done, outcome>>
status  == <<exit, author>>
ending  == <<verified, sent, status>>
process == <<starts, found>>
vars    == <<probeVars, engine, ending, process>>

Commands == {"down", "up", "reset", "probe"}

(* A phase of the engine's plan, cut down to a unit that takes the context *)
(* and one that does not.                                                  *)
PhaseUnits(p) == {UnitAt(p, "preflight", 0), UnitAt(p, "step", 1)}

PlanOf(cmd) ==
  CASE cmd = "down"  -> PhaseUnits("down")
    [] cmd = "up"    -> PhaseUnits("up")
    [] cmd = "reset" -> PhaseUnits("down") \cup PhaseUnits("up")
    [] OTHER         -> {}

Pipeline == INSTANCE Pipeline

-----------------------------------------------------------------------------
(* Errors carry an exit code or none (internal/exitcode).                  *)

Plain           == 0
ConfigError     == 1
KubernetesError == 2
ExecutorAborted == 3
NotifyFailed    == 4

Ensure(code, e) == IF e = Plain THEN code ELSE e

(* Faulty variant: no default.                                             *)
CodeCarried(e) == e

CodeOf(e) == IF e = Plain THEN ConfigError ELSE e

Exit(code) == pc' = "exited" /\ exit' = code /\ UNCHANGED author

(* What the error of a step carries: that of a subprocess, if nothing in   *)
(* what it wrote is recognised, holds exec's error, whose ExitCode makes   *)
(* it a Coder like kzero's own.                                            *)
StepErrors == {Plain} \cup (IF Live THEN ScriptCodes ELSE {})

Abort(e) ==
  /\ pc' = "exited"
  /\ exit' = CodeOf(Ensure(ExecutorAborted, e))
  /\ author' = IF e = Plain THEN author ELSE "subprocess"

Notifies == cfg.notify /\ Live

(* Faulty variant: only the default command is gated.                      *)
OnlyReset == cfg.enabled /\ Live /\ command = "reset"

ShouldGate == cfg.enabled /\ Live /\ command \in cfg.before

ShouldAutoVerify == cfg.verify /\ Live /\ command \in {"up", "reset"}

-----------------------------------------------------------------------------

Start(c, cmd) ==
  /\ pc \in {"idle", "exited", "killed"} /\ starts < MaxStarts
  /\ starts' = starts + 1
  /\ cfg' = c /\ command' = cmd
  /\ pc' = "target" /\ index' = 1 /\ ctx' = "live"
  /\ checked' = FALSE /\ probe' = "none"
  /\ plan' = PlanOf(cmd) /\ done' = {} /\ outcome' = "none"
  /\ verified' = FALSE /\ sent' = << >> /\ exit' = 0 /\ author' = "kzero"
  /\ found' = remains
  /\ UNCHANGED <<memory, remains>>

(* writeKubernetesTarget: no target, or nowhere to print it.               *)
TargetPrinted ==
  /\ pc = "target"
  /\ pc' = IF command = "probe" THEN "probe" ELSE "start"
  /\ UNCHANGED <<place, progress, memory, remains, engine, ending, process>>

TargetFails(e) ==
  /\ pc = "target"
  /\ Exit(CodeOf(e))
  /\ UNCHANGED <<place, progress, memory, remains, engine, verified, sent, process>>

BeginMain == pc' = "main" /\ outcome' = "running" /\ UNCHANGED <<plan, done>>

(* A failed delivery of pipeline.start is only logged.                     *)
SendStart ==
  /\ pc = "start"
  /\ sent' = IF Notifies THEN <<"start">> ELSE sent
  /\ IF ShouldGate THEN pc' = "probe" /\ UNCHANGED engine ELSE BeginMain
  /\ UNCHANGED <<place, progress, memory, remains, verified, status, process>>

(* RunGate                                                                 *)
GateOpens ==
  /\ pc = "probed" /\ command # "probe"
  /\ probe \in Failed => ~cfg.failFast
  /\ BeginMain
  /\ UNCHANGED <<place, progress, memory, remains, ending, process>>

(* What the error of a failed probe carries.                               *)
ProbeErrors == IF probe = "broken" THEN StepErrors ELSE {Plain}

GateCloses(e) ==
  /\ pc = "probed" /\ command # "probe"
  /\ probe \in Failed /\ cfg.failFast /\ e \in ProbeErrors
  /\ Abort(e)
  /\ UNCHANGED <<place, progress, memory, remains, engine, verified, sent, process>>

ProbeReturns(e) ==
  /\ pc = "probed" /\ command = "probe" /\ e \in ProbeErrors
  /\ IF probe \in Failed THEN Abort(e) ELSE Exit(0)
  /\ UNCHANGED <<place, progress, memory, remains, engine, verified, sent, process>>

(* The engine's preflight ignores the context.                             *)
EngineSucceeds(u) ==
  /\ pc = "main"
  /\ u.kind = "preflight" \/ ctx = "live"
  /\ Pipeline!Succeed(u)
  /\ UNCHANGED <<probeVars, ending, process>>

(* The engine's preflight starts no subprocess.                            *)
InStep ==
  \E u \in plan \ done :
    u.kind = "step" /\ \A v \in plan : Precedes(v, u) => v \in done

(* The engine has announced the failure or, at the boundary of a reset or  *)
(* with notify.on_error off, has not.                                      *)
EngineFails(e) ==
  /\ pc = "main" /\ (e # Plain => InStep)
  /\ Pipeline!Fail
  /\ sent' \in {sent} \cup (IF Notifies THEN {Append(sent, "failure")} ELSE {})
  /\ Abort(e)
  /\ UNCHANGED <<place, progress, memory, remains, verified, process>>

(* It has, the announcement was required and did not arrive: the engine's  *)
(* own code is the first in the chain.                                     *)
DeliveryFails ==
  /\ pc = "main" /\ Notifies
  /\ Pipeline!Fail
  /\ sent' = Append(sent, "failure")
  /\ Exit(CodeOf(Ensure(ExecutorAborted, NotifyFailed)))
  /\ UNCHANGED <<place, progress, memory, remains, verified, process>>

(* Faulty variant: run.verify is forgotten.                                *)
NoVerify == "success"

AfterEngine == IF ShouldAutoVerify THEN "verify" ELSE "success"

EngineReturns ==
  /\ pc = "main" /\ outcome = "succeeded"
  /\ pc' = AfterEngine
  /\ UNCHANGED <<place, progress, memory, remains, engine, ending, process>>

(* runVerify does not take the context a signal ends.                      *)
VerifyPasses ==
  /\ pc = "verify"
  /\ verified' = TRUE /\ pc' = "success"
  /\ UNCHANGED <<place, progress, memory, remains, engine, sent, status, process>>

(* A check fails, or the report cannot be printed.                         *)
VerifyFails(e) ==
  /\ pc = "verify"
  /\ Exit(CodeOf(Ensure(ExecutorAborted, e)))
  /\ UNCHANGED <<place, progress, memory, remains, engine, verified, sent, process>>

SendSuccess ==
  /\ pc = "success"
  /\ sent' = IF Notifies THEN Append(sent, "success") ELSE sent
  /\ Exit(0)
  /\ UNCHANGED <<place, progress, memory, remains, engine, verified, process>>

-----------------------------------------------------------------------------
(* The world around the process.                                           *)

Running == pc \notin {"idle", "exited", "killed"}

(* Before pipelineRunContext a signal kills the process.                   *)
Signal ==
  /\ Running /\ pc # "target" /\ ctx = "live"
  /\ ctx' = "signal"
  /\ UNCHANGED <<cfg, command, pc, progress, memory, remains, engine, ending, process>>

Killed ==
  /\ Running
  /\ pc' = "killed" /\ entry' = NoEntry
  /\ UNCHANGED <<place, progress, cache, clock, passed, remains, engine, ending, process>>

Tick ==
  /\ clock < MaxClock
  /\ clock' = clock + 1
  /\ UNCHANGED <<place, pc, progress, entry, cache, passed, remains, engine, ending, process>>

Init ==
  /\ cfg \in Setups /\ command \in Commands
  /\ pc = "idle" /\ index = 1 /\ ctx = "live"
  /\ checked = FALSE /\ probe = "none"
  /\ entry = NoEntry /\ cache = NoEntry
  /\ clock = 1 /\ remains = {} /\ passed = [c \in Setups |-> 0]
  /\ plan = {} /\ done = {} /\ outcome = "none"
  /\ verified = FALSE /\ sent = << >> /\ exit = 0 /\ author = "kzero"
  /\ starts = 0 /\ found = {}

CommandStep ==
  \/ TargetPrinted \/ \E e \in {Plain, KubernetesError} : TargetFails(e)
  \/ SendStart \/ GateOpens
  \/ \E e \in StepErrors : GateCloses(e) \/ ProbeReturns(e) \/ EngineFails(e)
  \/ \E u \in plan : EngineSucceeds(u)
  \/ DeliveryFails \/ EngineReturns
  \/ VerifyPasses \/ \E e \in {Plain, KubernetesError} : VerifyFails(e)
  \/ SendSuccess

Next ==
  \/ \E c \in Setups, cmd \in Commands : Start(c, cmd)
  \/ CommandStep
  \/ ProbeStep /\ UNCHANGED <<engine, ending, process>>
  \/ \E c \in Setups : AnotherPasses(c) /\ UNCHANGED <<engine, ending, process>>
  \/ Signal \/ Killed \/ Tick

Spec == Init /\ [][Next]_vars
-----------------------------------------------------------------------------
(* Properties.                                                             *)

ProbePoints ==
  {"probe", "probeUp", "checks", "probeDown", "record", "write", "probed"}

Keys    == [name : Names, up : Seq(Refs), down : Seq(Refs), checks : SUBSET Checks]
Entries == {NoEntry} \cup [valid : {TRUE}, key : Keys, at : Nat]

FlagsOK == checked \in BOOLEAN /\ verified \in BOOLEAN

TypeOK ==
  /\ FlagsOK
  /\ cfg \in Setups /\ command \in Commands
  /\ pc \in ProbePoints \cup {"idle", "target", "start", "main", "verify", "success",
                              "exited", "killed"}
  /\ index \in Nat \ {0} /\ ctx \in {"live", "signal"}
  /\ probe \in {"none", "skipped", "ok"} \cup Failed
  /\ entry \in Entries /\ cache \in Entries
  /\ clock \in Nat /\ passed \in [Setups -> Nat]
  /\ remains \subseteq Clusters \X Refs /\ found \subseteq Clusters \X Refs
  /\ plan \subseteq Unit /\ done \subseteq plan
  /\ outcome \in {"none", "running", "succeeded", "failed"}
  /\ sent \in Seq({"start", "failure", "success"})
  /\ exit \in 0..255 /\ author \in {"kzero", "subprocess"}
  /\ starts \in 0..MaxStarts

(* A probe is skipped only for a probe of the same name, pipelines and     *)
(* checks (but for pods_schedulable, which the key leaves out) that has    *)
(* passed within cache_ttl: failed probes, truncated files, processes      *)
(* killed while writing and other processes notwithstanding.               *)
SameProbe(c, d) ==
  /\ c.name = d.name /\ c.up = d.up /\ c.down = d.down
  /\ \A k \in {"pvc_bound", "release_ready"} : k \in c.checks <=> k \in d.checks

PassedWithin(c, ttl) == passed[c] > 0 /\ clock < passed[c] + ttl

SkipIsEarned ==
  [][(probe # "skipped" /\ probe' = "skipped") =>
       \E c \in Setups : SameProbe(c, cfg) /\ PassedWithin(c, cfg.ttl)]_vars

(* Under infra_probe.fail_fast no unit of a gated command is done unless   *)
(* its probe has passed or was skipped, whatever cancels or kills it.      *)
Gated == cfg.enabled /\ Live /\ command \in cfg.before

GateHolds ==
  done # {} /\ Gated /\ cfg.failFast => probe \in {"ok", "skipped"}

(* What a probe sets up it takes down: a probe that passed leaves nothing  *)
(* of its own, and a command that exits with 0 leaves no more than it      *)
(* found, if its down pipeline covers up and failures count.               *)
Covered == Things(cfg.up) \subseteq Things(cfg.down)

NoLitter ==
  pc = "exited" /\ Covered =>
    /\ probe = "ok" /\ Live => Things(cfg.up) \cap remains = {}
    /\ exit = 0 /\ cfg.failFast => remains \subseteq found

Events == {sent[i] : i \in 1..Len(sent)}

(* All that was asked of the command.                                      *)
AllDone ==
  /\ command = "probe" => probe \in {"ok", "skipped"}
  /\ command # "probe" => outcome = "succeeded"
  /\ Gated /\ cfg.failFast => probe \in {"ok", "skipped"}
  /\ ShouldAutoVerify => verified

(* The exit code tells how far a command came.  0: all that was asked of   *)
(* it has succeeded.  A code of kzero's own: 1 or 2 if nothing was touched *)
(* or the whole pipeline has run, 4 only for a failed pipeline that was    *)
(* announced.  A code of a subprocess: a step of the pipeline or of the    *)
(* probe failed.                                                           *)
ExitCodeTells ==
  pc = "exited" =>
    /\ exit = 0 <=> AllDone
    /\ author = "subprocess" => outcome = "failed" \/ probe = "broken"
    /\ author = "kzero" =>
         /\ exit \in 0..4
         /\ exit \in {1, 2} => \/ outcome = "succeeded"
                               \/ outcome = "none" /\ probe = "none" /\ remains = found
         /\ exit = 4 => outcome = "failed" /\ "failure" \in Events

(* Whoever reads the alerts is not misled: success is announced last, once *)
(* and only when all is done; a failure only of the pipeline, never both,  *)
(* and never with exit code 0.                                             *)
EventsTellOutcome ==
  /\ "success" \in Events => AllDone /\ outcome = "succeeded" /\ exit = 0
  /\ "failure" \in Events => outcome = "failed" /\ exit # 0
  /\ sent # << >> => Head(sent) = "start" /\ Len(sent) = Cardinality(Events)
=============================================================================
