------------------------------- MODULE Rules --------------------------------
(***************************************************************************)
(* The decisions kzero makes from what it is given, each in one place:     *)
(* whether a failure is retried, whether a configuration is loaded, what   *)
(* the readers of the cluster say of it.  A behaviour is one decision.     *)
(***************************************************************************)
EXTENDS Errors, StepConfig, Observe

CONSTANTS Failures, Configurations, Views  (* what decisions are made about *)

(* A failure: which path it came by, what the cluster had answered, the    *)
(* phrases of the command line or of the object's name, other phrases in   *)
(* the output, whether the answer comes late in a long output, the exit,   *)
(* whether the Helm SDK kept the API's error in the chain of its own.      *)
Failure == [about   : {"failure"},
            path    : {"api", "helm", "shell", "exec"},
            told    : Reason \cup {"none"},
            command : SUBSET Phrase,
            noise   : SUBSET Phrase,
            long    : BOOLEAN,
            exit    : {"code", "killed", "none"},
            chained : BOOLEAN]

ASSUME FailuresAssumption == Failures \subseteq Failure

ASSUME ConfigurationsAssumption == \A c \in Configurations : c.about = "configuration"

(* What the API says of workloads: spec.replicas, if there is one, is an   *)
(* int32 and never negative.                                               *)
ASSUME ViewsAssumption ==
  \A v \in Views :
    /\ v.about = "view"
    /\ v.up \in Seq({v.up[i] : i \in DOMAIN v.up})
    /\ \A i \in DOMAIN v.up : v.up[i].kind \in Scalable =>
         /\ v.up[i].replicas \in Int \cup {Unset}
         /\ LET o == v.live[v.up[i].name]
            IN o # Absent => /\ o.replicas \in 0..MaxInt32 \cup {Unset}
                             /\ o.progressing \in {"fine", "failed", "silent"}

VARIABLES subject, verdict

vars == <<subject, verdict>>

-----------------------------------------------------------------------------
(* Failures.                                                               *)

(* What the cluster's answer reads like.                                   *)
Words(told) == IF told = "none" THEN {} ELSE Status(told).says

ProcessFailure(f) ==
  [command |-> f.command,
   output  |-> IF f.long THEN f.noise ELSE f.noise \cup Words(f.told),
   rest    |-> IF f.long THEN Words(f.told) ELSE {},
   exit    |-> f.exit,
   cause   |-> Plain({})]

(* What the Helm SDK returns is given a prefix that names the release or   *)
(* the namespace, and no sentinel (Uninstall, UpgradeInstall, helmInstall, *)
(* ensureNamespace): nobody calls WrapAPIError.                            *)
HelmError(f) ==
  WithText(f.command \cup f.noise,
           IF f.chained /\ f.told # "none" THEN Status(f.told) ELSE Plain(Words(f.told)))

(* The error a step ends with.                                             *)
StepError(f) ==
  CASE f.path = "api"   -> WrapAPIError(Status(f.told), f.command)
    [] f.path = "helm"  -> HelmError(f)
    [] f.path = "shell" -> WrapSubprocess(ProcessFailure(f))
    [] OTHER            -> WrapPodExec(ProcessFailure(f))

DecideRetry ==
  /\ subject.about = "failure" /\ verdict = {"open"}
  /\ verdict' = IF IsRetriable(StepError(subject)) THEN {"retry"} ELSE {"final"}
  /\ UNCHANGED subject

LoadConfiguration ==
  /\ subject.about = "configuration" /\ verdict = {"open"}
  /\ verdict' = IF Load(subject) THEN {"loaded"} ELSE {"rejected"}
  /\ UNCHANGED subject

-----------------------------------------------------------------------------
(* A view: the up pipeline, the object of each step by its name, nodes and *)
(* pods, and the checks verify is configured with.                         *)

ObjectOf(view) == [s \in {view.up[i] : i \in DOMAIN view.up} |-> view.live[s.name]]

ReadersOf(view) ==
  LET live == ObjectOf(view)
  IN {r \in {"wait", "verify", "diff", "analyze"} :
        CASE r = "wait"    -> \A i \in DOMAIN view.up :
                                view.up[i].kind \in Scalable =>
                                  WaitReady(view.up[i].kind, live[view.up[i]])
          [] r = "verify"  -> VerifyReady(view.checks, view.up, live, view.nodes, view.pods)
          [] r = "diff"    -> DiffClean("up", view.up, live)
          [] OTHER         -> CheckPipelineWorkloads(<<>>, view.up, live)}

Look ==
  /\ subject.about = "view" /\ verdict = {"open"}
  /\ verdict' = ReadersOf(subject)
  /\ UNCHANGED subject

-----------------------------------------------------------------------------

Init == subject \in Failures \cup Configurations \cup Views /\ verdict = {"open"}

Decided == verdict # {"open"} /\ UNCHANGED vars

Next == DecideRetry \/ LoadConfiguration \/ Look \/ Decided

Spec == Init /\ [][Next]_vars

-----------------------------------------------------------------------------
(* Properties.                                                             *)

(* Text that IsRetriable takes for a transient failure, in an error of the *)
(* Helm SDK: a release or a namespace may be called "team-503".            *)
Misleading(f) == f.path = "helm" /\ (f.command \cup f.noise) \cap {"outage", "timeout"} # {}

(* What the cluster says is not there, or not allowed, is never asked for  *)
(* again: by client-go, kubectl, a script, helm or an exec in a pod, where-*)
(* ever it is in the output, whatever else the output, the object's name   *)
(* or the command line says.  By way of the Helm SDK the same holds only   *)
(* as long as nothing else in the error's text is misleading.              *)
PermanentIsFinal ==
  subject.about = "failure" /\ subject.told \in {"NotFound", "Forbidden"} /\ ~Misleading(subject)
    => "retry" \notin verdict

Transient(f) ==
  \/ f.told \in {"Conflict", "Timeout", "ServerTimeout", "TooManyRequests",
                 "ServiceUnavailable"}
  \/ f.noise \cap {"outage", "dial", "timeout"} # {}
  \/ f.exit = "killed"

(* Only transient failures are retried (SPECIFICATIONS.md, retry).         *)
RetryOnlyTransient ==
  subject.about = "failure" /\ "retry" \in verdict => Transient(subject)

Items(cfg) ==
  {<<"down", cfg.down[i]>> : i \in DOMAIN cfg.down} \cup
  {<<"up", cfg.up[i]>> : i \in DOMAIN cfg.up}

(* Load does not open the chart manifests of helm.workspace, nor does it   *)
(* ask for a chart in the step.  That an up release of the Helm SDK has    *)
(* one is the operator's part; without it the run fails at that step.      *)
ChartInPlace(item, phase, cfg) ==
  item.kind = "release" /\ phase = "up" /\ UsesSDK(cfg) => ChartKnown(item)

(* A configuration that is loaded has, in the configuration itself, all    *)
(* that the runner will ask of its steps half way through a run: it knows  *)
(* every kind and the execution mode, and finds every argument it needs.   *)
(* What a step needs beyond the configuration is assumed of the one kind   *)
(* whose argument may stand there: the chart of a release.                 *)
LoadedStepsRun ==
  subject.about = "configuration" /\ "loaded" \in verdict
    => /\ ModeIsKnown(subject)
       /\ \A x \in Items(subject) :
            ChartInPlace(x[2], x[1], subject) => Usable(x[2], x[1], subject)

Met(step, o) ==
  LET n == DesiredReplicas("up", step)
  IN /\ o.replicas = n
     /\ n > 0 => o.current /\ o.updated >= n /\ o.ready >= n

(* The readers agree.  Of a workload scaled as the step asks, verify says  *)
(* ready exactly when the step's own wait would have ended; and when both  *)
(* verify and diff are satisfied, the workload runs what is configured, as *)
(* it is configured: replica counts are converted on the way.  What diff   *)
(* finds as configured, analyze accepts; diff does not look at exec steps. *)
(* A Progressing=False without a message, which stops the wait but not     *)
(* verify, is left out: no controller writes one.                          *)
ObserversAgree ==
  subject.about = "view" /\ verdict # {"open"}
    => LET up   == subject.up
           work == {i \in DOMAIN up : up[i].kind \in Scalable}
           live == [i \in DOMAIN up |-> subject.live[up[i].name]]
       IN /\ /\ subject.checks = {"workloads_ready"}
             /\ \A i \in work : /\ live[i] # Absent
                                /\ live[i].replicas = AppliedReplicas("up", up[i])
                                /\ live[i].progressing # "silent"
             => ("wait" \in verdict <=> "verify" \in verdict)
          /\ "workloads_ready" \in subject.checks /\ {"verify", "diff"} \subseteq verdict
               => \A i \in work : Met(up[i], live[i])
          /\ "diff" \in verdict /\ (\A i \in DOMAIN up : up[i].kind # "exec")
               => "analyze" \in verdict
=============================================================================
