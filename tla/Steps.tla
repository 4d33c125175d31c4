------------------------------- MODULE Steps --------------------------------
(***************************************************************************)
(* The main actions of a pipeline against the cluster: kzero processes, one*)
(* after another, that scale, delete, suspend, create, install and wait    *)
(* (internal/engine/live_kubectl.go, live_runner.go, dry_runner.go and the *)
(* executors of internal/executor), in live and in dry-run mode, with the  *)
(* retries of the engine.  Calls fail, their replies are lost, requests    *)
(* arrive after they were given up, processes are killed.                  *)
(***************************************************************************)
EXTENDS Cluster, Helm

CONSTANTS
  Plans,     (* pipelines, with at most one step of a kind in each phase *)
  Commands,  (* <<name, mode>> of the processes *)
  Attempts,  (* retry.Attempts *)
  MaxRuns    (* bound of the model: processes *)

Modes == {"live", "dry", "plan"}   \* plan: a dry run without a client

StepsOf(p) == {p.down[i] : i \in DOMAIN p.down} \cup {p.up[i] : i \in DOMAIN p.up}

KindsOf(p) == {s.kind : s \in StepsOf(p)}

OneOfAKind(steps) == \A i, j \in DOMAIN steps : steps[i].kind = steps[j].kind => i = j

ASSUME StepsAssumption ==
  /\ Commands \subseteq {"down", "up", "reset"} \X Modes
  /\ Attempts \in Nat \ {0} /\ MaxRuns \in Nat
  /\ Absent \notin [status : Statuses]

(* The statefulset of the cluster has one pod at most.                     *)
ASSUME PlansAssumption ==
  \A p \in Plans :
    /\ p.down \in Seq(StepsOf(p)) /\ OneOfAKind(p.down)
    /\ p.up \in Seq(StepsOf(p)) /\ OneOfAKind(p.up)
    /\ \A s \in StepsOf(p) :
         /\ s.kind \in Objects \cup {"release", "exec"}
         /\ s.replicas \in {0, 1, Unset}

VARIABLES
  plan,        \* the pipelines of the configuration
  cmd, mode,   \* of the process, or of the last one
  pc, at, try, \* where it is, in which step and attempt
  call,        \* its request to the API server
  ended,       \* how it ended: "ok", "failed", "killed", "no"
  runs,        \* processes so far
  promised,    \* history: what the last successful step of a kind announced
  began,       \* history: made, when the process and its step began
  created,     \* history: jobs the process has created
  calm         \* history: nobody has interfered since the process began, and
               \* no delete it had given up has taken a job away

process == <<cmd, mode, pc, at, try, call, ended, runs>>
history == <<promised, began, created, calm>>
vars == <<plan, process, history, cluster, helm>>

NoCall == [kind |-> "job", op |-> "delete", replicas |-> 0, suspend |-> FALSE, edits |-> 0, dry |-> TRUE]

-----------------------------------------------------------------------------
(* The steps of the process.                                               *)

Tagged(phase, steps) == [i \in DOMAIN steps |-> [phase |-> phase, step |-> steps[i]]]

TodoOf(command) ==
  CASE command = "down"  -> Tagged("down", plan.down)
    [] command = "up"    -> Tagged("up", plan.up)
    [] OTHER             -> Tagged("down", plan.down) \o Tagged("up", plan.up)

Todo == TodoOf(cmd)

Phase == Todo[at].phase
Step  == Todo[at].step
Live  == mode = "live"

(* Ends the step: the next one, or the end of the process.                 *)
StepDone ==
  /\ promised' = IF Live THEN [promised EXCEPT ![Step.kind] = Phase] ELSE promised
  /\ try' = 1
  /\ IF at < Len(Todo)
       THEN at' = at + 1 /\ pc' = "begin" /\ UNCHANGED ended
            /\ began' = [began EXCEPT !.step = made]
       ELSE pc' = "idle" /\ ended' = "ok" /\ UNCHANGED <<at, began>>

(* The post script runs when the main action has succeeded, in live mode.  *)
(* Faulty variant: it is not run.                                          *)
NoPost == StepDone

AfterMain ==
  IF Live /\ Step.post
    THEN pc' = "post" /\ UNCHANGED <<at, try, ended, promised, began>>
    ELSE StepDone

Waits == Live /\ Phase = "up" /\ Step.wait /\ Step.kind \in {"statefulset", "job"}

AfterCall ==
  IF Waits THEN pc' = "wait" /\ UNCHANGED <<at, try, ended, promised, began>>
  ELSE AfterMain

(* Faulty variant: one attempt too many.                                   *)
OneTooMany(e) ==
  /\ IF Live /\ try <= Attempts /\ IsRetriable(e)
       THEN pc' = "begin" /\ try' = try + 1 /\ UNCHANGED ended
       ELSE pc' = "idle" /\ ended' = "failed" /\ UNCHANGED try
  /\ UNCHANGED <<at, promised, began>>

(* The whole step is run again, or the process ends.                       *)
StepFails(e) ==
  /\ IF Live /\ try < Attempts /\ IsRetriable(e)
       THEN pc' = "begin" /\ try' = try + 1 /\ UNCHANGED ended
       ELSE pc' = "idle" /\ ended' = "failed" /\ UNCHANGED try
  /\ UNCHANGED <<at, promised, began>>

Same == UNCHANGED <<plan, cmd, mode, runs>>
-----------------------------------------------------------------------------
(* What each step asks of the server.                                      *)

(* Faulty variant: the dry run of a cronjob is a real update.              *)
OnlyCronJobsForReal(kind) == mode # "live" /\ kind # "cronjob"

DryRunAll(kind) == mode # "live"

Verb ==
  CASE Step.kind \in {"statefulset", "cronjob"} -> "update"
    [] Step.kind = "job" /\ Phase = "up"        -> "create"
    [] OTHER                                    -> "delete"

RequestOf ==
  [kind     |-> Step.kind, op |-> Verb,
   replicas |-> IF Step.kind = "statefulset" THEN AppliedReplicas(Phase, Step) ELSE 0,
   suspend  |-> Phase = "down",
   edits    |-> IF Verb = "update" THEN live[Step.kind].edits ELSE 0,
   dry      |-> DryRunAll(Step.kind)]

(* A dry run only announces what has no dry run on the server, and all of  *)
(* it without a client.                                                    *)
Announced ==
  \/ mode = "plan"
  \/ mode = "dry" /\ \/ Step.kind \in {"pvc", "exec", "release"}
                     \/ Step.kind = "job" /\ Phase = "down"

Announce ==
  /\ pc = "begin" /\ Announced
  /\ StepDone
  /\ Same /\ UNCHANGED <<call, created, calm, cluster, helm>>

(* Scale and Suspend read the object first.                                *)
Reads == Step.kind \in {"statefulset", "cronjob"}

ToServer == pc = "begin" /\ ~Announced /\ Step.kind \in Objects

IsMissing ==
  /\ ToServer /\ Reads /\ live[Step.kind] = Absent
  /\ StepFails(WrapAPIError(Status("NotFound"), {}))
  /\ Same /\ UNCHANGED <<call, created, calm, cluster, helm>>

Send ==
  /\ ToServer /\ (Reads => live[Step.kind] # Absent)
  /\ call' = RequestOf
  /\ pc' = "sent"
  /\ promised' = IF Live THEN [promised EXCEPT ![Step.kind] = "none"] ELSE promised
  /\ Same /\ UNCHANGED <<at, try, ended, began, created, calm, cluster, helm>>

(* Faulty variant: an update that meets another one is done already.       *)
AndConflictIsFine(reply) ==
  \/ reply \in {"none", "Conflict"}
  \/ reply = "NotFound" /\ call.op = "delete"

(* A missing object is as good as a deleted one.                           *)
(* Faulty variant: so is an object that is there already.                  *)
AndExistingIsMade(reply) ==
  \/ reply \in {"none", "AlreadyExists"}
  \/ reply = "NotFound" /\ call.op = "delete"

Granted(reply) == reply = "none" \/ (reply = "NotFound" /\ call.op = "delete")

Creates(r) == IF r.op = "create" /\ Reply(r) = "none" /\ ~r.dry THEN created + 1 ELSE created

Answered ==
  /\ pc = "sent"
  /\ Apply(call)
  /\ created' = Creates(call)
  /\ IF Granted(Reply(call))
       THEN AfterCall /\ touched' = IF call.dry THEN touched ELSE touched \ {call.kind}
       ELSE StepFails(WrapAPIError(Status(Reply(call)), {})) /\ UNCHANGED touched
  /\ call' = NoCall
  /\ Same /\ UNCHANGED <<calm, late, faults, others, helm>>

-----------------------------------------------------------------------------
(* The waits: WaitRollout, WaitComplete.  A poll that is not satisfied     *)
(* changes nothing.                                                        *)

RolloutIsReady ==
  /\ pc = "wait" /\ Step.kind = "statefulset"
  /\ WaitReady("statefulset", Shown("statefulset"))
  /\ AfterMain
  /\ Same /\ UNCHANGED <<call, created, calm, cluster, helm>>

JobIsComplete ==
  /\ pc = "wait" /\ Step.kind = "job"
  /\ live.job # Absent /\ live.job.state = "complete"
  /\ AfterMain
  /\ Same /\ UNCHANGED <<call, created, calm, cluster, helm>>

(* Faulty variant: a failed job is cleared away to be run again.           *)
FailedJobIsRerun ==
  /\ pc = "wait" /\ Step.kind = "job"
  /\ live.job # Absent => live.job.state = "failed"
  /\ StepFails(Plain({"timeout"}))
  /\ live' = [live EXCEPT !.job = Absent]
  /\ Same /\ UNCHANGED <<call, created, calm, made, late, faults, others, touched, helm>>

JobHasFailed ==
  /\ pc = "wait" /\ Step.kind = "job"
  /\ live.job # Absent => live.job.state = "failed"
  /\ StepFails(IF live.job = Absent THEN WrapAPIError(Status("NotFound"), {}) ELSE Plain({}))
  /\ Same /\ UNCHANGED <<call, created, calm, cluster, helm>>

(* The post script of a statefulset going down: it waits until the pods    *)
(* are gone.                                                               *)
PostEnds ==
  /\ pc = "post" /\ live.statefulset.pod = "none"
  /\ StepDone
  /\ Same /\ UNCHANGED <<call, created, calm, cluster, helm>>

(* Somebody wants pods again: the script's own timeout, or that of         *)
(* run.operation_timeout, ends it.                                         *)
PostGivesUp ==
  /\ pc = "post" /\ live.statefulset.replicas # 0
  /\ \E e \in {Plain({}), Plain({"timeout"})} : StepFails(e)
  /\ Same /\ UNCHANGED <<call, created, calm, cluster, helm>>

(* A command in the statefulset's pod.                                     *)
Exec ==
  /\ pc = "begin" /\ ~Announced /\ Step.kind = "exec"
  /\ IF live.statefulset.pod = "none"
       THEN StepFails(WrapPodExec([command |-> {}, output |-> {}, rest |-> {}, exit |-> "none",
                                   cause |-> Status("NotFound")]))
       ELSE AfterMain
  /\ Same /\ UNCHANGED <<call, created, calm, cluster, helm>>

-----------------------------------------------------------------------------
(* Release steps.                                                          *)

HelmFrame == Same /\ UNCHANGED <<call, created, calm, live, made, late, others>>

HelmBegins ==
  /\ pc = "begin" /\ ~Announced /\ Step.kind = "release"
  /\ IF Phase = "up" THEN BeginUp(Step) ELSE BeginDown
  /\ pc' = "helm"
  /\ promised' = [promised EXCEPT !["release"] = "none"]
  /\ touched' = touched \ {"release"}
  /\ HelmFrame /\ UNCHANGED <<at, try, ended, began, faults>>

HelmGoesOn ==
  /\ pc = "helm" /\ HelmWorks(Step)
  /\ touched' = IF op' = "returned" THEN touched \ {"release"} ELSE touched
  /\ HelmFrame /\ UNCHANGED <<pc, at, try, ended, promised, began, faults>>

HelmBreaks ==
  /\ pc = "helm" /\ Fault /\ HelmFails
  /\ HelmFrame /\ UNCHANGED <<pc, at, try, ended, promised, began, touched>>

HelmReturns ==
  /\ pc = "helm"
  /\ \/ result = {} /\ AfterMain
     \/ \E e \in result : StepFails(e)
  /\ IF pc' = "idle" THEN op = "returned" /\ Forget ELSE Collect
  /\ HelmFrame /\ UNCHANGED <<faults, touched>>

-----------------------------------------------------------------------------
(* Failures.                                                               *)

(* A call that does not reach the server, a wait or a script that fails.   *)
CallFails ==
  /\ Fault
  /\ \/ ToServer /\ StepFails(NoConnection)
     \/ pc = "wait" /\ \E e \in {NoConnection, Deadline} : StepFails(e)
     \/ pc = "post" /\ \E e \in {Plain({}), Plain({"timeout"})} : StepFails(e)
  /\ Same /\ UNCHANGED <<call, created, calm, live, made, late, others, touched, helm>>

(* The server refuses the request.                                         *)
Refused(reason) ==
  /\ pc = "sent" /\ Fault
  /\ StepFails(WrapAPIError(Status(reason), {}))
  /\ call' = NoCall
  /\ Same /\ UNCHANGED <<created, calm, live, made, late, others, touched, helm>>

(* The answer is lost, or the request is still on its way.                 *)
NoAnswer ==
  /\ pc = "sent" /\ Fault
  /\ \E e \in {NoConnection, Deadline} : StepFails(e)
  /\ call' = NoCall
  /\ \/ Apply(call) /\ created' = Creates(call) /\ UNCHANGED late
     \/ late' = late \cup {call} /\ UNCHANGED <<live, made, created>>
  /\ Same /\ UNCHANGED <<calm, others, touched, helm>>

(* The process is killed.                                                  *)
Kill ==
  /\ pc # "idle" /\ Fault
  /\ pc' = "idle" /\ ended' = "killed"
  /\ late' = IF pc = "sent" THEN late \cup {call} ELSE late
  /\ call' = NoCall
  /\ Forget
  /\ Same /\ UNCHANGED <<at, try, history, live, made, others, touched>>

-----------------------------------------------------------------------------

Start(c) ==
  /\ pc = "idle" /\ runs < MaxRuns
  /\ cmd' = c[1] /\ mode' = c[2]
  /\ at' = 1 /\ try' = 1
  /\ IF TodoOf(c[1]) = <<>> THEN pc' = "idle" /\ ended' = "ok" ELSE pc' = "begin" /\ ended' = "no"
  /\ runs' = runs + 1
  /\ began' = [command |-> made, step |-> made]
  /\ created' = 0 /\ calm' = (late = {})
  /\ UNCHANGED <<plan, call, promised, cluster, helm>>

StepAction ==
  \/ Announce \/ IsMissing \/ Send \/ Answered
  \/ RolloutIsReady \/ JobIsComplete \/ JobHasFailed \/ PostEnds \/ PostGivesUp \/ Exec
  \/ HelmBegins \/ HelmGoesOn \/ HelmReturns

Failure ==
  \/ CallFails \/ NoAnswer \/ Kill \/ HelmBreaks
  \/ \E r \in {"Forbidden", "TooManyRequests", "Conflict"} : Refused(r)

Outside == UNCHANGED <<plan, process, promised, began>>

LateRequest ==
  /\ \E r \in late : Arrive(r) /\ created' = Creates(r)
  /\ calm' = (calm /\ (live.job # Absent => live'.job # Absent))
  /\ Outside /\ UNCHANGED helm

LostRequest ==
  /\ \E r \in late : Vanish(r)
  /\ Outside /\ UNCHANGED <<created, calm, helm>>

ControllerActs ==
  /\ Controller
  /\ Outside /\ UNCHANGED <<created, calm, helm>>

JobBreaks ==
  /\ JobFails
  /\ Outside /\ UNCHANGED <<created, calm, helm>>

Interference ==
  /\ \/ OthersAct(KindsOf(plan)) /\ UNCHANGED helm
     \/ /\ "release" \in KindsOf(plan) /\ OtherOnRelease
        /\ others < MaxOthers /\ others' = others + 1
        /\ touched' = touched \cup {"release"}
        /\ UNCHANGED <<live, made, late, faults>>
  /\ calm' = FALSE
  /\ Outside /\ UNCHANGED created

Init ==
  /\ plan \in Plans
  /\ cmd = "up" /\ mode = "live" /\ pc = "idle" /\ at = 1 /\ try = 1
  /\ call = NoCall /\ ended = "no" /\ runs = 0
  /\ promised = [k \in Objects \cup {"release", "exec"} |-> "none"]
  /\ began = [command |-> 0, step |-> 0] /\ created = 0 /\ calm = TRUE
  /\ LET has(k) == k \in KindsOf(plan)
     IN live = [statefulset |-> IF has("statefulset")
                                  THEN [replicas |-> 1, observed |-> TRUE, edits |-> 0,
                                        pod |-> "ready", claim |-> 1]
                                  ELSE [replicas |-> 0, observed |-> TRUE, edits |-> 0,
                                        pod |-> "none", claim |-> 0],
                pvc |-> IF has("statefulset") THEN [uid |-> 1, terminating |-> FALSE] ELSE Absent,
                cronjob |-> IF has("cronjob") THEN [suspend |-> FALSE, edits |-> 0] ELSE Absent,
                job |-> Absent]
  /\ made = 1 /\ late = {} /\ faults = 0 /\ others = 0 /\ touched = {}
  /\ \/ release = NoRelease /\ namespace = ("release" \notin KindsOf(plan))
     \/ release = "deployed" /\ namespace = TRUE /\ "release" \in KindsOf(plan)
  /\ stored = FALSE /\ loggedIn = FALSE /\ op = "idle" /\ result = {}

Finished == pc = "idle" /\ runs = MaxRuns /\ UNCHANGED vars

Next ==
  \/ \E c \in Commands : Start(c)
  \/ StepAction \/ Failure
  \/ LateRequest \/ LostRequest \/ ControllerActs \/ JobBreaks \/ Interference
  \/ Finished

Spec == Init /\ [][Next]_vars

(* Processes go on, requests arrive, controllers work, and somebody starts *)
(* kzero as long as the bound allows.                                      *)
FairSpec ==
  /\ Spec
  /\ WF_vars(StepAction) /\ WF_vars(ControllerActs)
  /\ WF_vars(LateRequest \/ LostRequest)
  /\ WF_vars(\E c \in Commands : Start(c))

-----------------------------------------------------------------------------
(* Properties.                                                             *)

TypeOK ==
  /\ ClusterTypeOK /\ HelmTypeOK
  /\ plan \in Plans /\ runs \in 0..MaxRuns
  /\ runs > 0 => <<cmd, mode>> \in Commands
  /\ pc \in {"idle", "begin", "sent", "wait", "post", "helm"}
  /\ at \in Nat \ {0} /\ try \in 1..Attempts
  /\ call \in Request /\ late \subseteq Request
  /\ (pc = "helm") = (op # "idle")
  /\ ended \in {"no", "ok", "failed", "killed"}
  /\ created \in Nat /\ calm \in BOOLEAN

ShownTo(kind) ==
  IF kind = "release" THEN (IF release = NoRelease THEN Absent ELSE [status |-> release])
  ELSE Shown(kind)

StepOf(kind, phase) ==
  LET steps == IF phase = "down" THEN plan.down ELSE plan.up
  IN CHOOSE s \in {steps[i] : i \in DOMAIN steps} : s.kind = kind

(* What a successful step has announced is what kzero diff finds, for as   *)
(* long as nobody and no controller changes the object: whatever became of *)
(* the attempts, the replies and the processes before it.  A claim may be  *)
(* on its way out.                                                         *)
PromiseHolds ==
  \A k \in (Objects \cup {"release"}) \ touched :
    promised[k] # "none"
      => \/ LineOK(promised[k], StepOf(k, promised[k]), ShownTo(k))
         \/ k = "pvc" /\ live.pvc.terminating

(* A job step that waits succeeds only for a job that has been created     *)
(* since it began, never for one an earlier run or attempt has left.       *)
JobIsOurs ==
  [][pc = "wait" /\ promised'["job"] # promised["job"] => live.job.uid > began.step]_vars

(* A process nobody interferes with creates its job once, whatever becomes *)
(* of the replies, of creates given up, and of retries.  (A delete that is *)
(* given up in the down phase and arrives in the up phase is excepted: it  *)
(* names no uid, and takes away the job that has been created since.)      *)
JobRunsOnce == calm => created <= 1

(* After a reset that waits for the pods to go before it deletes their     *)
(* claim (docs/examples/pvc-statefulset-data-strategy.md, pattern A), the  *)
(* pods run on a claim made since the reset began.                         *)
Wipes ==
  /\ \E i \in DOMAIN plan.down : plan.down[i].kind = "statefulset" /\ plan.down[i].post
  /\ \E i \in DOMAIN plan.down : plan.down[i].kind = "pvc"

FreshVolumes ==
  ended = "ok" /\ cmd = "reset" /\ Live /\ calm /\ Wipes
       /\ live.statefulset.pod \in {"starting", "ready"}
    => live.statefulset.claim > began.command

(* No step of a dry run and no request of one changes the cluster.         *)
DryRunChangesNothing ==
  [][(\/ pc # "idle" /\ mode # "live" /\ process' # process
      \/ \E r \in late \ late' : r.dry)
     => UNCHANGED <<live, release, namespace, stored>>]_vars

(* A reset that begins when the disturbances are over succeeds, and leaves *)
(* the cluster as the up pipeline wants it: whatever earlier processes     *)
(* were killed at, and whatever state of jobs, releases and claims they    *)
(* have left.  What no step creates must be there.                         *)
LastReset ==
  /\ runs = MaxRuns /\ cmd = "reset" /\ Live
  /\ pc = "begin" /\ at = 1 /\ try = 1
  /\ faults = MaxFaults /\ others = MaxOthers /\ late = {}
  /\ "cronjob" \in KindsOf(plan) => live.cronjob # Absent

AsConfigured == \A i \in DOMAIN plan.up : LineOK("up", plan.up[i], ShownTo(plan.up[i].kind))

ResetRecovers == [](LastReset => <>(ended = "ok" /\ AsConfigured))
=============================================================================
