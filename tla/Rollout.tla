------------------------------ MODULE Rollout -------------------------------
(***************************************************************************)
(* A deployment or statefulset step in native mode: Scale reads the object *)
(* and updates it, WaitRollout polls its status, and the engine repeats    *)
(* the step after a retriable error (internal/executor/native.go,          *)
(* internal/engine/live_kubectl.go).                                       *)
(*                                                                         *)
(* Beside it, and outside of kzero: the API server with its optimistic     *)
(* concurrency, the controller that turns specifications into pods and     *)
(* pods into status, and other clients that deploy and scale the same      *)
(* object.  A request may be lost, its reply may be lost, and it may reach *)
(* the server after kzero has given it up.                                 *)
(***************************************************************************)
EXTENDS Naturals

CONSTANTS
  WorkloadSteps, (* the steps a run may be made of *)
  Attempts,      (* retry.Attempts *)
  MaxReplicas,   (* bound of the model: what other clients scale to *)
  Disturbances   (* bound of the model: crashes and writes of other clients *)

WorkloadStep == [kind     : {"deployment", "statefulset"},
                 replicas : Nat,       \* DesiredReplicas: 0 going down
                 wait     : BOOLEAN,   \* wait_for_ready, going up
                 dryRun   : BOOLEAN]   \* serverSideDryRun

ASSUME StepsAssumption == WorkloadSteps \subseteq WorkloadStep
ASSUME BoundsAssumption ==
  Attempts \in Nat \ {0} /\ MaxReplicas \in Nat /\ Disturbances \in Nat

Errors == {"canceled", "deadline", "conflict", "transient", "permanent"}

VARIABLES
  step,        \* fixed when the step starts
  pc, try,     \* where kzero is, and in which attempt
  copy,        \* the object as Scale has read it
  answer,      \* the reply to its update, once the server has given it
  err,         \* what the step returns
  pending,     \* updates on their way to the server
  spec,        \* the object's specification: replicas and pod template
  version,     \* its resourceVersion, counted
  generation,
  status,      \* its status
  pods,        \* the pods there are
  disturbed,   \* crashes and writes of other clients so far
  template,    \* history: the template the other clients want
  applied,     \* history: an update of this step took effect
  attained     \* history: enough pods since the specification last changed

kzero   == <<step, pc, try, copy, answer, err>>
server  == <<spec, version, generation, status>>
world   == <<server, pods, disturbed, template, applied, attained>>
vars    == <<kzero, pending, world>>

(* Old pods are ready pods of earlier templates.                           *)
Pods   == [old : Nat, fresh : Nat, ready : Nat]
Status == [observed : Nat, updated : Nat, ready : Nat, progressing : BOOLEAN]
Specs  == [replicas : Nat, template : Nat]
Update == [try : Nat, version : Nat, template : Nat]

-----------------------------------------------------------------------------
(* The step and its retries.                                               *)

(* Faulty variant: a conflict is final.                                    *)
NeverAfterConflict(e) ==
  ~step.dryRun /\ try < Attempts /\ e \in {"deadline", "transient"}

(* Faulty variant: one attempt too many.                                   *)
MayRetryOnceMore(e) ==
  ~step.dryRun /\ try <= Attempts /\ e \in {"deadline", "conflict", "transient"}

MayRetry(e) ==
  ~step.dryRun /\ try < Attempts /\ e \in {"deadline", "conflict", "transient"}

Fail(e) ==
  IF MayRetry(e)
    THEN pc' = "get" /\ try' = try + 1 /\ UNCHANGED err
    ELSE pc' = "done" /\ err' = e /\ UNCHANGED try

(* Faulty variant: an update without resourceVersion.                      *)
Unversioned == [try |-> try, version |-> 0, template |-> spec.template]

Object == [try |-> try, version |-> version, template |-> spec.template]

(* Scale reads the object ...                                              *)
Get ==
  /\ pc = "get"
  /\ copy' = Object
  /\ pc' = "update"
  /\ UNCHANGED <<step, try, answer, err, pending, world>>

(* ... and sends it back with another number of replicas.                  *)
SendUpdate ==
  /\ pc = "update"
  /\ pending' = pending \cup {copy}
  /\ answer' = "none" /\ pc' = "sent"
  /\ UNCHANGED <<step, try, copy, err, world>>

Scaled ==
  /\ pc = "sent" /\ answer = "nil"
  /\ pc' = IF step.wait /\ ~step.dryRun THEN "poll" ELSE "done"
  /\ UNCHANGED <<step, try, copy, answer, err, pending, world>>

(* Faulty variant: the error of the update is dropped.                     *)
RefusalIgnored ==
  /\ pc = "sent" /\ answer = "conflict"
  /\ pc' = "done"
  /\ UNCHANGED <<step, try, err, copy, answer, pending, world>>

Refused ==
  /\ pc = "sent" /\ answer = "conflict"
  /\ Fail("conflict")
  /\ UNCHANGED <<step, copy, answer, pending, world>>

(* Faulty variant: whatever generation the status is of.                   *)
ReadyByCounts ==
  \/ spec.replicas = 0
  \/ status.updated >= spec.replicas /\ status.ready >= spec.replicas

(* deploymentReady, statefulSetReady                                       *)
Ready ==
  \/ spec.replicas = 0
  \/ /\ status.observed >= generation
     /\ status.updated >= spec.replicas /\ status.ready >= spec.replicas
     /\ step.kind = "deployment" => status.progressing

(* A poll that finds the workload not ready changes nothing.               *)
PollPasses ==
  /\ pc = "poll" /\ Ready
  /\ pc' = "done"
  /\ UNCHANGED <<step, try, copy, answer, err, pending, world>>

(* A call fails: the context is over, the server refuses the request, or   *)
(* nobody knows what became of it.  WaitRollout fails at its deadline.     *)
CallFails(e) ==
  /\ pc \in {"get", "sent", "poll"} /\ e # "conflict"
  /\ IF pc = "sent" /\ e = "permanent"
       THEN copy \in pending /\ pending' = pending \ {copy}
       ELSE UNCHANGED pending
  /\ Fail(e)
  /\ UNCHANGED <<step, copy, answer, world>>

StepAction == Get \/ SendUpdate \/ Scaled \/ Refused \/ PollPasses

-----------------------------------------------------------------------------
(* The server.                                                             *)

(* An update that names no version is taken whatever the version is.      *)
Accepts(u) == u.version \in {0, version}

Asked(u) == [replicas |-> step.replicas, template |-> u.template]

(* A specification that stays the same makes no new version.               *)
ChangeSpec(new) ==
  /\ spec' = new
  /\ version' = IF new = spec THEN version ELSE version + 1
  /\ generation' = IF new = spec THEN generation ELSE generation + 1
  /\ UNCHANGED status

(* Pods of a template that is replaced become old ones.                    *)
Turnover ==
  pods' = IF spec'.template = spec.template THEN pods
          ELSE [old |-> pods.old + pods.ready, fresh |-> 0, ready |-> 0]

(* Enough pods of the current template, and enough pods ready.             *)
Enough == pods.fresh >= spec.replicas /\ pods.ready + pods.old >= spec.replicas

Observe == attained' = ((generation' = generation /\ attained) \/ Enough')

Land(u) ==
  /\ u \in pending
  /\ pending' = pending \ {u}
  /\ answer' = IF u # copy \/ pc # "sent" THEN answer
               ELSE IF Accepts(u) THEN "nil" ELSE "conflict"
  /\ IF Accepts(u) /\ ~step.dryRun
       THEN ChangeSpec(Asked(u)) /\ applied' = TRUE
       ELSE UNCHANGED <<server, applied>>
  /\ Turnover
  /\ UNCHANGED <<step, pc, try, copy, err, disturbed, template>>
  /\ Observe

Lose(u) ==
  /\ u \in pending /\ (u # copy \/ pc # "sent")
  /\ pending' = pending \ {u}
  /\ UNCHANGED <<kzero, world>>

-----------------------------------------------------------------------------
(* The other clients.                                                      *)

Disturb == disturbed < Disturbances /\ disturbed' = disturbed + 1

OtherDeploys ==
  /\ Disturb
  /\ template' = template + 1
  /\ ChangeSpec([spec EXCEPT !.template = template + 1])
  /\ Turnover
  /\ UNCHANGED <<kzero, pending, applied>>
  /\ Observe

OtherScales(n) ==
  /\ Disturb
  /\ n # spec.replicas
  /\ ChangeSpec([spec EXCEPT !.replicas = n])
  /\ UNCHANGED <<kzero, pending, pods, template, applied>>
  /\ Observe

(* The controller.                                                         *)
Create == pods.fresh < spec.replicas /\ pods' = [pods EXCEPT !.fresh = @ + 1]

Start == pods.ready < pods.fresh /\ pods' = [pods EXCEPT !.ready = @ + 1]

Retire == pods.old > 0 /\ pods' = [pods EXCEPT !.old = @ - 1]

(* Of the pods that are too many, those that are not ready go first.       *)
Remove ==
  /\ pods.fresh > spec.replicas
  /\ pods' = [pods EXCEPT !.fresh = @ - 1,
                          !.ready = IF @ = pods.fresh THEN @ - 1 ELSE @]

MovePods ==
  /\ Create \/ Start \/ Retire \/ Remove
  /\ UNCHANGED <<kzero, pending, server, disturbed, template, applied>>
  /\ Observe

Crash ==
  /\ Disturb
  /\ pods.ready > 0 /\ pods' = [pods EXCEPT !.ready = @ - 1]
  /\ UNCHANGED <<kzero, pending, server, template, applied>>
  /\ Observe

Complete == pods.ready >= spec.replicas /\ pods.old = 0

Snapshot(progressing) ==
  [observed |-> generation, updated |-> pods.fresh, ready |-> pods.ready + pods.old,
   progressing |-> progressing]

WriteStatus ==
  /\ status' = Snapshot(TRUE) /\ status' # status
  /\ version' = version + 1
  /\ UNCHANGED <<kzero, pending, spec, generation, pods, disturbed, template, applied,
                 attained>>

(* The rollout has made no progress for too long.                          *)
ReportNoProgress ==
  /\ Disturb
  /\ ~Complete
  /\ status' = Snapshot(FALSE) /\ status' # status
  /\ version' = version + 1
  /\ UNCHANGED <<kzero, pending, spec, generation, pods, template, applied, attained>>

-----------------------------------------------------------------------------

Init ==
  /\ step \in WorkloadSteps
  /\ pc = "get" /\ try = 1 /\ err = "nil" /\ answer = "none"
  /\ copy = [try |-> 0, version |-> 0, template |-> 0]
  /\ pending = {}
  /\ \E n \in 0..MaxReplicas :
       /\ spec = [replicas |-> n, template |-> 0]
       /\ pods = [old |-> 0, fresh |-> n, ready |-> n]
       /\ status = [observed |-> 1, updated |-> n, ready |-> n, progressing |-> TRUE]
  /\ version = 1 /\ generation = 1
  /\ disturbed = 0 /\ template = 0
  /\ applied = FALSE /\ attained = TRUE

Controller == MovePods \/ WriteStatus

Others ==
  \/ OtherDeploys
  \/ \E n \in 0..MaxReplicas : OtherScales(n)
  \/ Crash
  \/ ReportNoProgress

Reliable == StepAction \/ (\E u \in pending : Land(u)) \/ Controller \/ Others

Finished == pc = "done" /\ UNCHANGED vars

Next ==
  \/ Reliable
  \/ \E e \in Errors : CallFails(e)
  \/ \E u \in pending : Lose(u)
  \/ Finished

Spec == Init /\ [][Next]_vars

(* A network and a server that answer, a controller that works.            *)
ReliableSpec ==
  /\ Init /\ [][Reliable \/ Finished]_vars
  /\ WF_vars(StepAction) /\ WF_vars(\E u \in pending : Land(u))
  /\ WF_vars(MovePods) /\ WF_vars(WriteStatus)

-----------------------------------------------------------------------------
(* Properties.                                                             *)

TypeOK ==
  /\ step \in WorkloadSteps
  /\ pc \in {"get", "update", "sent", "poll", "done"} /\ try \in 1..Attempts
  /\ copy \in Update /\ answer \in {"none", "nil", "conflict"}
  /\ err \in Errors \cup {"nil"}
  /\ pending \subseteq Update
  /\ spec \in Specs /\ version \in Nat /\ generation \in Nat
  /\ status \in Status /\ pods \in Pods
  /\ disturbed \in Nat /\ template \in Nat
  /\ applied \in BOOLEAN /\ attained \in BOOLEAN

(* Scale sends the whole object back, and yet no deployment of another     *)
(* client is undone: not by an update that raced with it, not by a retry,  *)
(* not by an update that arrives after kzero has given it up.              *)
DeploymentsSurvive == spec.template = template

(* wait_for_ready is not deceived by a status older than the specification *)
(* kzero or anybody else has written: whenever the wait ends well, enough  *)
(* pods have been there since.                                             *)
ReadyIsBelieved ==
  [][(pc = "poll" /\ pc' = "done" /\ err' = "nil") => spec.replicas = 0 \/ attained]_vars

(* A step that succeeds has scaled the workload, whatever became of its    *)
(* earlier attempts.                                                       *)
SuccessIsApplied == pc = "done" /\ err = "nil" /\ ~step.dryRun => applied

(* With a server that answers, the step succeeds: conflicts are retried,   *)
(* and the wait ends when the workload is ready.                           *)
Succeeds == <>(pc = "done" /\ err = "nil")
=============================================================================
