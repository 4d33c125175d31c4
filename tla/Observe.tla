------------------------------ MODULE Observe -------------------------------
(***************************************************************************)
(* The readers of the cluster: the rollout wait of a step                  *)
(* (internal/executor/native.go), kzero diff (internal/diff), kzero verify *)
(* (internal/verify) and the cluster validation of kzero analyze           *)
(* (internal/validate).  Each looks at the same objects with rules of its  *)
(* own; none writes.                                                       *)
(*                                                                         *)
(* An object is Absent or a record of what the readers look at:            *)
(*   deployment, statefulset                                               *)
(*     [replicas, current, updated, ready, progressing]                    *)
(*     replicas may be Unset; current: the status is of this generation;   *)
(*     progressing: "fine" (or no such condition), "failed" (the condition *)
(*     is False), "silent" (it is False and carries no message)            *)
(*   pvc, job, release   any record: their presence counts                 *)
(*   cronjob             [suspend]                                         *)
(*   exec (a pod)        [containers]                                      *)
(***************************************************************************)
EXTENDS Integers, Sequences, SequencesExt

CONSTANTS
  Absent, Unset,  (* no object, no value *)
  MaxInt32        (* the largest replica count of the API *)

ASSUME ReplicaAssumption ==
  /\ Unset \notin Int /\ Absent # Unset
  /\ MaxInt32 \in Nat \ {0}

Scalable == {"deployment", "statefulset"}
Kinds == Scalable \cup {"pvc", "release", "cronjob", "job", "exec", "custom"}

-----------------------------------------------------------------------------
(* What a step asks for.                                                   *)

Or1(replicas) == IF replicas = Unset THEN 1 ELSE replicas

DesiredReplicas(phase, step) == IF phase = "down" THEN 0 ELSE Or1(step.replicas)

(* The conversion of a Go int to int32: its low bits, as a signed number.  *)
Int32(n) ==
  LET low == n % (2 * (MaxInt32 + 1))
  IN IF low <= MaxInt32 THEN low ELSE low - 2 * (MaxInt32 + 1)

(* What the engine sends.                                                  *)
AppliedReplicas(phase, step) == Int32(DesiredReplicas(phase, step))

-----------------------------------------------------------------------------
(* The wait of a step for its rollout (native mode).                       *)

WaitReady(kind, o) ==
  /\ o # Absent
  /\ \/ o.replicas = 0
     \/ /\ o.current
        /\ o.updated >= Or1(o.replicas) /\ o.ready >= Or1(o.replicas)
        /\ kind = "deployment" => o.progressing = "fine"

-----------------------------------------------------------------------------
(* verify.                                                                 *)

(* The first step of each workload counts.                                 *)
FirstOfEach(steps, kinds) ==
  {i \in DOMAIN steps :
     /\ steps[i].kind \in kinds
     /\ \A j \in 1..(i - 1) :
          <<steps[j].kind, steps[j].name>> # <<steps[i].kind, steps[i].name>>}

(* Faulty variant: the generation is not looked at.                        *)
CountsAlone(kind, o, desired) ==
  \/ o.replicas = 0
  \/ /\ kind = "deployment" => o.progressing # "failed"
     /\ o.updated >= desired /\ o.ready >= desired

(* deploymentReady, statefulSetReady, replicasReady: it is the condition's *)
(* message that blocks (depProgressingFalse).                              *)
ReplicasReady(kind, o, desired) ==
  \/ o.replicas = 0
  \/ /\ kind = "deployment" => o.progressing # "failed"
     /\ o.current
     /\ o.updated >= desired /\ o.ready >= desired

workloadReady(step, o) ==
  o # Absent /\ ReplicasReady(step.kind, o, Int32(Or1(step.replicas)))

workloads_ready(up, live) ==
  \A i \in FirstOfEach(up, Scalable) : workloadReady(up[i], live[up[i]])

(* Of a node: its Ready condition.  A cluster without nodes is not ready.  *)
nodes_ready(nodes) == nodes # {} /\ \A n \in nodes : n.ready

(* Pods that no node takes, in the namespaces of the up steps.             *)
pods_schedulable(up, pods) ==
  \A p \in pods :
    (\E i \in DOMAIN up : up[i].namespace = p.namespace)
      => ~(p.phase = "Pending" /\ p.unschedulable)

(* The checks that are configured, each of them run.                       *)
DefaultChecks == {"workloads_ready", "nodes_ready"}

VerifyReady(checks, up, live, nodes, pods) ==
  \A c \in IF checks = {} THEN DefaultChecks ELSE checks :
    CASE c = "workloads_ready"  -> workloads_ready(up, live)
      [] c = "nodes_ready"      -> nodes_ready(nodes)
      [] c = "pods_schedulable" -> pods_schedulable(up, pods)
      [] OTHER                  -> FALSE

-----------------------------------------------------------------------------
(* diff: one line per step, of those that leave a state in the cluster.    *)

compareWorkload(phase, step, o) ==
  o # Absent /\ o.replicas # Unset /\ o.replicas = DesiredReplicas(phase, step)

(* A cronjob whose suspend is unset is not suspended.                      *)
compareCronJob(phase, o) == o # Absent /\ (o.suspend = TRUE) = (phase = "down")

(* compareStep, comparePVC, compareRelease, compareJob, presenceLine;      *)
(* custom and exec steps leave no state in the cluster and are skipped.    *)
LineOK(phase, step, o) ==
  CASE step.kind \in Scalable           -> compareWorkload(phase, step, o)
    [] step.kind = "cronjob"            -> compareCronJob(phase, o)
    [] step.kind = "pvc"                -> o = Absent
    [] step.kind \in {"release", "job"} -> (o # Absent) = (phase = "up")
    [] OTHER                            -> TRUE

DiffClean(phase, steps, live) ==
  \A i \in DOMAIN steps : LineOK(phase, steps[i], live[steps[i]])

-----------------------------------------------------------------------------
(* analyze: the objects the steps of both pipelines need, each named once. *)

Checked == {"deployment", "statefulset", "pvc", "exec", "job", "cronjob"}

(* checkPipelineResource: a claim or a job may be missing.                 *)
ResourceOK(step, o) ==
  CASE step.kind \in Scalable -> o # Absent /\ o.replicas # Unset
    [] step.kind = "exec"     -> o # Absent /\ step.container \in o.containers
    [] step.kind = "cronjob"  -> o # Absent
    [] OTHER                  -> TRUE

CheckPipelineWorkloads(down, up, live) ==
  LET steps == down \o up
  IN \A i \in FirstOfEach(steps, Checked) : ResourceOK(steps[i], live[steps[i]])
=============================================================================
