------------------------------ MODULE Cluster -------------------------------
(***************************************************************************)
(* The cluster kzero works on, as far as its steps depend on it: not code  *)
(* of kzero, but what that code is written against.  One statefulset with  *)
(* one claim, one job, one cronjob; requests that reach the API server,    *)
(* some of them after kzero has given them up; the controllers; and other  *)
(* operators.                                                              *)
(***************************************************************************)
EXTENDS Errors, Observe

CONSTANTS
  MaxFaults,  (* bound of the model: calls that fail, processes killed *)
  MaxOthers   (* bound of the model: changes other operators make *)

ASSUME BudgetAssumption == MaxFaults \in Nat /\ MaxOthers \in Nat

VARIABLES
  live,     \* the objects
  made,     \* how many claims and jobs have been made: their uids
  late,     \* requests that were given up and are still on their way
  faults, others,
  touched   \* objects changed behind kzero's back since its last success

cluster == <<live, made, late, faults, others, touched>>

Objects == {"statefulset", "pvc", "cronjob", "job"}

(* The pod of the statefulset, and the claim it runs on.                   *)
PodStates == {"none", "starting", "ready", "stopping"}

StatefulSet == [replicas : 0..1, observed : BOOLEAN, edits : Nat,
                pod : PodStates, claim : Nat]
Claim   == [uid : Nat, terminating : BOOLEAN]
CronJob == [suspend : BOOLEAN, edits : Nat]
Job     == [uid : Nat, state : {"active", "complete", "failed"}]

(* What the API shows of the statefulset.                                  *)
Scale == [replicas : 0..1, current : BOOLEAN, updated : 0..1, ready : 0..1, progressing : {"fine"}]

ASSUME AbsentAssumption == Absent \notin Scale \cup Claim \cup CronJob \cup Job

ClusterTypeOK ==
  /\ live \in [statefulset : StatefulSet, pvc : Claim \cup {Absent},
               cronjob : CronJob \cup {Absent}, job : Job \cup {Absent}]
  /\ made \in Nat /\ faults \in 0..MaxFaults /\ others \in 0..MaxOthers
  /\ touched \subseteq Objects \cup {"release"}

(* An object as the API shows it.                                          *)
Shown(kind) ==
  IF kind # "statefulset" THEN live[kind]
  ELSE LET s == live.statefulset
       IN [replicas |-> s.replicas, current |-> s.observed,
           updated |-> IF s.pod = "none" THEN 0 ELSE 1,
           ready |-> IF s.pod = "ready" THEN 1 ELSE 0, progressing |-> "fine"]

-----------------------------------------------------------------------------
(* Requests.  An update names the version it was made from; a delete and a *)
(* create name nothing but the object.                                     *)

Request == [kind : Objects, op : {"update", "delete", "create"},
            replicas : Int, suspend : BOOLEAN, edits : Nat, dry : BOOLEAN]

(* The status the server answers with, "none" if it does as it is asked.   *)
Reply(r) ==
  LET o == live[r.kind]
  IN CASE r.op = "create"             -> IF o = Absent THEN "none" ELSE "AlreadyExists"
       [] r.op = "delete"             -> IF o = Absent THEN "NotFound" ELSE "none"
       [] r.op = "update" /\ o = Absent -> "NotFound"
       [] OTHER                       -> IF o.edits = r.edits THEN "none" ELSE "Conflict"

Scaled(s, n) ==
  IF s.replicas = n THEN s
  ELSE [s EXCEPT !.replicas = n, !.observed = FALSE, !.edits = @ + 1]

Suspended(c, b) ==
  IF c.suspend = b THEN c ELSE [suspend |-> b, edits |-> c.edits + 1]

NewJob == [uid |-> made + 1, state |-> "active"]

(* The object after a request that is granted.                             *)
After(r) ==
  CASE r.op = "create"           -> NewJob
    [] r.kind = "statefulset"    -> Scaled(live.statefulset, r.replicas)
    [] r.kind = "cronjob"        -> Suspended(live.cronjob, r.suspend)
    [] r.kind = "pvc"            -> [live.pvc EXCEPT !.terminating = TRUE]
    [] OTHER                     -> Absent

(* A request of a dry run is checked and has no effect.                    *)
Apply(r) ==
  IF Reply(r) # "none" \/ r.dry THEN UNCHANGED <<live, made>>
  ELSE /\ live' = [live EXCEPT ![r.kind] = After(r)]
       /\ made' = IF r.op = "create" THEN made + 1 ELSE made

Fault == faults < MaxFaults /\ faults' = faults + 1

(* A request that was given up arrives after all, or never.                *)
Arrive(r) ==
  /\ r \in late
  /\ late' = late \ {r}
  /\ Apply(r)
  /\ touched' = touched \cup {r.kind}
  /\ UNCHANGED <<faults, others>>

Vanish(r) ==
  /\ r \in late
  /\ late' = late \ {r}
  /\ UNCHANGED <<live, made, faults, others, touched>>

-----------------------------------------------------------------------------
(* The controllers.                                                        *)

SetPod(pod) == live' = [live EXCEPT !.statefulset.pod = pod] /\ UNCHANGED made

Observed ==
  /\ ~live.statefulset.observed
  /\ live' = [live EXCEPT !.statefulset.observed = TRUE]
  /\ UNCHANGED made

PodStops ==
  /\ live.statefulset.observed /\ live.statefulset.replicas = 0
  /\ live.statefulset.pod \in {"starting", "ready"}
  /\ SetPod("stopping")

PodIsGone == live.statefulset.pod = "stopping" /\ SetPod("none")

PodIsReady == live.statefulset.pod = "starting" /\ SetPod("ready")

WantsPod ==
  live.statefulset.observed /\ live.statefulset.replicas = 1 /\ live.statefulset.pod = "none"

(* A claim is made for the pod; a pod waits for a claim that is going.     *)
ClaimIsMade ==
  /\ WantsPod /\ live.pvc = Absent
  /\ live' = [live EXCEPT !.pvc = [uid |-> made + 1, terminating |-> FALSE]]
  /\ made' = made + 1

PodStarts ==
  /\ WantsPod /\ live.pvc # Absent /\ ~live.pvc.terminating
  /\ live' = [live EXCEPT !.statefulset.pod = "starting", !.statefulset.claim = live.pvc.uid]
  /\ UNCHANGED made

(* A deleted claim goes when no pod uses it any more.                      *)
ClaimIsGone ==
  /\ live.pvc # Absent /\ live.pvc.terminating /\ live.statefulset.pod = "none"
  /\ live' = [live EXCEPT !.pvc = Absent]
  /\ UNCHANGED made

JobEnds(state) ==
  /\ live.job # Absent /\ live.job.state = "active"
  /\ live' = [live EXCEPT !.job.state = state]
  /\ UNCHANGED made

(* Of these only a new claim changes what diff looks at.                   *)
Controller ==
  /\ \/ Observed \/ PodStops \/ PodIsGone \/ PodIsReady \/ PodStarts \/ ClaimIsGone
     \/ ClaimIsMade
     \/ JobEnds("complete")
  /\ touched' = IF live.pvc = Absent /\ live'.pvc # Absent THEN touched \cup {"pvc"} ELSE touched
  /\ UNCHANGED <<late, faults, others>>

(* A job that fails is a fault like any other.                             *)
JobFails ==
  /\ Fault
  /\ JobEnds("failed")
  /\ UNCHANGED <<late, others, touched>>

-----------------------------------------------------------------------------
(* Other operators and other controllers: somebody scales or unsuspends by *)
(* hand, deletes a claim or a cronjob, runs the job himself or deletes it. *)

OtherChange(kind, o) ==
  /\ others < MaxOthers /\ others' = others + 1
  /\ live[kind] # o
  /\ live' = [live EXCEPT ![kind] = o]
  /\ made' = IF kind = "job" /\ o # Absent THEN made + 1 ELSE made
  /\ touched' = touched \cup {kind}
  /\ UNCHANGED <<late, faults>>

(* Of the objects the pipelines are about.                                 *)
OthersAct(kinds) ==
  \/ /\ "statefulset" \in kinds
     /\ \E n \in 0..1 : OtherChange("statefulset", Scaled(live.statefulset, n))
  \/ /\ "pvc" \in kinds /\ live.pvc # Absent
     /\ OtherChange("pvc", [live.pvc EXCEPT !.terminating = TRUE])
  \/ /\ "cronjob" \in kinds /\ live.cronjob # Absent
     /\ \/ \E b \in BOOLEAN : OtherChange("cronjob", Suspended(live.cronjob, b))
        \/ OtherChange("cronjob", Absent)
  \/ /\ "job" \in kinds
     /\ \/ OtherChange("job", Absent)
        \/ live.job = Absent /\ OtherChange("job", NewJob)
=============================================================================
